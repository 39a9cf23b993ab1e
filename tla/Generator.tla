----------------------------- MODULE Generator -----------------------------
(***************************************************************************)
(* A recurring workflow, the templates of its tasks, and the generator of  *)
(* its task instances (modules/taskinstances, StartWorkflow), on the       *)
(* register of entities, whose calendars date what is generated.           *)
(*                                                                         *)
(* A start is one READ COMMITTED transaction of plain reads: the workflow, *)
(* how many instances it has, then the entity and the templates.  It       *)
(* writes the instances, and the workflow back as it was read, active.  No *)
(* key makes instances unique.  What an approval protects is not repeated  *)
(* here: TaskApproval has the deletes that meet an approved instance.      *)
(***************************************************************************)
EXTENDS Register, Calendar

CONSTANTS
    Templates,    \* workflow_tasks
    Rules,        \* the due-date rules it is given, of DueRules
    FiscalOf,     \* the fiscal configuration that is part of the data of an entity
    Year          \* its financial year, of FiscalYears; its period is the year

ASSUME GeneratorAssumption ==
    /\ IsFiniteSet(Procs)
    /\ Rules \subseteq DueRules /\ Year \in FiscalYears
    /\ FiscalOf \in [Data -> Configs]

VARIABLES
    wf,      \* the row of workflows
    tmpl,    \* its workflow_tasks
    inst,    \* its task_instances
    starts   \* history: how many starts there have been

workVars == <<wf, tmpl, inst, starts>>
vars == <<regVars, workVars, asked>>

Gone == [status |-> "gone"]
Workflows == [status : {"draft", "active"}, rule : Rules, entity : Ids]
Steps == {t \in Templates : tmpl[t] = "live"}

GenInit ==
    /\ Init /\ asked = Nothing
    /\ wf \in {Gone} \cup {w \in Workflows : w.status = "draft" /\ w.entity \in Live(ent)}
    /\ tmpl \in [Templates -> {"live", "unborn"}] /\ (wf = Gone => Steps = {})
    /\ inst = {} /\ starts = 0

-----------------------------------------------------------------------------
(***************************************************************************)
(* StartWorkflow.                                                          *)
(***************************************************************************)
\* EnsureWorkflow asks for the entity of the workflow.
MayWork(who) ==
    wf # Gone /\ May(who, ent, wf.entity) /\ Answers(who, ent, wf.entity)

Free(p) == req[p] = Idle /\ left.work > 0

Working(p, op, who, now) ==
    /\ MayWork(who)
    /\ left' = [left EXCEPT !.work = @ - 1]
    /\ req' = [req EXCEPT ![p] =
                 [op |-> op, who |-> who, seen |-> now, plan |-> {}, late |-> FALSE]]
    /\ UNCHANGED <<ent, batch, workVars>>

\* Seeded fault: instances that exist are not counted.
NeverCounted == TRUE
NotStarted == inst = {}

\* loadWorkflow and CountByWorkflow.
LoadStart(p, who) == NotStarted /\ Working(p, "start", who, wf)

YearOfWork(d) == Periods(FiscalOf[d], Year, "annual")[1]

\* planRecurring: one instance per template, of the one period.
Planned(w, d, S) ==
    {[task |-> t, end |-> YearOfWork(d).end,
      filing |-> FilingDeadline(YearOfWork(d).end, w.rule)] : t \in S}

\* The entity and the templates, as they are by now.
PlanStart(p) ==
    /\ req[p].op = "start" /\ req[p].plan = {}
    /\ req[p].seen.entity \in Live(ent) /\ Steps # {}
    /\ req' = [req EXCEPT ![p].plan =
                 Planned(req[p].seen, ent[req[p].seen.entity].data, Steps)]
    /\ UNCHANGED <<ent, batch, left, workVars>>

\* Seeded fault: the start writes the status alone.
StatusOnly(seen) == [wf EXCEPT !.status = "active"]
\* activatedInput: the row as it was loaded, whatever it has become.
Activated(seen) == [seen EXCEPT !.status = "active"]

\* The instances, the workflow, the commit.  The keys refuse what was deleted.
WriteStart(p) ==
    /\ req[p].op = "start" /\ req[p].plan # {}
    /\ wf # Gone /\ req[p].seen.entity \in Live(ent)
    /\ {i.task : i \in req[p].plan} \subseteq Steps
    /\ starts' = starts + 1
    /\ inst' = inst \cup {[of |-> starts', plan |-> i] : i \in req[p].plan}
    /\ wf' = Activated(req[p].seen)
    /\ EndsHavingWritten(p) /\ UNCHANGED <<ent, batch, left, tmpl>>

-----------------------------------------------------------------------------
(***************************************************************************)
(* modules/workflows and modules/workflowtasks.                            *)
(***************************************************************************)
LoadWork(p, who) ==
    \/ \E w \in Workflows : Working(p, "rewrite", who, w)
    \/ Working(p, "remove", who, wf)
    \/ \E t \in Templates : Working(p, "add step", who, t) \/ Working(p, "drop step", who, t)

\* The UPDATE names the id and sets every column; nothing checks the entity the
\* workflow is moved to but its key.
Rewrite(p) ==
    /\ req[p].op = "rewrite" /\ wf # Gone /\ req[p].seen.entity \in Live(ent)
    /\ wf' = req[p].seen
    /\ EndsHavingWritten(p) /\ UNCHANGED <<ent, batch, left, tmpl, inst, starts>>

\* Templates and instances hang off the workflow ON DELETE CASCADE.
Removed == wf' = Gone /\ tmpl' = [t \in Templates |-> "gone"] /\ inst' = {}

RemoveWork(p) ==
    /\ req[p].op = "remove" /\ wf # Gone /\ Removed
    /\ EndsHavingWritten(p) /\ UNCHANGED <<ent, batch, left, starts>>

AddStep(p) ==
    /\ req[p].op = "add step" /\ wf # Gone /\ tmpl[req[p].seen] = "unborn"
    /\ tmpl' = [tmpl EXCEPT ![req[p].seen] = "live"]
    /\ EndsHavingWritten(p) /\ UNCHANGED <<ent, batch, left, wf, inst, starts>>

\* The delete of a step takes every instance generated from it.
DropStep(p) ==
    /\ req[p].op = "drop step" /\ req[p].seen \in Steps
    /\ tmpl' = [tmpl EXCEPT ![req[p].seen] = "gone"]
    /\ inst' = {i \in inst : i.plan.task # req[p].seen}
    /\ EndsHavingWritten(p) /\ UNCHANGED <<ent, batch, left, wf, starts>>

\* The delete of an entity takes its workflows.
EraseWithWork(p) ==
    /\ Erase(p) /\ UNCHANGED starts
    /\ IF wf # Gone /\ wf.entity = req[p].id THEN Removed ELSE UNCHANGED <<wf, tmpl, inst>>

-----------------------------------------------------------------------------
Work(p) ==
    \/ Free(p) /\ \E who \in Callers : LoadStart(p, who) \/ LoadWork(p, who)
    \/ PlanStart(p) \/ WriteStart(p)
    \/ Rewrite(p) \/ RemoveWork(p) \/ AddStep(p) \/ DropStep(p)

\* What the register does is Register's, but for the delete.
Registering ==
    \/ Upload
    \/ \E p \in Procs : \/ Edit(p) \/ Import(p)
                        \/ Insert(p) \/ Overwrite(p) \/ Apply(p) \/ RollBack(p)

Next ==
    \/ Registering /\ UNCHANGED <<workVars, asked>>
    \/ \E p \in Procs : (EraseWithWork(p) \/ Work(p)) /\ UNCHANGED asked
    \/ /\ left.asks > 0 /\ Ask
       /\ UNCHANGED <<regVars, workVars>>

GenSpec == GenInit /\ [][Next]_vars

-----------------------------------------------------------------------------
(***************************************************************************)
(* Properties.                                                             *)
(***************************************************************************)
\* The type invariant.
Plannable == UNION {Planned(w, d, Templates) : w \in Workflows, d \in Data}
WorkRequests ==
    [op : {"start"}, who : Callers, seen : Workflows, plan : SUBSET Plannable, late : BOOLEAN]
    \cup [op : {"rewrite", "remove"}, who : Callers, seen : Workflows, plan : {{}},
          late : BOOLEAN]
    \cup [op : {"add step", "drop step"}, who : Callers, seen : Templates, plan : {{}},
          late : BOOLEAN]
GenTypeOK ==
    /\ Typed(WorkRequests)
    /\ wf \in Workflows \cup {Gone} /\ tmpl \in [Templates -> {"live", "unborn", "gone"}]
    /\ inst \subseteq [of : 1 .. starts, plan : Plannable] /\ starts \in Nat

\* "Refuses if instances already exist": the instances there are come from one
\* start, or from starts that were all under way before the first of them
\* wrote, and then at most one of each request (CountByWorkflow, read before).
StartsCoexist == Cardinality({i.of : i \in inst}) <= Cardinality(Procs)

\* A workflow becomes active showing the rule its new instances were dated by,
\* whatever was written over it meanwhile; and if nothing was written since the
\* start was let in, they are those of all its steps, in the calendar its entity
\* has (activatedInput, planRecurring: "what preview shows is exactly what start
\* persists").
StartedAsPlanned(p) ==
    req[p] # Idle /\ req[p].op = "start" /\ starts' # starts /\ req'[p] = Idle =>
       LET new == {i.plan : i \in inst' \ inst} IN
       /\ wf'.status = "active"
       /\ \A i \in new : i.filing = FilingDeadline(i.end, wf'.rule)
       /\ ~req[p].late => new = Planned(wf', ent[wf'.entity].data, Steps)
StartsAsPlanned == [][\A p \in Procs : StartedAsPlanned(p)]_vars

=============================================================================
