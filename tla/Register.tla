------------------------------ MODULE Register ------------------------------
(***************************************************************************)
(* The register of entities of one tenant: the tree that modules/entities  *)
(* edits record by record, and the files of modules/imports, which are     *)
(* planned at upload (Validate), kept, and written later (Commit).         *)
(*                                                                         *)
(* Names identify entities to a file and to nothing else: no constraint    *)
(* makes them unique.  A version is updated_at; a batch keeps those of its *)
(* targets, and `touched' is the set of entities whose version has moved   *)
(* since.  ON DELETE SET NULL changes a parent and leaves the version.     *)
(***************************************************************************)
EXTENDS Naturals, FiniteSets, SequencesExt, Scopes

CONSTANTS
    Ids, Names, Data,      \* entities; natural keys; the columns but name and parent
    Files,                 \* what can be uploaded
    Batches, Procs,        \* import_batches; requests under way at the same time
    Root,                  \* the entity a scoped grant covers, with all below it
    Unborn, Dead, NoBatch,
    Budgets                \* bounds: the requests of each kind there may be

Callers == {"wide", "scoped"}  \* entity:write for the tenant, or below Root
Entities == [name : Names, parent : Ids \cup {None}, data : Data]
Tables == [Ids -> Entities \cup {Unborn, Dead}]

\* What a row of a file is to become, and what is kept of a batch: `shown' are
\* the records its updates are to change.
RowPlans == [act : {"create", "update", "unchanged", "invalid"}, target : Ids \cup {None}]
BatchRecords ==
    [status : {"validated", "rejected", "committed"}, file : Files, plan : Seq(RowPlans),
     touched : SUBSET Ids, shown : UNION {[S -> Entities] : S \in SUBSET Ids}]

\* A request that has read and not yet written; `late', that another one wrote since.
Idle == [op |-> "idle"]
EditRequests ==
    [op : {"create"}, who : Callers, id : {None}, row : Entities, late : BOOLEAN]
    \cup [op : {"update"}, who : Callers, id : Ids, row : Entities, late : BOOLEAN]
    \cup [op : {"delete"}, who : Callers, id : Ids, row : {None}, late : BOOLEAN]
CommitRequests ==
    [op : {"commit"}, who : Callers, batch : Batches, seen : Tables, late : BOOLEAN]

ASSUME RegisterAssumption ==
    /\ IsFiniteSet(Ids) /\ None \notin Ids \cup Names /\ Root \in Ids
    /\ {Unborn, Dead} \cap Entities = {} /\ Unborn # Dead /\ NoBatch \notin BatchRecords
    /\ \A f \in Files : /\ f.spoke \subseteq {"parent", "data"} /\ f.rows # <<>>
                        /\ f.rows \in Seq([name : Names, parent : Names \cup {None}, data : Data])
    /\ Budgets \subseteq [edits : Nat, uploads : Nat, work : Nat, asks : Nat]

VARIABLES
    ent,    \* entities
    batch,  \* import_batches and import_rows
    req,    \* the requests under way
    left    \* the requests there may still be

regVars == <<ent, batch, req, left>>

\* The rows of a table T of entities.
Live(T) == {i \in Ids : T[i] \notin {Unborn, Dead}}
Called(T, n) == {i \in Live(T) : T[i].name = n}
Doubled(T) == {n \in Names : Cardinality(Called(T, n)) > 1}

\* AncestorsAndSelf: up the parents, step by step.
AncestorsAndSelf(T, e) ==
    LET up[n \in Nat] ==
          IF n = 0 THEN {e}
          ELSE LET below == up[n - 1] IN below \cup ({T[x].parent : x \in below} \ {None})
    IN  up[Cardinality(Ids)]
\* Its UNION ALL never ends on a loop.
LoopsAbove(T, e) ==
    \E x \in AncestorsAndSelf(T, e) :
        T[x].parent # None /\ x \in AncestorsAndSelf(T, T[x].parent)

\* Authorizer.authorize: a tenant-wide grant is not looked up in the tree.
May(who, T, e) ==
    who = "wide" \/ (e \in Live(T) /\ Root \in AncestorsAndSelf(T, e))
\* The look-up answers at all.
Answers(who, T, e) == who = "scoped" /\ e \in Live(T) => ~LoopsAbove(T, e)

Init ==
    /\ \E S \in SUBSET (Ids \ {Root}), d \in Data :
          ent \in {T \in [Ids -> {[name |-> n, parent |-> q, data |-> d] :
                                      n \in Names, q \in {Root, None}} \cup {Unborn}] :
                     /\ Live(T) = {Root} \cup S /\ Cardinality(S) <= 1
                     /\ T[Root].parent = None /\ Doubled(T) = {}}
    /\ batch = [b \in Batches |-> NoBatch]
    /\ req = [p \in Procs |-> Idle]
    /\ left \in Budgets

-----------------------------------------------------------------------------
(***************************************************************************)
(* The plan of a file F on a table T (planEntities).                       *)
(***************************************************************************)
ParentColumn == "parent"
Rows(F) == DOMAIN F.rows
NamesOf(F) == {F.rows[k].name : k \in Rows(F)}

\* existingParent, and a row of its own if more than one answers to the name.
Known(T, n) == Cardinality(Called(T, n)) = 1
IdOf(T, n) == CHOOSE i \in Called(T, n) : TRUE

\* The row that claims a name: the first.
Claims(F, k) == \A j \in Rows(F) : F.rows[j].name = F.rows[k].name => k <= j
RowOf(F, n) == CHOOSE k \in Rows(F) : F.rows[k].name = n /\ Claims(F, k)

\* entityCycles follows a parent only into the file: the parents that exist are
\* left to the stored tree.
Climbs(F, T) ==
    {n \in NamesOf(F) : LET p == F.rows[RowOf(F, n)].parent IN
                        p \in NamesOf(F) /\ ~Known(T, p)}
\* A chain that never leaves the file ends in a loop.
Cyclic(F, T, n) ==
    \E S \in SUBSET Climbs(F, T) :
        n \in S /\ \A m \in S : F.rows[RowOf(F, m)].parent \in S

\* existingAncestor: the first parent up the rows of the file that exists.
ExistingAncestor(F, T, p) ==
    LET up[n \in Nat] ==
          IF n = 0 THEN p
          ELSE IF up[n - 1] \in NamesOf(F) /\ ~Known(T, up[n - 1])
               THEN F.rows[RowOf(F, up[n - 1])].parent
               ELSE up[n - 1]
        top == up[Len(F.rows)]
    IN  IF top # None /\ Known(T, top) THEN IdOf(T, top) ELSE None
\* Where a create lands: under its parent, or where that one will be.
Anchor(F, T, k) == LET p == F.rows[k].parent IN
    IF p = None THEN None
    ELSE IF Known(T, p) THEN IdOf(T, p) ELSE ExistingAncestor(F, T, p)

\* entityChanges: only a column the file has can change anything, and an empty
\* cell of it clears the value.
Reparents(F, T, k) == LET p == F.rows[k].parent
                          was == T[IdOf(T, F.rows[k].name)].parent IN
    /\ ParentColumn \in F.spoke
    /\ IF p # None /\ Known(T, p) THEN IdOf(T, p) # was ELSE p # None \/ was # None
Changes(F, T, k) ==
    \/ Reparents(F, T, k)
    \/ "data" \in F.spoke /\ F.rows[k].data # T[IdOf(T, F.rows[k].name)].data

Creates(F, T, k) == Called(T, F.rows[k].name) = {}

\* Seeded fault: the entity a row moves under is not authorized.
TargetOnly(F, T, k) ==
    {IF Creates(F, T, k) THEN Anchor(F, T, k) ELSE IdOf(T, F.rows[k].name)}
\* The entities a row asks EnsureEntity for.
Authorized(F, T, k) ==
    IF Creates(F, T, k) THEN {Anchor(F, T, k)}
    ELSE IF Changes(F, T, k)
    THEN {IdOf(T, F.rows[k].name)}
            \cup {IdOf(T, p) : p \in {n \in {F.rows[k].parent} :
                    n # None /\ Known(T, n) /\ Reparents(F, T, k)}}
    ELSE {}

\* Seeded fault: a name may be imported by two rows of a file.
AnyRow(F, T, k) ==
    LET p == F.rows[k].parent IN
    /\ ~Cyclic(F, T, F.rows[k].name)
    /\ F.rows[k].name \notin Doubled(T)
    /\ p = None \/ Known(T, p) \/ p \in NamesOf(F)
    /\ Creates(F, T, k) => "data" \in F.spoke
\* What planEntityRow refuses before it asks who is asking.
Sound(F, T, k) ==
    LET p == F.rows[k].parent IN
    /\ Claims(F, k)
    /\ ~Cyclic(F, T, F.rows[k].name)
    /\ F.rows[k].name \notin Doubled(T)
    /\ p = None \/ Known(T, p) \/ p \in NamesOf(F)
    /\ Creates(F, T, k) => "data" \in F.spoke      \* MissingOnCreate

Granted(F, T, who, k) == \A e \in Authorized(F, T, k) : May(who, T, e)

PlanRow(F, T, who, k) ==
    IF ~Sound(F, T, k) \/ ~Granted(F, T, who, k) THEN [act |-> "invalid", target |-> None]
    ELSE IF Creates(F, T, k) THEN [act |-> "create", target |-> None]
    ELSE [act |-> IF Changes(F, T, k) THEN "update" ELSE "unchanged",
          target |-> IdOf(T, F.rows[k].name)]
Plan(F, T, who) == [k \in Rows(F) |-> PlanRow(F, T, who, k)]

\* Every look-up of the plan answers.
PlanEnds(F, T, who) ==
    \A k \in Rows(F) : Sound(F, T, k) => \A e \in Authorized(F, T, k) : Answers(who, T, e)

-----------------------------------------------------------------------------
(***************************************************************************)
(* A request of p ends; the others under way have not seen what it wrote,  *)
(* and the batches waiting have lost the versions of the entities it moved.*)
(***************************************************************************)
Ends(p) == req' = [req EXCEPT ![p] = Idle]

EndsHavingWritten(p) ==
    req' = [q \in Procs |-> IF q = p THEN Idle
                            ELSE IF req[q] = Idle THEN Idle ELSE [req[q] EXCEPT !.late = TRUE]]

Touch(S) ==
    [b \in Batches |-> IF batch[b] = NoBatch THEN NoBatch
                       ELSE [batch[b] EXCEPT !.touched = @ \cup S]]

\* It fails, is cancelled, or waits in vain for a look-up in a loop.
RollBack(p) ==
    /\ req[p] # Idle /\ Ends(p)
    /\ UNCHANGED <<ent, batch, left>>

\* The self-FK of entities.
Exists(T, e) == e = None \/ e \in Live(T)

-----------------------------------------------------------------------------
(***************************************************************************)
(* modules/entities: Create, Update, Delete.  The caller is authorized     *)
(* first; the write names the id and nothing else.                         *)
(***************************************************************************)
Loads(p, op, who, i, row) ==
    /\ left' = [left EXCEPT !.edits = @ - 1]
    /\ req' = [req EXCEPT ![p] =
                 [op |-> op, who |-> who, id |-> i, row |-> row, late |-> FALSE]]
    /\ UNCHANGED <<ent, batch>>

LoadCreate(p, who, row) ==
    /\ May(who, ent, row.parent) /\ Answers(who, ent, row.parent)
    /\ Loads(p, "create", who, None, row)

\* Where the entity is moved to is not looked at.
LoadUpdate(p, who, i) ==
    /\ i \in Live(ent) /\ May(who, ent, i) /\ Answers(who, ent, i)
    /\ \E row \in Entities : Loads(p, "update", who, i, row)

LoadDelete(p, who, i) ==
    /\ i \in Live(ent) /\ May(who, ent, i) /\ Answers(who, ent, i)
    /\ Loads(p, "delete", who, i, None)

Insert(p) ==
    /\ req[p].op = "create" /\ Exists(ent, req[p].row.parent)
    /\ \E i \in Ids : /\ ent[i] = Unborn
                      /\ ent' = [ent EXCEPT ![i] = req[p].row]
    /\ EndsHavingWritten(p) /\ UNCHANGED <<batch, left>>

Overwrite(p) == LET i == req[p].id IN
    /\ req[p].op = "update" /\ i \in Live(ent) /\ Exists(ent, req[p].row.parent)
    /\ ent' = [ent EXCEPT ![i] = req[p].row]
    /\ batch' = Touch({i})
    /\ EndsHavingWritten(p) /\ UNCHANGED left

\* ON DELETE SET NULL: the children stay, at the top of the tree.
Erase(p) == LET i == req[p].id IN
    /\ req[p].op = "delete" /\ i \in Live(ent)
    /\ ent' = [j \in Ids |-> IF j = i THEN Dead
                             ELSE IF j \in Live(ent) /\ ent[j].parent = i
                             THEN [ent[j] EXCEPT !.parent = None] ELSE ent[j]]
    /\ EndsHavingWritten(p) /\ UNCHANGED <<batch, left>>

-----------------------------------------------------------------------------
(***************************************************************************)
(* modules/imports: Validate and Commit.                                   *)
(***************************************************************************)
Targets(plan) == {plan[k].target : k \in {j \in DOMAIN plan : plan[j].act = "update"}}

\* The dry run: nothing is written but the plan.
Validate(b, who, F) == LET plan == Plan(F, ent, who) IN
    /\ batch[b] = NoBatch /\ left.uploads > 0 /\ PlanEnds(F, ent, who)
    /\ left' = [left EXCEPT !.uploads = @ - 1]
    /\ batch' = [batch EXCEPT ![b] =
          [status |-> IF \E k \in Rows(F) : plan[k].act = "invalid"
                      THEN "rejected" ELSE "validated",
           file |-> F, plan |-> plan, touched |-> {},
           shown |-> [i \in Targets(plan) |-> ent[i]]]]
    /\ UNCHANGED <<ent, req>>

\* planStillHolds: the same actions on the same records at the same versions.
StillHolds(b, plan) ==
    /\ plan = batch[b].plan
    /\ \A k \in DOMAIN plan : plan[k].target \notin batch[b].touched

\* GetBatchForUpdate, and the plan again.  A second commit waits for the lock
\* and finds the batch committed; a plan that no longer holds writes nothing.
Claim(p, b, who) ==
    /\ req[p] = Idle
    /\ \A q \in Procs : req[q] # Idle /\ req[q].op = "commit" => req[q].batch # b
    /\ batch[b] # NoBatch /\ batch[b].status = "validated"
    /\ PlanEnds(batch[b].file, ent, who)
    /\ StillHolds(b, Plan(batch[b].file, ent, who))
    /\ req' = [req EXCEPT ![p] =
                 [op |-> "commit", who |-> who, batch |-> b, seen |-> ent, late |-> FALSE]]
    /\ UNCHANGED <<ent, batch, left>>

\* visit: a row on the way up, and the one of its parent, unless that is written
\* already, not in the file or on the way here.
Climb(F, written, way) == LET p == F.rows[Last(way)].parent IN
    IF p \in NamesOf(F) /\ RowOf(F, p) \notin Range(written) \cup Range(way)
    THEN Append(way, RowOf(F, p)) ELSE way
Ascent(F, written, k) ==
    LET up[n \in Nat] == IF n = 0 THEN <<k>> ELSE Climb(F, written, up[n - 1])
    IN  up[Len(F.rows)]
Visit(F, written, k) ==
    IF k \in Range(written) THEN written ELSE written \o Reverse(Ascent(F, written, k))

\* Seeded fault: the rows are written in the order of the file.
FileOrder(F) == [k \in Rows(F) |-> k]
\* entityApplyOrder: a parent before its children.
ApplyOrder(F) ==
    LET order[n \in Nat] == IF n = 0 THEN <<>> ELSE Visit(F, order[n - 1], n)
    IN  order[Len(F.rows)]

\* resolveParent finds the parent of every row: it exists, or the row that
\* creates it has been written.
Resolves(F, plan, seen) == LET order == ApplyOrder(F) IN
    \A n \in DOMAIN order :
        LET p == F.rows[order[n]].parent IN
        plan[order[n]].act = "unchanged" \/ p = None \/ Known(seen, p)
          \/ \E m \in 1 .. n - 1 : plan[order[m]].act = "create" /\ F.rows[order[m]].name = p

\* The ids of the rows of a batch, given those of the new ones.
IdsOfRows(b, new) ==
    [k \in DOMAIN batch[b].plan |->
        IF batch[b].plan[k].act = "create" THEN new[k] ELSE batch[b].plan[k].target]

\* What a row is written with: mergeEntity and mergeParent take from the record
\* the plan has read what the file has no column for.
Written(F, seen, ids, k) == LET p == F.rows[k].parent IN
    [name |-> F.rows[k].name,
     data |-> IF "data" \in F.spoke THEN F.rows[k].data ELSE seen[ids[k]].data,
     parent |-> IF ParentColumn \notin F.spoke /\ ids[k] \in Live(seen) THEN seen[ids[k]].parent
                ELSE IF p = None THEN None
                ELSE IF Known(seen, p) THEN IdOf(seen, p) ELSE ids[RowOf(F, p)]]

\* Seeded fault: the UPDATE names the id alone.
AnyVersion(b, i) == i \in Live(ent)
\* WHERE id = $1 AND updated_at = $2.
Pinned(b, i) == i \in Live(ent) /\ i \notin batch[b].touched

\* applyEntities, MarkCommitted and the commit: all of it or nothing.
Apply(p) == LET b == req[p].batch
                F == batch[b].file
                plan == batch[b].plan
                new == {k \in Rows(F) : plan[k].act = "create"}
                changed == {k \in Rows(F) : plan[k].act # "unchanged"} IN
    /\ req[p].op = "commit"
    /\ Resolves(F, plan, req[p].seen)
    /\ \A i \in Targets(plan) : Pinned(b, i)
    /\ \E ids \in {IdsOfRows(b, f) : f \in
                     {g \in [new -> {i \in Ids : ent[i] = Unborn}] :
                        \A j, k \in new : j # k => g[j] # g[k]}} :
          /\ ent' = [i \in Ids |->
                       IF \E k \in changed : ids[k] = i
                       THEN Written(F, req[p].seen, ids, CHOOSE k \in changed : ids[k] = i)
                       ELSE ent[i]]
          /\ \A k \in changed : Exists(ent', ent'[ids[k]].parent)
    /\ batch' = [Touch(Targets(plan)) EXCEPT ![b].status = "committed"]
    /\ EndsHavingWritten(p) /\ UNCHANGED left

-----------------------------------------------------------------------------
Edit(p) ==
    /\ req[p] = Idle /\ left.edits > 0
    /\ \E who \in Callers :
          \/ \E row \in Entities : LoadCreate(p, who, row)
          \/ \E i \in Ids : LoadDelete(p, who, i) \/ LoadUpdate(p, who, i)

Import(p) == \E b \in Batches, who \in Callers : Claim(p, b, who)
Upload == \E b \in Batches, who \in Callers, F \in Files : Validate(b, who, F)

Step(p) == Insert(p) \/ Overwrite(p) \/ Erase(p) \/ Apply(p) \/ RollBack(p)

RegNext == Upload \/ \E p \in Procs : Edit(p) \/ Import(p) \/ Step(p)

Spec == Init /\ [][RegNext]_regVars

-----------------------------------------------------------------------------
(***************************************************************************)
(* Properties.                                                             *)
(***************************************************************************)
\* The type invariant; a module that extends this one has further requests.
Typed(others) ==
    /\ ent \in Tables
    /\ batch \in [Batches -> BatchRecords \cup {NoBatch}]
    /\ req \in [Procs -> {Idle} \cup EditRequests \cup CommitRequests \cup others]
    /\ left \in [edits : Nat, uploads : Nat, work : Nat, asks : Nat]
TypeOK == Typed({})

Commits(b) ==
    batch[b] # NoBatch /\ batch[b].status = "validated" /\ batch'[b].status = "committed"

\* "Nothing was imported; upload the file again": a commit writes over a record
\* only as the dry run showed it, whatever was edited in between, before the
\* second plan or after it (planStillHolds, UpdateEntity).  A parent that was
\* deleted meanwhile is the one thing that may be gone.
WritesWhatWasShown(b) ==
    Commits(b) =>
       \A i \in DOMAIN batch[b].shown :
          ent[i] \in {batch[b].shown[i], [batch[b].shown[i] EXCEPT !.parent = None]}
OnlyWhatWasShown == [][\A b \in Batches : WritesWhatWasShown(b)]_regVars

\* Each parent of some rows is one of them.
Looped(F) ==
    \E S \in SUBSET NamesOf(F) : S # {} /\ \A m \in S : F.rows[RowOf(F, m)].parent \in S

\* A file whose own rows name no loop of parents can be written once its plan
\* holds: whatever the tree is, entityApplyOrder has every row find its parent.
\* (A loop through a record that exists is planned as valid, and cannot be.)
OrderExists ==
    \A p \in Procs : req[p] # Idle /\ req[p].op = "commit" =>
        LET F == batch[req[p].batch].file IN
        \/ Resolves(F, batch[req[p].batch].plan, req[p].seen)
        \/ Looped(F)

\* A commit gives no name a second bearer, unless somebody wrote after its plan:
\* no constraint stands behind the plan (EntitiesByKey).
GivesNoDouble(p) ==
    req[p] # Idle /\ req[p].op = "commit" /\ ~req[p].late /\ Commits(req[p].batch) =>
       Doubled(ent') \subseteq Doubled(ent)
NoDoubles == [][\A p \in Procs : GivesNoDouble(p)]_regVars

\* A scoped import stays below its root: it changes what was there, hangs a
\* record under what was there, and creates only under what it has created or
\* may write, unless the tree moved after its plan.
KeepsScope(p) ==
    req[p] # Idle /\ req[p].op = "commit" /\ req[p].who = "scoped" /\ ~req[p].late
        /\ Commits(req[p].batch) =>
       \A i \in Ids : ent'[i] # ent[i] =>
          /\ ent[i] = Unborn \/ May("scoped", ent, i)
          /\ \/ ent[i] # Unborn /\ ent'[i].parent \in {ent[i].parent, None}
             \/ ent'[i].parent \in Ids
                  /\ (ent[ent'[i].parent] = Unborn \/ May("scoped", ent, ent'[i].parent))
ScopeHeld == [][\A p \in Procs : KeepsScope(p)]_regVars

=============================================================================
