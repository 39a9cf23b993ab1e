--------------------------- MODULE RegisterProofs ---------------------------
(***************************************************************************)
(* Theorems about the register of entities and the generator of task       *)
(* instances that works on it, for any files, requests and calendars, and  *)
(* about who may see and write what is in it, for any grants.              *)
(***************************************************************************)
EXTENDS Generator, Access, FiniteSetTheorems, SequenceTheorems, WellFoundedInduction, TLAPS

AllRequests == EditRequests \cup CommitRequests \cup WorkRequests

EntOK == ent \in Tables
BatchOK == batch \in [Batches -> BatchRecords \cup {NoBatch}]
ReqOK == req \in [Procs -> {Idle} \cup AllRequests]
LeftOK == left \in [edits : Nat, uploads : Nat, work : Nat, asks : Nat]
WorkOK ==
    /\ wf \in Workflows \cup {Gone} /\ tmpl \in [Templates -> {"live", "unborn", "gone"}]
    /\ inst \subseteq [of : 1 .. starts, plan : Plannable] /\ starts \in Nat

LEMMA Parts == GenTypeOK <=> EntOK /\ BatchOK /\ ReqOK /\ LeftOK /\ WorkOK
  BY DEF GenTypeOK, Typed, EntOK, BatchOK, ReqOK, AllRequests, LeftOK, WorkOK

(***************************************************************************)
(* Requests.                                                               *)
(***************************************************************************)
\* What a request is, told from its operation.
LEMMA RequestForm ==
    ASSUME NEW r \in {Idle} \cup AllRequests
    PROVE  /\ r.op = "commit" => r \in CommitRequests
           /\ r.op = "start" => r.seen \in Workflows /\ r.plan \subseteq Plannable /\ r.late \in BOOLEAN
           /\ r.op \in {"commit", "start"} => r # Idle
<1>1. Idle.op = "idle"
  BY DEF Idle
<1>2. CASE r \in EditRequests
  BY <1>1, <1>2 DEF EditRequests
<1>3. CASE r \in CommitRequests
  BY <1>1, <1>3 DEF CommitRequests
<1>4. CASE r \in WorkRequests
  BY <1>1, <1>4 DEF WorkRequests
<1>5. QED
  BY <1>1, <1>2, <1>3, <1>4 DEF AllRequests

\* What is left of a request when another one has written.
LEMMA Belated ==
    ASSUME NEW r \in AllRequests, NEW s, s = [r EXCEPT !.late = TRUE]
    PROVE  /\ s \in AllRequests /\ s.op = r.op /\ s.late = TRUE
           /\ r.op = "commit" => s.batch = r.batch /\ s.seen = r.seen /\ s.who = r.who
           /\ r.op = "start" => s.seen = r.seen /\ s.plan = r.plan
<1>1. CASE r \in EditRequests
  BY <1>1 DEF EditRequests, AllRequests
<1>2. CASE r \in CommitRequests
  BY <1>2 DEF CommitRequests, AllRequests
<1>3. CASE r \in WorkRequests
  BY <1>3 DEF WorkRequests, AllRequests
<1>4. QED
  BY <1>1, <1>2, <1>3 DEF AllRequests

\* A request goes on as it was, but for what it has missed.
Carries(q) ==
    /\ req'[q].op = "commit" =>
          /\ req[q].op = "commit" /\ req'[q].batch = req[q].batch
          /\ req'[q].seen = req[q].seen /\ req'[q].who = req[q].who
    /\ req'[q].op = "start" =>
          req[q].op = "start" /\ req'[q].seen = req[q].seen /\ req'[q].plan = req[q].plan

\* A request has written: it is over, and all the others are late.
LEMMA WrittenRequests ==
    ASSUME ReqOK, NEW p \in Procs, EndsHavingWritten(p)
    PROVE  /\ ReqOK' /\ req'[p] = Idle
           /\ \A q \in Procs : Carries(q) /\ (req'[q].op \in {"commit", "start"} => q # p /\ req'[q].late = TRUE)
<1>1. ASSUME NEW q \in Procs
      PROVE  /\ req'[q] \in {Idle} \cup AllRequests /\ Carries(q)
             /\ req'[q].op \in {"commit", "start"} => q # p /\ req'[q].late = TRUE
  <2>1. req[q] \in {Idle} \cup AllRequests /\ Idle.op = "idle"
    BY DEF ReqOK, Idle
  <2>2. CASE q = p \/ req[q] = Idle
    <3>1. req'[q] = Idle
      BY <2>2 DEF EndsHavingWritten
    <3>2. QED
      BY <2>1, <3>1 DEF Carries
  <2>3. CASE q # p /\ req[q] # Idle
    <3>1. req'[q] = [req[q] EXCEPT !.late = TRUE] /\ req[q] \in AllRequests
      BY <2>1, <2>3 DEF EndsHavingWritten
    <3>2. PICK r, s : r \in AllRequests /\ r = req[q] /\ s = req'[q] /\ s = [r EXCEPT !.late = TRUE]
      BY <3>1
    <3>3. /\ s \in AllRequests /\ s.op = r.op /\ s.late = TRUE
          /\ r.op = "commit" => s.batch = r.batch /\ s.seen = r.seen /\ s.who = r.who
          /\ r.op = "start" => s.seen = r.seen /\ s.plan = r.plan
      BY <3>2, Belated
    <3>4. QED
      BY <2>3, <3>2, <3>3 DEF Carries
  <2>4. QED
    BY <2>2, <2>3
<1>2. QED
  BY <1>1 DEF ReqOK, EndsHavingWritten

\* A request is let in.
LEMMA LoadedRequests ==
    ASSUME ReqOK, NEW p \in Procs, NEW new \in AllRequests, req' = [req EXCEPT ![p] = new]
    PROVE  ReqOK' /\ req'[p] = new /\ \A q \in Procs \ {p} : req'[q] = req[q]
  BY DEF ReqOK

\* A request ends without having written.
LEMMA EndedRequests ==
    ASSUME ReqOK, NEW p \in Procs, Ends(p)
    PROVE  ReqOK' /\ req'[p].op = "idle" /\ \A q \in Procs \ {p} : req'[q] = req[q]
  BY DEF ReqOK, Ends, Idle

(***************************************************************************)
(* The steps of the register, by what they do to the requests.             *)
(***************************************************************************)
\* What is loaded to edit or to work, and what is claimed.
LEMMA EditLoads ==
    ASSUME EntOK, LeftOK, NEW p \in Procs, Edit(p)
    PROVE  /\ LeftOK' /\ req[p] = Idle /\ UNCHANGED <<ent, batch>>
           /\ \E new \in AllRequests : req' = [req EXCEPT ![p] = new] /\ new.op \notin {"commit", "start"}
<1>1. PICK who \in Callers :
          \/ \E row \in Entities : LoadCreate(p, who, row)
          \/ \E i \in Ids : LoadDelete(p, who, i) \/ LoadUpdate(p, who, i)
  BY DEF Edit
<1>2. req[p] = Idle /\ left.edits > 0
  BY DEF Edit
<1>3. ASSUME NEW op \in {"create", "update", "delete"}, NEW i, NEW row, Loads(p, op, who, i, row),
             [op |-> op, who |-> who, id |-> i, row |-> row, late |-> FALSE] \in EditRequests
      PROVE  /\ LeftOK' /\ UNCHANGED <<ent, batch>>
             /\ \E new \in AllRequests : req' = [req EXCEPT ![p] = new] /\ new.op \notin {"commit", "start"}
  <2> DEFINE new == [op |-> op, who |-> who, id |-> i, row |-> row, late |-> FALSE]
  <2>1. new \in AllRequests /\ new.op = op
    BY <1>3 DEF AllRequests
  <2>2. req' = [req EXCEPT ![p] = new] /\ left' = [left EXCEPT !.edits = @ - 1] /\ UNCHANGED <<ent, batch>>
    BY <1>3 DEF Loads
  <2>3. LeftOK'
    BY <1>2, <2>2 DEF LeftOK
  <2> HIDE DEF new
  <2>4. QED
    BY <2>1, <2>2, <2>3
<1>4. ASSUME NEW row \in Entities, LoadCreate(p, who, row)
      PROVE  [op |-> "create", who |-> who, id |-> None, row |-> row, late |-> FALSE] \in EditRequests
  BY DEF EditRequests
<1>5. ASSUME NEW i \in Ids
      PROVE  [op |-> "delete", who |-> who, id |-> i, row |-> None, late |-> FALSE] \in EditRequests
  BY DEF EditRequests
<1>6. ASSUME NEW i \in Ids, NEW row \in Entities
      PROVE  [op |-> "update", who |-> who, id |-> i, row |-> row, late |-> FALSE] \in EditRequests
  BY DEF EditRequests
<1>7. QED
  BY <1>1, <1>2, <1>3, <1>4, <1>5, <1>6 DEF LoadCreate, LoadDelete, LoadUpdate

LEMMA WorkLoads ==
    ASSUME LeftOK, WorkOK, NEW p \in Procs, Free(p), NEW who \in Callers, LoadStart(p, who) \/ LoadWork(p, who)
    PROVE  /\ LeftOK' /\ req[p] = Idle /\ UNCHANGED <<ent, batch, workVars>>
           /\ \E new \in AllRequests :
                 /\ req' = [req EXCEPT ![p] = new] /\ new.op # "commit"
                 /\ new.op = "start" => inst = {} /\ new.plan = {}
<1>1. req[p] = Idle /\ left.work > 0
  BY DEF Free
<1>2. ASSUME NEW op, NEW now, Working(p, op, who, now), op # "commit", op = "start" => inst = {},
             [op |-> op, who |-> who, seen |-> now, plan |-> {}, late |-> FALSE] \in WorkRequests
      PROVE  /\ LeftOK' /\ UNCHANGED <<ent, batch, workVars>>
             /\ \E new \in AllRequests :
                   /\ req' = [req EXCEPT ![p] = new] /\ new.op # "commit"
                   /\ new.op = "start" => inst = {} /\ new.plan = {}
  <2> DEFINE new == [op |-> op, who |-> who, seen |-> now, plan |-> {}, late |-> FALSE]
  <2>1. new \in AllRequests /\ new.op = op /\ new.plan = {}
    BY <1>2 DEF AllRequests
  <2>2. req' = [req EXCEPT ![p] = new] /\ left' = [left EXCEPT !.work = @ - 1] /\ UNCHANGED <<ent, batch, workVars>>
    BY <1>2 DEF Working
  <2>3. LeftOK'
    BY <1>1, <2>2 DEF LeftOK
  <2> HIDE DEF new
  <2>4. QED
    BY <1>2, <2>1, <2>2, <2>3
<1>3. ASSUME NEW op \in {"start", "rewrite", "remove"}, NEW w \in Workflows
      PROVE  [op |-> op, who |-> who, seen |-> w, plan |-> {}, late |-> FALSE] \in WorkRequests
  BY DEF WorkRequests
<1>4. ASSUME NEW op \in {"add step", "drop step"}, NEW s \in Templates
      PROVE  [op |-> op, who |-> who, seen |-> s, plan |-> {}, late |-> FALSE] \in WorkRequests
  BY DEF WorkRequests
<1>5. CASE LoadStart(p, who)
  <2>1. Working(p, "start", who, wf) /\ inst = {} /\ wf \in Workflows
    BY <1>5 DEF LoadStart, NotStarted, Working, MayWork, WorkOK
  <2>2. QED
    BY <1>1, <1>2, <1>3, <2>1
<1>6. CASE LoadWork(p, who)
  <2>1. CASE \E w \in Workflows : Working(p, "rewrite", who, w)
    BY <1>1, <1>2, <1>3, <2>1
  <2>2. CASE Working(p, "remove", who, wf)
    <3>1. wf \in Workflows
      BY <2>2 DEF Working, MayWork, WorkOK
    <3>2. QED
      BY <1>1, <1>2, <1>3, <2>2, <3>1
  <2>3. CASE \E s \in Templates : Working(p, "add step", who, s) \/ Working(p, "drop step", who, s)
    BY <1>1, <1>2, <1>4, <2>3
  <2>4. QED
    BY <1>6, <2>1, <2>2, <2>3 DEF LoadWork
<1>7. QED
  BY <1>5, <1>6

(***************************************************************************)
(* The plan of a file.                                                     *)
(***************************************************************************)
\* What the constants keep apart.
LEMMA Apart == Unborn \notin Entities /\ Dead \notin Entities /\ Unborn # Dead /\ NoBatch \notin BatchRecords
                 /\ None \notin Ids /\ IsFiniteSet(Ids) /\ IsFiniteSet(Procs)
  BY RegisterAssumption, GeneratorAssumption

LEMMA LiveForm == ASSUME NEW T \in Tables, NEW i \in Live(T) PROVE i \in Ids /\ T[i] \in Entities
  BY RegisterAssumption DEF Live, Tables

\* A name that does not call nobody is called by one that lives.
LEMMA IdOfCalled ==
    ASSUME NEW T, NEW n, Called(T, n) # {}
    PROVE  IdOf(T, n) \in Called(T, n) /\ IdOf(T, n) \in Live(T)
  BY DEF IdOf, Called

\* A row plan is one of its kinds, and is sound unless it is refused.
LEMMA RowPlanned ==
    ASSUME NEW F, NEW T, NEW who, NEW k, NEW r, r = PlanRow(F, T, who, k)
    PROVE  /\ r \in RowPlans
           /\ r.act # "invalid" => Sound(F, T, k) /\ Granted(F, T, who, k)
           /\ r.act = "create" => Creates(F, T, k) /\ r.target = None
           /\ r.act \in {"update", "unchanged"} => ~Creates(F, T, k)
           /\ r.act = "update" => Changes(F, T, k)
           /\ r.act \in {"update", "unchanged"} =>
                 r.target = IdOf(T, F.rows[k].name) /\ r.target \in Called(T, F.rows[k].name)
           /\ r.act = "invalid" => r.target = None
<1> DEFINE named == IdOf(T, F.rows[k].name)
           kind == IF Changes(F, T, k) THEN "update" ELSE "unchanged"
<1>0. r = IF ~Sound(F, T, k) \/ ~Granted(F, T, who, k) THEN [act |-> "invalid", target |-> None]
          ELSE IF Creates(F, T, k) THEN [act |-> "create", target |-> None]
          ELSE [act |-> kind, target |-> named]
  BY DEF PlanRow
<1>a. kind \in {"update", "unchanged"} /\ (kind = "update" => Changes(F, T, k))
  OBVIOUS
<1>b. named = IdOf(T, F.rows[k].name)
  OBVIOUS
<1> HIDE DEF named, kind
<1>1. CASE ~(Sound(F, T, k) /\ Granted(F, T, who, k))
  <2>1. r = [act |-> "invalid", target |-> None]
    BY <1>0, <1>1
  <2>2. QED
    BY <2>1 DEF RowPlans
<1>2. CASE Sound(F, T, k) /\ Granted(F, T, who, k) /\ Creates(F, T, k)
  <2>1. r = [act |-> "create", target |-> None]
    BY <1>0, <1>2
  <2>2. r \in RowPlans /\ r.act = "create" /\ r.target = None
    BY <2>1 DEF RowPlans
  <2>3. QED
    BY <1>2, <2>2
<1>3. CASE Sound(F, T, k) /\ Granted(F, T, who, k) /\ ~Creates(F, T, k)
  <2>1. r = [act |-> kind, target |-> named]
    BY <1>0, <1>3
  <2>2. named \in Called(T, F.rows[k].name)
    BY <1>3, <1>b, IdOfCalled DEF Creates
  <2>3. named \in Ids
    BY <2>2 DEF Called, Live
  <2>4. /\ r \in RowPlans /\ r.act \in {"update", "unchanged"} /\ r.target = named
        /\ r.act = "update" => Changes(F, T, k)
    BY <1>a, <2>1, <2>3 DEF RowPlans
  <2>5. QED
    BY <1>3, <1>b, <2>2, <2>4
<1>4. QED
  BY <1>1, <1>2, <1>3

LEMMA FileForm ==
    ASSUME NEW F \in Files
    PROVE  /\ Rows(F) = 1 .. Len(F.rows) /\ Len(F.rows) \in Nat
           /\ \A k \in Rows(F) : F.rows[k].name \in Names /\ F.rows[k].data \in Data
<1> DEFINE R == [name : Names, parent : Names \cup {None}, data : Data]
<1>1. F.rows \in Seq(R)
  BY RegisterAssumption
<1>2. \A x \in R : x.name \in Names /\ x.data \in Data
  OBVIOUS
<1> HIDE DEF R
<1>3. Len(F.rows) \in Nat /\ DOMAIN F.rows = 1 .. Len(F.rows) /\ \A k \in 1 .. Len(F.rows) : F.rows[k] \in R
  BY ONLY <1>1
<1>4. QED
  BY <1>2, <1>3 DEF Rows

LEMMA PlanForm ==
    ASSUME NEW F \in Files, NEW T \in Tables, NEW who
    PROVE  LET plan == Plan(F, T, who) IN
           /\ plan \in Seq(RowPlans) /\ DOMAIN plan = Rows(F)
           /\ \A k \in Rows(F) : plan[k] = PlanRow(F, T, who, k)
           /\ Targets(plan) \subseteq Live(T)
<1> DEFINE plan == Plan(F, T, who)
<1>1. plan \in [1 .. Len(F.rows) -> RowPlans] /\ Len(F.rows) \in Nat
  BY FileForm, RowPlanned DEF Plan
<1>2. plan \in Seq(RowPlans)
  BY <1>1
<1>3. DOMAIN plan = Rows(F) /\ \A k \in Rows(F) : plan[k] = PlanRow(F, T, who, k)
  BY DEF Plan
<1>4. \A k \in DOMAIN plan : plan[k].act = "update" => plan[k].target \in Live(T)
  BY <1>3, RowPlanned DEF Called
<1>5. Targets(plan) \subseteq Live(T)
  BY <1>4 DEF Targets
<1>6. QED
  BY <1>2, <1>3, <1>5

(***************************************************************************)
(* The batches that wait.                                                  *)
(***************************************************************************)
\* A batch keeps its file, its plan and what was shown of it.
Keeps(b) ==
    batch[b] # NoBatch =>
       /\ batch'[b] # NoBatch /\ batch'[b].file = batch[b].file
       /\ batch'[b].plan = batch[b].plan /\ batch'[b].shown = batch[b].shown
       /\ batch[b].touched \subseteq batch'[b].touched
       /\ batch'[b].status \in {batch[b].status, "committed"}

LEMMA TouchedRecord ==
    ASSUME NEW r \in BatchRecords, NEW S \in SUBSET Ids, NEW t, t = [r EXCEPT !.touched = @ \cup S]
    PROVE  /\ t \in BatchRecords /\ t.status = r.status /\ t.touched = r.touched \cup S
           /\ t.file = r.file /\ t.plan = r.plan /\ t.shown = r.shown
<1> DEFINE P == Seq(RowPlans)
           D == UNION {[X -> Entities] : X \in SUBSET Ids}
<1>1. BatchRecords = [status : {"validated", "rejected", "committed"}, file : Files, plan : P,
                      touched : SUBSET Ids, shown : D]
  BY DEF BatchRecords
<1> HIDE DEF P, D
<1>2. QED
  BY <1>1

LEMMA CommittedRecord ==
    ASSUME NEW r \in BatchRecords, NEW t, t = [r EXCEPT !.status = "committed"]
    PROVE  /\ t \in BatchRecords /\ t.status = "committed" /\ t.touched = r.touched
           /\ t.file = r.file /\ t.plan = r.plan /\ t.shown = r.shown
<1> DEFINE P == Seq(RowPlans)
           D == UNION {[X -> Entities] : X \in SUBSET Ids}
<1>1. BatchRecords = [status : {"validated", "rejected", "committed"}, file : Files, plan : P,
                      touched : SUBSET Ids, shown : D]
  BY DEF BatchRecords
<1> HIDE DEF P, D
<1>2. QED
  BY <1>1

LEMMA TouchedBatches ==
    ASSUME BatchOK, NEW S \in SUBSET Ids, NEW t, t = Touch(S), NEW b \in Batches
    PROVE  /\ t[b] \in BatchRecords \cup {NoBatch}
           /\ batch[b] = NoBatch => t[b] = NoBatch
           /\ batch[b] # NoBatch =>
                 /\ t[b] # NoBatch /\ t[b].status = batch[b].status
                 /\ t[b].touched = batch[b].touched \cup S
                 /\ t[b].file = batch[b].file /\ t[b].plan = batch[b].plan /\ t[b].shown = batch[b].shown
<1>1. CASE batch[b] = NoBatch
  BY <1>1 DEF Touch
<1>2. CASE batch[b] # NoBatch
  <2>1. batch[b] \in BatchRecords /\ t[b] = [batch[b] EXCEPT !.touched = @ \cup S]
    BY <1>2 DEF BatchOK, Touch
  <2>2. PICK r, x : r \in BatchRecords /\ r = batch[b] /\ x = t[b] /\ x = [r EXCEPT !.touched = @ \cup S]
    BY <2>1
  <2>3. x \in BatchRecords /\ x.status = r.status /\ x.touched = r.touched \cup S
        /\ x.file = r.file /\ x.plan = r.plan /\ x.shown = r.shown
    BY <2>2, TouchedRecord
  <2>4. QED
    BY <1>2, <2>2, <2>3, Apart
<1>3. QED
  BY <1>1, <1>2

\* The plan of a commit is the one it has made for itself, on what it has seen.
PlansInv ==
    \A p \in Procs : req[p].op = "commit" =>
       LET r == batch[req[p].batch] IN
       r # NoBatch /\ r.plan = Plan(r.file, req[p].seen, req[p].who)

LEMMA PlansKept ==
    ASSUME ReqOK, PlansInv, \A q \in Procs : Carries(q), \A b \in Batches : Keeps(b)
    PROVE  PlansInv'
<1> SUFFICES ASSUME NEW p \in Procs, req'[p].op = "commit"
             PROVE  LET r == batch'[req'[p].batch] IN
                    r # NoBatch /\ r.plan = Plan(r.file, req'[p].seen, req'[p].who)
  BY DEF PlansInv
<1>1. /\ req[p].op = "commit" /\ req'[p].batch = req[p].batch
      /\ req'[p].seen = req[p].seen /\ req'[p].who = req[p].who
  BY DEF Carries
<1>2. req[p].batch \in Batches
  BY <1>1, RequestForm DEF ReqOK, CommitRequests
<1>3. batch[req[p].batch] # NoBatch
      /\ batch[req[p].batch].plan = Plan(batch[req[p].batch].file, req[p].seen, req[p].who)
  BY <1>1 DEF PlansInv
<1>4. QED
  BY <1>1, <1>2, <1>3 DEF Keeps

(***************************************************************************)
(* A commit.                                                               *)
(***************************************************************************)
\* The row k of a file, planned on T, is written to the entity i, which it
\* creates or is to update.
Lands(F, T, plan, ids, k, i) ==
    /\ ids[k] = i /\ Sound(F, T, k)
    /\ ent'[i] = Written(F, T, ids, k) /\ Exists(ent', ent'[i].parent)
    /\ \/ plan[k].act = "create" /\ Creates(F, T, k) /\ ent[i] = Unborn
       \/ plan[k].act = "update" /\ i \in Targets(plan) /\ i = IdOf(T, F.rows[k].name) /\ i \in Called(T, F.rows[k].name)

\* A commit writes the rows of its plan and nothing else.
Applied(p, b, F, T, plan, ids) ==
    /\ b \in Batches /\ F \in Files /\ T \in Tables
    /\ req[p].op = "commit" /\ req[p].batch = b /\ batch[b] # NoBatch
    /\ F = batch[b].file /\ T = req[p].seen
    /\ plan = batch[b].plan /\ plan = Plan(F, T, req[p].who)
    /\ \A i \in Targets(plan) : Pinned(b, i)
    /\ \A k \in Rows(F) : plan[k].act = "create" => ids[k] \in Ids /\ ent[ids[k]] = Unborn
    /\ ent' = [i \in Ids |-> ent'[i]]
    /\ \A i \in Ids : ent'[i] = ent[i] \/ \E k \in Rows(F) : Lands(F, T, plan, ids, k, i)
    /\ batch' = [Touch(Targets(plan)) EXCEPT ![b].status = "committed"]
    /\ EndsHavingWritten(p) /\ UNCHANGED left

LEMMA CommitForm ==
    ASSUME BatchOK, ReqOK, PlansInv, NEW p \in Procs, req[p].op = "commit", NEW b, b = req[p].batch
    PROVE  /\ b \in Batches /\ req[p].seen \in Tables /\ req[p].late \in BOOLEAN
           /\ batch[b] \in BatchRecords /\ batch[b].file \in Files
           /\ batch[b].plan = Plan(batch[b].file, req[p].seen, req[p].who)
<1>1. req[p] \in CommitRequests
  BY RequestForm DEF ReqOK
<1>2. b \in Batches /\ req[p].seen \in Tables /\ req[p].late \in BOOLEAN
  BY <1>1 DEF CommitRequests
<1>3. batch[b] \in BatchRecords /\ batch[b].plan = Plan(batch[b].file, req[p].seen, req[p].who)
  BY <1>2 DEF PlansInv, BatchOK
<1>4. batch[b].file \in Files
  BY <1>3 DEF BatchRecords
<1>5. QED
  BY <1>2, <1>3, <1>4

LEMMA ApplyForm ==
    ASSUME EntOK, BatchOK, ReqOK, PlansInv, NEW p \in Procs, Apply(p)
    PROVE  \E b, F, T, plan, ids : Applied(p, b, F, T, plan, ids)
<1> DEFINE b == req[p].batch
           F == batch[b].file
           T == req[p].seen
           plan == batch[b].plan
           new == {k \in Rows(F) : plan[k].act = "create"}
           changed == {k \in Rows(F) : plan[k].act # "unchanged"}
<1>1. req[p].op = "commit" /\ \A i \in Targets(plan) : Pinned(b, i)
  BY DEF Apply
<1>2. /\ b \in Batches /\ T \in Tables /\ batch[b] \in BatchRecords /\ F \in Files
      /\ plan = Plan(F, T, req[p].who)
  BY <1>1, CommitForm
<1>3. PICK f, ids :
          /\ f \in [new -> {i \in Ids : ent[i] = Unborn}] /\ ids = IdsOfRows(b, f)
          /\ ent' = [i \in Ids |->
                       IF \E k \in changed : ids[k] = i
                       THEN Written(F, T, ids, CHOOSE k \in changed : ids[k] = i)
                       ELSE ent[i]]
          /\ \A k \in changed : Exists(ent', ent'[ids[k]].parent)
  BY DEF Apply
<1>4. batch' = [Touch(Targets(plan)) EXCEPT ![b].status = "committed"] /\ EndsHavingWritten(p) /\ UNCHANGED left
  BY DEF Apply
<1>5. DOMAIN plan = Rows(F) /\ \A k \in Rows(F) : plan[k] = PlanRow(F, T, req[p].who, k)
  BY <1>2, PlanForm
<1>6. ids = [k \in Rows(F) |-> IF plan[k].act = "create" THEN f[k] ELSE plan[k].target]
  BY <1>3, <1>5 DEF IdsOfRows
<1>a. b = req[p].batch /\ F = batch[b].file /\ T = req[p].seen /\ plan = batch[b].plan
  OBVIOUS
<1>b. new = {k \in Rows(F) : plan[k].act = "create"} /\ changed = {k \in Rows(F) : plan[k].act # "unchanged"}
  OBVIOUS
<1> HIDE DEF b, F, T, plan, new, changed
<1>7. ASSUME NEW i \in Ids, ent'[i] # ent[i]
      PROVE  \E k \in Rows(F) : Lands(F, T, plan, ids, k, i)
  <2>1. PICK k \in changed : ids[k] = i /\ ent'[i] = Written(F, T, ids, k)
    <3>1. \E k \in changed : ids[k] = i
      BY <1>3, <1>7
    <3>2. PICK k : k = CHOOSE x \in changed : ids[x] = i
      OBVIOUS
    <3>3. k \in changed /\ ids[k] = i
      BY <3>1, <3>2
    <3>4. ent'[i] = Written(F, T, ids, k)
      BY <1>3, <3>1, <3>2
    <3>5. QED
      BY <3>3, <3>4
  <2>2. k \in Rows(F) /\ plan[k].act # "unchanged" /\ plan[k] = PlanRow(F, T, req[p].who, k)
    BY <1>5, <1>b, <2>1
  <2>3. PICK r : r = plan[k] /\ r = PlanRow(F, T, req[p].who, k)
    BY <2>2
  <2>4. /\ r \in RowPlans
        /\ r.act # "invalid" => Sound(F, T, k)
        /\ r.act = "create" => Creates(F, T, k)
        /\ r.act = "update" => r.target = IdOf(T, F.rows[k].name) /\ r.target \in Called(T, F.rows[k].name)
        /\ r.act = "invalid" => r.target = None
    BY <2>3, RowPlanned
  <2>5. r.act \in {"create", "update"}
    <3>1. r.act = "invalid" => ids[k] = None
      BY <1>6, <2>2, <2>3, <2>4
    <3>2. r.act \in {"create", "update", "unchanged", "invalid"}
      BY <2>4 DEF RowPlans
    <3>3. QED
      BY <2>1, <2>2, <2>3, <3>1, <3>2, Apart
  <2>6. CASE r.act = "create"
    <3>1. ids[k] = f[k] /\ k \in new
      BY <1>6, <1>b, <2>2, <2>3, <2>6
    <3>2. ent[i] = Unborn
      BY <1>3, <2>1, <3>1
    <3>3. plan[k].act = "create" /\ Creates(F, T, k) /\ Sound(F, T, k)
      BY <2>3, <2>4, <2>6
    <3>4. Exists(ent', ent'[i].parent)
      BY <1>3, <2>1
    <3>5. QED
      BY <2>1, <2>2, <3>2, <3>3, <3>4 DEF Lands
  <2>7. CASE r.act = "update"
    <3>1. i = plan[k].target /\ plan[k].act = "update"
      BY <1>6, <2>1, <2>2, <2>3, <2>7
    <3>2. i \in Targets(plan)
      BY <1>5, <2>2, <3>1 DEF Targets
    <3>3. Exists(ent', ent'[i].parent)
      BY <1>3, <2>1
    <3>4. Sound(F, T, k) /\ i = IdOf(T, F.rows[k].name) /\ i \in Called(T, F.rows[k].name)
      BY <2>3, <2>4, <2>7, <3>1
    <3>5. QED
      BY <2>1, <2>2, <3>1, <3>2, <3>3, <3>4 DEF Lands
  <2>8. QED
    BY <2>5, <2>6, <2>7
<1>8. ent' = [i \in Ids |-> ent'[i]]
  BY <1>3
<1>c. \A k \in Rows(F) : plan[k].act = "create" => ids[k] \in Ids /\ ent[ids[k]] = Unborn
  <2>1. \A k \in new : f[k] \in Ids /\ ent[f[k]] = Unborn
    BY <1>3
  <2>2. \A k \in Rows(F) : plan[k].act = "create" => k \in new /\ ids[k] = f[k]
    BY <1>6, <1>b
  <2>3. QED
    BY <2>1, <2>2
<1>9. Applied(p, b, F, T, plan, ids)
  BY <1>c, <1>1, <1>2, <1>4, <1>7, <1>8, <1>a, Apart DEF Applied
<1>10. QED
  BY <1>2, <1>9

\* What lands is an entity.
LEMMA LandsTyped ==
    ASSUME NEW F \in Files, NEW T \in Tables, NEW plan, NEW ids, NEW k \in Rows(F), NEW i \in Ids,
           Lands(F, T, plan, ids, k, i)
    PROVE  ent'[i] \in Entities /\ ent'[i].name = F.rows[k].name
<1> DEFINE p == ent'[i].parent
           d == IF "data" \in F.spoke THEN F.rows[k].data ELSE T[ids[k]].data
<1>1. PICK q : ent'[i] = [name |-> F.rows[k].name, data |-> d, parent |-> q]
  BY DEF Lands, Written
<1>2. F.rows[k].name \in Names /\ F.rows[k].data \in Data
  BY FileForm
<1>3. d \in Data
  <2>1. CASE "data" \in F.spoke
    BY <1>2, <2>1
  <2>2. CASE "data" \notin F.spoke
    <3>1. i \in Live(T) /\ ids[k] = i
      BY <2>2 DEF Lands, Sound, Called
    <3>2. T[i] \in Entities
      BY <3>1, LiveForm
    <3>3. T[i].data \in Data
      BY <3>2 DEF Entities
    <3>4. QED
      BY <2>2, <3>1, <3>3
  <2>3. QED
    BY <2>1, <2>2
<1>4. p \in Ids \cup {None}
  BY DEF Lands, Exists, Live
<1> HIDE DEF d
<1>5. p = q
  BY <1>1
<1>6. QED
  BY <1>1, <1>2, <1>3, <1>4, <1>5 DEF Entities

\* The batches when one of them has been committed.
OneCommitted(b, S) ==
    /\ b \in Batches /\ batch[b] # NoBatch /\ S \in SUBSET Ids
    /\ batch' = [Touch(S) EXCEPT ![b].status = "committed"]

LEMMA CommittedBatches ==
    ASSUME BatchOK, NEW b, NEW S, OneCommitted(b, S), NEW c \in Batches
    PROVE  /\ batch'[c] \in BatchRecords \cup {NoBatch} /\ Keeps(c)
           /\ batch[c] = NoBatch => batch'[c] = NoBatch
           /\ c # b /\ batch[c] # NoBatch => batch'[c].status = batch[c].status
           /\ batch[c] # NoBatch => batch'[c].touched = batch[c].touched \cup S
<1> DEFINE t == Touch(S)
<1>0. b \in Batches /\ batch[b] # NoBatch /\ S \in SUBSET Ids
  BY DEF OneCommitted
<1>1. /\ t[c] \in BatchRecords \cup {NoBatch}
      /\ batch[c] = NoBatch => t[c] = NoBatch
      /\ batch[c] # NoBatch =>
            /\ t[c] # NoBatch /\ t[c].status = batch[c].status
            /\ t[c].touched = batch[c].touched \cup S
            /\ t[c].file = batch[c].file /\ t[c].plan = batch[c].plan /\ t[c].shown = batch[c].shown
  BY <1>0, TouchedBatches
<1>2. DOMAIN t = Batches
  BY DEF Touch
<1>3. batch' = [t EXCEPT ![b].status = "committed"]
  BY DEF OneCommitted
<1> HIDE DEF t
<1>4. CASE c # b
  BY <1>1, <1>2, <1>3, <1>4 DEF Keeps
<1>5. CASE c = b
  <2>1. t[c] \in BatchRecords /\ batch'[c] = [t[c] EXCEPT !.status = "committed"]
    BY <1>0, <1>1, <1>2, <1>3, <1>5
  <2>2. PICK r, x : r \in BatchRecords /\ r = t[c] /\ x = batch'[c] /\ x = [r EXCEPT !.status = "committed"]
    BY <2>1
  <2>3. x \in BatchRecords /\ x.touched = r.touched /\ x.status = "committed"
        /\ x.file = r.file /\ x.plan = r.plan /\ x.shown = r.shown
    BY <2>2, CommittedRecord
  <2>4. QED
    BY <1>1, <1>5, <2>2, <2>3, Apart DEF Keeps
<1>6. QED
  BY <1>4, <1>5

LEMMA TargetsPlanned ==
    ASSUME NEW F \in Files, NEW T \in Tables, NEW who, NEW plan, plan = Plan(F, T, who)
    PROVE  Targets(plan) \in SUBSET Ids
  BY PlanForm DEF Live

LEMMA ApplyTypes ==
    ASSUME EntOK, BatchOK, ReqOK, PlansInv, NEW p \in Procs, Apply(p)
    PROVE  EntOK' /\ BatchOK' /\ \A c \in Batches : Keeps(c)
<1>1. PICK b, F, T, plan, ids : Applied(p, b, F, T, plan, ids)
  BY ApplyForm
<1>a. b \in Batches /\ F \in Files /\ T \in Tables
  BY <1>1 DEF Applied
<1>2. ASSUME NEW i \in Ids PROVE ent'[i] \in Entities \cup {Unborn, Dead}
  <2>1. CASE ent'[i] = ent[i]
    BY <2>1 DEF EntOK, Tables
  <2>2. CASE \E k \in Rows(F) : Lands(F, T, plan, ids, k, i)
    BY <1>a, <2>2, LandsTyped
  <2>3. QED
    BY <1>1, <2>1, <2>2 DEF Applied
<1>3. EntOK'
  BY <1>1, <1>2 DEF EntOK, Tables, Applied
<1>4. Targets(plan) \in SUBSET Ids
  BY <1>1, TargetsPlanned, SMTT(60) DEF Applied
<1>5. batch' = [Touch(Targets(plan)) EXCEPT ![b].status = "committed"] /\ batch[b] # NoBatch
  BY <1>1 DEF Applied
<1>6. \A c \in Batches : batch'[c] \in BatchRecords \cup {NoBatch} /\ Keeps(c)
  <2>1. OneCommitted(b, Targets(plan))
    BY <1>4, <1>5, <1>a DEF OneCommitted
  <2>2. QED
    BY <2>1, CommittedBatches
<1>7. batch' = [c \in Batches |-> batch'[c]]
  BY <1>5 DEF Touch
<1>8. QED
  BY <1>3, <1>6, <1>7 DEF BatchOK

(***************************************************************************)
(* Types.                                                                  *)
(***************************************************************************)
LEMMA EditForm ==
    ASSUME NEW r \in {Idle} \cup AllRequests
    PROVE  /\ r.op \in {"create", "update"} => r.row \in Entities
           /\ r.op \in {"update", "delete"} => r.id \in Ids
           /\ r.op = "rewrite" => r.seen \in Workflows
           /\ r.op \in {"add step", "drop step"} => r.seen \in Templates
<1>1. Idle.op = "idle"
  BY DEF Idle
<1>2. CASE r \in EditRequests
  BY <1>1, <1>2 DEF EditRequests
<1>3. CASE r \in CommitRequests
  BY <1>1, <1>3 DEF CommitRequests
<1>4. CASE r \in WorkRequests
  BY <1>1, <1>4 DEF WorkRequests
<1>5. QED
  BY <1>1, <1>2, <1>3, <1>4 DEF AllRequests

LEMMA InsertTypes ==
    ASSUME EntOK, ReqOK, NEW p \in Procs, Insert(p)
    PROVE  EntOK'
<1>1. PICK i \in Ids : ent[i] = Unborn /\ ent' = [ent EXCEPT ![i] = req[p].row]
  BY DEF Insert
<1>2. req[p].row \in Entities
  BY EditForm DEF Insert, ReqOK
<1>3. QED
  BY <1>1, <1>2 DEF EntOK, Tables

LEMMA OverwriteTypes ==
    ASSUME EntOK, BatchOK, ReqOK, NEW p \in Procs, Overwrite(p)
    PROVE  EntOK' /\ BatchOK' /\ \A c \in Batches : Keeps(c)
<1>1. PICK i \in Ids : i = req[p].id
  BY EditForm DEF Overwrite, ReqOK
<1>2. req[p].row \in Entities
  BY EditForm DEF Overwrite, ReqOK
<1>3. ent' = [ent EXCEPT ![i] = req[p].row] /\ batch' = Touch({i})
  BY <1>1 DEF Overwrite
<1>4. \A c \in Batches : batch'[c] \in BatchRecords \cup {NoBatch} /\ Keeps(c)
  BY <1>3, TouchedBatches DEF Keeps
<1>5. batch' = [c \in Batches |-> batch'[c]]
  BY <1>3 DEF Touch
<1>6. QED
  BY <1>2, <1>3, <1>4, <1>5 DEF EntOK, Tables, BatchOK

LEMMA Parted == ASSUME NEW e \in Entities, NEW x, x = [e EXCEPT !.parent = None]
                PROVE  x \in Entities /\ x.parent = None /\ x.name = e.name /\ x.data = e.data
                       /\ [x EXCEPT !.parent = None] = x
  BY DEF Entities

\* What a delete leaves of each entity.
LEMMA EraseForm ==
    ASSUME EntOK, NEW p \in Procs, Erase(p), NEW j \in Ids
    PROVE  /\ \/ ent'[j] \in {ent[j], Dead}
              \/ ent[j] \in Entities /\ ent'[j] = [ent[j] EXCEPT !.parent = None]
           /\ ent' = [i \in Ids |-> ent'[i]]
<1>1. ASSUME j \in Live(ent) PROVE ent[j] \in Entities
  BY <1>1, LiveForm DEF EntOK
<1>2. QED
  BY <1>1 DEF Erase

LEMMA EraseTypes ==
    ASSUME EntOK, NEW p \in Procs, Erase(p)
    PROVE  EntOK'
<1>1. ASSUME NEW j \in Ids PROVE ent'[j] \in Entities \cup {Unborn, Dead}
  <2>1. ent[j] \in Entities \cup {Unborn, Dead}
    BY DEF EntOK, Tables
  <2>2. QED
    BY <2>1, EraseForm, Parted
<1>2. Ids # {}
  BY RegisterAssumption
<1>3. QED
  BY <1>1, <1>2, EraseForm DEF EntOK, Tables

LEMMA ValidateTypes ==
    ASSUME EntOK, BatchOK, LeftOK, NEW b \in Batches, NEW who \in Callers, NEW F \in Files, Validate(b, who, F)
    PROVE  /\ BatchOK' /\ LeftOK' /\ \A c \in Batches : Keeps(c)
           /\ batch[b] = NoBatch /\ \A c \in Batches \ {b} : batch'[c] = batch[c]
           /\ batch'[b].status # "committed" /\ batch'[b].touched = {}
           /\ batch'[b].status = "validated" =>
                 \A k \in DOMAIN batch'[b].plan : batch'[b].plan[k].act # "invalid"
           /\ DOMAIN batch'[b].shown = Targets(batch'[b].plan)
           /\ \A i \in DOMAIN batch'[b].shown : batch'[b].shown[i] = ent[i]
<1> DEFINE plan == Plan(F, ent, who)
           s == IF \E k \in Rows(F) : plan[k].act = "invalid" THEN "rejected" ELSE "validated"
           sh == [i \in Targets(plan) |-> ent[i]]
           r == [status |-> s, file |-> F, plan |-> plan, touched |-> {}, shown |-> sh]
           D == UNION {[X -> Entities] : X \in SUBSET Ids}
           P == Seq(RowPlans)
<1>1. plan \in P /\ Targets(plan) \subseteq Live(ent)
  BY PlanForm DEF EntOK
<1>2. sh \in D
  <2>1. sh \in [Targets(plan) -> Entities] /\ Targets(plan) \in SUBSET Ids
    BY <1>1, LiveForm DEF EntOK, Live
  <2>2. QED
    BY <2>1
<1>3. s \in {"validated", "rejected", "committed"} /\ s # "committed"
  OBVIOUS
<1>4. BatchRecords = [status : {"validated", "rejected", "committed"}, file : Files, plan : P,
                      touched : SUBSET Ids, shown : D]
  BY DEF BatchRecords
<1>5. batch' = [batch EXCEPT ![b] = r] /\ batch[b] = NoBatch
  BY DEF Validate
<1>6. LeftOK'
  BY DEF Validate, LeftOK
<1>a. DOMAIN sh = Targets(plan) /\ \A i \in Targets(plan) : sh[i] = ent[i]
  OBVIOUS
<1>b. s = "validated" => \A k \in DOMAIN plan : plan[k].act # "invalid"
  BY DEF Plan
<1> HIDE DEF plan, s, sh, D, P
<1>7. r \in BatchRecords /\ r.status = s /\ r.touched = {} /\ r.shown = sh /\ r.plan = plan
  BY <1>1, <1>2, <1>3, <1>4
<1> HIDE DEF r
<1>8. BatchOK' /\ batch'[b] = r /\ \A c \in Batches \ {b} : batch'[c] = batch[c]
  BY <1>5, <1>7 DEF BatchOK
<1>9. \A c \in Batches : Keeps(c)
  BY <1>5, <1>8 DEF Keeps
<1>10. QED
  BY <1>3, <1>5, <1>6, <1>7, <1>8, <1>9, <1>a, <1>b

Typing == EntOK /\ BatchOK /\ ReqOK /\ LeftOK /\ WorkOK /\ PlansInv

\* The requests after one of them has written, and after one was let in or
\* planned that is no commit.
LEMMA WrittenTyping ==
    ASSUME ReqOK, PlansInv, NEW p \in Procs, EndsHavingWritten(p), \A c \in Batches : Keeps(c)
    PROVE  ReqOK' /\ PlansInv'
  BY WrittenRequests, PlansKept

LEMMA Unwritten == ASSUME UNCHANGED batch PROVE \A c \in Batches : Keeps(c)
  BY DEF Keeps

LEMMA LoadedTyping ==
    ASSUME ReqOK, PlansInv, NEW p \in Procs, NEW new \in AllRequests, req' = [req EXCEPT ![p] = new],
           new.op # "commit", UNCHANGED batch
    PROVE  ReqOK' /\ PlansInv'
<1>1. ReqOK' /\ req'[p] = new /\ \A q \in Procs \ {p} : req'[q] = req[q]
  BY LoadedRequests
<1>2. ASSUME NEW q \in Procs, req'[q].op = "commit" PROVE q # p
  BY <1>1, <1>2
<1>3. PlansInv'
  BY <1>1, <1>2 DEF PlansInv
<1>4. QED
  BY <1>1, <1>3

\* Where a start is planned for, in the calendar of its entity.
LEMMA PlannedTyped ==
    ASSUME NEW w \in Workflows, NEW d \in Data, NEW S \in SUBSET Templates
    PROVE  Planned(w, d, S) \subseteq Plannable
<1>1. Planned(w, d, S) \subseteq Planned(w, d, Templates)
  BY Zenon DEF Planned
<1>2. Planned(w, d, Templates) \subseteq Plannable
  <2>1. Planned(w, d, Templates) \in {Planned(x, y, Templates) : x \in Workflows, y \in Data}
    OBVIOUS
  <2>2. QED
    BY <2>1 DEF Plannable
<1>3. QED
  BY <1>1, <1>2

LEMMA PlanStartTypes ==
    ASSUME EntOK, ReqOK, WorkOK, NEW p \in Procs, PlanStart(p)
    PROVE  /\ req[p].seen \in Workflows
           /\ \E new \in AllRequests :
                 /\ req' = [req EXCEPT ![p] = new] /\ new.op = "start"
                 /\ new.seen = req[p].seen /\ new.late = req[p].late
                 /\ new.plan = Planned(req[p].seen, ent[req[p].seen.entity].data, Steps)
<1> DEFINE plan == Planned(req[p].seen, ent[req[p].seen.entity].data, Steps)
<1>1. req[p].op = "start" /\ req[p].seen.entity \in Live(ent)
  BY DEF PlanStart
<1>2. req[p].seen \in Workflows /\ req[p] # Idle
  BY <1>1, RequestForm DEF ReqOK
<1>3. ent[req[p].seen.entity] \in Entities
  BY <1>1, LiveForm DEF EntOK
<1>4. ent[req[p].seen.entity].data \in Data /\ Steps \in SUBSET Templates
  BY <1>3 DEF Entities, Steps
<1>5. plan \subseteq Plannable
  BY <1>2, <1>4, PlannedTyped
<1>6. req' = [req EXCEPT ![p].plan = plan]
  BY DEF PlanStart
<1> HIDE DEF plan
<1>7. PICK r, new : r = req[p] /\ new = [r EXCEPT !.plan = plan]
  OBVIOUS
<1>8. r \in AllRequests /\ r.op = "start"
  BY <1>1, <1>2, <1>7 DEF ReqOK
<1>9. r \in [op : {"start"}, who : Callers, seen : Workflows, plan : SUBSET Plannable, late : BOOLEAN]
  BY <1>8 DEF AllRequests, EditRequests, CommitRequests, WorkRequests
<1>10. new \in WorkRequests /\ new.op = "start" /\ new.seen = r.seen /\ new.late = r.late /\ new.plan = plan
  BY <1>5, <1>7, <1>9 DEF WorkRequests
<1>11. req' = [req EXCEPT ![p] = new]
  BY <1>6, <1>7
<1>12. QED
  BY <1>2, <1>7, <1>10, <1>11 DEF plan, AllRequests

\* What a start leaves behind.
LEMMA WriteStartTypes ==
    ASSUME ReqOK, WorkOK, NEW p \in Procs, WriteStart(p)
    PROVE  WorkOK'
<1>1. req[p].op = "start" /\ req[p].seen \in Workflows /\ req[p].plan \subseteq Plannable
  BY RequestForm DEF ReqOK, WriteStart
<1>2. wf' \in Workflows
  BY <1>1 DEF WriteStart, Activated, Workflows
<1>3. starts \in Nat /\ starts' = starts + 1 /\ tmpl' = tmpl
  BY DEF WriteStart, WorkOK
<1>4. inst' \subseteq [of : 1 .. starts', plan : Plannable]
  <2>1. inst' = inst \cup {[of |-> starts', plan |-> i] : i \in req[p].plan}
    BY DEF WriteStart
  <2>2. inst \subseteq [of : 1 .. starts', plan : Plannable]
    BY <1>3 DEF WorkOK
  <2>3. QED
    BY <1>1, <1>3, <2>1, <2>2
<1>5. QED
  BY <1>2, <1>3, <1>4 DEF WorkOK

LEMMA ClaimTyping ==
    ASSUME EntOK, BatchOK, ReqOK, PlansInv,
           NEW p \in Procs, NEW b \in Batches, NEW who \in Callers, Claim(p, b, who)
    PROVE  /\ ReqOK' /\ PlansInv' /\ req[p] = Idle /\ UNCHANGED <<ent, batch, left>>
           /\ batch[b] # NoBatch /\ batch[b].plan = Plan(batch[b].file, ent, who)
           /\ \A q \in Procs : req[q].op = "commit" => req[q].batch # b
           /\ \A q \in Procs \ {p} : req'[q] = req[q]
           /\ req'[p].op = "commit" /\ req'[p].batch = b /\ req'[p].seen = ent /\ req'[p].who = who
<1> DEFINE new == [op |-> "commit", who |-> who, batch |-> b, seen |-> ent, late |-> FALSE]
<1>1. new \in AllRequests /\ new.op = "commit" /\ new.batch = b /\ new.seen = ent /\ new.who = who
  BY DEF AllRequests, CommitRequests, EntOK
<1>2. req' = [req EXCEPT ![p] = new] /\ UNCHANGED <<ent, batch, left>> /\ req[p] = Idle
  BY DEF Claim
<1>3. batch[b] # NoBatch /\ batch[b].plan = Plan(batch[b].file, ent, who)
  BY DEF Claim, StillHolds
<1>4. \A q \in Procs : req[q].op = "commit" => req[q].batch # b
  <2>1. Idle.op = "idle"
    BY DEF Idle
  <2>2. QED
    BY <2>1 DEF Claim
<1> HIDE DEF new
<1>5. ReqOK' /\ req'[p] = new /\ \A q \in Procs \ {p} : req'[q] = req[q]
  BY <1>1, <1>2, LoadedRequests
<1>6. PlansInv'
  BY <1>1, <1>2, <1>3, <1>5 DEF PlansInv
<1>7. QED
  BY <1>1, <1>2, <1>3, <1>4, <1>5, <1>6

LEMMA RollBackTyping ==
    ASSUME ReqOK, PlansInv, NEW p \in Procs, RollBack(p)
    PROVE  /\ ReqOK' /\ PlansInv' /\ req'[p].op = "idle" /\ \A q \in Procs \ {p} : req'[q] = req[q]
           /\ UNCHANGED <<ent, batch, left>>
<1>1. Ends(p) /\ UNCHANGED <<ent, batch, left>>
  BY DEF RollBack
<1>2. ReqOK' /\ req'[p].op = "idle" /\ \A q \in Procs \ {p} : req'[q] = req[q]
  BY <1>1, EndedRequests
<1>3. \A q \in Procs : req'[q].op = "commit" => q # p
  BY <1>2
<1>4. PlansInv'
  BY <1>1, <1>2, <1>3 DEF PlansInv
<1>5. QED
  BY <1>1, <1>2, <1>4

LEMMA InitTyping == GenInit => Typing
<1> SUFFICES ASSUME GenInit PROVE Typing
  OBVIOUS
<1>1. Init /\ Idle.op = "idle"
  BY DEF GenInit, Idle
<1>2. EntOK
  <2>1. PICK S \in SUBSET (Ids \ {Root}), d \in Data :
            ent \in [Ids -> {[name |-> n, parent |-> q, data |-> d] : n \in Names, q \in {Root, None}} \cup {Unborn}]
    BY <1>1 DEF Init
  <2>2. {[name |-> n, parent |-> q, data |-> d] : n \in Names, q \in {Root, None}} \subseteq Entities
    BY RegisterAssumption DEF Entities
  <2>3. QED
    BY <2>1, <2>2 DEF EntOK, Tables
<1>3. BatchOK /\ ReqOK /\ PlansInv
  BY <1>1 DEF Init, BatchOK, ReqOK, PlansInv
<1>4. LeftOK
  BY <1>1, RegisterAssumption DEF Init, LeftOK
<1>5. WorkOK
  BY DEF GenInit, WorkOK
<1>6. QED
  BY <1>2, <1>3, <1>4, <1>5 DEF Typing

\* An edit or an import of p, as Register has it; and the delete with what hangs on it.
LEMMA RegisterTyping ==
    ASSUME Typing, NEW p \in Procs,
           Edit(p) \/ Import(p) \/ Insert(p) \/ Overwrite(p) \/ Erase(p) \/ Apply(p) \/ RollBack(p)
    PROVE  EntOK' /\ BatchOK' /\ ReqOK' /\ LeftOK' /\ PlansInv'
<1> USE DEF Typing
<1>1. CASE Edit(p)
  <2>1. LeftOK' /\ UNCHANGED <<ent, batch>>
    BY <1>1, EditLoads
  <2>2. PICK new \in AllRequests : req' = [req EXCEPT ![p] = new] /\ new.op \notin {"commit", "start"}
    BY <1>1, EditLoads
  <2>3. ReqOK' /\ PlansInv'
    BY <2>1, <2>2, LoadedTyping
  <2>4. QED
    BY <2>1, <2>3 DEF EntOK, BatchOK
<1>2. CASE Import(p)
  <2>1. PICK b \in Batches, who \in Callers : Claim(p, b, who)
    BY <1>2 DEF Import
  <2>2. ReqOK' /\ PlansInv' /\ UNCHANGED <<ent, batch, left>>
    BY <2>1, ClaimTyping
  <2>3. QED
    BY <2>2 DEF EntOK, BatchOK, LeftOK
<1>3. CASE Insert(p)
  <2>1. EndsHavingWritten(p) /\ UNCHANGED <<batch, left>>
    BY <1>3 DEF Insert
  <2>2. QED
    BY <1>3, <2>1, InsertTypes, Unwritten, WrittenTyping DEF BatchOK, LeftOK
<1>4. CASE Overwrite(p)
  <2>1. EndsHavingWritten(p) /\ UNCHANGED left
    BY <1>4 DEF Overwrite
  <2>2. QED
    BY <1>4, <2>1, OverwriteTypes, WrittenTyping DEF LeftOK
<1>5. CASE Erase(p)
  <2>1. EndsHavingWritten(p) /\ UNCHANGED <<batch, left>>
    BY <1>5 DEF Erase
  <2>2. QED
    BY <1>5, <2>1, EraseTypes, Unwritten, WrittenTyping DEF BatchOK, LeftOK
<1>6. CASE Apply(p)
  <2>1. EndsHavingWritten(p) /\ UNCHANGED left
    BY <1>6 DEF Apply
  <2>2. QED
    BY <1>6, <2>1, ApplyTypes, WrittenTyping DEF LeftOK
<1>7. CASE RollBack(p)
  <2>1. ReqOK' /\ PlansInv' /\ UNCHANGED <<ent, batch, left>>
    BY <1>7, RollBackTyping
  <2>2. QED
    BY <2>1 DEF EntOK, BatchOK, LeftOK
<1>8. QED
  BY <1>1, <1>2, <1>3, <1>4, <1>5, <1>6, <1>7

LEMMA RemovedTypes == ASSUME WorkOK, Removed, UNCHANGED starts PROVE WorkOK'
  BY DEF Removed, WorkOK

\* A request for the workflow lets nothing else move but what it is for.
LEMMA WorkTyping ==
    ASSUME Typing, NEW p \in Procs, Work(p)
    PROVE  Typing' /\ UNCHANGED <<ent, batch>>
<1> USE DEF Typing
<1>1. ASSUME UNCHANGED <<ent, batch>>, LeftOK', WorkOK', ReqOK' /\ PlansInv'
      PROVE  Typing' /\ UNCHANGED <<ent, batch>>
  BY <1>1 DEF EntOK, BatchOK
<1>2. ASSUME EndsHavingWritten(p), UNCHANGED <<ent, batch, left>>
      PROVE  LeftOK' /\ ReqOK' /\ PlansInv'
  BY <1>2, Unwritten, WrittenTyping DEF LeftOK
<1>3. CASE \E who \in Callers : Free(p) /\ (LoadStart(p, who) \/ LoadWork(p, who))
  <2>1. LeftOK' /\ UNCHANGED <<ent, batch, workVars>>
    BY <1>3, WorkLoads
  <2>2. PICK new \in AllRequests : req' = [req EXCEPT ![p] = new] /\ new.op # "commit"
    BY <1>3, WorkLoads
  <2>3. ReqOK' /\ PlansInv'
    BY <2>1, <2>2, LoadedTyping
  <2>4. WorkOK'
    BY <2>1 DEF WorkOK, workVars
  <2>5. QED
    BY <1>1, <2>1, <2>3, <2>4
<1>4. CASE PlanStart(p)
  <2>1. PICK new \in AllRequests : req' = [req EXCEPT ![p] = new] /\ new.op = "start"
    BY <1>4, PlanStartTypes
  <2>2. UNCHANGED <<ent, batch, left, workVars>>
    BY <1>4 DEF PlanStart
  <2>3. new.op # "commit"
    BY <2>1
  <2>4. ReqOK' /\ PlansInv'
    BY <2>1, <2>2, <2>3, LoadedTyping
  <2>5. WorkOK' /\ LeftOK'
    BY <2>2 DEF WorkOK, workVars, LeftOK
  <2>6. QED
    BY <1>1, <2>2, <2>4, <2>5
<1>5. CASE WriteStart(p)
  <2>1. EndsHavingWritten(p) /\ UNCHANGED <<ent, batch, left>>
    BY <1>5 DEF WriteStart
  <2>2. QED
    BY <1>1, <1>2, <1>5, <2>1, WriteStartTypes
<1>6. CASE Rewrite(p)
  <2>1. EndsHavingWritten(p) /\ UNCHANGED <<ent, batch, left, tmpl, inst, starts>> /\ wf' = req[p].seen
        /\ req[p].op = "rewrite"
    BY <1>6 DEF Rewrite
  <2>2. wf' \in Workflows
    BY <2>1, EditForm DEF ReqOK
  <2>3. WorkOK'
    BY <2>1, <2>2 DEF WorkOK
  <2>4. QED
    BY <1>1, <1>2, <2>1, <2>3
<1>7. CASE RemoveWork(p)
  <2>1. EndsHavingWritten(p) /\ UNCHANGED <<ent, batch, left, starts>> /\ Removed
    BY <1>7 DEF RemoveWork
  <2>2. QED
    BY <1>1, <1>2, <2>1, RemovedTypes
<1>8. CASE AddStep(p)
  <2>1. EndsHavingWritten(p) /\ UNCHANGED <<ent, batch, left, wf, inst, starts>>
    BY <1>8 DEF AddStep
  <2>2. WorkOK'
    BY <1>8 DEF AddStep, WorkOK
  <2>3. QED
    BY <1>1, <1>2, <2>1, <2>2
<1>9. CASE DropStep(p)
  <2>1. EndsHavingWritten(p) /\ UNCHANGED <<ent, batch, left, wf, starts>>
    BY <1>9 DEF DropStep
  <2>2. WorkOK'
    BY <1>9 DEF DropStep, WorkOK
  <2>3. QED
    BY <1>1, <1>2, <2>1, <2>2
<1>10. QED
  BY <1>3, <1>4, <1>5, <1>6, <1>7, <1>8, <1>9 DEF Work

LEMMA NextTyping == Typing /\ [Next]_vars => Typing'
<1> SUFFICES ASSUME Typing, [Next]_vars PROVE Typing'
  OBVIOUS
<1>1. CASE Registering /\ UNCHANGED <<workVars, asked>>
  <2>1. WorkOK'
    BY <1>1 DEF Typing, WorkOK, workVars
  <2>2. CASE Upload
    <3>1. PICK b \in Batches, who \in Callers, F \in Files : Validate(b, who, F)
      BY <2>2 DEF Upload
    <3>2. BatchOK' /\ LeftOK' /\ \A c \in Batches : Keeps(c)
      BY <3>1, ValidateTypes DEF Typing
    <3>3. UNCHANGED <<ent, req>>
      BY <3>1 DEF Validate
    <3>4. EntOK' /\ ReqOK' /\ \A q \in Procs : Carries(q)
      BY <3>3 DEF Typing, EntOK, ReqOK, Carries
    <3>5. PlansInv'
      BY <3>2, <3>4, PlansKept DEF Typing
    <3>6. QED
      BY <2>1, <3>2, <3>4, <3>5 DEF Typing
  <2>3. CASE \E p \in Procs : Edit(p) \/ Import(p) \/ Insert(p) \/ Overwrite(p) \/ Apply(p) \/ RollBack(p)
    BY <2>1, <2>3, RegisterTyping DEF Typing
  <2>4. QED
    BY <1>1, <2>2, <2>3 DEF Registering
<1>2. CASE \E p \in Procs : EraseWithWork(p)
  <2>1. PICK p \in Procs : EraseWithWork(p)
    BY <1>2
  <2>2. Erase(p) /\ UNCHANGED starts /\ (Removed \/ UNCHANGED <<wf, tmpl, inst>>)
    BY <2>1 DEF EraseWithWork
  <2>3. WorkOK'
    BY <2>2, RemovedTypes DEF Typing, WorkOK
  <2>4. QED
    BY <2>2, <2>3, RegisterTyping DEF Typing
<1>3. CASE \E p \in Procs : Work(p)
  BY <1>3, WorkTyping
<1>4. CASE UNCHANGED <<regVars, workVars>>
  BY <1>4 DEF regVars, workVars, Typing, EntOK, BatchOK, ReqOK, LeftOK, WorkOK, PlansInv
<1>5. QED
  BY <1>1, <1>2, <1>3, <1>4 DEF Next, vars

\* Every state is of its type, and the plan of a commit under way is the one it
\* made on what it has seen.
THEOREM AlwaysTyped == GenSpec => []Typing
<1>1. QED
  BY InitTyping, NextTyping, PTL DEF GenSpec

\* The types of the register and of the generator's rows.
THEOREM TypeCorrect == GenSpec => []GenTypeOK
<1>1. Typing => GenTypeOK
  BY Parts DEF Typing
<1>2. QED
  BY <1>1, AlwaysTyped, PTL

(***************************************************************************)
(* Starts that were under way together.                                    *)
(***************************************************************************)
Starting == {p \in Procs : req[p].op = "start"}
Numbers == {i.of : i \in inst}
\* A start that has read no instance is still under way, or has left its own.
StartsInv ==
    /\ IsFiniteSet(Numbers) /\ IsFiniteSet(Starting)
    /\ Cardinality(Numbers) + Cardinality(Starting) <= Cardinality(Procs)

LEMMA NumbersShrink == ASSUME inst' \subseteq inst PROVE Numbers' \subseteq Numbers
  BY DEF Numbers

LEMMA StartsShrink ==
    ASSUME StartsInv, Numbers' \subseteq Numbers, Starting' \subseteq Starting
    PROVE  StartsInv'
<1>1. /\ IsFiniteSet(Numbers') /\ Cardinality(Numbers') <= Cardinality(Numbers)
      /\ IsFiniteSet(Starting') /\ Cardinality(Starting') <= Cardinality(Starting)
  BY FS_Subset DEF StartsInv
<1>2. Cardinality(Numbers) \in Nat /\ Cardinality(Numbers') \in Nat /\ Cardinality(Starting) \in Nat
      /\ Cardinality(Starting') \in Nat /\ Cardinality(Procs) \in Nat
  BY <1>1, FS_CardinalityType, Apart DEF StartsInv
<1>3. QED
  BY <1>1, <1>2 DEF StartsInv

\* CountByWorkflow found none: all that can be there is under way.
LEMMA StartLetIn == ASSUME inst = {}, inst' = inst PROVE StartsInv'
<1>1. IsFiniteSet(Procs) /\ Starting' \subseteq Procs
  BY Apart DEF Starting
<1>2. IsFiniteSet(Starting') /\ Cardinality(Starting') <= Cardinality(Procs)
  BY <1>1, FS_Subset
<1>3. Numbers' = {}
  BY DEF Numbers
<1>4. IsFiniteSet(Numbers') /\ Cardinality(Numbers') = 0
  BY <1>3, FS_EmptySet
<1>5. Cardinality(Starting') \in Nat /\ Cardinality(Procs) \in Nat
  BY <1>1, <1>2, FS_CardinalityType
<1>6. QED
  BY <1>2, <1>4, <1>5 DEF StartsInv

LEMMA OneMore ==
    ASSUME NEW S, IsFiniteSet(S), NEW x
    PROVE  IsFiniteSet(S \cup {x}) /\ Cardinality(S \cup {x}) <= Cardinality(S) + 1
<1>1. Cardinality(S) \in Nat
  BY FS_CardinalityType
<1>2. /\ IsFiniteSet(S \cup {x})
      /\ Cardinality(S \cup {x}) = IF x \in S THEN Cardinality(S) ELSE Cardinality(S) + 1
  BY FS_AddElement
<1>3. QED
  BY <1>1, <1>2

\* A start that writes is no longer under way.
LEMMA StartWritten ==
    ASSUME StartsInv, NEW p \in Starting, Starting' \subseteq Starting \ {p},
           NEW n, Numbers' \subseteq Numbers \cup {n}
    PROVE  StartsInv'
<1>1. /\ IsFiniteSet(Starting \ {p}) /\ Cardinality(Starting \ {p}) = Cardinality(Starting) - 1
  BY FS_RemoveElement DEF StartsInv
<1>2. IsFiniteSet(Starting') /\ Cardinality(Starting') <= Cardinality(Starting \ {p})
  BY <1>1, FS_Subset
<1>3. IsFiniteSet(Numbers \cup {n}) /\ Cardinality(Numbers \cup {n}) <= Cardinality(Numbers) + 1
  BY OneMore DEF StartsInv
<1>4. IsFiniteSet(Numbers') /\ Cardinality(Numbers') <= Cardinality(Numbers \cup {n})
  BY <1>3, FS_Subset
<1>5. Cardinality(Numbers) \in Nat /\ Cardinality(Numbers') \in Nat /\ Cardinality(Starting) \in Nat
      /\ Cardinality(Starting') \in Nat /\ Cardinality(Procs) \in Nat /\ Cardinality(Numbers \cup {n}) \in Nat
  BY <1>2, <1>3, <1>4, FS_CardinalityType, Apart DEF StartsInv
<1>6. QED
  BY <1>1, <1>2, <1>3, <1>4, <1>5 DEF StartsInv

LEMMA StartingCarried == ASSUME \A q \in Procs : Carries(q) PROVE Starting' \subseteq Starting
  BY DEF Carries, Starting

LEMMA WrittenShrinks == ASSUME ReqOK, NEW p \in Procs, EndsHavingWritten(p) PROVE Starting' \subseteq Starting \ {p}
<1>1. \A q \in Procs : Carries(q)
  BY WrittenRequests
<1>2. \A q \in Procs : req'[q].op = "start" => q # p
  BY WrittenRequests
<1>3. QED
  BY <1>1, <1>2, StartingCarried DEF Starting

\* A start under way goes on as it was, and what it has read stands unless it is late.
StartCarries(q) ==
    req'[q].op = "start" =>
       /\ req[q].op = "start" /\ req'[q].seen = req[q].seen /\ req'[q].plan = req[q].plan
       /\ \/ req'[q].late = TRUE
          \/ req'[q].late = req[q].late /\ UNCHANGED <<ent, tmpl>>

LEMMA WrittenStarts == ASSUME ReqOK, NEW p \in Procs, EndsHavingWritten(p) PROVE \A q \in Procs : StartCarries(q)
<1>1. ASSUME NEW q \in Procs, req'[q].op = "start"
      PROVE  /\ req[q].op = "start" /\ req'[q].seen = req[q].seen /\ req'[q].plan = req[q].plan
             /\ req'[q].late = TRUE
  <2>1. Carries(q) /\ req'[q].late = TRUE
    BY <1>1, WrittenRequests
  <2>2. QED
    BY <1>1, <2>1 DEF Carries
<1>2. QED
  BY <1>1 DEF StartCarries

\* One request moves, and it is no start, before or after.
LEMMA OthersStarts ==
    ASSUME NEW p \in Procs, req'[p].op # "start", \A q \in Procs \ {p} : req'[q] = req[q], UNCHANGED <<ent, tmpl>>
    PROVE  \A q \in Procs : StartCarries(q)
<1>1. ASSUME NEW q \in Procs, req'[q].op = "start" PROVE req'[q] = req[q]
  BY <1>1
<1>2. QED
  BY <1>1 DEF StartCarries

LEMMA RegisterStarts ==
    ASSUME Typing, NEW p \in Procs,
           \/ Erase(p)
           \/ UNCHANGED tmpl /\ (Edit(p) \/ Import(p) \/ Insert(p) \/ Overwrite(p) \/ Apply(p) \/ RollBack(p))
    PROVE  \A q \in Procs : StartCarries(q)
<1> USE DEF Typing
<1>1. CASE EndsHavingWritten(p)
  BY <1>1, WrittenStarts
<1>2. CASE Erase(p) \/ Insert(p) \/ Overwrite(p) \/ Apply(p)
  BY <1>1, <1>2 DEF Erase, Insert, Overwrite, Apply
<1>3. CASE UNCHANGED tmpl /\ Edit(p)
  <2>1. PICK new \in AllRequests : req' = [req EXCEPT ![p] = new] /\ new.op \notin {"commit", "start"}
    BY <1>3, EditLoads
  <2>2. req'[p] = new /\ \A q \in Procs \ {p} : req'[q] = req[q]
    BY <2>1, LoadedRequests
  <2>3. UNCHANGED ent
    BY <1>3, EditLoads
  <2>4. QED
    BY <1>3, <2>1, <2>2, <2>3, OthersStarts
<1>4. CASE UNCHANGED tmpl /\ Import(p)
  <2>1. PICK b \in Batches, who \in Callers : Claim(p, b, who)
    BY <1>4 DEF Import
  <2>2. req'[p].op = "commit" /\ UNCHANGED ent /\ \A q \in Procs \ {p} : req'[q] = req[q]
    BY <2>1, ClaimTyping
  <2>3. QED
    BY <1>4, <2>2, OthersStarts
<1>5. CASE UNCHANGED tmpl /\ RollBack(p)
  <2>1. req'[p].op = "idle" /\ UNCHANGED ent /\ \A q \in Procs \ {p} : req'[q] = req[q]
    BY <1>5, RollBackTyping
  <2>2. QED
    BY <1>5, <2>1, OthersStarts
<1>6. QED
  BY <1>2, <1>3, <1>4, <1>5

\* A start is let in by p.
LetIn(p) ==
    \E new \in AllRequests :
       /\ req' = [req EXCEPT ![p] = new] /\ new.op = "start" /\ new.plan = {} /\ inst = {}
       /\ UNCHANGED <<ent, workVars>>

\* What a step may do with the starts.
LEMMA StartSteps ==
    ASSUME Typing, [Next]_vars
    PROVE  \/ (\A q \in Procs : StartCarries(q)) /\ inst' \subseteq inst /\ UNCHANGED starts
           \/ \E p \in Procs : LetIn(p) \/ PlanStart(p) \/ WriteStart(p)
<1> DEFINE Calm == (\A q \in Procs : StartCarries(q)) /\ inst' \subseteq inst /\ UNCHANGED starts
<1>1. CASE Registering /\ UNCHANGED <<workVars, asked>>
  <2>1. inst' = inst /\ UNCHANGED <<tmpl, starts>>
    BY <1>1 DEF workVars
  <2>2. CASE Upload
    <3>1. UNCHANGED <<ent, req>>
      BY <2>2 DEF Upload, Validate
    <3>2. QED
      BY <2>1, <3>1 DEF StartCarries
  <2>3. CASE \E p \in Procs : Edit(p) \/ Import(p) \/ Insert(p) \/ Overwrite(p) \/ Apply(p) \/ RollBack(p)
    BY <2>1, <2>3, RegisterStarts
  <2>4. QED
    BY <1>1, <2>2, <2>3 DEF Registering
<1>2. CASE \E p \in Procs : EraseWithWork(p)
  <2>1. PICK p \in Procs : Erase(p) /\ UNCHANGED starts /\ (Removed \/ UNCHANGED <<wf, tmpl, inst>>)
    BY <1>2 DEF EraseWithWork
  <2>2. inst' \subseteq inst
    BY <2>1 DEF Removed
  <2>3. QED
    BY <2>1, <2>2, RegisterStarts
<1>3. CASE \E p \in Procs : Work(p)
  <2>1. PICK p \in Procs : Work(p)
    BY <1>3
  <2>2. CASE Free(p) /\ \E who \in Callers : LoadStart(p, who) \/ LoadWork(p, who)
    <3>1. UNCHANGED <<ent, batch, workVars>>
      BY <2>2, WorkLoads DEF Typing
    <3>2. PICK new \in AllRequests :
             /\ req' = [req EXCEPT ![p] = new] /\ new.op # "commit"
             /\ new.op = "start" => inst = {} /\ new.plan = {}
      BY <2>2, WorkLoads DEF Typing
    <3>3. CASE new.op = "start"
      BY <3>1, <3>2, <3>3 DEF LetIn
    <3>4. CASE new.op # "start"
      <4>1. req'[p] = new /\ \A q \in Procs \ {p} : req'[q] = req[q]
        BY <3>2, LoadedRequests DEF Typing
      <4>2. QED
        BY <3>1, <3>4, <4>1, OthersStarts DEF workVars
    <3>5. QED
      BY <3>3, <3>4
  <2>3. CASE Rewrite(p) \/ RemoveWork(p) \/ AddStep(p) \/ DropStep(p)
    <3>1. EndsHavingWritten(p) /\ inst' \subseteq inst /\ UNCHANGED starts
      BY <2>3 DEF Rewrite, RemoveWork, AddStep, DropStep, Removed
    <3>2. QED
      BY <3>1, WrittenStarts DEF Typing
  <2>4. QED
    BY <2>1, <2>2, <2>3 DEF Work
<1>4. CASE UNCHANGED <<regVars, workVars>>
  BY <1>4 DEF regVars, workVars, StartCarries
<1>5. QED
  BY <1>1, <1>2, <1>3, <1>4 DEF Next, vars

LEMMA NextStarts == Typing /\ StartsInv /\ [Next]_vars => StartsInv'
<1> SUFFICES ASSUME Typing, StartsInv, [Next]_vars PROVE StartsInv'
  OBVIOUS
<1>1. CASE (\A q \in Procs : StartCarries(q)) /\ inst' \subseteq inst
  <2>1. Starting' \subseteq Starting
    BY <1>1 DEF StartCarries, Starting
  <2>2. QED
    BY <1>1, <2>1, NumbersShrink, StartsShrink
<1>2. CASE \E p \in Procs : LetIn(p)
  BY <1>2, StartLetIn DEF LetIn, workVars
<1>3. CASE \E p \in Procs : PlanStart(p)
  <2>1. PICK p \in Procs : PlanStart(p)
    BY <1>3
  <2>2. req[p].op = "start" /\ inst' = inst
    BY <2>1 DEF PlanStart, workVars
  <2>3. PICK new \in AllRequests : req' = [req EXCEPT ![p] = new] /\ new.op = "start"
    BY <2>1, PlanStartTypes DEF Typing
  <2>4. \A q \in Procs \ {p} : req'[q] = req[q]
    BY <2>3, LoadedRequests DEF Typing
  <2>5. Starting' \subseteq Starting
    BY <2>2, <2>4 DEF Starting
  <2>6. QED
    BY <2>2, <2>5, NumbersShrink, StartsShrink
<1>4. CASE \E p \in Procs : WriteStart(p)
  <2>1. PICK p \in Procs : WriteStart(p)
    BY <1>4
  <2>2. p \in Starting /\ EndsHavingWritten(p)
    BY <2>1 DEF WriteStart, Starting
  <2>3. Starting' \subseteq Starting \ {p}
    BY <2>2, WrittenShrinks DEF Typing
  <2>4. inst' = inst \cup {[of |-> starts', plan |-> i] : i \in req[p].plan}
    BY <2>1 DEF WriteStart
  <2>5. Numbers' \subseteq Numbers \cup {starts'}
    BY <2>4 DEF Numbers
  <2>6. QED
    BY <2>2, <2>3, <2>5, StartWritten
<1>5. QED
  BY <1>1, <1>2, <1>3, <1>4, StartSteps

\* CountByWorkflow: the instances there are come from at most as many starts as
\* there are requests under way at once.
THEOREM StartsAlwaysCoexist == GenSpec => []StartsCoexist
<1>1. GenInit => StartsInv
  <2> SUFFICES ASSUME GenInit PROVE StartsInv
    OBVIOUS
  <2>1. Numbers = {} /\ Starting = {}
    BY DEF GenInit, Init, Numbers, Starting, Idle
  <2>2. IsFiniteSet({}) /\ Cardinality({}) = 0
    BY FS_EmptySet
  <2>3. Cardinality(Procs) \in Nat
    BY FS_CardinalityType, Apart
  <2>4. QED
    BY <2>1, <2>2, <2>3 DEF StartsInv
<1>2. Typing /\ StartsInv => StartsCoexist
  <2>1. StartsInv => Cardinality(Numbers) \in Nat /\ Cardinality(Starting) \in Nat /\ Cardinality(Procs) \in Nat
    BY FS_CardinalityType, Apart DEF StartsInv
  <2>2. QED
    BY <2>1 DEF StartsInv, StartsCoexist, Numbers
<1>3. QED
  BY <1>1, <1>2, AlwaysTyped, NextStarts, PTL DEF GenSpec

(***************************************************************************)
(* What a start writes.                                                    *)
(***************************************************************************)
\* What a start has planned is dated by the workflow it has read, and is all
\* there is to plan until somebody else writes.
PlannedAsRead(r) ==
    r.op = "start" =>
       /\ \A i \in r.plan : i.filing = FilingDeadline(i.end, r.seen.rule)
       /\ r.plan # {} /\ r.late = FALSE => r.plan = Planned(r.seen, ent[r.seen.entity].data, Steps)
DatedInv == \A p \in Procs : PlannedAsRead(req[p])

LEMMA PlannedDates ==
    ASSUME NEW w, NEW d, NEW S, NEW i \in Planned(w, d, S)
    PROVE  i.filing = FilingDeadline(i.end, w.rule)
  BY DEF Planned

LEMMA DatesCarried ==
    ASSUME DatedInv, NEW q \in Procs, StartCarries(q)
    PROVE  PlannedAsRead(req[q])'
<1> SUFFICES ASSUME req'[q].op = "start"
             PROVE  /\ \A i \in req'[q].plan : i.filing = FilingDeadline(i.end, req'[q].seen.rule)
                    /\ req'[q].plan # {} /\ req'[q].late = FALSE =>
                          req'[q].plan = Planned(req'[q].seen, ent'[req'[q].seen.entity].data, Steps')
  BY DEF PlannedAsRead
<1>1. /\ req[q].op = "start" /\ req'[q].seen = req[q].seen /\ req'[q].plan = req[q].plan
      /\ \/ req'[q].late = TRUE
         \/ req'[q].late = req[q].late /\ UNCHANGED <<ent, tmpl>>
  BY DEF StartCarries
<1>2. /\ \A i \in req[q].plan : i.filing = FilingDeadline(i.end, req[q].seen.rule)
      /\ req[q].plan # {} /\ req[q].late = FALSE =>
            req[q].plan = Planned(req[q].seen, ent[req[q].seen.entity].data, Steps)
  BY <1>1 DEF DatedInv, PlannedAsRead
<1>3. UNCHANGED tmpl => Steps' = Steps
  BY DEF Steps
<1>4. QED
  BY <1>1, <1>2, <1>3

LEMMA NextDates == Typing /\ DatedInv /\ [Next]_vars => DatedInv'
<1> SUFFICES ASSUME Typing, DatedInv, [Next]_vars, NEW q \in Procs PROVE PlannedAsRead(req[q])'
  BY DEF DatedInv
<1>1. CASE StartCarries(q)
  BY <1>1, DatesCarried
<1>2. ASSUME NEW p \in Procs, NEW new \in AllRequests, req' = [req EXCEPT ![p] = new], UNCHANGED <<ent, tmpl>>,
             PlannedAsRead(new)
      PROVE  PlannedAsRead(req[q])'
  <2>1. req'[p] = new /\ (q # p => req'[q] = req[q])
    BY <1>2, LoadedRequests DEF Typing
  <2>2. Steps' = Steps
    BY <1>2 DEF Steps
  <2>3. CASE q = p
    BY <1>2, <2>1, <2>2, <2>3 DEF PlannedAsRead
  <2>4. CASE q # p
    <3>1. StartCarries(q)
      BY <1>2, <2>1, <2>4 DEF StartCarries
    <3>2. QED
      BY <3>1, DatesCarried
  <2>5. QED
    BY <2>3, <2>4
<1>3. CASE \E p \in Procs : LetIn(p)
  <2>1. PICK p \in Procs, new \in AllRequests :
            req' = [req EXCEPT ![p] = new] /\ new.plan = {} /\ UNCHANGED <<ent, workVars>>
    BY <1>3 DEF LetIn
  <2>2. PlannedAsRead(new)
    BY <2>1 DEF PlannedAsRead
  <2>3. QED
    BY <1>2, <2>1, <2>2 DEF workVars
<1>4. CASE \E p \in Procs : PlanStart(p)
  <2>1. PICK p \in Procs : PlanStart(p)
    BY <1>4
  <2>2. PICK new \in AllRequests :
            /\ req' = [req EXCEPT ![p] = new] /\ new.seen = req[p].seen
            /\ new.plan = Planned(req[p].seen, ent[req[p].seen.entity].data, Steps)
    BY <2>1, PlanStartTypes DEF Typing
  <2>3. PlannedAsRead(new)
    BY <2>2, PlannedDates DEF PlannedAsRead
  <2>4. UNCHANGED <<ent, tmpl>>
    BY <2>1 DEF PlanStart, workVars
  <2>5. QED
    BY <1>2, <2>2, <2>3, <2>4
<1>5. CASE \E p \in Procs : WriteStart(p)
  <2>1. PICK p \in Procs : EndsHavingWritten(p)
    BY <1>5 DEF WriteStart
  <2>2. QED
    BY <1>1, <2>1, WrittenStarts DEF Typing
<1>6. QED
  BY <1>1, <1>3, <1>4, <1>5, StartSteps

\* The instances a start writes are those it has planned.
LEMMA NewInstances ==
    ASSUME WorkOK, NEW p \in Procs, WriteStart(p)
    PROVE  {i.plan : i \in inst' \ inst} = req[p].plan
<1>1. inst' = inst \cup {[of |-> starts', plan |-> i] : i \in req[p].plan} /\ starts' = starts + 1
  BY DEF WriteStart
<1>2. starts \in Nat /\ \A i \in inst : i.of \in 1 .. starts
  BY DEF WorkOK
<1>3. \A i : [of |-> starts', plan |-> i] \notin inst
  BY <1>1, <1>2
<1>4. inst' \ inst = {[of |-> starts', plan |-> i] : i \in req[p].plan}
  BY <1>1, <1>3
<1>5. ASSUME NEW x \in req[p].plan PROVE \E i \in inst' \ inst : i.plan = x
  <2>1. [of |-> starts', plan |-> x] \in inst' \ inst /\ [of |-> starts', plan |-> x].plan = x
    BY <1>4
  <2>2. QED
    BY <2>1
<1>6. ASSUME NEW i \in inst' \ inst PROVE i.plan \in req[p].plan
  BY <1>4, <1>6
<1>7. QED
  BY <1>5, <1>6

LEMMA StartKeepsItsPlan ==
    ASSUME Typing, DatedInv, [Next]_vars, NEW p \in Procs
    PROVE  StartedAsPlanned(p)
<1> DEFINE new == {i.plan : i \in inst' \ inst}
<1> SUFFICES ASSUME req[p] # Idle, req[p].op = "start", starts' # starts, req'[p] = Idle
             PROVE  /\ wf'.status = "active"
                    /\ \A i \in new : i.filing = FilingDeadline(i.end, wf'.rule)
                    /\ ~req[p].late => new = Planned(wf', ent[wf'.entity].data, Steps)
  BY DEF StartedAsPlanned
<1>1. PICK q \in Procs : WriteStart(q)
  BY StartSteps DEF LetIn, PlanStart, workVars
<1>2. q = p
  <2> SUFFICES ASSUME q # p PROVE FALSE
    OBVIOUS
  <2>1. req'[p] = [req[p] EXCEPT !.late = TRUE] /\ req[p] \in AllRequests
    BY <1>1 DEF WriteStart, EndsHavingWritten, Typing, ReqOK
  <2>2. PICK r, s : r \in AllRequests /\ r = req[p] /\ s = req'[p] /\ s = [r EXCEPT !.late = TRUE]
    BY <2>1
  <2>3. s.op = "start"
    BY <2>2, Belated
  <2>4. QED
    BY <2>2, <2>3 DEF Idle
<1>3. new = req[p].plan /\ req[p].plan # {}
  BY <1>1, <1>2, NewInstances DEF Typing, WriteStart
<1>4. req[p].seen \in Workflows /\ req[p].late \in BOOLEAN
  BY RequestForm DEF Typing, ReqOK
<1>5. wf'.status = "active" /\ wf'.rule = req[p].seen.rule /\ wf'.entity = req[p].seen.entity
  BY <1>1, <1>2, <1>4 DEF WriteStart, Activated, Workflows
<1>6. PlannedAsRead(req[p])
  BY DEF DatedInv
<1>7. /\ \A i \in req[p].plan : i.filing = FilingDeadline(i.end, req[p].seen.rule)
      /\ ~req[p].late => req[p].plan = Planned(req[p].seen, ent[req[p].seen.entity].data, Steps)
  BY <1>3, <1>4, <1>6 DEF PlannedAsRead
<1>8. \A d, S : Planned(wf', d, S) = Planned(req[p].seen, d, S)
  BY <1>5 DEF Planned
<1> HIDE DEF new
<1>9. QED
  BY <1>3, <1>5, <1>7, <1>8

\* "What preview shows is exactly what start persists", by the rule the workflow
\* becomes active with (planRecurring, activatedInput).
THEOREM StartsFollowThePlan == GenSpec => StartsAsPlanned
<1>1. GenInit => DatedInv
  BY DEF GenInit, Init, DatedInv, PlannedAsRead, Idle
<1>2. Typing /\ DatedInv /\ [Next]_vars => [\A p \in Procs : StartedAsPlanned(p)]_vars
  BY StartKeepsItsPlan
<1>3. QED
  BY <1>1, <1>2, AlwaysTyped, NextDates, PTL DEF GenSpec, StartsAsPlanned

(***************************************************************************)
(* What a commit writes over.                                              *)
(***************************************************************************)
\* What can have become of an entity a batch is to change, and has shown, while
\* its version stood.
AsShown(b) ==
    batch[b] # NoBatch =>
       /\ DOMAIN batch[b].shown = Targets(batch[b].plan)
       /\ batch[b].status = "validated" => \A k \in DOMAIN batch[b].plan : batch[b].plan[k].act # "invalid"
       /\ \A i \in DOMAIN batch[b].shown \ batch[b].touched :
             ent[i] \in {batch[b].shown[i], [batch[b].shown[i] EXCEPT !.parent = None], Dead}
ShownInv == \A b \in Batches : AsShown(b)

\* What a step does to an entity, and whether the batch c hears of it.
Moves(i, c) ==
    \/ ent'[i] \in {ent[i], Dead}
    \/ ent[i] = Unborn
    \/ ent[i] \in Entities /\ ent'[i] = [ent[i] EXCEPT !.parent = None]
    \/ i \in batch'[c].touched

LEMMA ShownForm ==
    ASSUME NEW r \in BatchRecords
    PROVE  DOMAIN r.shown \subseteq Ids /\ \A i \in DOMAIN r.shown : r.shown[i] \in Entities
<1>1. r.shown \in UNION {[S -> Entities] : S \in SUBSET Ids}
  BY DEF BatchRecords
<1>2. PICK S \in SUBSET Ids : r.shown \in [S -> Entities]
  BY <1>1
<1>3. QED
  BY <1>2

LEMMA ShownKept ==
    ASSUME NEW c \in Batches, batch[c] # NoBatch, batch[c] \in BatchRecords, AsShown(c), Keeps(c),
           \A i \in Ids : Moves(i, c)
    PROVE  AsShown(c)'
<1>1. /\ batch'[c].plan = batch[c].plan /\ batch'[c].shown = batch[c].shown
      /\ batch[c].touched \subseteq batch'[c].touched
      /\ batch'[c].status \in {batch[c].status, "committed"}
  BY DEF Keeps
<1>a. batch'[c].status = "validated" => \A k \in DOMAIN batch'[c].plan : batch'[c].plan[k].act # "invalid"
  BY <1>1 DEF AsShown
<1>2. Targets(batch'[c].plan) = DOMAIN batch'[c].shown
  BY <1>1 DEF AsShown
<1>3. ASSUME NEW i \in DOMAIN batch[c].shown, i \notin batch'[c].touched
      PROVE  ent'[i] \in {batch[c].shown[i], [batch[c].shown[i] EXCEPT !.parent = None], Dead}
  <2>1. i \in Ids /\ batch[c].shown[i] \in Entities
    BY <1>3, ShownForm
  <2>2. PICK e, x : e = batch[c].shown[i] /\ x = [e EXCEPT !.parent = None]
    OBVIOUS
  <2>3. e \in Entities /\ x \in Entities /\ [x EXCEPT !.parent = None] = x
    BY <2>1, <2>2, Parted
  <2>4. ent[i] \in {e, x, Dead}
    BY <1>1, <1>3, <2>2 DEF AsShown
  <2>5. Moves(i, c)
    BY <2>1
  <2>6. ent'[i] \in {e, x, Dead}
    BY <1>3, <2>2, <2>3, <2>4, <2>5, Apart DEF Moves
  <2>7. QED
    BY <2>2, <2>6
<1>4. QED
  BY <1>1, <1>2, <1>3, <1>a DEF AsShown

\* A batch that waits is committed by the request that has claimed it, and by no
\* other; what else is done to what it has shown, it hears of.
LEMMA ApplyMoves ==
    ASSUME Typing, NEW p \in Procs, Apply(p), NEW c \in Batches, batch[c] # NoBatch
    PROVE  /\ Keeps(c) /\ \A i \in Ids : Moves(i, c)
           /\ c = req[p].batch \/ batch'[c].status = batch[c].status
<1>1. PICK b, F, T, plan, ids : Applied(p, b, F, T, plan, ids)
  BY ApplyForm DEF Typing
<1>2. /\ b \in Batches /\ F \in Files /\ T \in Tables /\ b = req[p].batch /\ batch[b] # NoBatch
      /\ plan = Plan(F, T, req[p].who)
      /\ batch' = [Touch(Targets(plan)) EXCEPT ![b].status = "committed"]
      /\ \A i \in Ids : ent'[i] = ent[i] \/ \E k \in Rows(F) : Lands(F, T, plan, ids, k, i)
  BY <1>1 DEF Applied
<1>3. Targets(plan) \in SUBSET Ids
  BY <1>2, TargetsPlanned
<1>4. /\ Keeps(c)
      /\ c # b => batch'[c].status = batch[c].status
      /\ batch'[c].touched = batch[c].touched \cup Targets(plan)
  <2>1. BatchOK
    BY DEF Typing
  <2>2. OneCommitted(b, Targets(plan))
    BY <1>2, <1>3 DEF OneCommitted
  <2>3. QED
    BY <2>1, <2>2, CommittedBatches
<1>5. ASSUME NEW i \in Ids PROVE Moves(i, c)
  BY <1>2, <1>4 DEF Moves, Lands
<1>6. QED
  BY <1>2, <1>4, <1>5

LEMMA NextMoves ==
    ASSUME Typing, [Next]_vars, NEW c \in Batches, batch[c] # NoBatch
    PROVE  /\ Keeps(c) /\ \A i \in Ids : Moves(i, c)
           /\ \/ batch'[c].status = batch[c].status
              \/ \E p \in Procs : Apply(p) /\ c = req[p].batch
<1> USE DEF Typing
<1>1. ASSUME UNCHANGED batch, \A i \in Ids : Moves(i, c)
      PROVE  /\ Keeps(c) /\ \A i \in Ids : Moves(i, c)
             /\ batch'[c].status = batch[c].status
  BY <1>1 DEF Keeps
<1>2. ASSUME UNCHANGED ent PROVE \A i \in Ids : Moves(i, c)
  BY <1>2 DEF Moves
<1>3. CASE Registering /\ UNCHANGED <<workVars, asked>>
  <2>1. CASE Upload
    <3>1. PICK b \in Batches, who \in Callers, F \in Files : Validate(b, who, F)
      BY <2>1 DEF Upload
    <3>2. batch'[c] = batch[c] /\ Keeps(c)
      BY <3>1, ValidateTypes
    <3>3. UNCHANGED ent
      BY <3>1 DEF Validate
    <3>4. QED
      BY <1>2, <3>2, <3>3
  <2>2. CASE \E p \in Procs : Edit(p) \/ Import(p) \/ RollBack(p)
    <3>1. UNCHANGED <<ent, batch>>
      BY <2>2, EditLoads, ClaimTyping DEF Import, RollBack
    <3>2. QED
      BY <1>1, <1>2, <3>1
  <2>3. CASE \E p \in Procs : Insert(p)
    <3>1. UNCHANGED batch /\ \A i \in Ids : Moves(i, c)
      BY <2>3 DEF Insert, Moves, EntOK, Tables
    <3>2. QED
      BY <1>1, <3>1
  <2>4. CASE \E p \in Procs : Overwrite(p)
    <3>1. PICK p \in Procs : Overwrite(p)
      BY <2>4
    <3>2. PICK i \in Ids : i = req[p].id
      BY <3>1, EditForm DEF Overwrite, ReqOK
    <3>3. ent' = [ent EXCEPT ![i] = req[p].row] /\ batch' = Touch({i})
      BY <3>1, <3>2 DEF Overwrite
    <3>4. /\ batch'[c] # NoBatch /\ batch'[c].status = batch[c].status
          /\ batch'[c].touched = batch[c].touched \cup {i} /\ Keeps(c)
      BY <3>3, TouchedBatches DEF Keeps
    <3>5. \A j \in Ids : Moves(j, c)
      BY <3>3, <3>4 DEF Moves, EntOK, Tables
    <3>6. QED
      BY <3>4, <3>5
  <2>5. CASE \E p \in Procs : Apply(p)
    BY <2>5, ApplyMoves
  <2>6. QED
    BY <1>3, <2>1, <2>2, <2>3, <2>4, <2>5 DEF Registering
<1>4. CASE \E p \in Procs : EraseWithWork(p)
  <2>1. PICK p \in Procs : Erase(p)
    BY <1>4 DEF EraseWithWork
  <2>2. UNCHANGED batch /\ \A i \in Ids : Moves(i, c)
    BY <2>1, EraseForm DEF Erase, Moves
  <2>3. QED
    BY <1>1, <2>2
<1>5. CASE \E p \in Procs : Work(p)
  BY <1>1, <1>2, <1>5, WorkTyping
<1>6. CASE UNCHANGED <<regVars, workVars>>
  BY <1>1, <1>2, <1>6 DEF regVars
<1>7. QED
  BY <1>3, <1>4, <1>5, <1>6 DEF Next, vars

\* A batch begins with what the dry run shows.
LEMMA NewBatches ==
    ASSUME Typing, [Next]_vars, NEW c \in Batches, batch[c] = NoBatch
    PROVE  AsShown(c)'
<1> USE DEF Typing
<1>1. ASSUME UNCHANGED batch PROVE AsShown(c)'
  BY <1>1 DEF AsShown
<1>2. CASE Registering /\ UNCHANGED <<workVars, asked>>
  <2>1. CASE Upload
    <3>1. PICK b \in Batches, who \in Callers, F \in Files : Validate(b, who, F)
      BY <2>1 DEF Upload
    <3>2. /\ \A x \in Batches \ {b} : batch'[x] = batch[x]
          /\ batch'[b].status = "validated" =>
                \A k \in DOMAIN batch'[b].plan : batch'[b].plan[k].act # "invalid"
          /\ DOMAIN batch'[b].shown = Targets(batch'[b].plan)
          /\ \A i \in DOMAIN batch'[b].shown : batch'[b].shown[i] = ent[i]
      BY <3>1, ValidateTypes
    <3>3. UNCHANGED ent
      BY <3>1 DEF Validate
    <3>4. QED
      BY <3>2, <3>3 DEF AsShown
  <2>2. CASE \E p \in Procs : Edit(p) \/ Import(p) \/ RollBack(p) \/ Insert(p)
    <3>1. UNCHANGED batch
      BY <2>2, EditLoads, ClaimTyping DEF Import, RollBack, Insert
    <3>2. QED
      BY <1>1, <3>1
  <2>3. CASE \E p \in Procs : Overwrite(p)
    <3>1. PICK p \in Procs : Overwrite(p)
      BY <2>3
    <3>2. batch'[c] = NoBatch
      BY <3>1 DEF Overwrite, Touch
    <3>3. QED
      BY <3>2 DEF AsShown
  <2>4. CASE \E p \in Procs : Apply(p)
    <3>1. PICK p \in Procs : Apply(p)
      BY <2>4
    <3>2. PICK b, F, T, plan, ids : Applied(p, b, F, T, plan, ids)
      BY <3>1, ApplyForm
    <3>3. /\ b \in Batches /\ F \in Files /\ T \in Tables /\ batch[b] # NoBatch
          /\ plan = Plan(F, T, req[p].who)
          /\ batch' = [Touch(Targets(plan)) EXCEPT ![b].status = "committed"]
      BY <3>2 DEF Applied
    <3>4. Targets(plan) \in SUBSET Ids
      BY <3>3, TargetsPlanned
    <3>5. batch'[c] = NoBatch
      <4>1. OneCommitted(b, Targets(plan))
        BY <3>3, <3>4 DEF OneCommitted
      <4>2. QED
        BY <4>1, CommittedBatches
    <3>6. QED
      BY <3>5 DEF AsShown
  <2>5. QED
    BY <1>2, <2>1, <2>2, <2>3, <2>4 DEF Registering
<1>3. CASE \E p \in Procs : EraseWithWork(p)
  BY <1>1, <1>3 DEF EraseWithWork, Erase
<1>4. CASE \E p \in Procs : Work(p)
  BY <1>1, <1>4, WorkTyping
<1>5. CASE UNCHANGED <<regVars, workVars>>
  BY <1>1, <1>5 DEF regVars
<1>6. QED
  BY <1>2, <1>3, <1>4, <1>5 DEF Next, vars

LEMMA NextShown == Typing /\ ShownInv /\ [Next]_vars => ShownInv'
<1> SUFFICES ASSUME Typing, ShownInv, [Next]_vars, NEW c \in Batches PROVE AsShown(c)'
  BY DEF ShownInv
<1>1. CASE batch[c] = NoBatch
  BY <1>1, NewBatches
<1>2. CASE batch[c] # NoBatch
  <2>1. Keeps(c) /\ \A i \in Ids : Moves(i, c)
    BY <1>2, NextMoves
  <2>2. batch[c] \in BatchRecords /\ AsShown(c)
    BY <1>2 DEF Typing, BatchOK, ShownInv
  <2>3. QED
    BY <1>2, <2>1, <2>2, ShownKept
<1>3. QED
  BY <1>1, <1>2

LEMMA CommitsAsShown ==
    ASSUME Typing, ShownInv, [Next]_vars, NEW b \in Batches
    PROVE  WritesWhatWasShown(b)
<1> SUFFICES ASSUME Commits(b), NEW i \in DOMAIN batch[b].shown
             PROVE  ent[i] \in {batch[b].shown[i], [batch[b].shown[i] EXCEPT !.parent = None]}
  BY DEF WritesWhatWasShown
<1>1. batch[b] # NoBatch /\ batch'[b].status # batch[b].status
  BY DEF Commits
<1>2. PICK p \in Procs : Apply(p) /\ b = req[p].batch
  BY <1>1, NextMoves
<1>3. \A e \in Targets(batch[b].plan) : Pinned(b, e)
  BY <1>2 DEF Apply
<1>4. AsShown(b)
  BY DEF ShownInv
<1>5. i \in Targets(batch[b].plan)
  BY <1>1, <1>4 DEF AsShown
<1>6. i \in Live(ent) /\ i \notin batch[b].touched
  BY <1>3, <1>5 DEF Pinned
<1>7. ent[i] # Dead
  BY <1>6 DEF Live
<1>8. QED
  BY <1>1, <1>4, <1>6, <1>7 DEF AsShown

\* "Nothing was imported; upload the file again": what a commit writes over is
\* as the dry run showed it (planStillHolds, and UpdateEntity's WHERE).
THEOREM CommitsWriteWhatWasShown == GenSpec => OnlyWhatWasShown
<1>1. GenInit => ShownInv
  BY DEF GenInit, Init, ShownInv, AsShown
<1>2. Typing /\ ShownInv /\ [Next]_vars => [\A b \in Batches : WritesWhatWasShown(b)]_regVars
  BY CommitsAsShown DEF vars
<1>3. QED
  BY <1>1, <1>2, AlwaysTyped, NextShown, PTL DEF GenSpec, OnlyWhatWasShown

(***************************************************************************)
(* No name gets a second bearer from a commit.                             *)
(***************************************************************************)
\* A commit that nobody has overtaken has seen what there is; no two have the
\* same batch.
SeenInv ==
    \A p \in Procs : req[p].op = "commit" =>
       /\ req[p].late = FALSE => req[p].seen = ent
       /\ \A q \in Procs : req[q].op = "commit" /\ req[q].batch = req[p].batch => q = p

CommitCarries(q) ==
    req'[q].op = "commit" =>
       /\ req[q].op = "commit" /\ req'[q].seen = req[q].seen /\ req'[q].batch = req[q].batch
       /\ \/ req'[q].late = TRUE
          \/ req'[q].late = req[q].late /\ UNCHANGED ent

LEMMA WrittenCommits == ASSUME ReqOK, NEW p \in Procs, EndsHavingWritten(p) PROVE \A q \in Procs : CommitCarries(q)
<1>1. ASSUME NEW q \in Procs, req'[q].op = "commit"
      PROVE  /\ req[q].op = "commit" /\ req'[q].seen = req[q].seen /\ req'[q].batch = req[q].batch
             /\ req'[q].late = TRUE
  <2>1. Carries(q) /\ req'[q].late = TRUE
    BY <1>1, WrittenRequests
  <2>2. QED
    BY <1>1, <2>1 DEF Carries
<1>2. QED
  BY <1>1 DEF CommitCarries

LEMMA OthersCommits ==
    ASSUME NEW p \in Procs, req'[p].op # "commit", \A q \in Procs \ {p} : req'[q] = req[q], UNCHANGED ent
    PROVE  \A q \in Procs : CommitCarries(q)
<1>1. ASSUME NEW q \in Procs, req'[q].op = "commit" PROVE req'[q] = req[q]
  BY <1>1
<1>2. QED
  BY <1>1 DEF CommitCarries

LEMMA CommitSteps ==
    ASSUME Typing, [Next]_vars
    PROVE  \/ \A q \in Procs : CommitCarries(q)
           \/ \E p \in Procs, b \in Batches, who \in Callers : Claim(p, b, who)
<1> USE DEF Typing
<1>1. CASE \E p \in Procs : EndsHavingWritten(p)
  BY <1>1, WrittenCommits
<1>2. CASE UNCHANGED <<ent, req>>
  BY <1>2 DEF CommitCarries
<1>3. ASSUME NEW p \in Procs, NEW new \in AllRequests, req' = [req EXCEPT ![p] = new], UNCHANGED ent,
             new.op # "commit"
      PROVE  \A q \in Procs : CommitCarries(q)
  <2>1. req'[p] = new /\ \A q \in Procs \ {p} : req'[q] = req[q]
    BY <1>3, LoadedRequests
  <2>2. QED
    BY <1>3, <2>1, OthersCommits
<1>4. CASE Registering
  <2>1. CASE Upload
    BY <1>2, <2>1 DEF Upload, Validate
  <2>2. CASE \E p \in Procs : Edit(p)
    <3>1. PICK p \in Procs : Edit(p)
      BY <2>2
    <3>2. PICK new \in AllRequests : req' = [req EXCEPT ![p] = new] /\ new.op \notin {"commit", "start"}
      BY <3>1, EditLoads
    <3>3. UNCHANGED ent /\ new.op # "commit"
      BY <3>1, <3>2, EditLoads
    <3>4. QED
      BY <1>3, <3>2, <3>3
  <2>3. CASE \E p \in Procs : Import(p)
    BY <2>3 DEF Import
  <2>4. CASE \E p \in Procs : Insert(p) \/ Overwrite(p) \/ Apply(p)
    BY <1>1, <2>4 DEF Insert, Overwrite, Apply
  <2>5. CASE \E p \in Procs : RollBack(p)
    <3>1. PICK p \in Procs : RollBack(p)
      BY <2>5
    <3>2. req'[p].op = "idle" /\ UNCHANGED ent /\ \A q \in Procs \ {p} : req'[q] = req[q]
      BY <3>1, RollBackTyping
    <3>3. QED
      BY <3>2, OthersCommits
  <2>6. QED
    BY <1>4, <2>1, <2>2, <2>3, <2>4, <2>5 DEF Registering
<1>5. CASE \E p \in Procs : EraseWithWork(p)
  BY <1>1, <1>5 DEF EraseWithWork, Erase
<1>6. CASE \E p \in Procs : Work(p)
  <2>1. PICK p \in Procs : Work(p)
    BY <1>6
  <2>2. CASE Free(p) /\ \E who \in Callers : LoadStart(p, who) \/ LoadWork(p, who)
    <3>1. PICK new \in AllRequests : req' = [req EXCEPT ![p] = new] /\ new.op # "commit"
      BY <2>2, WorkLoads
    <3>2. UNCHANGED ent
      BY <2>2, WorkLoads
    <3>3. QED
      BY <1>3, <3>1, <3>2
  <2>3. CASE PlanStart(p)
    <3>1. PICK new \in AllRequests : req' = [req EXCEPT ![p] = new] /\ new.op = "start"
      BY <2>3, PlanStartTypes
    <3>2. UNCHANGED ent /\ new.op # "commit"
      BY <2>3, <3>1 DEF PlanStart
    <3>3. QED
      BY <1>3, <3>1, <3>2
  <2>4. CASE WriteStart(p) \/ Rewrite(p) \/ RemoveWork(p) \/ AddStep(p) \/ DropStep(p)
    BY <1>1, <2>4 DEF WriteStart, Rewrite, RemoveWork, AddStep, DropStep
  <2>5. QED
    BY <2>1, <2>2, <2>3, <2>4 DEF Work
<1>7. CASE UNCHANGED <<regVars, workVars>>
  BY <1>2, <1>7 DEF regVars
<1>8. QED
  BY <1>4, <1>5, <1>6, <1>7 DEF Next, vars

LEMMA NextSeen == Typing /\ SeenInv /\ [Next]_vars => SeenInv'
<1> SUFFICES ASSUME Typing, SeenInv, [Next]_vars PROVE SeenInv'
  OBVIOUS
<1>1. CASE \A q \in Procs : CommitCarries(q)
  <2>1. ASSUME NEW q \in Procs, req'[q].op = "commit"
        PROVE  /\ req[q].op = "commit" /\ req'[q].batch = req[q].batch
               /\ req'[q].late = FALSE => req'[q].seen = ent'
    BY <1>1, <2>1 DEF CommitCarries, SeenInv
  <2>2. QED
    BY <2>1, ZenonT(120) DEF SeenInv
<1>2. CASE \E p \in Procs, b \in Batches, who \in Callers : Claim(p, b, who)
  <2>1. PICK p \in Procs, b \in Batches, who \in Callers : Claim(p, b, who)
    BY <1>2
  <2>2. /\ UNCHANGED ent /\ \A q \in Procs : req[q].op = "commit" => req[q].batch # b
        /\ \A q \in Procs \ {p} : req'[q] = req[q]
        /\ req'[p].op = "commit" /\ req'[p].batch = b /\ req'[p].seen = ent
    BY <2>1, ClaimTyping DEF Typing
  <2>3. QED
    BY <2>2 DEF SeenInv
<1>3. QED
  BY <1>1, <1>2, CommitSteps

LEMMA Several == ASSUME NEW S, IsFiniteSet(S) PROVE Cardinality(S) > 1 <=> \E x, y \in S : x # y
<1>1. ASSUME NEW x \in S, NEW y \in S, x # y PROVE Cardinality(S) > 1
  <2>1. /\ IsFiniteSet(S \ {x}) /\ Cardinality(S \ {x}) = Cardinality(S) - 1
    BY FS_RemoveElement
  <2>2. y \in S \ {x} /\ Cardinality(S) \in Nat
    BY <1>1, FS_CardinalityType
  <2>3. Cardinality(S \ {x}) \in Nat /\ Cardinality(S \ {x}) # 0
    BY <2>1, <2>2, FS_CardinalityType, FS_EmptySet
  <2>4. QED
    BY <2>1, <2>2, <2>3
<1>2. ASSUME \A x, y \in S : x = y PROVE ~(Cardinality(S) > 1)
  <2>1. CASE S = {}
    BY <2>1, FS_EmptySet
  <2>2. CASE S # {}
    <3>1. PICK x : S = {x}
      BY <1>2, <2>2
    <3>2. QED
      BY <3>1, FS_Singleton
  <2>3. QED
    BY <2>1, <2>2
<1>3. QED
  BY <1>1, <1>2

LEMMA DoubledForm ==
    ASSUME NEW T, NEW n
    PROVE  n \in Doubled(T) <=> n \in Names /\ \E x, y \in Called(T, n) : x # y
<1>1. IsFiniteSet(Called(T, n))
  <2>1. Called(T, n) \subseteq Ids
    BY DEF Called, Live
  <2>2. QED
    BY <2>1, Apart, FS_Subset
<1>2. QED
  BY <1>1, Several DEF Doubled

\* A row finds the one bearer of its name, or there is none; and no other row
\* may have the name.
LEMMA OneBearer ==
    ASSUME NEW F, NEW plan, NEW ids, NEW k, NEW i, Lands(F, ent, plan, ids, k, i),
           NEW n \in Names, n = F.rows[k].name, n \notin Doubled(ent), NEW m \in Called(ent, n)
    PROVE  i = m
<1>1. i \in Called(ent, n)
  BY DEF Lands, Creates
<1>2. QED
  BY <1>1, DoubledForm

LEMMA OneRow ==
    ASSUME NEW F \in Files, NEW T, NEW plan, NEW ids, NEW k \in Rows(F), NEW l \in Rows(F), NEW i, NEW j,
           Lands(F, T, plan, ids, k, i), Lands(F, T, plan, ids, l, j), F.rows[k].name = F.rows[l].name
    PROVE  i = j
<1>1. k <= l /\ l <= k
  BY DEF Lands, Sound, Claims
<1>2. k \in Nat /\ l \in Nat
  BY FileForm
<1>3. k = l
  BY <1>1, <1>2
<1>4. QED
  BY <1>3 DEF Lands

LEMMA CommitsNoDouble ==
    ASSUME Typing, SeenInv, [Next]_vars, NEW p \in Procs
    PROVE  GivesNoDouble(p)
<1> SUFFICES ASSUME req[p].op = "commit", ~req[p].late, Commits(req[p].batch),
                    NEW n \in Doubled(ent'), n \notin Doubled(ent)
             PROVE  FALSE
  BY DEF GivesNoDouble
<1>1. /\ req[p].batch \in Batches /\ req[p].late \in BOOLEAN
  BY CommitForm DEF Typing
<1>2. PICK q \in Procs : Apply(q) /\ req[p].batch = req[q].batch
  BY <1>1, NextMoves DEF Commits
<1>3. q = p /\ req[p].seen = ent
  BY <1>1, <1>2 DEF SeenInv, Apply
<1>4. PICK b, F, T, plan, ids : Applied(p, b, F, T, plan, ids)
  BY <1>2, <1>3, ApplyForm DEF Typing
<1>5. /\ F \in Files /\ T = ent /\ T \in Tables
      /\ \A i \in Ids : ent'[i] = ent[i] \/ \E k \in Rows(F) : Lands(F, T, plan, ids, k, i)
  BY <1>3, <1>4 DEF Applied
<1>6. n \in Names
  BY DoubledForm
<1>7. PICK i, j : i \in Called(ent', n) /\ j \in Called(ent', n) /\ i # j
  BY DoubledForm
<1>8. ASSUME NEW x \in Called(ent', n)
      PROVE  \/ x \in Called(ent, n)
             \/ \E k \in Rows(F) : Lands(F, ent, plan, ids, k, x) /\ F.rows[k].name = n
  <2>1. x \in Ids /\ ent'[x].name = n /\ ent'[x] \notin {Unborn, Dead}
    BY DEF Called, Live
  <2>2. CASE ent'[x] = ent[x]
    BY <2>1, <2>2 DEF Called, Live
  <2>3. CASE \E k \in Rows(F) : Lands(F, ent, plan, ids, k, x)
    BY <1>5, <2>1, <2>3, LandsTyped
  <2>4. QED
    BY <1>5, <2>1, <2>2, <2>3
<1>9. CASE i \in Called(ent, n) /\ j \in Called(ent, n)
  BY <1>6, <1>7, <1>9, DoubledForm
<1>10. ASSUME NEW x, NEW y, x \in Called(ent', n), y \in Called(ent, n), x \notin Called(ent, n) PROVE x = y
  BY <1>6, <1>8, <1>10, OneBearer
<1>11. CASE i \notin Called(ent, n) /\ j \notin Called(ent, n)
  <2>1. PICK k \in Rows(F) : Lands(F, ent, plan, ids, k, i) /\ F.rows[k].name = n
    BY <1>7, <1>8, <1>11
  <2>2. PICK l \in Rows(F) : Lands(F, ent, plan, ids, l, j) /\ F.rows[l].name = n
    BY <1>7, <1>8, <1>11
  <2>3. i = j
    BY <1>5, <2>1, <2>2, OneRow
  <2>4. QED
    BY <1>7, <2>3
<1>12. QED
  BY <1>7, <1>9, <1>10, <1>11

\* No constraint makes names unique: the plan alone keeps a commit from giving
\* one a second bearer, and does unless somebody wrote since (EntitiesByKey).
THEOREM CommitsGiveNoDoubles == GenSpec => NoDoubles
<1>1. GenInit => SeenInv
  BY DEF GenInit, Init, SeenInv, Idle
<1>2. Typing /\ SeenInv /\ [Next]_vars => [\A p \in Procs : GivesNoDouble(p)]_regVars
  BY CommitsNoDouble DEF vars
<1>3. QED
  BY <1>1, <1>2, AlwaysTyped, NextSeen, PTL DEF GenSpec, NoDoubles

(***************************************************************************)
(* A scoped import stays below its root.                                   *)
(***************************************************************************)
\* Of some rows of a file there is a first.
LEMMA FirstOf == ASSUME NEW S \in SUBSET Nat, S # {} PROVE \E k \in S : \A j \in S : k <= j
<1>1. PICK k \in S : \A j \in S : <<j, k>> \notin OpToRel(<, Nat)
  BY WFMin, NatLessThanWellFounded, Zenon
<1>2. \A j \in S : ~(j < k)
  BY <1>1, Zenon DEF OpToRel
<1>3. QED
  BY <1>2

LEMMA RowOfForm ==
    ASSUME NEW F \in Files, NEW n \in NamesOf(F)
    PROVE  RowOf(F, n) \in Rows(F) /\ F.rows[RowOf(F, n)].name = n /\ n \in Names
<1> DEFINE S == {k \in Rows(F) : F.rows[k].name = n}
<1>1. S \in SUBSET Nat /\ S # {}
  BY FileForm DEF NamesOf
<1>2. PICK k \in S : \A j \in S : k <= j
  BY <1>1, FirstOf
<1>3. k \in Rows(F) /\ F.rows[k].name = n /\ Claims(F, k)
  BY <1>2 DEF Claims
<1>4. n \in Names
  BY <1>3, FileForm
<1>5. QED
  BY <1>3, <1>4 DEF RowOf

\* A parent that does not exist, or not as one, is created by its row.
LEMMA CreatedParent ==
    ASSUME NEW F \in Files, NEW T \in Tables, NEW who, NEW plan, plan = Plan(F, T, who),
           \A k \in DOMAIN plan : plan[k].act # "invalid", NEW n \in NamesOf(F), ~Known(T, n)
    PROVE  RowOf(F, n) \in Rows(F) /\ plan[RowOf(F, n)].act = "create"
<1>1. PICK l \in Rows(F) : l = RowOf(F, n) /\ F.rows[l].name = n /\ n \in Names
  BY RowOfForm
<1>2. PICK r : r = plan[l] /\ r = PlanRow(F, T, who, l) /\ r.act # "invalid"
  BY DEF Plan
<1>3. r \in RowPlans /\ Sound(F, T, l) /\ (r.act \in {"update", "unchanged"} => ~Creates(F, T, l))
  BY <1>2, RowPlanned
<1>4. n \notin Doubled(T)
  BY <1>1, <1>3 DEF Sound
<1>5. Called(T, n) = {}
  <2>1. IsFiniteSet(Called(T, n))
    <3>1. Called(T, n) \subseteq Ids
      BY DEF Called, Live
    <3>2. QED
      BY <3>1, Apart, FS_Subset
  <2>2. Cardinality(Called(T, n)) \in Nat /\ Cardinality(Called(T, n)) # 1 /\ ~(Cardinality(Called(T, n)) > 1)
    BY <1>1, <1>4, <2>1, FS_CardinalityType DEF Known, Doubled
  <2>3. Cardinality(Called(T, n)) = 0
    BY <2>2
  <2>4. QED
    BY <2>1, <2>3, FS_EmptySet
<1>6. Creates(F, T, l)
  BY <1>1, <1>5 DEF Creates
<1>7. QED
  BY <1>1, <1>2, <1>3, <1>6 DEF RowPlans

\* What a scoped import may do to one entity.
KeptInScope(i) ==
    /\ ent[i] = Unborn \/ May("scoped", ent, i)
    /\ \/ ent[i] # Unborn /\ ent'[i].parent \in {ent[i].parent, None}
       \/ ent'[i].parent \in Ids
            /\ (ent[ent'[i].parent] = Unborn \/ May("scoped", ent, ent'[i].parent))

LEMMA MayLive == ASSUME NEW T, NEW e, May("scoped", T, e) PROVE e \in Live(T)
  BY DEF May

LEMMA KnownForm ==
    ASSUME NEW T, NEW n, Known(T, n)
    PROVE  IdOf(T, n) \in Live(T)
<1>1. Called(T, n) # {}
  BY FS_EmptySet DEF Known
<1>2. QED
  BY <1>1, IdOfCalled

\* A row that creates is authorized for where it lands.
LEMMA CreatedInScope ==
    ASSUME EntOK, NEW F \in Files, NEW plan, NEW ids, NEW k \in Rows(F), NEW i \in Ids,
           Lands(F, ent, plan, ids, k, i), plan[k].act = "create", Creates(F, ent, k), ent[i] = Unborn,
           Granted(F, ent, "scoped", k),
           \A n \in NamesOf(F) : ~Known(ent, n) => ids[RowOf(F, n)] \in Ids /\ ent[ids[RowOf(F, n)]] = Unborn
    PROVE  KeptInScope(i)
<1>1. PICK p : p = F.rows[k].parent
  OBVIOUS
<1>2. May("scoped", ent, Anchor(F, ent, k))
  BY DEF Granted, Authorized
<1>3. Anchor(F, ent, k) \in Live(ent)
  BY <1>2, MayLive
<1>4. p # None
  BY <1>1, <1>3, Apart DEF Anchor, Live
<1>5. ids[k] \notin Live(ent) /\ ids[k] = i
  BY DEF Live, Lands
<1>6. ent'[i].parent = IF Known(ent, p) THEN IdOf(ent, p) ELSE ids[RowOf(F, p)]
  BY <1>1, <1>4, <1>5 DEF Lands, Written
<1>7. CASE Known(ent, p)
  <2>1. ent'[i].parent = Anchor(F, ent, k)
    BY <1>1, <1>4, <1>6, <1>7 DEF Anchor
  <2>2. QED
    BY <1>2, <1>3, <2>1 DEF KeptInScope, Live
<1>8. CASE ~Known(ent, p)
  <2>1. p \in NamesOf(F)
    BY <1>1, <1>4, <1>8 DEF Lands, Sound
  <2>2. QED
    BY <1>6, <1>8, <2>1 DEF KeptInScope
<1>9. QED
  BY <1>7, <1>8

\* A row that updates is authorized for its record, and for where that moves.
LEMMA UpdatedInScope ==
    ASSUME EntOK, NEW F \in Files, NEW plan, NEW ids, NEW k \in Rows(F), NEW i \in Ids,
           Lands(F, ent, plan, ids, k, i), i = IdOf(ent, F.rows[k].name), i \in Called(ent, F.rows[k].name),
           ~Creates(F, ent, k), Changes(F, ent, k), Granted(F, ent, "scoped", k),
           \A n \in NamesOf(F) : ~Known(ent, n) => ids[RowOf(F, n)] \in Ids /\ ent[ids[RowOf(F, n)]] = Unborn
    PROVE  KeptInScope(i)
<1>1. PICK p : p = F.rows[k].parent
  OBVIOUS
<1>2. i \in Live(ent) /\ ent[i] # Unborn /\ ids[k] = i
  BY DEF Called, Live, Lands
<1>3. May("scoped", ent, i)
  BY DEF Granted, Authorized
<1>4. ent'[i].parent = IF ParentColumn \notin F.spoke THEN ent[i].parent
                       ELSE IF p = None THEN None
                       ELSE IF Known(ent, p) THEN IdOf(ent, p) ELSE ids[RowOf(F, p)]
  BY <1>1, <1>2, SMTT(60) DEF Lands, Written
<1>5. CASE ParentColumn \notin F.spoke \/ p = None
  BY <1>2, <1>3, <1>4, <1>5 DEF KeptInScope
<1>6. CASE ParentColumn \in F.spoke /\ p # None /\ Known(ent, p)
  <2>1. ent'[i].parent = IdOf(ent, p) /\ IdOf(ent, p) \in Ids
    BY <1>4, <1>6, KnownForm DEF Live
  <2>2. CASE Reparents(F, ent, k)
    <3>1. IdOf(ent, p) \in Authorized(F, ent, k)
      BY <1>1, <1>6, <2>2 DEF Authorized
    <3>2. May("scoped", ent, IdOf(ent, p))
      BY <3>1 DEF Granted
    <3>3. QED
      BY <1>3, <2>1, <3>2 DEF KeptInScope
  <2>3. CASE ~Reparents(F, ent, k)
    <3>1. IdOf(ent, p) = ent[i].parent
      BY <1>1, <1>6, <2>3 DEF Reparents
    <3>2. QED
      BY <1>2, <1>3, <2>1, <3>1 DEF KeptInScope
  <2>4. QED
    BY <2>2, <2>3
<1>7. CASE ParentColumn \in F.spoke /\ p # None /\ ~Known(ent, p)
  <2>1. p \in NamesOf(F)
    BY <1>1, <1>7 DEF Lands, Sound
  <2>2. QED
    BY <1>3, <1>4, <1>7, <2>1 DEF KeptInScope
<1>8. QED
  BY <1>5, <1>6, <1>7

LEMMA CommitsInScope ==
    ASSUME Typing, SeenInv, ShownInv, [Next]_vars, NEW p \in Procs
    PROVE  KeepsScope(p)
<1> SUFFICES ASSUME req[p].op = "commit", req[p].who = "scoped", ~req[p].late, Commits(req[p].batch),
                    NEW i \in Ids, ent'[i] # ent[i]
             PROVE  KeptInScope(i)
  BY DEF KeepsScope, KeptInScope
<1>1. /\ req[p].batch \in Batches /\ req[p].late \in BOOLEAN
  BY CommitForm DEF Typing
<1>2. PICK q \in Procs : Apply(q) /\ req[p].batch = req[q].batch
  BY <1>1, NextMoves DEF Commits
<1>3. q = p /\ req[p].seen = ent
  BY <1>1, <1>2 DEF SeenInv, Apply
<1>4. PICK b, F, T, plan, ids : Applied(p, b, F, T, plan, ids)
  BY <1>2, <1>3, ApplyForm DEF Typing
<1>5. /\ F \in Files /\ T = ent /\ T \in Tables /\ plan = Plan(F, ent, "scoped")
      /\ \A k \in Rows(F) : plan[k].act = "create" => ids[k] \in Ids /\ ent[ids[k]] = Unborn
  BY <1>3, <1>4 DEF Applied
<1>6. \A k \in DOMAIN plan : plan[k].act # "invalid"
  BY <1>1, <1>4, ZenonT(120) DEF ShownInv, AsShown, Commits, Applied
<1>7. \A n \in NamesOf(F) : ~Known(ent, n) => ids[RowOf(F, n)] \in Ids /\ ent[ids[RowOf(F, n)]] = Unborn
  BY <1>5, <1>6, CreatedParent
<1>8. PICK k \in Rows(F) : Lands(F, ent, plan, ids, k, i)
  BY <1>4, <1>5 DEF Applied
<1>9. PICK r : r = plan[k] /\ r = PlanRow(F, ent, "scoped", k)
  BY <1>5, <1>8 DEF Plan
<1>10. /\ r.act # "invalid" => Granted(F, ent, "scoped", k)
       /\ r.act = "update" => Changes(F, ent, k) /\ ~Creates(F, ent, k)
  BY <1>9, RowPlanned
<1>11. CASE plan[k].act = "create"
  <2>1. Creates(F, ent, k) /\ ent[i] = Unborn /\ Granted(F, ent, "scoped", k)
    BY <1>8, <1>9, <1>10, <1>11 DEF Lands
  <2>2. QED
    BY <1>5, <1>7, <1>8, <1>11, <2>1, CreatedInScope DEF Typing
<1>12. CASE plan[k].act = "update"
  <2>1. /\ i = IdOf(ent, F.rows[k].name) /\ i \in Called(ent, F.rows[k].name)
        /\ ~Creates(F, ent, k) /\ Changes(F, ent, k) /\ Granted(F, ent, "scoped", k)
    BY <1>8, <1>9, <1>10, <1>12 DEF Lands
  <2>2. QED
    BY <1>5, <1>7, <1>8, <2>1, UpdatedInScope DEF Typing
<1>13. QED
  BY <1>8, <1>11, <1>12 DEF Lands

\* What a scoped grant cannot reach, an import under it does not change: the
\* rows are authorized against the tree as it was before any of them
\* (planEntityRow, existingAncestor), and that is enough.
THEOREM CommitsStayInScope == GenSpec => ScopeHeld
<1>1. GenInit => SeenInv /\ ShownInv
  BY DEF GenInit, Init, SeenInv, ShownInv, AsShown, Idle
<1>2. Typing /\ SeenInv /\ ShownInv /\ [Next]_vars => [\A p \in Procs : KeepsScope(p)]_regVars
  BY CommitsInScope DEF vars
<1>3. QED
  BY <1>1, <1>2, AlwaysTyped, NextSeen, NextShown, PTL DEF GenSpec, ScopeHeld

(***************************************************************************)
(* Recursive functions.                                                    *)
(***************************************************************************)
\* Induction, over a set.
LEMMA AllNumbers ==
    ASSUME NEW S, 0 \in S, \A n \in S \cap Nat : n + 1 \in S
    PROVE  \A n \in Nat : n \in S
<1> SUFFICES ASSUME Nat \ S # {} PROVE FALSE
  OBVIOUS
<1>1. PICK k \in Nat \ S : \A j \in Nat \ S : k <= j
  BY FirstOf
<1>2. k # 0 /\ k - 1 \in Nat /\ k - 1 \in S
  BY <1>1
<1>3. QED
  BY <1>1, <1>2

\* A walk of n steps of g from x.
Walked(S, x, g, n) ==
    {f \in [0 .. n -> S] : f[0] = x /\ \A i \in 0 .. n - 1 : f[i + 1] = g[f[i]]}

LEMMA WalksExist ==
    ASSUME NEW S, NEW x \in S, NEW g \in [S -> S]
    PROVE  \A n \in Nat : Walked(S, x, g, n) # {}
<1> DEFINE Good == {n \in Nat : Walked(S, x, g, n) # {}}
<1>1. 0 \in Good
  <2>1. [i \in 0 .. 0 |-> x] \in Walked(S, x, g, 0)
    BY DEF Walked
  <2>2. QED
    BY <2>1
<1>2. ASSUME NEW n \in Good PROVE n + 1 \in Good
  <2>1. PICK f \in Walked(S, x, g, n) : TRUE
    BY <1>2
  <2> DEFINE h == [i \in 0 .. n + 1 |-> IF i = n + 1 THEN g[f[n]] ELSE f[i]]
  <2>2. f \in [0 .. n -> S] /\ f[0] = x /\ \A i \in 0 .. n - 1 : f[i + 1] = g[f[i]]
    BY <2>1 DEF Walked
  <2>3. h \in [0 .. n + 1 -> S] /\ h[0] = x
    BY <2>2
  <2>4. \A i \in 0 .. n : h[i + 1] = g[h[i]]
    BY <2>2
  <2>5. h \in Walked(S, x, g, n + 1)
    BY <2>3, <2>4 DEF Walked
  <2>6. QED
    BY <2>5
<1>3. QED
  <2> HIDE DEF Good
  <2>1. \A n \in Nat : n \in Good
    BY <1>1, <1>2, AllNumbers
  <2>2. QED
    BY <2>1 DEF Good

LEMMA WalksAgree ==
    ASSUME NEW S, NEW x \in S, NEW g \in [S -> S], NEW m \in Nat, NEW n \in Nat,
           NEW e \in Walked(S, x, g, m), NEW f \in Walked(S, x, g, n)
    PROVE  \A i \in Nat : i <= m /\ i <= n => e[i] = f[i]
<1> DEFINE Same == {i \in Nat : i <= m /\ i <= n => e[i] = f[i]}
<1>1. 0 \in Same
  BY DEF Walked
<1>2. ASSUME NEW i \in Same PROVE i + 1 \in Same
  BY DEF Walked
<1>3. QED
  <2> HIDE DEF Same
  <2>1. \A i \in Nat : i \in Same
    BY <1>1, <1>2, AllNumbers
  <2>2. QED
    BY <2>1 DEF Same

\* What a step makes of where one is can be repeated for ever.
Iterate(S, x, g, f) ==
    f \in [Nat -> S] /\ f[0] = x /\ \A n \in Nat : f[n + 1] = g[f[n]]

LEMMA Iterates ==
    ASSUME NEW S, NEW x \in S, NEW g \in [S -> S]
    PROVE  \E f : Iterate(S, x, g, f)
<1> DEFINE walk(n) == CHOOSE f : f \in Walked(S, x, g, n)
           f == [n \in Nat |-> walk(n)[n]]
<1>1. \A n \in Nat : walk(n) \in Walked(S, x, g, n)
  BY WalksExist
<1>2. \A n \in Nat : walk(n)[n] \in S
  BY <1>1 DEF Walked
<1>3. f \in [Nat -> S]
  BY <1>2
<1>4. f[0] = x
  BY <1>1 DEF Walked
<1>5. ASSUME NEW n \in Nat PROVE f[n + 1] = g[f[n]]
  <2>1. walk(n + 1)[n + 1] = g[walk(n + 1)[n]]
    <3>1. PICK h : h = walk(n + 1) /\ h \in Walked(S, x, g, n + 1)
      BY <1>1
    <3>2. n \in 0 .. n + 1 - 1
      OBVIOUS
    <3>3. h[n + 1] = g[h[n]]
      BY <3>1, <3>2, SMTT(60) DEF Walked
    <3>4. QED
      BY <3>1, <3>3
  <2>2. walk(n + 1)[n] = walk(n)[n]
    BY <1>1, WalksAgree
  <2>3. QED
    BY <2>1, <2>2
<1> HIDE DEF f
<1>6. QED
  BY <1>3, <1>4, <1>5 DEF Iterate

\* Any recurrence of that form has a solution, and stays in its set.
LEMMA Recurrence ==
    ASSUME NEW S, NEW x \in S, NEW g \in [S -> S]
    PROVE  \E f \in [Nat -> S] : f = [n \in Nat |-> IF n = 0 THEN x ELSE g[f[n - 1]]]
<1>1. PICK f \in [Nat -> S] : f[0] = x /\ \A n \in Nat : f[n + 1] = g[f[n]]
  BY Iterates DEF Iterate
<1>2. \A n \in Nat : n # 0 => f[n] = g[f[n - 1]]
  <2> SUFFICES ASSUME NEW n \in Nat, n # 0 PROVE f[n] = g[f[n - 1]]
    OBVIOUS
  <2>1. n - 1 \in Nat /\ (n - 1) + 1 = n
    OBVIOUS
  <2>2. f[(n - 1) + 1] = g[f[n - 1]]
    BY <1>1, <2>1
  <2>3. QED
    BY <2>1, <2>2
<1>3. f = [n \in Nat |-> IF n = 0 THEN x ELSE g[f[n - 1]]]
  BY <1>1, <1>2
<1>4. QED
  BY <1>3

\* The same of a step that counts.
Counting(S, x, g, f) ==
    f \in [Nat -> S] /\ f = [n \in Nat |-> IF n = 0 THEN x ELSE g[n][f[n - 1]]]

LEMMA CountingRecurrence ==
    ASSUME NEW S, NEW x \in S, NEW g \in [Nat -> [S -> S]]
    PROVE  \E f : Counting(S, x, g, f)
<1>1. PICK P : P = [at : Nat, is : S]
  OBVIOUS
<1>2. PICK start : start = [at |-> 0, is |-> x]
  OBVIOUS
<1>3. PICK k : k = [w \in P |-> [at |-> w.at + 1, is |-> g[w.at + 1][w.is]]]
  OBVIOUS
<1>4. start \in P
  BY <1>1, <1>2
<1>5. k \in [P -> P]
  BY <1>1, <1>3
<1>6a. PICK h : Iterate(P, start, k, h)
  BY <1>4, <1>5, Iterates, Zenon
<1>6. h \in [Nat -> P] /\ h[0] = start /\ \A n \in Nat : h[n + 1] = k[h[n]]
  BY <1>6a DEF Iterate
<1>7. \A n \in Nat : h[n] \in P /\ h[n + 1] = [at |-> h[n].at + 1, is |-> g[h[n].at + 1][h[n].is]]
  BY <1>3, <1>6
<1>8. ASSUME NEW n \in Nat PROVE h[n + 1].at = h[n].at + 1
  <2>1. PICK a, b : a = h[n].at + 1 /\ b = g[h[n].at + 1][h[n].is]
    OBVIOUS
  <2>2. h[n + 1] = [at |-> a, is |-> b]
    BY <1>7, <2>1
  <2>3. QED
    BY <2>1, <2>2
<1> DEFINE Numbered == {n \in Nat : h[n].at = n}
<1>9. 0 \in Numbered
  BY <1>2, <1>6
<1>10. \A n \in Numbered \cap Nat : n + 1 \in Numbered
  <2>1. ASSUME NEW n \in Nat, h[n].at = n PROVE h[n + 1].at = n + 1
    BY <1>8, <2>1
  <2>2. QED
    BY <2>1
<1>11. \A n \in Nat : n \in Numbered
  <2> HIDE DEF Numbered
  <2>1. QED
    BY <1>9, <1>10, AllNumbers
<1>12. \A n \in Nat : h[n].at = n
  BY <1>11
<1> DEFINE f == [n \in Nat |-> h[n].is]
<1>13. f \in [Nat -> S] /\ f[0] = x
  BY <1>1, <1>2, <1>6
<1>14. ASSUME NEW n \in Nat, n # 0 PROVE f[n] = g[n][f[n - 1]]
  <2>1. n - 1 \in Nat /\ (n - 1) + 1 = n
    BY <1>14
  <2>2. h[(n - 1) + 1] = [at |-> h[n - 1].at + 1, is |-> g[h[n - 1].at + 1][h[n - 1].is]]
    BY <1>7, <2>1
  <2>3. h[n].is = g[n][h[n - 1].is]
    BY <1>12, <2>1, <2>2
  <2>4. QED
    BY <2>1, <2>3
<1>15. f = [n \in Nat |-> IF n = 0 THEN x ELSE g[n][f[n - 1]]]
  <2> HIDE DEF f
  <2>1. QED
    BY <1>13, <1>14
<1> HIDE DEF f
<1>16. QED
  BY <1>13, <1>15 DEF Counting

(***************************************************************************)
(* The order of an import.                                                 *)
(***************************************************************************)
ParentOf(F, k) == F.rows[k].parent
InFile(F, k) == ParentOf(F, k) \in NamesOf(F)
Above(F, k) == RowOf(F, ParentOf(F, k))

LEMMA AboveForm ==
    ASSUME NEW F \in Files, NEW k, InFile(F, k)
    PROVE  /\ Above(F, k) \in Rows(F) /\ Above(F, k) \in Nat
           /\ F.rows[Above(F, k)].name = ParentOf(F, k)
  BY RowOfForm, FileForm DEF Above, InFile

\* The way up from a row: each next row is of the parent of the last, and none
\* comes twice.
Way(F, s) ==
    /\ s \in Seq(Nat) /\ Len(s) > 0
    /\ \A i \in 1 .. Len(s) : s[i] \in Rows(F)
    /\ \A i \in 1 .. Len(s) - 1 : InFile(F, s[i]) /\ s[i + 1] = Above(F, s[i])
    /\ \A i, j \in 1 .. Len(s) : s[i] = s[j] => i = j
Ended(F, w, s) ==
    LET k == s[Len(s)] IN InFile(F, k) => Above(F, k) \in Range(w) \cup Range(s)

LEMMA ClimbForm ==
    ASSUME NEW F \in Files, NEW w, NEW s, Way(F, s)
    PROVE  \/ Ended(F, w, s) /\ Climb(F, w, s) = s
           \/ /\ ~Ended(F, w, s) /\ Way(F, Climb(F, w, s))
              /\ Len(Climb(F, w, s)) = Len(s) + 1 /\ Climb(F, w, s)[1] = s[1]
<1>1. PICK k : k = s[Len(s)]
  OBVIOUS
<1>2. Last(s) = k
  BY <1>1 DEF Last
<1>3. Climb(F, w, s) = IF Ended(F, w, s) THEN s ELSE Append(s, Above(F, k))
  BY <1>1, <1>2 DEF Climb, Ended, InFile, Above, ParentOf
<1>4. CASE ~Ended(F, w, s)
  <2>1. PICK a : a = Above(F, k)
    OBVIOUS
  <2>2. InFile(F, k) /\ a \notin Range(s)
    BY <1>1, <1>4, <2>1 DEF Ended
  <2>3. a \in Rows(F) /\ a \in Nat
    BY <2>1, <2>2, AboveForm
  <2>4. PICK t : t = Append(s, a)
    OBVIOUS
  <2>5. /\ s \in Seq(Nat) /\ Len(s) \in Nat \ {0} /\ DOMAIN s = 1 .. Len(s)
    BY DEF Way
  <2>6. /\ t \in Seq(Nat) /\ Len(t) = Len(s) + 1 /\ t[Len(s) + 1] = a
        /\ \A i \in 1 .. Len(s) : t[i] = s[i]
    BY <2>3, <2>4, <2>5
  <2>7. \A i \in 1 .. Len(s) : t[i] # a
    BY <2>2, <2>5, <2>6 DEF Range
  <2>8. \A i \in 1 .. Len(t) : t[i] \in Rows(F)
    BY <2>3, <2>5, <2>6, SMTT(60) DEF Way
  <2>9. \A i \in 1 .. Len(t) - 1 : InFile(F, t[i]) /\ t[i + 1] = Above(F, t[i])
    <3> SUFFICES ASSUME NEW i \in 1 .. Len(s) PROVE InFile(F, t[i]) /\ t[i + 1] = Above(F, t[i])
      BY <2>5, <2>6
    <3>1. CASE i = Len(s)
      BY <1>1, <2>1, <2>2, <2>5, <2>6, <3>1
    <3>2. CASE i # Len(s)
      <4>1. i \in 1 .. Len(s) - 1 /\ i + 1 \in 1 .. Len(s)
        <5>1. PICK l \in Nat : l = Len(s)
          BY <2>5
        <5>2. i \in 1 .. l /\ i # l
          BY <3>2, <5>1
        <5>3. i \in 1 .. l - 1 /\ i + 1 \in 1 .. l
          BY <5>2
        <5>4. QED
          BY <5>1, <5>3
      <4>2. InFile(F, s[i]) /\ s[i + 1] = Above(F, s[i])
        BY <4>1 DEF Way
      <4>3. t[i] = s[i] /\ t[i + 1] = s[i + 1]
        BY <2>6, <4>1
      <4>4. QED
        BY <4>2, <4>3
    <3>3. QED
      BY <3>1, <3>2
  <2>10. \A i, j \in 1 .. Len(t) : t[i] = t[j] => i = j
    BY <2>5, <2>6, <2>7, SMTT(60) DEF Way
  <2>11. t[1] = s[1]
    BY <2>5, <2>6
  <2>12. Way(F, t)
    BY <2>5, <2>6, <2>8, <2>9, <2>10 DEF Way
  <2>13. QED
    BY <1>3, <1>4, <2>1, <2>4, <2>6, <2>11, <2>12
<1>5. QED
  BY <1>3, <1>4

UpTo(F, w, k) ==
    CHOOSE up : up = [n \in Nat |-> IF n = 0 THEN <<k>> ELSE Climb(F, w, up[n - 1])]

LEMMA ClimbTypes ==
    ASSUME NEW F \in Files, NEW w, NEW s \in Seq(Nat) PROVE Climb(F, w, s) \in Seq(Nat)
<1>1. PICK k : k = Last(s)
  OBVIOUS
<1>2. InFile(F, k) => Append(s, Above(F, k)) \in Seq(Nat)
  BY AboveForm
<1>3. Climb(F, w, s) = s \/ (InFile(F, k) /\ Climb(F, w, s) = Append(s, Above(F, k)))
  BY <1>1 DEF Climb, InFile, Above, ParentOf
<1>4. QED
  BY <1>2, <1>3

LEMMA UpToForm ==
    ASSUME NEW F \in Files, NEW w, NEW k \in Nat
    PROVE  /\ UpTo(F, w, k)[0] = <<k>>
           /\ \A n \in Nat : /\ UpTo(F, w, k)[n] \in Seq(Nat)
                             /\ UpTo(F, w, k)[n + 1] = Climb(F, w, UpTo(F, w, k)[n])
           /\ Ascent(F, w, k) = UpTo(F, w, k)[Len(F.rows)]
<1> DEFINE L == Seq(Nat)
           g == [s \in L |-> Climb(F, w, s)]
           start == <<k>>
           Is(up) == up = [n \in Nat |-> IF n = 0 THEN <<k>> ELSE Climb(F, w, up[n - 1])]
<1>1. g \in [L -> L] /\ start \in L
  BY ClimbTypes
<1>2. PICK f \in [Nat -> L] : f = [n \in Nat |-> IF n = 0 THEN start ELSE g[f[n - 1]]]
  <2> HIDE DEF g, L, start
  <2>1. QED
    BY <1>1, Recurrence
<1>3. Is(f)
  <2>1. ASSUME NEW n \in Nat, n # 0 PROVE g[f[n - 1]] = Climb(F, w, f[n - 1])
    <3>1. f[n - 1] \in L
      BY <2>1
    <3> HIDE DEF L
    <3>2. QED
      BY <3>1
  <2>2. [n \in Nat |-> IF n = 0 THEN start ELSE g[f[n - 1]]]
          = [n \in Nat |-> IF n = 0 THEN <<k>> ELSE Climb(F, w, f[n - 1])]
    <3> HIDE DEF g
    <3>1. QED
      BY <2>1
  <2>3. QED
    BY <1>2, <2>2
<1>4. Is(UpTo(F, w, k))
  <2>1. UpTo(F, w, k) = CHOOSE up : Is(up)
    BY DEF UpTo
  <2> HIDE DEF Is
  <2>2. QED
    BY <1>3, <2>1
<1> DEFINE u == UpTo(F, w, k)
<1> HIDE DEF u
<1>5. \A n \in Nat : u[n] = IF n = 0 THEN <<k>> ELSE Climb(F, w, u[n - 1])
  BY <1>4, Zenon DEF u
<1>6. u[0] = <<k>>
  BY <1>5
<1>7. ASSUME NEW n \in Nat PROVE u[n + 1] = Climb(F, w, u[n])
  <2>1. n + 1 \in Nat /\ n + 1 # 0 /\ (n + 1) - 1 = n
    OBVIOUS
  <2>2. u[n + 1] = Climb(F, w, u[(n + 1) - 1])
    BY <1>5, <2>1
  <2>3. QED
    BY <2>1, <2>2
<1>8. Ascent(F, w, k) = u[Len(F.rows)]
  BY DEF Ascent, u, UpTo
<1> DEFINE Lists == {n \in Nat : u[n] \in Seq(Nat)}
<1>9. \A n \in Nat : u[n] \in Seq(Nat)
  <2>1. start \in Seq(Nat)
    BY <1>1
  <2>2. 0 \in Lists
    BY <1>6, <2>1
  <2>3. \A n \in Nat : u[n] \in Seq(Nat) => u[n + 1] \in Seq(Nat)
    BY <1>7, ClimbTypes
  <2>4. \A n \in Lists \cap Nat : n + 1 \in Lists
    BY <2>3
  <2> HIDE DEF Lists
  <2>5. \A n \in Nat : n \in Lists
    BY <2>2, <2>4, AllNumbers
  <2>6. QED
    BY <2>5 DEF Lists
<1>10. QED
  BY <1>6, <1>7, <1>8, <1>9 DEF u

LEMMA AscentTypes ==
    ASSUME NEW F \in Files, NEW w, NEW k \in Nat PROVE Ascent(F, w, k) \in Seq(Nat)
<1>1. Len(F.rows) \in Nat
  BY FileForm
<1>2. \A n \in Nat : UpTo(F, w, k)[n] \in Seq(Nat)
  BY UpToForm
<1>3. Ascent(F, w, k) = UpTo(F, w, k)[Len(F.rows)]
  BY UpToForm
<1>4. QED
  BY <1>1, <1>2, <1>3, Zenon

LEMMA AscentForm ==
    ASSUME NEW F \in Files, NEW w, NEW k \in Rows(F), NEW a, a = Ascent(F, w, k)
    PROVE  Way(F, a) /\ a[1] = k /\ Ended(F, w, a)
<1>0. k \in Nat
  BY FileForm
<1>1. PICK u : u = UpTo(F, w, k)
  OBVIOUS
<1> DEFINE Held == {n \in Nat : /\ Way(F, u[n]) /\ u[n][1] = k
                                /\ Ended(F, w, u[n]) \/ Len(u[n]) = n + 1}
<1>2. 0 \in Held
  <2>1. PICK s : s = u[0]
    OBVIOUS
  <2>2. k \in Nat /\ s = <<k>>
    BY <1>0, <1>1, <2>1, UpToForm
  <2>3. s \in Seq(Nat) /\ Len(s) = 1 /\ s[1] = k
    BY <2>2
  <2>4. Way(F, s)
    BY <2>3 DEF Way
  <2>5. QED
    BY <2>1, <2>3, <2>4
<1>3. ASSUME NEW n \in Nat, n \in Held PROVE n + 1 \in Held
  <2>1. PICK s : s = u[n]
    OBVIOUS
  <2>2. PICK t : t = u[n + 1] /\ t = Climb(F, w, s)
    BY <1>0, <1>1, <2>1, UpToForm
  <2>3. Way(F, s) /\ s[1] = k /\ (Ended(F, w, s) \/ Len(s) = n + 1)
    BY <1>3, <2>1
  <2>4. Way(F, t) /\ t[1] = k /\ (Ended(F, w, t) \/ Len(t) = (n + 1) + 1)
    BY <2>2, <2>3, ClimbForm
  <2>5. Way(F, u[n + 1]) /\ u[n + 1][1] = k
        /\ (Ended(F, w, u[n + 1]) \/ Len(u[n + 1]) = (n + 1) + 1)
    BY <2>2, <2>4, Zenon
  <2>6. n + 1 \in Nat
    OBVIOUS
  <2>7. QED
    BY <2>5, <2>6, Zenon
<1>4. \A n \in Nat : n \in Held
  <2>1. \A n \in Held \cap Nat : n + 1 \in Held
    <3> HIDE DEF Held
    <3>1. QED
      BY <1>3
  <2> HIDE DEF Held
  <2>2. QED
    BY <1>2, <2>1, AllNumbers
<1>5. PICK l \in Nat : l = Len(F.rows) /\ Rows(F) = 1 .. l
  BY FileForm
<1>6. a = u[l]
  BY <1>0, <1>1, <1>5, UpToForm
<1>7. Way(F, a) /\ a[1] = k /\ (Ended(F, w, a) \/ Len(a) = l + 1)
  BY <1>4, <1>6
<1>8. ASSUME Len(a) = l + 1 PROVE FALSE
  <2>1. a \in [1 .. l + 1 -> 1 .. l]
    BY <1>5, <1>7, <1>8, SMTT(60) DEF Way
  <2>2. IsFiniteSet(1 .. l + 1) /\ IsFiniteSet(1 .. l)
        /\ Cardinality(1 .. l) < Cardinality(1 .. l + 1)
    <3>1. PICK m \in Nat : m = l + 1
      OBVIOUS
    <3>2. 1 \in Int /\ l \in Int /\ m \in Int
      OBVIOUS
    <3>3. IsFiniteSet(1 .. l) /\ Cardinality(1 .. l) = IF 1 > l THEN 0 ELSE l - 1 + 1
      BY <3>2, FS_Interval, Zenon
    <3>4. IsFiniteSet(1 .. m) /\ Cardinality(1 .. m) = IF 1 > m THEN 0 ELSE m - 1 + 1
      BY <3>2, FS_Interval, Zenon
    <3>5. QED
      BY <3>1, <3>3, <3>4
  <2>3. PICK x \in 1 .. l + 1, y \in 1 .. l + 1 : x # y /\ a[x] = a[y]
    BY <2>1, <2>2, FS_PigeonHole, SMTT(60)
  <2>4. QED
    BY <1>7, <1>8, <2>3 DEF Way
<1>9. QED
  BY <1>7, <1>8

\* A way up that meets itself goes round a loop of the file.
LEMMA WaysEnd ==
    ASSUME NEW F \in Files, ~Looped(F), NEW w, NEW s, Way(F, s), Ended(F, w, s)
    PROVE  LET k == s[Len(s)] IN InFile(F, k) => Above(F, k) \in Range(w)
<1> DEFINE k == s[Len(s)]
<1> SUFFICES ASSUME InFile(F, k), Above(F, k) \in Range(s) PROVE FALSE
  BY DEF Ended
<1>1. PICK l \in Nat : l = Len(s) /\ l > 0 /\ DOMAIN s = 1 .. l
  BY DEF Way
<1>2. PICK j \in 1 .. l : s[j] = Above(F, k)
  BY <1>1 DEF Range
<1> DEFINE named(i) == F.rows[s[i]].name
           S == {named(i) : i \in j .. l}
<1>3. ASSUME NEW i \in j .. l
      PROVE  named(i) \in NamesOf(F) /\ RowOf(F, named(i)) = s[i]
  <2>1. \E n \in NamesOf(F) : s[i] = RowOf(F, n)
    <3>1. CASE i = j
      BY <1>2, <3>1 DEF Above, InFile
    <3>2. CASE i # j
      <4>1. i - 1 \in 1 .. l - 1 /\ (i - 1) + 1 = i
        BY <3>2
      <4>2. InFile(F, s[i - 1]) /\ s[(i - 1) + 1] = Above(F, s[i - 1])
        BY <1>1, <4>1 DEF Way
      <4>3. QED
        BY <4>1, <4>2 DEF Above, InFile
    <3>3. QED
      BY <3>1, <3>2
  <2>2. QED
    BY <2>1, RowOfForm
<1>4. S \in SUBSET NamesOf(F) /\ S # {}
  <2>1. j \in j .. l
    BY <1>2
  <2>2. \A i \in j .. l : named(i) \in NamesOf(F)
    BY <1>3
  <2> HIDE DEF named
  <2>3. S \subseteq NamesOf(F)
    BY <2>2
  <2>4. S # {}
    BY <2>1
  <2> HIDE DEF S
  <2>5. QED
    BY <2>3, <2>4
<1>5. ASSUME NEW i \in j .. l PROVE ParentOf(F, s[i]) \in S
  <2>1. CASE i = l
    <3>1. F.rows[Above(F, k)].name = ParentOf(F, k)
      BY AboveForm
    <3>2. ParentOf(F, s[i]) = named(j) /\ j \in j .. l
      BY <1>1, <1>2, <2>1, <3>1
    <3>3. QED
      BY <3>2
  <2>2. CASE i # l
    <3>1. i \in 1 .. l - 1 /\ i + 1 \in j .. l
      BY <2>2
    <3>2. InFile(F, s[i]) /\ s[i + 1] = Above(F, s[i])
      BY <1>1, <3>1 DEF Way
    <3>3. ParentOf(F, s[i]) = named(i + 1)
      BY <3>2, AboveForm
    <3>4. QED
      BY <3>1, <3>3
  <2>3. QED
    BY <2>1, <2>2
<1>6. \A m \in S : F.rows[RowOf(F, m)].parent \in S
  <2> SUFFICES ASSUME NEW i \in j .. l PROVE F.rows[RowOf(F, named(i))].parent \in S
    OBVIOUS
  <2>1. RowOf(F, named(i)) = s[i] /\ ParentOf(F, s[i]) \in S
    BY <1>3, <1>5
  <2> HIDE DEF S, named
  <2>2. QED
    BY <2>1 DEF ParentOf
<1>7. QED
  <2> HIDE DEF S
  <2>1. QED
    BY <1>4, <1>6 DEF Looped

\* Rows in an order that has each come after the one its parent is created by.
InOrder(F, w) ==
    /\ w \in Seq(Nat)
    /\ \A i \in 1 .. Len(w) :
          /\ w[i] \in Rows(F)
          /\ InFile(F, w[i]) => \E j \in 1 .. i - 1 : w[j] = Above(F, w[i])

LEMMA VisitForm ==
    ASSUME NEW F \in Files, ~Looped(F), NEW w, InOrder(F, w), NEW k \in Rows(F)
    PROVE  InOrder(F, Visit(F, w, k))
<1>1. CASE k \in Range(w)
  BY <1>1 DEF Visit
<1>2. CASE k \notin Range(w)
  <2>1. PICK a : a = Ascent(F, w, k)
    OBVIOUS
  <2>2. Way(F, a) /\ Ended(F, w, a)
    BY <2>1, AscentForm
  <2>3. PICK l \in Nat : l = Len(a) /\ l > 0 /\ a \in Seq(Nat)
    BY <2>2 DEF Way
  <2>4. PICK n \in Nat : n = Len(w) /\ w \in Seq(Nat) /\ DOMAIN w = 1 .. n
    BY DEF InOrder
  <2>5. PICK b : b = Reverse(a)
    OBVIOUS
  <2>6. b \in Seq(Nat) /\ Len(b) = l /\ \A i \in 1 .. l : b[i] = a[l - i + 1]
    <3>1. b = [i \in 1 .. l |-> a[(l - i) + 1]]
      BY <2>3, <2>5 DEF Reverse
    <3>2. \A i \in 1 .. l : (l - i) + 1 \in 1 .. l
      OBVIOUS
    <3>3. \A i \in 1 .. l : a[(l - i) + 1] \in Nat
      BY <2>3, <3>2
    <3>4. QED
      BY <3>1, <3>3
  <2>7. PICK t : t = w \o b /\ t = Visit(F, w, k)
    BY <1>2, <2>1, <2>5 DEF Visit
  <2>8. /\ t \in Seq(Nat) /\ Len(t) = n + l
        /\ \A i \in 1 .. n : t[i] = w[i]
        /\ \A i \in 1 .. l : t[n + i] = b[i]
    <3>1. t = w \o b /\ Len(w) = n /\ Len(b) = l /\ w \in Seq(Nat) /\ b \in Seq(Nat)
      BY <2>4, <2>6, <2>7
    <3>2. t \in Seq(Nat) /\ Len(t) = n + l
      <4>1. w \o b \in Seq(Nat)
        BY <3>1
      <4>2. Len(w \o b) = Len(w) + Len(b)
        BY <3>1, ConcatProperties
      <4>3. QED
        BY <3>1, <4>1, <4>2
    <3>3. ASSUME NEW i \in 1 .. n PROVE t[i] = w[i]
      BY <3>1
    <3>4. ASSUME NEW i \in 1 .. l PROVE t[n + i] = b[i]
      <4>1. PICK m \in 1 .. n + l : m = n + i /\ ~(m <= n) /\ m - n = i
        OBVIOUS
      <4>2. t[m] = b[m - n]
        BY <3>1, <4>1
      <4>3. QED
        BY <4>1, <4>2
    <3>5. QED
      BY <3>2, <3>3, <3>4
  <2>9. ASSUME NEW i \in 1 .. n
        PROVE  /\ t[i] \in Rows(F)
               /\ InFile(F, t[i]) => \E j \in 1 .. i - 1 : t[j] = Above(F, t[i])
    <3>1. w[i] \in Rows(F) /\ (InFile(F, w[i]) => \E j \in 1 .. i - 1 : w[j] = Above(F, w[i]))
      BY <2>4 DEF InOrder
    <3>2. \A j \in 1 .. i - 1 : t[j] = w[j]
      BY <2>8
    <3>3. QED
      BY <2>8, <3>1, <3>2
  <2>10. ASSUME NEW i \in 1 .. l
         PROVE  /\ t[n + i] \in Rows(F)
                /\ InFile(F, t[n + i]) => \E j \in 1 .. (n + i) - 1 : t[j] = Above(F, t[n + i])
    <3>1. t[n + i] = a[l - i + 1] /\ l - i + 1 \in 1 .. l
      <4>1. t[n + i] = b[i]
        BY <2>8, Zenon
      <4>2. b[i] = a[l - i + 1]
        BY <2>6, Zenon
      <4>3. l - i + 1 \in 1 .. l
        OBVIOUS
      <4>4. QED
        BY <4>1, <4>2, <4>3
    <3>2. t[n + i] \in Rows(F)
      BY <2>2, <2>3, <3>1 DEF Way
    <3>3. CASE i = 1
      <4>1. t[n + i] = a[l]
        BY <3>1, <3>3
      <4>2. InFile(F, a[l]) => Above(F, a[l]) \in Range(w)
        BY <2>2, <2>3, WaysEnd
      <4>3. InFile(F, a[l]) => \E j \in 1 .. n : w[j] = Above(F, a[l])
        BY <2>4, <4>2 DEF Range
      <4>4. QED
        BY <2>8, <3>2, <3>3, <4>1, <4>3
    <3>4. CASE i # 1
      <4>1. l - i + 1 \in 1 .. l - 1 /\ l - (i - 1) + 1 = (l - i + 1) + 1 /\ i - 1 \in 1 .. l
        BY <3>4
      <4>2. a[(l - i + 1) + 1] = Above(F, a[l - i + 1])
        BY <2>2, <2>3, <4>1 DEF Way
      <4>3. t[n + (i - 1)] = a[l - (i - 1) + 1]
        BY <2>6, <2>8, <4>1
      <4>4. t[n + (i - 1)] = Above(F, t[n + i]) /\ n + (i - 1) \in 1 .. (n + i) - 1
        BY <3>1, <3>4, <4>1, <4>2, <4>3
      <4>5. QED
        BY <3>2, <4>4
    <3>5. QED
      BY <3>3, <3>4
  <2>11. ASSUME NEW i \in 1 .. n + l
         PROVE  /\ t[i] \in Rows(F)
                /\ InFile(F, t[i]) => \E j \in 1 .. i - 1 : t[j] = Above(F, t[i])
    <3>1. CASE i \in 1 .. n
      BY <2>9, <3>1
    <3>2. CASE i \notin 1 .. n
      <4>1. PICK m \in 1 .. l : i = n + m
        <5>1. i - n \in 1 .. l /\ i = n + (i - n)
          BY <3>2
        <5>2. QED
          BY <5>1
      <4>2. QED
        BY <2>10, <4>1
    <3>3. QED
      BY <3>1, <3>2
  <2>12. QED
    BY <2>7, <2>8, <2>11 DEF InOrder
<1>3. QED
  BY <1>1, <1>2

LEMMA VisitTypes ==
    ASSUME NEW F \in Files, NEW w \in Seq(Nat), NEW k \in Nat PROVE Visit(F, w, k) \in Seq(Nat)
<1>1. PICK a \in Seq(Nat) : a = Ascent(F, w, k)
  BY AscentTypes
<1>2. PICK l \in Nat : l = Len(a)
  OBVIOUS
<1>3. Reverse(a) = [i \in 1 .. l |-> a[(l - i) + 1]]
  BY <1>2 DEF Reverse
<1>4. \A i \in 1 .. l : a[(l - i) + 1] \in Nat
  <2>1. \A i \in 1 .. l : (l - i) + 1 \in 1 .. l
    OBVIOUS
  <2>2. QED
    BY <1>2, <2>1
<1>5. Reverse(a) \in Seq(Nat)
  BY <1>3, <1>4
<1>6. w \o Reverse(a) \in Seq(Nat)
  BY <1>5, ConcatProperties
<1>7. QED
  BY <1>1, <1>6 DEF Visit

OrderTo(F) ==
    CHOOSE order : order = [n \in Nat |-> IF n = 0 THEN <<>> ELSE Visit(F, order[n - 1], n)]

LEMMA OrderForm ==
    ASSUME NEW F \in Files
    PROVE  /\ OrderTo(F)[0] = <<>>
           /\ \A n \in Nat : OrderTo(F)[n + 1] = Visit(F, OrderTo(F)[n], n + 1)
           /\ ApplyOrder(F) = OrderTo(F)[Len(F.rows)]
<1> DEFINE L == Seq(Nat)
           g == [m \in Nat |-> [w \in L |-> Visit(F, w, m)]]
           empty == <<>>
           Is(order) == order = [n \in Nat |-> IF n = 0 THEN <<>> ELSE Visit(F, order[n - 1], n)]
<1>1. g \in [Nat -> [L -> L]] /\ empty \in L
  <2>1. empty \in L
    OBVIOUS
  <2>2. \A m \in Nat, w \in L : Visit(F, w, m) \in L
    BY VisitTypes
  <2> HIDE DEF L
  <2>3. QED
    BY <2>1, <2>2
<1>2. PICK f \in [Nat -> L] : f = [n \in Nat |-> IF n = 0 THEN empty ELSE g[n][f[n - 1]]]
  <2> HIDE DEF g, L, empty
  <2>1. \E f : Counting(L, empty, g, f)
    BY <1>1, CountingRecurrence, Zenon
  <2>2. QED
    BY <2>1 DEF Counting
<1>3. Is(f)
  <2>1. ASSUME NEW n \in Nat, n # 0 PROVE g[n][f[n - 1]] = Visit(F, f[n - 1], n)
    <3>1. f[n - 1] \in L
      BY <2>1
    <3> HIDE DEF L
    <3>2. QED
      BY <3>1
  <2>2. [n \in Nat |-> IF n = 0 THEN empty ELSE g[n][f[n - 1]]]
          = [n \in Nat |-> IF n = 0 THEN <<>> ELSE Visit(F, f[n - 1], n)]
    <3> HIDE DEF g
    <3>1. QED
      BY <2>1
  <2>3. QED
    BY <1>2, <2>2
<1>4. Is(OrderTo(F))
  <2>1. OrderTo(F) = CHOOSE order : Is(order)
    BY DEF OrderTo
  <2> HIDE DEF Is
  <2>2. QED
    BY <1>3, <2>1
<1> DEFINE u == OrderTo(F)
<1> HIDE DEF u
<1>5. \A n \in Nat : u[n] = IF n = 0 THEN <<>> ELSE Visit(F, u[n - 1], n)
  BY <1>4, Zenon DEF u
<1>6. u[0] = <<>>
  BY <1>5
<1>7. ASSUME NEW n \in Nat PROVE u[n + 1] = Visit(F, u[n], n + 1)
  <2>1. n + 1 \in Nat /\ n + 1 # 0 /\ (n + 1) - 1 = n
    OBVIOUS
  <2>2. u[n + 1] = Visit(F, u[(n + 1) - 1], n + 1)
    BY <1>5, <2>1
  <2>3. QED
    BY <2>1, <2>2
<1>8. ApplyOrder(F) = u[Len(F.rows)]
  BY DEF ApplyOrder, u, OrderTo
<1>9. QED
  BY <1>6, <1>7, <1>8 DEF u

LEMMA OrdersHold ==
    ASSUME NEW F \in Files, ~Looped(F) PROVE InOrder(F, ApplyOrder(F))
<1>1. PICK l \in Nat : l = Len(F.rows) /\ Rows(F) = 1 .. l
  BY FileForm
<1> DEFINE Held == {n \in Nat : n <= l => InOrder(F, OrderTo(F)[n])}
<1>2. 0 \in Held
  <2>1. PICK w : w = <<>> /\ w = OrderTo(F)[0]
    BY OrderForm
  <2>2. w \in Seq(Nat) /\ Len(w) = 0
    BY <2>1
  <2>3. InOrder(F, w)
    BY <2>2 DEF InOrder
  <2>4. QED
    BY <2>1, <2>3
<1>3. ASSUME NEW n \in Nat, n \in Held PROVE n + 1 \in Held
  <2> SUFFICES ASSUME n + 1 <= l PROVE InOrder(F, OrderTo(F)[n + 1])
    OBVIOUS
  <2>1. n + 1 \in Rows(F) /\ InOrder(F, OrderTo(F)[n])
    BY <1>1, <1>3
  <2>2. InOrder(F, Visit(F, OrderTo(F)[n], n + 1))
    BY <2>1, VisitForm
  <2>3. QED
    BY <2>2, OrderForm
<1>4. \A n \in Nat : n \in Held
  <2>1. \A n \in Held \cap Nat : n + 1 \in Held
    <3> HIDE DEF Held
    <3>1. QED
      BY <1>3
  <2> HIDE DEF Held
  <2>2. QED
    BY <1>2, <2>1, AllNumbers
<1>5. ApplyOrder(F) = OrderTo(F)[l]
  BY <1>1, OrderForm
<1>6. QED
  BY <1>4, <1>5

\* With a plan that refuses no row, every row finds its parent.
LEMMA OrderResolves ==
    ASSUME NEW F \in Files, ~Looped(F), NEW T \in Tables, NEW who, NEW plan,
           plan = Plan(F, T, who), \A k \in DOMAIN plan : plan[k].act # "invalid"
    PROVE  Resolves(F, plan, T)
<1>1. PICK order : order = ApplyOrder(F) /\ InOrder(F, order)
  BY OrdersHold
<1>2. SUFFICES ASSUME NEW n \in DOMAIN order, NEW p, p = F.rows[order[n]].parent,
                      p # None, ~Known(T, p)
               PROVE  \E m \in 1 .. n - 1 : plan[order[m]].act = "create" /\ F.rows[order[m]].name = p
  BY <1>1 DEF Resolves
<1>3. n \in 1 .. Len(order) /\ order[n] \in Rows(F)
  BY <1>1 DEF InOrder
<1>4. PICK k : k = order[n] /\ k \in Rows(F)
  BY <1>3
<1>5. p \in NamesOf(F)
  <2>1. PICK r : r = plan[k] /\ r = PlanRow(F, T, who, k) /\ r.act # "invalid"
    BY <1>4 DEF Plan
  <2>2. Sound(F, T, k)
    BY <2>1, RowPlanned
  <2>3. QED
    BY <1>2, <1>4, <2>2 DEF Sound
<1>6. InFile(F, k) /\ Above(F, k) = RowOf(F, p)
  BY <1>2, <1>4, <1>5 DEF InFile, Above, ParentOf
<1>7. PICK m \in 1 .. n - 1 : order[m] = RowOf(F, p)
  BY <1>1, <1>3, <1>4, <1>6 DEF InOrder
<1>8. plan[RowOf(F, p)].act = "create"
  BY <1>2, <1>5, CreatedParent
<1>9. F.rows[RowOf(F, p)].name = p
  BY <1>5, RowOfForm
<1>10. QED
  BY <1>7, <1>8, <1>9

\* No row of a plan that is being committed was refused.
ClearInv ==
    \A p \in Procs : req[p].op = "commit" =>
       \A k \in DOMAIN batch[req[p].batch].plan : batch[req[p].batch].plan[k].act # "invalid"

LEMMA NextClear == Typing /\ ShownInv /\ ClearInv /\ [Next]_vars => ClearInv'
<1> SUFFICES ASSUME Typing, ShownInv, ClearInv, [Next]_vars,
                    NEW q \in Procs, req'[q].op = "commit"
             PROVE  LET b == req'[q].batch IN
                    \A k \in DOMAIN batch'[b].plan : batch'[b].plan[k].act # "invalid"
  BY DEF ClearInv
<1>1. CASE \A p \in Procs : CommitCarries(p)
  <2>1. PICK b : b = req[q].batch /\ b = req'[q].batch /\ req[q].op = "commit"
    BY <1>1 DEF CommitCarries
  <2>2. b \in Batches /\ batch[b] # NoBatch
    BY <2>1, CommitForm DEF Typing, PlansInv
  <2>3. batch'[b].plan = batch[b].plan
    BY <2>2, NextMoves DEF Keeps
  <2>4. QED
    BY <2>1, <2>3 DEF ClearInv
<1>2. CASE \E p \in Procs, b \in Batches, who \in Callers : Claim(p, b, who)
  <2>1. PICK p \in Procs, b \in Batches, who \in Callers : Claim(p, b, who)
    BY <1>2
  <2>2. /\ UNCHANGED batch /\ batch[b] # NoBatch /\ batch[b].status = "validated"
        /\ req'[p].batch = b /\ \A r \in Procs \ {p} : req'[r] = req[r]
    <3>1. batch[b].status = "validated"
      BY <2>1 DEF Claim
    <3>2. QED
      BY <2>1, <3>1, ClaimTyping DEF Typing
  <2>3. CASE q = p
    BY <2>2, <2>3 DEF ShownInv, AsShown
  <2>4. CASE q # p
    BY <2>2, <2>4 DEF ClearInv
  <2>5. QED
    BY <2>3, <2>4
<1>3. QED
  BY <1>1, <1>2, CommitSteps

\* Whatever the file, the tree and the writers in between: an import that its
\* plan lets by can be written in the order entityApplyOrder gives it, a parent
\* before its children, unless the file's own rows name a loop.
THEOREM OrdersAlwaysExist == GenSpec => []OrderExists
<1>1. GenInit => ShownInv /\ ClearInv
  BY DEF GenInit, Init, ShownInv, AsShown, ClearInv, Idle
<1>2. Typing /\ ClearInv => OrderExists
  <2> SUFFICES ASSUME Typing, ClearInv, NEW p \in Procs, req[p].op = "commit",
                      ~Looped(batch[req[p].batch].file)
               PROVE  Resolves(batch[req[p].batch].file, batch[req[p].batch].plan, req[p].seen)
    BY DEF OrderExists
  <2>1. PICK F, T, plan : F = batch[req[p].batch].file /\ T = req[p].seen /\ plan = batch[req[p].batch].plan
    OBVIOUS
  <2>2. F \in Files /\ T \in Tables /\ plan = Plan(F, T, req[p].who)
    BY <2>1, CommitForm DEF Typing
  <2>3. \A k \in DOMAIN plan : plan[k].act # "invalid"
    BY <2>1 DEF ClearInv
  <2>4. Resolves(F, plan, T)
    BY <2>1, <2>2, <2>3, OrderResolves
  <2>5. QED
    BY <2>1, <2>4
<1>3. QED
  BY <1>1, <1>2, AlwaysTyped, NextShown, NextClear, PTL DEF GenSpec

(***************************************************************************)
(* The walks of the tree.                                                  *)
(***************************************************************************)
Rooted(T) == \A x \in Live(T) : T[x].parent \in Live(T) \cup {None}
ParentsOf(T, X) == {T[x].parent : x \in X} \ {None}
ChildrenOf(T, X) == {x \in Live(T) : T[x].parent \in X}

Up(T, e) ==
    CHOOSE up : up = [n \in Nat |-> IF n = 0 THEN {e} ELSE up[n - 1] \cup ParentsOf(T, up[n - 1])]
Down(T, S) ==
    CHOOSE down : down = [n \in Nat |-> IF n = 0 THEN S \cap Live(T)
                                        ELSE down[n - 1] \cup ChildrenOf(T, down[n - 1])]

LEMMA UpForm ==
    ASSUME NEW T, Rooted(T), NEW e \in Live(T)
    PROVE  /\ Up(T, e)[0] = {e}
           /\ \A n \in Nat : /\ Up(T, e)[n] \subseteq Live(T)
                             /\ Up(T, e)[n + 1] = Up(T, e)[n] \cup ParentsOf(T, Up(T, e)[n])
           /\ AncestorsAndSelf(T, e) = Up(T, e)[Cardinality(Ids)]
<1> DEFINE L == SUBSET Live(T)
           g == [X \in L |-> X \cup ParentsOf(T, X)]
           Is(up) == up = [n \in Nat |-> IF n = 0 THEN {e} ELSE up[n - 1] \cup ParentsOf(T, up[n - 1])]
<1>1. g \in [L -> L] /\ {e} \in L
  BY DEF Rooted, ParentsOf
<1>2. PICK f \in [Nat -> L] : f = [n \in Nat |-> IF n = 0 THEN {e} ELSE g[f[n - 1]]]
  <2> HIDE DEF g, L
  <2>1. QED
    BY <1>1, Recurrence, SMTT(60)
<1>3. Is(f)
  <2>1. ASSUME NEW n \in Nat, n # 0
        PROVE  g[f[n - 1]] = f[n - 1] \cup ParentsOf(T, f[n - 1])
    <3>1. f[n - 1] \in L
      BY <2>1
    <3>2. QED
      BY <3>1
  <2>2. [n \in Nat |-> IF n = 0 THEN {e} ELSE g[f[n - 1]]]
          = [n \in Nat |-> IF n = 0 THEN {e} ELSE f[n - 1] \cup ParentsOf(T, f[n - 1])]
    <3> HIDE DEF g
    <3>1. QED
      BY <2>1
  <2>3. QED
    BY <1>2, <2>2
<1>4. Is(Up(T, e))
  <2>1. Up(T, e) = CHOOSE up : Is(up)
    BY DEF Up
  <2> HIDE DEF Is
  <2>2. QED
    BY <1>3, <2>1
<1> DEFINE u == Up(T, e)
<1> HIDE DEF u
<1>5. u[0] = {e} /\ \A n \in Nat : u[n + 1] = u[n] \cup ParentsOf(T, u[n])
  <2>1. \A n \in Nat : u[n] = IF n = 0 THEN {e} ELSE u[n - 1] \cup ParentsOf(T, u[n - 1])
    BY <1>4, Zenon DEF u
  <2>2. ASSUME NEW n \in Nat PROVE u[n + 1] = u[n] \cup ParentsOf(T, u[n])
    <3>1. n + 1 \in Nat /\ n + 1 # 0 /\ (n + 1) - 1 = n
      OBVIOUS
    <3>2. QED
      BY <2>1, <3>1
  <2>3. QED
    BY <2>1, <2>2
<1> DEFINE Within == {n \in Nat : u[n] \subseteq Live(T)}
<1>6. 0 \in Within /\ \A n \in Within \cap Nat : n + 1 \in Within
  BY <1>5 DEF Rooted, ParentsOf
<1>7. \A n \in Nat : u[n] \subseteq Live(T)
  <2> HIDE DEF Within
  <2>1. \A n \in Nat : n \in Within
    BY <1>6, AllNumbers
  <2>2. QED
    BY <2>1 DEF Within
<1>8. AncestorsAndSelf(T, e) = u[Cardinality(Ids)]
  BY DEF AncestorsAndSelf, u, Up, ParentsOf
<1>9. QED
  BY <1>5, <1>7, <1>8 DEF u

LEMMA DownForm ==
    ASSUME NEW T, NEW S
    PROVE  /\ Down(T, S)[0] = S \cap Live(T)
           /\ \A n \in Nat : /\ Down(T, S)[n] \subseteq Live(T)
                             /\ Down(T, S)[n + 1] = Down(T, S)[n] \cup ChildrenOf(T, Down(T, S)[n])
           /\ DescendantsAndSelf(T, S) = Down(T, S)[Cardinality(Ids)]
<1> DEFINE L == SUBSET Live(T)
           g == [X \in L |-> X \cup ChildrenOf(T, X)]
           Is(down) == down = [n \in Nat |-> IF n = 0 THEN S \cap Live(T) ELSE down[n - 1] \cup ChildrenOf(T, down[n - 1])]
<1>1. g \in [L -> L] /\ S \cap Live(T) \in L
  BY DEF ChildrenOf
<1>2. PICK f \in [Nat -> L] : f = [n \in Nat |-> IF n = 0 THEN S \cap Live(T) ELSE g[f[n - 1]]]
  <2> HIDE DEF g, L
  <2>1. QED
    BY <1>1, Recurrence
<1>3. Is(f)
  <2>1. ASSUME NEW n \in Nat, n # 0
        PROVE  g[f[n - 1]] = f[n - 1] \cup ChildrenOf(T, f[n - 1])
    <3>1. f[n - 1] \in L
      BY <2>1
    <3>2. QED
      BY <3>1
  <2>2. [n \in Nat |-> IF n = 0 THEN S \cap Live(T) ELSE g[f[n - 1]]]
          = [n \in Nat |-> IF n = 0 THEN S \cap Live(T) ELSE f[n - 1] \cup ChildrenOf(T, f[n - 1])]
    <3> HIDE DEF g
    <3>1. QED
      BY <2>1
  <2>3. QED
    BY <1>2, <2>2
<1>4. Is(Down(T, S))
  <2>1. Down(T, S) = CHOOSE down : Is(down)
    BY DEF Down
  <2> HIDE DEF Is
  <2>2. QED
    BY <1>3, <2>1
<1> DEFINE u == Down(T, S)
<1> HIDE DEF u
<1>5. u[0] = S \cap Live(T) /\ \A n \in Nat : u[n + 1] = u[n] \cup ChildrenOf(T, u[n])
  <2>1. \A n \in Nat : u[n] = IF n = 0 THEN S \cap Live(T) ELSE u[n - 1] \cup ChildrenOf(T, u[n - 1])
    BY <1>4, Zenon DEF u
  <2>2. ASSUME NEW n \in Nat PROVE u[n + 1] = u[n] \cup ChildrenOf(T, u[n])
    <3>1. n + 1 \in Nat /\ n + 1 # 0 /\ (n + 1) - 1 = n
      OBVIOUS
    <3>2. QED
      BY <2>1, <3>1
  <2>3. QED
    BY <2>1, <2>2
<1> DEFINE Within == {n \in Nat : u[n] \subseteq Live(T)}
<1>6. 0 \in Within /\ \A n \in Within \cap Nat : n + 1 \in Within
  BY <1>5 DEF ChildrenOf
<1>7. \A n \in Nat : u[n] \subseteq Live(T)
  <2> HIDE DEF Within
  <2>1. \A n \in Nat : n \in Within
    BY <1>6, AllNumbers
  <2>2. QED
    BY <2>1 DEF Within
<1>8. DescendantsAndSelf(T, S) = u[Cardinality(Ids)]
  BY DEF DescendantsAndSelf, u, Down, ChildrenOf
<1>9. QED
  BY <1>5, <1>7, <1>8 DEF u

LEMMA NoneIsNoId == None \notin Ids
  BY RegisterAssumption DEF RegisterAssumption

UpHas(T, e, n) == e \in Up(T, e)[n]
LEMMA UpHasSelf ==
    ASSUME NEW T, Rooted(T), NEW e \in Live(T)
    PROVE  \A n \in Nat : UpHas(T, e, n)
<1> DEFINE Has == {n \in Nat : e \in Up(T, e)[n]}
<1>1. 0 \in Has /\ \A n \in Has \cap Nat : n + 1 \in Has
  BY UpForm
<1>2. QED
  <2> HIDE DEF Has
  <2>1. \A n \in Nat : n \in Has
    BY <1>1, AllNumbers
  <2>2. QED
    BY <2>1 DEF Has, UpHas

\* Up from e is e, and up from its parent.
LEMMA UpFromParent ==
    ASSUME NEW T, Rooted(T), NEW e \in Live(T)
    PROVE  \A n \in Nat :
              Up(T, e)[n + 1] = IF T[e].parent = None THEN {e} ELSE {e} \cup Up(T, T[e].parent)[n]
<1> DEFINE p == T[e].parent
           Over == {n \in Nat : Up(T, e)[n + 1] = IF p = None THEN {e} ELSE {e} \cup Up(T, p)[n]}
<1>1. p # None => p \in Live(T)
  BY DEF Rooted
<1>2. 0 \in Over
  <2>1. Up(T, e)[0 + 1] = {e} \cup ParentsOf(T, {e})
    <3>1. Up(T, e)[0] = {e} /\ \A n \in Nat : Up(T, e)[n + 1] = Up(T, e)[n] \cup ParentsOf(T, Up(T, e)[n])
      BY UpForm
    <3>2. 0 \in Nat
      OBVIOUS
    <3>3. QED
      BY <3>1, <3>2, Zenon
  <2>2. p # None => Up(T, p)[0] = {p}
    BY <1>1, UpForm
  <2>3. QED
    BY <2>1, <2>2 DEF ParentsOf
<1>3. ASSUME NEW n \in Over PROVE n + 1 \in Over
  <2>1. Up(T, e)[(n + 1) + 1] = Up(T, e)[n + 1] \cup ParentsOf(T, Up(T, e)[n + 1])
    BY UpForm
  <2>2. CASE p = None
    BY <2>1, <2>2 DEF ParentsOf
  <2>3. CASE p # None
    <3>1. Up(T, p)[n + 1] = Up(T, p)[n] \cup ParentsOf(T, Up(T, p)[n])
      BY <1>1, <2>3, UpForm
    <3>2. p \in Up(T, p)[n + 1]
      <4>1. UpHas(T, p, n + 1)
        BY <1>1, <2>3, UpHasSelf
      <4>2. QED
        BY <4>1 DEF UpHas
    <3>3. ParentsOf(T, {e} \cup Up(T, p)[n]) = {p} \cup ParentsOf(T, Up(T, p)[n])
      BY <2>3 DEF ParentsOf
    <3>4. QED
      BY <2>1, <2>3, <3>1, <3>2, <3>3
  <2>4. QED
    BY <2>2, <2>3
<1>4. QED
  <2> HIDE DEF Over
  <2>1. \A n \in Nat : n \in Over
    BY <1>2, <1>3, AllNumbers
  <2>2. QED
    BY <2>1 DEF Over

\* Up from a record, and down from the scopes: the same distance either way.
LEMMA UpMeetsDown ==
    ASSUME NEW T, Rooted(T), NEW S
    PROVE  \A n \in Nat : \A e \in Live(T) : e \in Down(T, S)[n] <=> Up(T, e)[n] \cap S # {}
<1> DEFINE Meet == {n \in Nat : \A e \in Live(T) : e \in Down(T, S)[n] <=> Up(T, e)[n] \cap S # {}}
<1>1. 0 \in Meet
  BY UpForm, DownForm
<1>2. ASSUME NEW n \in Meet PROVE n + 1 \in Meet
  <2> SUFFICES ASSUME NEW e \in Live(T)
               PROVE  e \in Down(T, S)[n + 1] <=> Up(T, e)[n + 1] \cap S # {}
    OBVIOUS
  <2> DEFINE p == T[e].parent
  <2>1. Down(T, S)[n + 1] = Down(T, S)[n] \cup ChildrenOf(T, Down(T, S)[n])
    BY DownForm
  <2>2. e \in Down(T, S)[n + 1] <=> Up(T, e)[n] \cap S # {} \/ p \in Down(T, S)[n]
    BY <2>1 DEF ChildrenOf
  <2>3. Down(T, S)[n] \subseteq Live(T)
    BY DownForm
  <2>4. p \in Down(T, S)[n] <=> p # None /\ Up(T, p)[n] \cap S # {}
    BY <2>3, NoneIsNoId DEF Rooted, Live
  <2>5. Up(T, e)[n] \subseteq Up(T, e)[n + 1]
    BY UpForm
  <2>6. Up(T, e)[n + 1] = IF p = None THEN {e} ELSE {e} \cup Up(T, p)[n]
    <3>1. n \in Nat
      OBVIOUS
    <3>2. \A k \in Nat :
             Up(T, e)[k + 1] = IF T[e].parent = None THEN {e} ELSE {e} \cup Up(T, T[e].parent)[k]
      BY UpFromParent, ZenonT(120)
    <3>3. QED
      BY <3>1, <3>2, Zenon
  <2>7. e \in Up(T, e)[n]
    BY UpHasSelf DEF UpHas
  <2>8. QED
    BY <2>2, <2>4, <2>5, <2>6, <2>7
<1>3. QED
  <2> HIDE DEF Meet
  <2>1. \A n \in Nat : n \in Meet
    BY <1>1, <1>2, AllNumbers
  <2>2. QED
    BY <2>1 DEF Meet

\* What is found going up from a record is found going down to it.
LEMMA WalksMeet ==
    ASSUME NEW T, Rooted(T), NEW S
    PROVE  /\ DescendantsAndSelf(T, S) \subseteq Live(T)
           /\ \A e \in Live(T) :
                 e \in DescendantsAndSelf(T, S) <=> AncestorsAndSelf(T, e) \cap S # {}
<1>1. Cardinality(Ids) \in Nat
  BY RegisterAssumption, FS_CardinalityType DEF RegisterAssumption
<1>2. DescendantsAndSelf(T, S) = Down(T, S)[Cardinality(Ids)]
  BY DownForm
<1>3. DescendantsAndSelf(T, S) \subseteq Live(T)
  BY <1>1, <1>2, DownForm
<1>4. ASSUME NEW e \in Live(T)
      PROVE  e \in DescendantsAndSelf(T, S) <=> AncestorsAndSelf(T, e) \cap S # {}
  <2>1. AncestorsAndSelf(T, e) = Up(T, e)[Cardinality(Ids)]
    BY UpForm
  <2>2. QED
    BY <1>1, <1>2, <2>1, UpMeetsDown
<1>5. QED
  BY <1>3, <1>4

(***************************************************************************)
(* The gates.                                                              *)
(***************************************************************************)
LEMMA RolesRead == \A r \in Roles : Reads \subseteq RoleCapabilities[r]
<1> SUFFICES ASSUME NEW r \in Roles PROVE Reads \subseteq RoleCapabilities[r]
  OBVIOUS
<1> HIDE DEF Reads
<1>1. CASE r = "viewer"
  BY <1>1 DEF RoleCapabilities
<1>2. CASE r = "preparer"
  BY <1>2 DEF RoleCapabilities
<1>3. CASE r = "reviewer"
  BY <1>3 DEF RoleCapabilities
<1>4. CASE r = "manager"
  BY <1>4 DEF RoleCapabilities
<1>5. CASE r = "tenant_admin"
  BY <1>5 DEF RoleCapabilities
<1>6. QED
  BY <1>1, <1>2, <1>3, <1>4, <1>5 DEF Roles

\* A scope is as wide as what it reads is often granted.
LEMMA ReadsAreWidest ==
    ASSUME NEW T \in Trees, NEW G \in SUBSET Grants, NEW c, Carrying(G, c) # {}, NEW v \in Reads,
           NEW e \in Live(T) \cup {None}, In(ReadScope(T, G, c), e)
    PROVE  In(ReadScope(T, G, v), e)
<1>1. Carrying(G, v) = G /\ G # {}
  BY RolesRead DEF Carrying, Grants
<1>2. Carrying(G, c) \subseteq Carrying(G, v)
  BY <1>1 DEF Carrying
<1>3. Wide(G, c) => Wide(G, v)
  BY <1>2 DEF Wide
<1>4. Rooted(T)
  BY DEF Trees, Rooted
<1>5. CASE Wide(G, v)
  BY <1>5 DEF ReadScope, In, Everything
<1>6. CASE ~Wide(G, v)
  <2>1. e \in DescendantsAndSelf(T, Roots(G, c))
    BY <1>1, <1>3, <1>6 DEF ReadScope, In, Only
  <2>2. e \in Live(T)
    BY <1>4, <2>1, WalksMeet
  <2>3. AncestorsAndSelf(T, e) \cap Roots(G, c) # {}
    BY <1>4, <2>1, <2>2, WalksMeet
  <2>4. Roots(G, c) \subseteq Roots(G, v)
    BY <1>2 DEF Roots
  <2>5. e \in DescendantsAndSelf(T, Roots(G, v))
    BY <1>4, <2>2, <2>3, <2>4, WalksMeet
  <2>6. QED
    BY <2>5 DEF ReadScope, In, Only, Everything
<1>7. QED
  BY <1>5, <1>6

LEMMA GatesAlwaysAgree ==
    ASSUME NEW T \in Trees, NEW G \in SUBSET Grants, NEW kind
    PROVE  GatesAgree(T, G, kind)
<1> DEFINE found == {None} \cup {e \in Live(T) : ~LoopsAbove(T, e)}
<1> SUFFICES ASSUME NEW c \in Capabilities, RequireCapability(kind, G, c)
             PROVE  /\ \A e \in found : Authorizes(kind, G, T, e, c) <=> In(ReadScope(T, G, c), e)
                    /\ \A v \in Reads, e \in found :
                          Authorizes(kind, G, T, e, c) => In(ReadScope(T, G, v), e)
  BY DEF GatesAgree
<1>1. Rooted(T)
  BY DEF Trees, Rooted
<1>2. Carrying(G, c) # {} /\ G # {} /\ (kind = "service" => c \notin HumanOnly)
  BY DEF RequireCapability, Carrying
<1>3. found \subseteq Live(T) \cup {None} /\ None \notin Live(T)
  BY NoneIsNoId DEF Live
<1>4. ASSUME NEW e \in found
      PROVE  Authorizes(kind, G, T, e, c) <=> In(ReadScope(T, G, c), e)
  <2>1. CASE Wide(G, c)
    BY <1>2, <2>1 DEF Authorizes, ReadScope, In, Everything
  <2>2. CASE ~Wide(G, c)
    <3>1. In(ReadScope(T, G, c), e) <=> e \in DescendantsAndSelf(T, Roots(G, c))
      BY <1>2, <2>2 DEF ReadScope, In, Only
    <3>2. e \in Live(T) =>
             (e \in DescendantsAndSelf(T, Roots(G, c)) <=> AncestorsAndSelf(T, e) \cap Roots(G, c) # {})
      BY <1>1, WalksMeet
    <3>3. e \notin Live(T) => e \notin DescendantsAndSelf(T, Roots(G, c))
      BY <1>1, WalksMeet
    <3>4. AncestorsAndSelf(T, e) \cap Roots(G, c) # {}
            <=> \E x \in AncestorsAndSelf(T, e), g \in Carrying(G, c) : g.scope = x
      BY DEF Roots
    <3>5. QED
      BY <1>2, <2>2, <3>1, <3>2, <3>3, <3>4 DEF Authorizes
  <2>3. QED
    BY <2>1, <2>2
<1>5. ASSUME NEW v \in Reads, NEW e \in found, Authorizes(kind, G, T, e, c)
      PROVE  In(ReadScope(T, G, v), e)
  BY <1>2, <1>3, <1>4, <1>5, ReadsAreWidest
<1>6. QED
  BY <1>4, <1>5

(***************************************************************************)
(* The trail.                                                              *)
(***************************************************************************)
\* Found, entry by entry.
FoundTo(scope, log) ==
    CHOOSE found : found = [n \in Nat |->
        IF n = 0 THEN <<>>
        ELSE IF InTrail(scope, log[n]) THEN Append(found[n - 1], n) ELSE found[n - 1]]

LEMMA FoundForm ==
    ASSUME NEW scope, NEW log
    PROVE  /\ FoundTo(scope, log)[0] = <<>>
           /\ \A n \in Nat :
                 /\ FoundTo(scope, log)[n] \in Seq(Nat)
                 /\ FoundTo(scope, log)[n + 1] =
                       IF InTrail(scope, log[n + 1]) THEN Append(FoundTo(scope, log)[n], n + 1)
                       ELSE FoundTo(scope, log)[n]
           /\ Found(scope, log) = FoundTo(scope, log)[Len(log)]
<1> DEFINE L == Seq(Nat)
           empty == <<>>
           g == [m \in Nat |-> [s \in L |-> IF InTrail(scope, log[m]) THEN Append(s, m) ELSE s]]
           Is(found) == found = [n \in Nat |->
               IF n = 0 THEN <<>>
               ELSE IF InTrail(scope, log[n]) THEN Append(found[n - 1], n) ELSE found[n - 1]]
<1>1. g \in [Nat -> [L -> L]] /\ empty \in L
  <2>1. ASSUME NEW m \in Nat, NEW s \in L
        PROVE  (IF InTrail(scope, log[m]) THEN Append(s, m) ELSE s) \in L
    OBVIOUS
  <2> HIDE DEF L
  <2>2. g \in [Nat -> [L -> L]]
    BY <2>1
  <2>3. QED
    BY <2>2 DEF L
<1>2. PICK f \in [Nat -> L] : f = [n \in Nat |-> IF n = 0 THEN empty ELSE g[n][f[n - 1]]]
  <2> HIDE DEF g, L, empty
  <2>1. \E f : Counting(L, empty, g, f)
    BY <1>1, CountingRecurrence, Zenon
  <2>2. QED
    BY <2>1 DEF Counting
<1>3. Is(f)
  <2>1. ASSUME NEW n \in Nat, n # 0
        PROVE  g[n][f[n - 1]] = IF InTrail(scope, log[n]) THEN Append(f[n - 1], n) ELSE f[n - 1]
    <3>1. f[n - 1] \in L
      BY <2>1
    <3> HIDE DEF L
    <3>2. QED
      BY <3>1
  <2>2. [n \in Nat |-> IF n = 0 THEN <<>> ELSE g[n][f[n - 1]]]
          = [n \in Nat |-> IF n = 0 THEN <<>>
               ELSE IF InTrail(scope, log[n]) THEN Append(f[n - 1], n) ELSE f[n - 1]]
    <3> HIDE DEF g
    <3>1. QED
      BY <2>1
  <2>3. QED
    BY <1>2, <2>2
<1>4. Is(FoundTo(scope, log))
  <2>1. FoundTo(scope, log) = CHOOSE found : Is(found)
    BY DEF FoundTo
  <2> HIDE DEF Is
  <2>2. QED
    BY <1>3, <2>1
<1> DEFINE u == FoundTo(scope, log)
<1> HIDE DEF u
<1>5. \A n \in Nat : u[n] = IF n = 0 THEN <<>>
                            ELSE IF InTrail(scope, log[n]) THEN Append(u[n - 1], n) ELSE u[n - 1]
  BY <1>4, Zenon DEF u
<1>6. u[0] = <<>>
  BY <1>5
<1>7. ASSUME NEW n \in Nat
      PROVE  u[n + 1] = IF InTrail(scope, log[n + 1]) THEN Append(u[n], n + 1) ELSE u[n]
  <2>1. n + 1 \in Nat /\ n + 1 # 0 /\ (n + 1) - 1 = n
    OBVIOUS
  <2>2. u[n + 1] = IF InTrail(scope, log[n + 1]) THEN Append(u[(n + 1) - 1], n + 1)
                   ELSE u[(n + 1) - 1]
    BY <1>5, <2>1
  <2>3. QED
    BY <2>1, <2>2
<1> DEFINE Lists == {n \in Nat : u[n] \in Seq(Nat)}
<1>8. 0 \in Lists /\ \A n \in Lists \cap Nat : n + 1 \in Lists
  <2>1. u[0] \in Seq(Nat)
    <3>1. <<>> \in Seq(Nat)
      OBVIOUS
    <3>2. QED
      BY <1>6, <3>1
  <2>2. ASSUME NEW n \in Nat, u[n] \in Seq(Nat) PROVE u[n + 1] \in Seq(Nat)
    <3>1. Append(u[n], n + 1) \in Seq(Nat)
      BY <2>2
    <3>2. u[n + 1] = Append(u[n], n + 1) \/ u[n + 1] = u[n]
      BY <1>7
    <3>3. QED
      BY <2>2, <3>1, <3>2
  <2>3. \A n \in Nat : u[n] \in Seq(Nat) => u[n + 1] \in Seq(Nat)
    BY <2>2
  <2>4. 0 \in Lists
    BY <2>1
  <2>5. ASSUME NEW n \in Lists \cap Nat PROVE n + 1 \in Lists
    BY <2>3
  <2>6. QED
    BY <2>4, <2>5
<1>9. \A n \in Nat : u[n] \in Seq(Nat)
  <2> HIDE DEF Lists
  <2>1. \A n \in Nat : n \in Lists
    BY <1>8, AllNumbers
  <2>2. QED
    BY <2>1 DEF Lists
<1>10. Found(scope, log) = u[Len(log)]
  BY DEF Found, u, FoundTo
<1>11. QED
  BY <1>6, <1>7, <1>9, <1>10 DEF u

\* What is found is there and in the trail, and no more of it than was looked at.
LEMMA FoundEntries ==
    ASSUME NEW scope, NEW log
    PROVE  \A n \in Nat : \A i \in DOMAIN FoundTo(scope, log)[n] :
              /\ FoundTo(scope, log)[n][i] \in 1 .. n
              /\ InTrail(scope, log[FoundTo(scope, log)[n][i]])
<1>1. PICK u : u = FoundTo(scope, log)
  OBVIOUS
<1> DEFINE Matches(m) == {k \in Nat : k \in 1 .. m /\ InTrail(scope, log[k])}
           Held == {n \in Nat : \A i \in DOMAIN u[n] : u[n][i] \in Matches(n)}
<1>2. \A n \in Nat : u[n] \in Seq(Nat)
  BY <1>1, FoundForm
<1>3. 0 \in Held
  <2>1. u[0] = <<>>
    BY <1>1, FoundForm
  <2>2. QED
    BY <2>1
<1>4. ASSUME NEW n \in Nat, n \in Held PROVE n + 1 \in Held
  <2>1. u[n + 1] = IF InTrail(scope, log[n + 1]) THEN Append(u[n], n + 1) ELSE u[n]
    BY <1>1, FoundForm
  <2>2. \A k \in Matches(n) : k \in Matches(n + 1)
    OBVIOUS
  <2>3. \A i \in DOMAIN u[n] : u[n][i] \in Matches(n)
    BY <1>4
  <2>4. SUFFICES ASSUME NEW i \in DOMAIN u[n + 1] PROVE u[n + 1][i] \in Matches(n + 1)
    OBVIOUS
  <2>5. CASE ~InTrail(scope, log[n + 1])
    <3>1. u[n + 1] = u[n]
      BY <2>1, <2>5
    <3> HIDE DEF Matches
    <3>2. QED
      BY <2>2, <2>3, <2>4, <3>1
  <2>6. CASE InTrail(scope, log[n + 1])
    <3>1. u[n + 1] = Append(u[n], n + 1)
      BY <2>1, <2>6
    <3>2. PICK s \in Seq(Nat) : s = u[n]
      BY <1>2
    <3>3. PICK m \in Nat : m = n + 1
      OBVIOUS
    <3>4. m \in Matches(n + 1)
      BY <2>6, <3>3
    <3>5. i \in DOMAIN Append(s, m)
      BY <2>4, <3>1, <3>2, <3>3
    <3>6. Append(s, m)[i] = m \/ (i \in DOMAIN s /\ Append(s, m)[i] = s[i])
      BY <3>5
    <3> HIDE DEF Matches
    <3>7. QED
      BY <2>2, <2>3, <3>1, <3>2, <3>3, <3>4, <3>6
  <2>7. QED
    BY <2>5, <2>6
<1>5. \A n \in Nat : n \in Held
  <2>1. \A n \in Held \cap Nat : n + 1 \in Held
    <3> HIDE DEF Held
    <3>1. QED
      BY <1>4
  <2> HIDE DEF Held
  <2>2. QED
    BY <1>3, <2>1, AllNumbers
<1>6. QED
  BY <1>1, <1>5

\* Where all is in the trail, all is found.
AllInTrail(scope, log, m) == \A k \in 1 .. m : InTrail(scope, log[k])
Counted(m) == [i \in 1 .. m |-> i]

LEMMA FoundAll ==
    ASSUME NEW scope, NEW log, NEW m \in Nat, AllInTrail(scope, log, m)
    PROVE  FoundTo(scope, log)[m] = Counted(m)
<1>1. PICK u : u = FoundTo(scope, log)
  OBVIOUS
<1> DEFINE Whole == {n \in Nat : n <= m => u[n] = [i \in 1 .. n |-> i]}
<1>2. 0 \in Whole
  <2>1. u[0] = <<>>
    BY <1>1, FoundForm
  <2>2. <<>> = [i \in 1 .. 0 |-> i]
    OBVIOUS
  <2>3. QED
    BY <2>1, <2>2
<1>3. ASSUME NEW n \in Nat, n \in Whole PROVE n + 1 \in Whole
  <2> SUFFICES ASSUME n + 1 <= m PROVE u[n + 1] = [i \in 1 .. n + 1 |-> i]
    OBVIOUS
  <2>1. u[n] = [i \in 1 .. n |-> i]
    BY <1>3
  <2>2. n + 1 \in 1 .. m
    OBVIOUS
  <2>3. u[n + 1] = Append(u[n], n + 1)
    BY <1>1, <2>2, FoundForm DEF AllInTrail
  <2>4. Append([i \in 1 .. n |-> i], n + 1) = [i \in 1 .. n + 1 |-> i]
    OBVIOUS
  <2>5. QED
    BY <2>1, <2>3, <2>4
<1>4. \A n \in Nat : n \in Whole
  <2>1. \A n \in Whole \cap Nat : n + 1 \in Whole
    <3> HIDE DEF Whole
    <3>1. QED
      BY <1>3
  <2> HIDE DEF Whole
  <2>2. QED
    BY <1>2, <2>1, AllNumbers
<1>5. QED
  BY <1>1, <1>4 DEF Counted

LEMMA TrailsAreBlind ==
    ASSUME NEW T \in Trees, NEW G \in SUBSET Grants, Carrying(G, "audit:read") # {},
           NEW log \in Seq(Records(T))
    PROVE  TrailIsBlind(T, G, log)
<1>1. PICK scope : scope = ReadScope(T, G, "audit:read")
  OBVIOUS
<1>2. PICK mine : mine = Found(scope, log)
  OBVIOUS
<1> DEFINE k == Len(mine)
           open == [i \in DOMAIN mine |-> log[mine[i]]]
<1>3. SUFFICES ASSUME ~scope.all
               PROVE  /\ \A v \in {ReadScope(T, G, c) : c \in Reads}, i \in DOMAIN open :
                            In(v, open[i].owner)
                      /\ Trail(T, G, log) = Trail(T, G, open)
  BY <1>1, <1>2 DEF TrailIsBlind
<1>4. mine = FoundTo(scope, log)[Len(log)] /\ Len(log) \in Nat
  BY <1>2, FoundForm
<1>5. mine \in Seq(Nat) /\ k \in Nat /\ DOMAIN mine = 1 .. k
  <2>1. \A n \in Nat : FoundTo(scope, log)[n] \in Seq(Nat)
    BY FoundForm
  <2>2. mine \in Seq(Nat)
    BY <1>4, <2>1, Zenon
  <2>3. QED
    BY <2>2
<1>6. \A i \in 1 .. k : mine[i] \in 1 .. Len(log) /\ InTrail(scope, log[mine[i]])
  BY <1>4, <1>5, FoundEntries
<1>7. open = [i \in 1 .. k |-> log[mine[i]]]
  BY <1>5
<1>8. Len(open) = k
  BY <1>5, <1>7
<1> HIDE DEF open
<1>9. Found(scope, open) = [i \in 1 .. k |-> i]
  <2>1. AllInTrail(scope, open, k)
    BY <1>6, <1>7 DEF AllInTrail
  <2>2. Found(scope, open) = FoundTo(scope, open)[k]
    BY <1>8, FoundForm, SMTT(60)
  <2> HIDE DEF k
  <2>3. FoundTo(scope, open)[k] = Counted(k)
    <3>1. k \in Nat
      BY <1>5
    <3>2. QED
      BY <2>1, <3>1, FoundAll, Zenon
  <2>4. QED
    BY <2>2, <2>3 DEF Counted
<1>10. ASSUME NEW c \in Reads, NEW i \in 1 .. k PROVE In(ReadScope(T, G, c), open[i].owner)
  <2>1. PICK r \in Records(T) : r = log[mine[i]]
    BY <1>6
  <2>2. r.owner \in scope.only
    BY <1>3, <1>6, <2>1 DEF InTrail
  <2>3. In(scope, r.owner)
    BY <2>2 DEF In
  <2>4. ~(G = {} \/ Wide(G, "audit:read"))
    BY <1>1, <1>3 DEF ReadScope, Everything
  <2>5. r.owner \in DescendantsAndSelf(T, Roots(G, "audit:read"))
    BY <1>1, <2>2, <2>4 DEF ReadScope, Only
  <2>6. r.owner \in Live(T)
    <3>1. Rooted(T)
      BY DEF Trees, Rooted
    <3>2. QED
      BY <2>5, <3>1, WalksMeet
  <2>7. In(ReadScope(T, G, c), r.owner)
    BY <1>1, <2>3, <2>6, ReadsAreWidest
  <2>8. QED
    BY <1>7, <2>1, <2>7
<1>11. Trail(T, G, log) = Trail(T, G, open)
  <2> DEFINE all == [i \in 1 .. k |-> i]
  <2>1. Len(all) = k /\ DOMAIN all = 1 .. k
    BY <1>5
  <2>2. \A i \in 1 .. k : k + 1 - i \in 1 .. k
    BY <1>5
  <2>3. \A i \in 1 .. k : open[all[k + 1 - i]] = log[mine[k + 1 - i]]
    BY <1>7, <2>2
  <2>4. Trail(T, G, log) = [entries |-> [i \in 1 .. k |-> [seq |-> 0, about |-> log[mine[k + 1 - i]]]],
                            total |-> k]
    BY <1>1, <1>2, <1>3, <1>5 DEF Trail
  <2> HIDE DEF all
  <2>5. Found(scope, open) = all
    BY <1>9 DEF all
  <2>6. Trail(T, G, open) = [entries |-> [i \in 1 .. k |-> [seq |-> 0, about |-> open[all[k + 1 - i]]]],
                             total |-> k]
    BY <1>1, <1>3, <2>1, <2>5 DEF Trail
  <2>7. [i \in 1 .. k |-> [seq |-> 0, about |-> log[mine[k + 1 - i]]]]
          = [i \in 1 .. k |-> [seq |-> 0, about |-> open[all[k + 1 - i]]]]
    BY <2>3
  <2>8. QED
    BY <2>4, <2>6, <2>7
<1>12. QED
  BY <1>7, <1>10, <1>11

\* Whatever is asked, the gates of reads and of writes agree and the trail is
\* blind.
AskedWell ==
    asked = Nothing
    \/ \E T \in Trees, G \in GrantSets, kind \in {"human", "service"} :
          asked = [about |-> "access", tree |-> T, grants |-> G, kind |-> kind]

THEOREM ViewsAlwaysFollow == AccessSpec => []ViewsFollowGrants
<1>1. asked = Nothing => AskedWell
  BY DEF AskedWell
<1>2. AskedWell /\ [AskAccess]_asked => AskedWell'
  BY DEF AskedWell, AskAccess
<1>3. AskedWell => ViewsFollowGrants
  <2> SUFFICES ASSUME AskedWell, asked.about = "access" PROVE ViewsFollowGrants
    BY DEF ViewsFollowGrants
  <2>1. asked # Nothing
    BY DEF Nothing
  <2>2. PICK T \in Trees, G \in GrantSets, kind \in {"human", "service"} :
            asked = [about |-> "access", tree |-> T, grants |-> G, kind |-> kind]
    BY <2>1 DEF AskedWell
  <2>3. G \in SUBSET Grants /\ Logs(T) \subseteq Seq(Records(T))
    BY AccessAssumption
  <2>4. GatesAgree(T, G, kind)
    BY <2>3, GatesAlwaysAgree
  <2>5. ASSUME RequireCapability(kind, G, "audit:read"), NEW log \in Logs(T)
        PROVE  TrailIsBlind(T, G, log)
    <3>1. Carrying(G, "audit:read") # {}
      BY <2>5 DEF RequireCapability
    <3>2. log \in Seq(Records(T))
      BY <2>3
    <3>3. QED
      BY <2>3, <3>1, <3>2, TrailsAreBlind
  <2>6. asked.tree = T /\ asked.grants = G /\ asked.kind = kind
    BY <2>2
  <2>7. QED
    BY <2>4, <2>5, <2>6 DEF ViewsFollowGrants
<1>4. QED
  BY <1>1, <1>2, <1>3, PTL DEF AccessSpec

(***************************************************************************)
(* Civil dates.                                                            *)
(***************************************************************************)
LEMMA YearLength ==
    ASSUME NEW y \in Int
    PROVE  /\ DaysBeforeYear(y) \in Int
           /\ DaysBeforeYear(y + 1) = DaysBeforeYear(y) + (IF Leap(y) THEN 366 ELSE 365)
  BY DEF DaysBeforeYear, Leap

\* A year begins after some 365.2425 days each.
LEMMA YearsPlace ==
    ASSUME NEW n \in Int, NEW about \in Int, about = (400 * n) \div 146097
    PROVE  DaysBeforeYear(about) < n /\ n <= DaysBeforeYear(about + 3)
  BY DEF DaysBeforeYear

LEMMA YearOfForm ==
    ASSUME NEW n \in Int
    PROVE  YearOf(n) \in Int /\ DaysBeforeYear(YearOf(n)) < n /\ n <= DaysBeforeYear(YearOf(n) + 1)
<1>1. PICK about \in Int : about = (400 * n) \div 146097
  OBVIOUS
<1>2. DaysBeforeYear(about) < n /\ n <= DaysBeforeYear(about + 3)
  BY <1>1, YearsPlace
<1>3. \A k \in about .. about + 3 : DaysBeforeYear(k) \in Int
  BY YearLength
<1>4. \E y \in about .. about + 2 : DaysBeforeYear(y) < n /\ n <= DaysBeforeYear(y + 1)
  <2>1. CASE n <= DaysBeforeYear(about + 1)
    BY <1>2, <2>1
  <2>2. CASE DaysBeforeYear(about + 1) < n /\ n <= DaysBeforeYear(about + 2)
    <3>1. about + 1 \in about .. about + 2 /\ about + 1 + 1 = about + 2
      OBVIOUS
    <3>2. QED
      BY <2>2, <3>1
  <2>3. CASE DaysBeforeYear(about + 2) < n
    <3>1. about + 2 \in about .. about + 2 /\ about + 2 + 1 = about + 3
      OBVIOUS
    <3>2. QED
      BY <1>2, <2>3, <3>1
  <2>4. DaysBeforeYear(about + 1) \in Int /\ DaysBeforeYear(about + 2) \in Int
    BY <1>3
  <2>5. QED
    BY <2>1, <2>2, <2>3, <2>4
<1>5. PICK y : y = YearOf(n)
  OBVIOUS
<1>6. y = CHOOSE k \in about .. about + 2 : DaysBeforeYear(k) < n /\ n <= DaysBeforeYear(k + 1)
  BY <1>1, <1>5 DEF YearOf
<1>7. QED
  BY <1>4, <1>5, <1>6

LEMMA YearsOrder ==
    ASSUME NEW y \in Int, NEW z \in Int, y <= z
    PROVE  DaysBeforeYear(y) <= DaysBeforeYear(z)
  BY DEF DaysBeforeYear

\* A day is in one year.
LEMMA YearOfIs ==
    ASSUME NEW n \in Int, NEW y \in Int, DaysBeforeYear(y) < n, n <= DaysBeforeYear(y + 1)
    PROVE  YearOf(n) = y
<1>1. PICK z \in Int : z = YearOf(n) /\ DaysBeforeYear(z) < n /\ n <= DaysBeforeYear(z + 1)
  BY YearOfForm
<1>2. \A k \in {y, y + 1, z, z + 1} : DaysBeforeYear(k) \in Int
  BY YearLength
<1>3. CASE z < y
  <2>1. DaysBeforeYear(z + 1) <= DaysBeforeYear(y)
    BY <1>3, YearsOrder
  <2>2. QED
    BY <1>1, <1>2, <2>1
<1>4. CASE y < z
  <2>1. DaysBeforeYear(y + 1) <= DaysBeforeYear(z)
    BY <1>4, YearsOrder
  <2>2. QED
    BY <1>1, <1>2, <2>1
<1>5. QED
  BY <1>1, <1>3, <1>4

\* Months are counted through the years: 12 y is January of y.
MonthStart(a) == Date(a \div 12, (a % 12) + 1, 1)
DaysOf(a) == LastDayOfMonth(a \div 12, (a % 12) + 1)

MonthFits(y, m) ==
    /\ LastDayOfMonth(y, m) \in 28 .. 31
    /\ DaysBeforeMonth(y, m) \in 0 .. 335
    /\ m = 1 => DaysBeforeMonth(y, m) = 0
    /\ m < 12 => DaysBeforeMonth(y, m + 1) = DaysBeforeMonth(y, m) + LastDayOfMonth(y, m)
    /\ m = 12 => DaysBeforeMonth(y, m) + LastDayOfMonth(y, m) = IF Leap(y) THEN 366 ELSE 365

LEMMA MonthLengths ==
    ASSUME NEW y \in Int, NEW m \in 1 .. 12
    PROVE  MonthFits(y, m)
<1>1. m \in {1, 2, 3, 4, 5, 6, 7, 8, 9, 10, 11, 12}
  OBVIOUS
<1>2. LastDayOfMonth(y, m) = CASE m \in {4, 6, 9, 11} -> 30
                               [] m = 2 -> IF Leap(y) THEN 29 ELSE 28
                               [] OTHER -> 31
  BY DEF LastDayOfMonth
<1>3. DaysBeforeMonth(y, m) = <<0, 31, 59, 90, 120, 151, 181, 212, 243, 273, 304, 334>>[m]
                                + (IF m > 2 /\ Leap(y) THEN 1 ELSE 0)
  BY DEF DaysBeforeMonth
<1>4. m < 12 => DaysBeforeMonth(y, m + 1) =
                  <<0, 31, 59, 90, 120, 151, 181, 212, 243, 273, 304, 334>>[m + 1]
                    + (IF m + 1 > 2 /\ Leap(y) THEN 1 ELSE 0)
  BY DEF DaysBeforeMonth
<1>5. QED
  BY <1>1, <1>2, <1>3, <1>4 DEF MonthFits

LEMMA MonthParts ==
    ASSUME NEW y \in Int, NEW m \in 1 .. 12
    PROVE  /\ (12 * y + m - 1) \div 12 = y /\ (12 * y + m - 1) % 12 = m - 1
           /\ MonthStart(12 * y + m - 1) = Date(y, m, 1)
           /\ DaysOf(12 * y + m - 1) = LastDayOfMonth(y, m)
<1>1. (12 * y + m - 1) \div 12 = y /\ (12 * y + m - 1) % 12 = m - 1
  OBVIOUS
<1>2. QED
  BY <1>1 DEF MonthStart, DaysOf

LEMMA MonthIs ==
    ASSUME NEW a \in Int
    PROVE  \E y \in Int, m \in 1 .. 12 : a = 12 * y + m - 1
<1>1. a \div 12 \in Int /\ (a % 12) + 1 \in 1 .. 12 /\ a = 12 * (a \div 12) + ((a % 12) + 1) - 1
  OBVIOUS
<1>2. QED
  BY <1>1

LEMMA MonthStep ==
    ASSUME NEW a \in Int
    PROVE  /\ MonthStart(a) \in Int /\ DaysOf(a) \in 28 .. 31
           /\ MonthStart(a + 1) = MonthStart(a) + DaysOf(a)
<1>1. PICK y \in Int, m \in 1 .. 12 : a = 12 * y + m - 1
  BY MonthIs
<1>2. /\ MonthStart(a) = DaysBeforeYear(y) + DaysBeforeMonth(y, m) + 1
      /\ DaysOf(a) = LastDayOfMonth(y, m)
  BY <1>1, MonthParts DEF Date
<1>3. /\ DaysBeforeYear(y) \in Int
      /\ DaysBeforeYear(y + 1) = DaysBeforeYear(y) + (IF Leap(y) THEN 366 ELSE 365)
  BY YearLength
<1>4. MonthFits(y, m)
  BY MonthLengths
<1>5. CASE m < 12
  <2>1. PICK k \in 1 .. 12 : k = m + 1
    BY <1>5
  <2>2. a + 1 = 12 * y + k - 1
    BY <1>1, <2>1
  <2>3. MonthStart(a + 1) = DaysBeforeYear(y) + DaysBeforeMonth(y, k) + 1
    BY <2>2, MonthParts DEF Date
  <2>4. QED
    BY <1>2, <1>3, <1>4, <1>5, <2>1, <2>3 DEF MonthFits
<1>6. CASE m = 12
  <2>1. PICK z \in Int : z = y + 1
    OBVIOUS
  <2>2. a + 1 = 12 * z + 1 - 1 /\ 1 \in 1 .. 12
    BY <1>1, <1>6, <2>1
  <2>3. MonthStart(a + 1) = Date(z, 1, 1)
    BY <2>2, MonthParts
  <2>4. DaysBeforeMonth(z, 1) = 0
    BY MonthLengths DEF MonthFits
  <2>5. QED
    BY <1>2, <1>3, <1>4, <1>6, <2>1, <2>3, <2>4 DEF Date, MonthFits
<1>7. MonthStart(a) \in Int /\ DaysOf(a) \in 28 .. 31
  BY <1>2, <1>3, <1>4 DEF MonthFits
<1>8. QED
  BY <1>5, <1>6, <1>7

LEMMA DaysBeforeMonthOrder ==
    ASSUME NEW y \in Int, NEW m \in 1 .. 12, NEW k \in 1 .. 12, m <= k
    PROVE  DaysBeforeMonth(y, m) <= DaysBeforeMonth(y, k)
<1>1. /\ m \in {1, 2, 3, 4, 5, 6, 7, 8, 9, 10, 11, 12}
      /\ k \in {1, 2, 3, 4, 5, 6, 7, 8, 9, 10, 11, 12}
  OBVIOUS
<1>2. QED
  BY <1>1 DEF DaysBeforeMonth

LEMMA MonthsOrder ==
    ASSUME NEW a \in Int, NEW b \in Int, a <= b
    PROVE  MonthStart(a) <= MonthStart(b)
<1>1. PICK y \in Int, m \in 1 .. 12 : a = 12 * y + m - 1
  BY MonthIs
<1>2. PICK z \in Int, k \in 1 .. 12 : b = 12 * z + k - 1
  BY MonthIs
<1>3. MonthStart(a) = DaysBeforeYear(y) + DaysBeforeMonth(y, m) + 1
  BY <1>1, MonthParts DEF Date
<1>4. MonthStart(b) = DaysBeforeYear(z) + DaysBeforeMonth(z, k) + 1
  BY <1>2, MonthParts DEF Date
<1>5. MonthFits(y, m) /\ MonthFits(z, k)
  BY MonthLengths
<1>6. DaysBeforeYear(y) \in Int /\ DaysBeforeYear(z) \in Int
  BY YearLength
<1>7. DaysBeforeMonth(y, m) \in 0 .. 335 /\ DaysBeforeMonth(z, k) \in 0 .. 335
  BY <1>5 DEF MonthFits
<1>8. PICK u \in 0 .. 335, v \in 0 .. 335 : u = DaysBeforeMonth(y, m) /\ v = DaysBeforeMonth(z, k)
  BY <1>7
<1>9. CASE y = z
  <2>1. m <= k
    BY <1>1, <1>2, <1>9
  <2>2. u <= v
    BY <1>8, <1>9, <2>1, DaysBeforeMonthOrder
  <2>3. MonthStart(a) = DaysBeforeYear(y) + u + 1 /\ MonthStart(b) = DaysBeforeYear(y) + v + 1
    BY <1>3, <1>4, <1>9, <1>8
  <2>4. QED
    BY <1>6, <2>2, <2>3
<1>10. CASE y < z
  <2>1. DaysBeforeYear(y + 1) = DaysBeforeYear(y) + (IF Leap(y) THEN 366 ELSE 365)
    BY YearLength
  <2>2. DaysBeforeYear(y + 1) <= DaysBeforeYear(z)
    BY <1>10, YearsOrder
  <2>3. MonthStart(a) = DaysBeforeYear(y) + u + 1 /\ MonthStart(b) = DaysBeforeYear(z) + v + 1
    BY <1>3, <1>4, <1>8
  <2>4. QED
    BY <1>6, <2>1, <2>2, <2>3
<1>11. QED
  BY <1>1, <1>2, <1>9, <1>10

\* The month a day is in, and that it is in no other.
MonthAt(n) == 12 * YearOf(n) + MonthOf(n) - 1

LEMMA DayForm ==
    ASSUME NEW n \in Int
    PROVE  /\ MonthOf(n) \in 1 .. 12 /\ MonthAt(n) \in Int
           /\ DayOf(n) \in 1 .. DaysOf(MonthAt(n)) /\ n = MonthStart(MonthAt(n)) + DayOf(n) - 1
<1>1. PICK y \in Int : y = YearOf(n) /\ DaysBeforeYear(y) < n /\ n <= DaysBeforeYear(y + 1)
  BY YearOfForm
<1>2. /\ DaysBeforeYear(y) \in Int
      /\ DaysBeforeYear(y + 1) = DaysBeforeYear(y) + (IF Leap(y) THEN 366 ELSE 365)
  BY YearLength
<1>3. \A m \in 1 .. 12 : MonthFits(y, m)
  BY MonthLengths
<1> DEFINE Fits(m) == Date(y, m, 1) <= n /\ n <= Date(y, m, LastDayOfMonth(y, m))
<1>4. \E m \in 1 .. 12 : Fits(m)
  <2> DEFINE before(m) == DaysBeforeYear(y) + DaysBeforeMonth(y, m)
  <2>1. \A m \in 1 .. 12 : before(m) \in Int
    BY <1>2, <1>3, SMTT(60) DEF MonthFits
  <2>2. \A m \in 1 .. 11 : before(m + 1) = before(m) + LastDayOfMonth(y, m)
    BY <1>2, <1>3, SMTT(60) DEF MonthFits
  <2>3. before(1) < n /\ n <= before(12) + LastDayOfMonth(y, 12)
    BY <1>1, <1>2, <1>3, SMTT(60) DEF MonthFits
  <2>4. \A m \in 1 .. 12 : before(m) < n /\ n <= before(m) + LastDayOfMonth(y, m) => Fits(m)
    BY <1>2, <1>3, SMTT(60) DEF Date, MonthFits
  <2>5. ASSUME \A m \in 1 .. 12 : ~Fits(m) PROVE FALSE
    <3> HIDE DEF Fits, before
    <3>1. \A m \in 1 .. 11 : before(m) < n => before(m + 1) < n
      BY <1>3, <2>1, <2>2, <2>4, <2>5 DEF MonthFits
    <3>2. before(2) < n /\ before(3) < n /\ before(4) < n /\ before(5) < n
      BY <2>3, <3>1
    <3>3. before(6) < n /\ before(7) < n /\ before(8) < n /\ before(9) < n
      BY <3>1, <3>2
    <3>4. before(10) < n /\ before(11) < n /\ before(12) < n
      BY <3>1, <3>3
    <3>5. QED
      BY <2>3, <2>4, <2>5, <3>4
  <2>6. QED
    BY <2>5
<1>5. MonthOf(n) = CHOOSE m \in 1 .. 12 : Fits(m)
  BY <1>1 DEF MonthOf
<1>6. MonthOf(n) \in 1 .. 12 /\ Fits(MonthOf(n))
  BY <1>4, <1>5
<1>7. PICK m \in 1 .. 12 : m = MonthOf(n) /\ Fits(m)
  BY <1>6
<1>8. MonthFits(y, m)
  BY <1>3
<1>9. DayOf(n) = n - DaysBeforeYear(y) - DaysBeforeMonth(y, m)
  BY <1>1, <1>7 DEF DayOf
<1>10. MonthAt(n) = 12 * y + m - 1
  BY <1>1, <1>7 DEF MonthAt
<1>11. MonthStart(MonthAt(n)) = Date(y, m, 1) /\ DaysOf(MonthAt(n)) = LastDayOfMonth(y, m)
  BY <1>10, MonthParts
<1>12. QED
  BY <1>2, <1>7, <1>8, <1>9, <1>10, <1>11 DEF Date, MonthFits

LEMMA DayIs ==
    ASSUME NEW a \in Int, NEW d \in 1 .. DaysOf(a), NEW n, n = MonthStart(a) + d - 1
    PROVE  n \in Int /\ MonthAt(n) = a /\ DayOf(n) = d
<1>1. \A b \in Int : /\ MonthStart(b) \in Int /\ DaysOf(b) \in 28 .. 31
                     /\ MonthStart(b + 1) = MonthStart(b) + DaysOf(b)
  BY MonthStep
<1>2. n \in Int
  BY <1>1
<1>3. PICK b \in Int, e \in Int : /\ b = MonthAt(n) /\ e = DayOf(n)
                                  /\ e \in 1 .. DaysOf(b) /\ n = MonthStart(b) + e - 1
  BY <1>1, <1>2, DayForm
<1>4. CASE b < a
  <2>1. MonthStart(b + 1) <= MonthStart(a)
    BY <1>4, MonthsOrder
  <2>2. QED
    BY <1>1, <1>3, <2>1
<1>5. CASE a < b
  <2>1. MonthStart(a + 1) <= MonthStart(b)
    BY <1>5, MonthsOrder
  <2>2. QED
    BY <1>1, <1>3, <2>1
<1>6. CASE a = b
  BY <1>1, <1>2, <1>3, <1>6
<1>7. QED
  BY <1>4, <1>5, <1>6

\* The day after is the next of the month, or the first of the next month.
LEMMA NextDay ==
    ASSUME NEW n \in Int, NEW a, NEW d, a = MonthAt(n), d = DayOf(n)
    PROVE  \/ MonthAt(n + 1) = a /\ DayOf(n + 1) = d + 1
           \/ MonthAt(n + 1) = a + 1 /\ DayOf(n + 1) = 1 /\ d = DaysOf(a)
<1>1. a \in Int /\ d \in 1 .. DaysOf(a) /\ n = MonthStart(a) + d - 1
  BY DayForm
<1>2. /\ MonthStart(a) \in Int /\ DaysOf(a) \in 28 .. 31
      /\ MonthStart(a + 1) = MonthStart(a) + DaysOf(a)
  BY <1>1, MonthStep
<1>3. CASE d < DaysOf(a)
  <2>1. d + 1 \in 1 .. DaysOf(a) /\ n + 1 = MonthStart(a) + (d + 1) - 1
    BY <1>1, <1>2, <1>3
  <2>2. QED
    BY <1>1, <2>1, DayIs
<1>4. CASE d = DaysOf(a)
  <2>1. PICK b \in Int : b = a + 1
    BY <1>1
  <2>2. MonthStart(b) \in Int /\ DaysOf(b) \in 28 .. 31
    BY MonthStep
  <2>3. 1 \in 1 .. DaysOf(b)
    BY <2>2
  <2>4. MonthStart(b) = MonthStart(a) + DaysOf(a)
    BY <1>2, <2>1
  <2>5. n + 1 = MonthStart(b) + 1 - 1
    <3>1. PICK t \in Int, l \in Int : t = MonthStart(a) /\ l = DaysOf(a)
      BY <1>2
    <3>2. n = t + l - 1 /\ MonthStart(b) = t + l
      BY <1>1, <1>4, <2>4, <3>1
    <3>3. QED
      BY <3>2
  <2>6. QED
    BY <1>4, <2>1, <2>3, <2>5, DayIs
<1>5. QED
  BY <1>1, <1>2, <1>3, <1>4

\* A day of a month, or the last it has.
InMonth(a, d) == MonthStart(a) + Least(d, DaysOf(a)) - 1

LEMMA ClampedForm ==
    ASSUME NEW n \in Int, NEW months \in Int
    PROVE  AddMonthsClamped(n, months) = InMonth(MonthAt(n) + months, DayOf(n))
<1>1. PICK at \in Int : at = MonthAt(n) + months
  BY DayForm
<1>2. at = 12 * YearOf(n) + MonthOf(n) - 1 + months
  BY <1>1 DEF MonthAt
<1>3. AddMonthsClamped(n, months) = PlaceMonthDay(at \div 12, <<(at % 12) + 1, DayOf(n)>>)
  BY <1>2 DEF AddMonthsClamped
<1>4. PlaceMonthDay(at \div 12, <<(at % 12) + 1, DayOf(n)>>)
        = Date(at \div 12, (at % 12) + 1, Least(DayOf(n), LastDayOfMonth(at \div 12, (at % 12) + 1)))
  BY DEF PlaceMonthDay
<1>5. PICK y \in Int, m \in 1 .. 12 : y = at \div 12 /\ m = (at % 12) + 1
  BY <1>1
<1>6. DaysBeforeYear(y) \in Int /\ DaysBeforeMonth(y, m) \in 0 .. 335 /\ LastDayOfMonth(y, m) \in 28 .. 31
  BY MonthLengths, YearLength, ZenonT(120) DEF MonthFits
<1>7. DayOf(n) \in Int
  BY DayForm
<1>8. PICK e \in Int : e = Least(DayOf(n), LastDayOfMonth(y, m))
  BY <1>6, <1>7 DEF Least
<1>9. Date(y, m, e) = Date(y, m, 1) + e - 1
  BY <1>6 DEF Date
<1>10. QED
  BY <1>1, <1>3, <1>4, <1>5, <1>8, <1>9 DEF InMonth, MonthStart, DaysOf

\* ApplyOffset and the payment rules clamp to the end of a month without
\* changing the order of the days.
LEMMA ClampedOrder ==
    ASSUME NEW n \in Int, NEW months \in Int
    PROVE  /\ AddMonthsClamped(n, months) \in Int
           /\ AddMonthsClamped(n, months) <= AddMonthsClamped(n + 1, months)
<1>1. MonthAt(n) \in Int /\ DayOf(n) \in 1 .. DaysOf(MonthAt(n))
  BY DayForm
<1>2. DaysOf(MonthAt(n)) \in 28 .. 31
  BY <1>1, MonthStep
<1>3. PICK a \in Int, d \in Int : /\ a = MonthAt(n) /\ d = DayOf(n)
                                  /\ 1 <= d /\ d <= DaysOf(a)
  BY <1>1, <1>2
<1>4. PICK at \in Int : at = a + months
  OBVIOUS
<1>5. AddMonthsClamped(n, months) = InMonth(at, d)
  BY <1>3, <1>4, ClampedForm
<1>6. AddMonthsClamped(n + 1, months) = InMonth(MonthAt(n + 1) + months, DayOf(n + 1))
  BY ClampedForm
<1>7. /\ MonthStart(at) \in Int /\ DaysOf(at) \in 28 .. 31
      /\ MonthStart(at + 1) = MonthStart(at) + DaysOf(at)
  BY MonthStep
<1>8. CASE MonthAt(n + 1) = a /\ DayOf(n + 1) = d + 1
  BY <1>4, <1>5, <1>6, <1>7, <1>8 DEF InMonth, Least
<1>9. CASE MonthAt(n + 1) = a + 1 /\ DayOf(n + 1) = 1
  <2>1. DaysOf(at + 1) \in 28 .. 31
    BY MonthStep
  <2>2. AddMonthsClamped(n + 1, months) = InMonth(at + 1, 1)
    BY <1>4, <1>6, <1>9
  <2>3. QED
    BY <1>5, <1>7, <2>1, <2>2 DEF InMonth, Least
<1>10. QED
  BY <1>3, <1>8, <1>9, NextDay

LEMMA WeekendOrder ==
    ASSUME NEW n \in Int, NEW m \in Int, n <= m, NEW adjustment
    PROVE  /\ ApplyWeekendAdjustment(n, adjustment) \in Int
           /\ ApplyWeekendAdjustment(n, adjustment) <= ApplyWeekendAdjustment(m, adjustment)
<1> DEFINE to(k) == ApplyWeekendAdjustment(k, adjustment)
<1>1. CASE adjustment \in {"", "none"}
  BY <1>1 DEF ApplyWeekendAdjustment
<1>2. CASE adjustment \notin {"", "none"} /\ adjustment = "next-business-day"
  <2>1. \A k \in Int : to(k) = IF k % 7 = 6 THEN k + 2 ELSE IF k % 7 = 0 THEN k + 1 ELSE k
    BY <1>2 DEF ApplyWeekendAdjustment, Weekday
  <2>2. QED
    BY <2>1
<1>3. CASE adjustment \notin {"", "none"} /\ adjustment # "next-business-day"
  <2>1. \A k \in Int : to(k) = IF k % 7 = 6 THEN k - 1 ELSE IF k % 7 = 0 THEN k - 2 ELSE k
    BY <1>3 DEF ApplyWeekendAdjustment, Weekday
  <2>2. QED
    BY <2>1
<1>4. QED
  BY <1>1, <1>2, <1>3

LEMMA OffsetOrder ==
    ASSUME NEW n \in Int, NEW r \in DueRules
    PROVE  LET at(k) == ApplyOffset(k, r.value, r.unit, r.direction)
           IN  at(n) \in Int /\ at(n) <= at(n + 1) /\ at(n + 1) \in Int
<1>1. r.value \in Nat /\ r.unit \in {"days", "weeks", "months"}
  BY CalendarAssumption
<1>2. PICK by \in Int : by = IF r.direction = "before" THEN -r.value ELSE r.value
  BY <1>1
<1>3. \A k \in Int : ApplyOffset(k, r.value, r.unit, r.direction) =
                        CASE r.unit = "days" -> k + by
                          [] r.unit = "weeks" -> k + 7 * by
                          [] r.unit = "months" -> AddMonthsClamped(k, by)
  BY <1>2 DEF ApplyOffset
<1>4. /\ AddMonthsClamped(n, by) \in Int /\ AddMonthsClamped(n + 1, by) \in Int
      /\ AddMonthsClamped(n, by) <= AddMonthsClamped(n + 1, by)
  BY ClampedOrder
<1>5. QED
  BY <1>1, <1>3, <1>4

\* A day and month of a year is a day of that year.
LEMMA PlacedInYear ==
    ASSUME NEW y \in Int, NEW md \in MonthDays
    PROVE  /\ PlaceMonthDay(y, md) \in Int
           /\ DaysBeforeYear(y) < PlaceMonthDay(y, md) /\ PlaceMonthDay(y, md) <= DaysBeforeYear(y + 1)
<1>1. PICK m \in 1 .. 12, d \in 1 .. 31 : md[1] = m /\ md[2] = d
  BY DEF MonthDays
<1>2. /\ DaysBeforeYear(y) \in Int
      /\ DaysBeforeYear(y + 1) = DaysBeforeYear(y) + (IF Leap(y) THEN 366 ELSE 365)
  BY YearLength
<1>3. PICK before \in 0 .. 335, last \in 28 .. 31 : /\ before = DaysBeforeMonth(y, m)
                                                    /\ last = LastDayOfMonth(y, m)
  BY MonthLengths, ZenonT(120) DEF MonthFits
<1>4. before + last <= 365 \/ (Leap(y) /\ before + last <= 366)
  <2>1. CASE m = 12
    BY <1>3, <2>1, MonthLengths, SMTT(60) DEF MonthFits
  <2>2. CASE m < 12
    <3>1. PICK k \in 1 .. 12 : k = m + 1
      BY <2>2
    <3>2. DaysBeforeMonth(y, k) = before + last
      BY <1>3, <2>2, <3>1, MonthLengths, SMTT(60) DEF MonthFits
    <3>3. DaysBeforeMonth(y, k) \in 0 .. 335
      BY MonthLengths, SMTT(60) DEF MonthFits
    <3>4. QED
      BY <3>2, <3>3
  <2>3. QED
    BY <2>1, <2>2
<1>5. PICK e \in 1 .. last : e = Least(d, last)
  BY DEF Least
<1>6. PlaceMonthDay(y, md) = DaysBeforeYear(y) + before + e
  BY <1>1, <1>3, <1>5 DEF PlaceMonthDay, Date
<1>7. QED
  BY <1>2, <1>4, <1>6

\* The date of a list this year or next.
NextOf(n, md) ==
    LET this == PlaceMonthDay(YearOf(n), md) IN
    IF this < n THEN PlaceMonthDay(YearOf(n) + 1, md) ELSE this

LEMMA NextOfOrder ==
    ASSUME NEW n \in Int, NEW md \in MonthDays
    PROVE  NextOf(n, md) \in Int /\ n <= NextOf(n, md) /\ NextOf(n, md) <= NextOf(n + 1, md)
<1>1. PICK y \in Int : y = YearOf(n) /\ DaysBeforeYear(y) < n /\ n <= DaysBeforeYear(y + 1)
  BY YearOfForm
<1>2. \A k \in Int : DaysBeforeYear(k) \in Int
  BY YearLength
<1>3. \A k \in Int : /\ PlaceMonthDay(k, md) \in Int
                     /\ DaysBeforeYear(k) < PlaceMonthDay(k, md)
                     /\ PlaceMonthDay(k, md) <= DaysBeforeYear(k + 1)
  BY PlacedInYear
<1>4. NextOf(n, md) = IF PlaceMonthDay(y, md) < n THEN PlaceMonthDay(y + 1, md) ELSE PlaceMonthDay(y, md)
  BY <1>1 DEF NextOf
<1>5. NextOf(n, md) \in Int /\ n <= NextOf(n, md)
  <2>1. DaysBeforeYear(y + 1) < PlaceMonthDay(y + 1, md) /\ PlaceMonthDay(y + 1, md) \in Int
    BY <1>3
  <2>2. QED
    BY <1>1, <1>2, <1>3, <1>4, <2>1
<1>6. CASE n < DaysBeforeYear(y + 1)
  <2>1. YearOf(n + 1) = y
    <3>1. DaysBeforeYear(y) < n + 1 /\ n + 1 <= DaysBeforeYear(y + 1)
      BY <1>1, <1>2, <1>6
    <3>2. QED
      BY <3>1, YearOfIs
  <2>2. NextOf(n + 1, md) = IF PlaceMonthDay(y, md) < n + 1 THEN PlaceMonthDay(y + 1, md) ELSE PlaceMonthDay(y, md)
    BY <2>1 DEF NextOf
  <2>3. PlaceMonthDay(y, md) <= DaysBeforeYear(y + 1) /\ DaysBeforeYear(y + 1) < PlaceMonthDay(y + 1, md)
    BY <1>3
  <2>4. /\ PlaceMonthDay(y, md) \in Int /\ PlaceMonthDay(y + 1, md) \in Int
        /\ DaysBeforeYear(y + 1) \in Int
    BY <1>2, <1>3
  <2>5. QED
    BY <1>4, <1>5, <2>2, <2>3, <2>4
<1>7. CASE n = DaysBeforeYear(y + 1)
  <2>1. PICK z \in Int : z = y + 1
    OBVIOUS
  <2>2. YearOf(n + 1) = z
    <3>1. DaysBeforeYear(z + 1) = DaysBeforeYear(z) + (IF Leap(z) THEN 366 ELSE 365)
      BY YearLength
    <3>2. DaysBeforeYear(z) < n + 1 /\ n + 1 <= DaysBeforeYear(z + 1)
      BY <1>2, <1>7, <2>1, <3>1
    <3>3. QED
      BY <3>2, YearOfIs
  <2>3. NextOf(n + 1, md) = IF PlaceMonthDay(z, md) < n + 1 THEN PlaceMonthDay(z + 1, md) ELSE PlaceMonthDay(z, md)
    BY <2>2 DEF NextOf
  <2>4. /\ n < PlaceMonthDay(z, md) /\ PlaceMonthDay(y, md) <= n
        /\ PlaceMonthDay(z, md) <= DaysBeforeYear(z + 1) /\ DaysBeforeYear(z + 1) < PlaceMonthDay(z + 1, md)
    BY <1>3, <1>7, <2>1
  <2>5. /\ PlaceMonthDay(y, md) \in Int /\ PlaceMonthDay(z, md) \in Int
        /\ PlaceMonthDay(z + 1, md) \in Int /\ DaysBeforeYear(z + 1) \in Int
    BY <1>2, <1>3
  <2>6. QED
    BY <1>4, <1>5, <2>1, <2>3, <2>4, <2>5
<1>8. QED
  BY <1>1, <1>2, <1>5, <1>6, <1>7

LEMMA FirstFixedForm ==
    ASSUME NEW n \in Int, NEW dates \in SUBSET MonthDays, dates # {}
    PROVE  \E md \in dates : /\ FirstFixedDateOnOrAfter(n, dates) = NextOf(n, md)
                             /\ \A e \in dates : NextOf(n, md) <= NextOf(n, e)
<1>1. \A md \in dates : NextOf(n, md) \in Int /\ n <= NextOf(n, md)
  BY NextOfOrder
<1> DEFINE S == {NextOf(n, md) - n : md \in dates}
<1>2. S \in SUBSET Nat /\ S # {}
  BY <1>1
<1>3. PICK k \in S : \A j \in S : k <= j
  BY <1>2, FirstOf
<1>4. PICK at \in dates : k = NextOf(n, at) - n
  BY <1>3
<1>5. \A md \in dates : NextOf(n, at) <= NextOf(n, md)
  BY <1>1, <1>3, <1>4
<1>6. FirstFixedDateOnOrAfter(n, dates) =
         CHOOSE d \in {NextOf(n, md) : md \in dates} : \A md \in dates : d <= NextOf(n, md)
  BY DEF FirstFixedDateOnOrAfter, NextOf
<1>7. \E d \in {NextOf(n, md) : md \in dates} : \A md \in dates : d <= NextOf(n, md)
  BY <1>5
<1> HIDE DEF S
<1>8. PICK V : V = {NextOf(n, md) : md \in dates}
  OBVIOUS
<1>9. PICK first : first = FirstFixedDateOnOrAfter(n, dates)
  OBVIOUS
<1>10. first \in V /\ \A md \in dates : first <= NextOf(n, md)
  BY <1>6, <1>7, <1>8, <1>9
<1>11. QED
  BY <1>8, <1>9, <1>10

LEMMA FirstFixedOrder ==
    ASSUME NEW n \in Int, NEW dates \in SUBSET MonthDays, dates # {}
    PROVE  /\ FirstFixedDateOnOrAfter(n, dates) \in Int
           /\ n <= FirstFixedDateOnOrAfter(n, dates)
           /\ FirstFixedDateOnOrAfter(n, dates) <= FirstFixedDateOnOrAfter(n + 1, dates)
<1>1. PICK md \in dates : /\ FirstFixedDateOnOrAfter(n, dates) = NextOf(n, md)
                          /\ \A e \in dates : NextOf(n, md) <= NextOf(n, e)
  BY FirstFixedForm
<1>2. PICK e \in dates : FirstFixedDateOnOrAfter(n + 1, dates) = NextOf(n + 1, e)
  <2>1. n + 1 \in Int
    OBVIOUS
  <2>2. QED
    BY <2>1, FirstFixedForm
<1>3. /\ NextOf(n, md) \in Int /\ n <= NextOf(n, md)
      /\ NextOf(n, e) \in Int /\ NextOf(n + 1, e) \in Int /\ NextOf(n, e) <= NextOf(n + 1, e)
  BY NextOfOrder
<1>4. QED
  BY <1>1, <1>2, <1>3

\* Of any rule and any day.
LEMMA FilingOrder ==
    ASSUME NEW n \in Int, NEW r \in DueRules
    PROVE  FilingDeadline(n, r) \in Int /\ FilingDeadline(n, r) <= FilingDeadline(n + 1, r)
<1>1. PICK v \in Int, w \in Int : /\ v = ApplyOffset(n, r.value, r.unit, r.direction)
                                  /\ w = ApplyOffset(n + 1, r.value, r.unit, r.direction)
                                  /\ v <= w
  BY OffsetOrder
<1>2. QED
  BY <1>1, WeekendOrder DEF FilingDeadline

LEMMA PaymentOrder ==
    ASSUME NEW n \in Int, NEW v \in Int, NEW w \in Int, v <= w, NEW pay \in PaymentRules, NEW fallback
    PROVE  /\ PaymentDeadline(n, v, pay, fallback) <= PaymentDeadline(n + 1, w, pay, fallback)
           /\ pay.kind = "fixed" => PaymentDeadline(n, v, pay, fallback) >= n
<1>1. CASE pay.kind = "none"
  BY <1>1 DEF PaymentDeadline
<1>2. CASE pay.kind = "fixed"
  <2>1. pay.dates \in SUBSET MonthDays /\ pay.dates # {}
    BY <1>2, CalendarAssumption
  <2>2. \A k \in Int : \A u : PaymentDeadline(k, u, pay, fallback) = FirstFixedDateOnOrAfter(k, pay.dates)
    BY <1>2 DEF PaymentDeadline
  <2>3. QED
    BY <2>1, <2>2, FirstFixedOrder
<1>3. CASE pay.kind = "offset"
  <2>1. PICK months \in Int, days \in Int : months = pay.months /\ days = pay.days
    BY <1>3, CalendarAssumption
  <2>2. PICK adjustment : adjustment = IF pay.weekend = "" THEN fallback ELSE pay.weekend
    OBVIOUS
  <2>3. \A k \in Int : \A u : PaymentDeadline(k, u, pay, fallback) =
                                 ApplyWeekendAdjustment(AddMonthsClamped(k, months) + days, adjustment)
    BY <1>3, <2>1, <2>2 DEF PaymentDeadline
  <2>4. PICK a \in Int, b \in Int : /\ a = AddMonthsClamped(n, months)
                                    /\ b = AddMonthsClamped(n + 1, months) /\ a <= b
    <3>1. n + 1 \in Int
      OBVIOUS
    <3>2. AddMonthsClamped(n, months) \in Int /\ AddMonthsClamped(n + 1, months) \in Int
      BY <3>1, ClampedOrder
    <3>3. AddMonthsClamped(n, months) <= AddMonthsClamped(n + 1, months)
      BY ClampedOrder
    <3>4. QED
      BY <3>2, <3>3
  <2>5. ApplyWeekendAdjustment(a + days, adjustment) <= ApplyWeekendAdjustment(b + days, adjustment)
    BY <2>4, WeekendOrder
  <2>6. QED
    BY <1>3, <2>3, <2>4, <2>5
<1>4. QED
  BY <1>1, <1>2, <1>3, CalendarAssumption

LEMMA DeadlinesOrder ==
    ASSUME NEW r \in DueRules, NEW pay \in PaymentRules, NEW y \in FiscalYears,
           asked = [about |-> "deadlines", rule |-> r, pay |-> pay, year |-> y]
    PROVE  DeadlinesKeepOrder
<1> SUFFICES ASSUME NEW n \in Date(y, 1, 1) .. Date(y, 12, 31)
             PROVE  LET filing(k) == FilingDeadline(k, r)
                        payment(k) == PaymentDeadline(k, filing(k), pay, r.weekend)
                    IN  /\ filing(n) <= filing(n + 1) /\ payment(n) <= payment(n + 1)
                        /\ pay.kind = "fixed" => payment(n) >= n
  BY DEF DeadlinesKeepOrder
<1>1. n \in Int /\ n + 1 \in Int
  OBVIOUS
<1>2. PICK v \in Int, w \in Int : v = FilingDeadline(n, r) /\ w = FilingDeadline(n + 1, r) /\ v <= w
  BY <1>1, FilingOrder
<1>3. QED
  BY <1>1, <1>2, PaymentOrder

(***************************************************************************)
(* Periods.                                                                *)
(***************************************************************************)
Spans == [start : Int, end : Int]
TiledBy(ps, from, to) ==
    /\ ps \in Seq(Spans) /\ Len(ps) > 0 /\ Contiguous(ps)
    /\ ps[1].start = from /\ ps[Len(ps)].end = to

LEMMA ConfigForm ==
    ASSUME NEW c \in Configs
    PROVE  /\ c.pattern \in Patterns /\ c.month \in 1 .. 12 /\ c.day \in 1 .. 31
           /\ c.weekEnd \in 0 .. 6 /\ c.rule \in {"last", "nearest"}
<1>1. ValidConfig(c)
  BY CalendarAssumption
<1>2. QED
  BY <1>1 DEF ValidConfig, MonthDays

\* The month a fiscal year begins with, counted through the years.
FirstMonth(c, y) == 12 * (y - 1) + c.month

LEMMA YearBounds ==
    ASSUME NEW c \in Configs, NEW y \in Int
    PROVE  /\ FirstMonth(c, y) \in Int
           /\ StandardYearStart(c, y) = MonthStart(FirstMonth(c, y))
           /\ StandardYearEnd(c, y) = MonthStart(FirstMonth(c, y) + 12) - 1
<1>1. PICK m \in 1 .. 12 : m = c.month
  BY ConfigForm
<1>2. PICK a \in Int : a = FirstMonth(c, y) /\ a = 12 * (y - 1) + m
  BY <1>1 DEF FirstMonth
<1>3. PICK z \in Int, k \in 1 .. 12 : z = FyStartYear(c, y) /\ k = StartMonth(c) /\ a = 12 * z + k - 1
  <2>1. CASE m = 12
    BY <1>1, <1>2, <2>1 DEF FyStartYear, StartMonth
  <2>2. CASE m < 12
    <3>1. (m % 12) + 1 = m + 1 /\ m + 1 # 1
      BY <2>2
    <3>2. StartMonth(c) = m + 1 /\ FyStartYear(c, y) = y - 1
      BY <1>1, <3>1 DEF FyStartYear, StartMonth
    <3>3. y - 1 \in Int /\ m + 1 \in 1 .. 12 /\ a = 12 * (y - 1) + (m + 1) - 1
      BY <1>2, <2>2
    <3>4. QED
      BY <3>2, <3>3
  <2>3. QED
    BY <2>1, <2>2
<1>4. StandardYearStart(c, y) = MonthStart(a)
  BY <1>3, MonthParts DEF StandardYearStart
<1>5. PICK b \in Int : b = 12 * y + m - 1 /\ b + 1 = a + 12
  BY <1>2
<1>6. MonthStart(b) = Date(y, m, 1) /\ DaysOf(b) = LastDayOfMonth(y, m)
  BY <1>5, MonthParts
<1>7. /\ DaysBeforeYear(y) \in Int /\ DaysBeforeMonth(y, m) \in 0 .. 335
      /\ LastDayOfMonth(y, m) \in 28 .. 31
  BY MonthLengths, YearLength, ZenonT(120) DEF MonthFits
<1>8. StandardYearEnd(c, y) = MonthStart(b) + DaysOf(b) - 1
  BY <1>1, <1>6, <1>7 DEF StandardYearEnd, Date
<1>9. PICK t \in Int, l \in Int : t = MonthStart(b) /\ l = DaysOf(b)
  BY MonthStep
<1>10. MonthStart(b + 1) = t + l
  BY <1>9, MonthStep
<1>11. StandardYearEnd(c, y) = MonthStart(a + 12) - 1
  BY <1>5, <1>8, <1>9, <1>10
<1>12. QED
  BY <1>2, <1>4, <1>11

\* The months of a fiscal year, one after the other.
LEMMA FiscalMonths ==
    ASSUME NEW c \in Configs, NEW y \in Int, NEW i \in 1 .. 12
    PROVE  LET m == CalendarMonth(c, i)
               z == PlaceMonth(c, y, m)
           IN  /\ Date(z, m, 1) = MonthStart(FirstMonth(c, y) + i - 1)
               /\ Date(z, m, LastDayOfMonth(z, m)) = MonthStart(FirstMonth(c, y) + i) - 1
<1>1. PICK e \in 1 .. 12 : e = c.month
  BY ConfigForm
<1>2. PICK a \in Int : a = FirstMonth(c, y) /\ a = 12 * (y - 1) + e
  BY <1>1 DEF FirstMonth
<1>3. PICK k \in 1 .. 12 : k = StartMonth(c) /\ k = (e % 12) + 1
  BY <1>1 DEF StartMonth
<1>4. PICK s \in Int : s = FyStartYear(c, y) /\ s = IF k = 1 THEN y ELSE y - 1
  BY <1>3 DEF FyStartYear
<1>5. PICK m \in 1 .. 12 : m = CalendarMonth(c, i) /\ m = ((k + i - 2) % 12) + 1
  BY <1>3 DEF CalendarMonth
<1>6. PICK z \in Int : z = PlaceMonth(c, y, m) /\ z = IF m < k THEN y ELSE s
  BY <1>3, <1>4 DEF PlaceMonth
<1>7. a + i - 1 = 12 * z + m - 1
  <2>1. CASE e = 12
    BY <1>2, <1>3, <1>4, <1>5, <1>6, <2>1
  <2>2. CASE e < 12
    <3>1. k = e + 1 /\ s = y - 1
      BY <1>3, <1>4, <2>2
    <3>2. CASE k + i - 2 < 12
      BY <1>2, <1>5, <1>6, <3>1, <3>2
    <3>3. CASE k + i - 2 >= 12
      <4>1. m = k + i - 13
        BY <1>5, <3>3
      <4>2. QED
        BY <1>2, <1>6, <3>1, <4>1
    <3>4. QED
      BY <3>2, <3>3
  <2>3. QED
    BY <2>1, <2>2
<1>8. PICK b \in Int : b = a + i - 1 /\ b + 1 = a + i
  OBVIOUS
<1>9. MonthStart(b) = Date(z, m, 1) /\ DaysOf(b) = LastDayOfMonth(z, m)
  BY <1>7, <1>8, MonthParts
<1>10. /\ DaysBeforeYear(z) \in Int /\ DaysBeforeMonth(z, m) \in 0 .. 335
       /\ LastDayOfMonth(z, m) \in 28 .. 31
  BY MonthLengths, YearLength, ZenonT(120) DEF MonthFits
<1>11. PICK t \in Int, l \in Int : t = MonthStart(b) /\ l = DaysOf(b)
  BY MonthStep
<1>12. Date(z, m, LastDayOfMonth(z, m)) = t + l - 1
  BY <1>9, <1>10, <1>11 DEF Date
<1>13. MonthStart(b + 1) = t + l
  BY <1>11, MonthStep
<1>14. /\ Date(z, m, 1) = MonthStart(a + i - 1)
       /\ Date(z, m, LastDayOfMonth(z, m)) = MonthStart(a + i) - 1
  BY <1>8, <1>9, <1>12, <1>13
<1>15. QED
  BY <1>2, <1>5, <1>6, <1>14, Zenon

LEMMA TwelveMonths ==
    ASSUME NEW a \in Int
    PROVE  MonthStart(a) \in Int /\ MonthStart(a + 12) >= MonthStart(a) + 365
<1>1. PICK y \in Int, m \in 1 .. 12 : a = 12 * y + m - 1
  BY MonthIs
<1>2. PICK z \in Int : z = y + 1 /\ a + 12 = 12 * z + m - 1
  BY <1>1
<1>3. /\ MonthStart(a) = DaysBeforeYear(y) + DaysBeforeMonth(y, m) + 1
      /\ MonthStart(a + 12) = DaysBeforeYear(z) + DaysBeforeMonth(z, m) + 1
  BY <1>1, <1>2, MonthParts DEF Date
<1>4. PICK u \in 0 .. 335, v \in 0 .. 335 : u = DaysBeforeMonth(y, m) /\ v = DaysBeforeMonth(z, m)
  BY MonthLengths, ZenonT(120) DEF MonthFits
<1>5. u <= v \/ (Leap(y) /\ u <= v + 1)
  <2>1. PICK t \in Int : t = <<0, 31, 59, 90, 120, 151, 181, 212, 243, 273, 304, 334>>[m]
    <3>1. m \in {1, 2, 3, 4, 5, 6, 7, 8, 9, 10, 11, 12}
      OBVIOUS
    <3>2. QED
      BY <3>1
  <2>2. /\ u = t + (IF m > 2 /\ Leap(y) THEN 1 ELSE 0)
        /\ v = t + (IF m > 2 /\ Leap(z) THEN 1 ELSE 0)
    BY <1>4, <2>1, SMTT(60) DEF DaysBeforeMonth
  <2>3. QED
    BY <2>1, <2>2, SMTT(60)
<1>6. PICK f \in Int, g \in Int : /\ f = DaysBeforeYear(y) /\ g = DaysBeforeYear(z)
                                  /\ g = f + (IF Leap(y) THEN 366 ELSE 365)
  BY <1>2, YearLength, SMTT(60)
<1>7. MonthStart(a) = f + u + 1 /\ MonthStart(a + 12) = g + v + 1
  BY <1>3, <1>4, <1>6
<1>8. QED
  BY <1>5, <1>6, <1>7

LEMMA MonthsTile ==
    ASSUME NEW c \in Configs, NEW y \in Int, NEW months \in {1, 3, 6, 12}
    PROVE  TiledBy(MonthGroups(c, y, months), StandardYearStart(c, y), StandardYearEnd(c, y))
<1>1. PICK a \in Int : a = FirstMonth(c, y)
  BY YearBounds
<1>2. PICK n \in 1 .. 12 : n = 12 \div months /\ n * months = 12
  OBVIOUS
<1> DEFINE from(i) == MonthStart(a + (i - 1) * months)
           till(i) == MonthStart(a + i * months) - 1
           ps == [i \in 1 .. n |-> [start |-> from(i), end |-> till(i)]]
<1>3. \A i \in 1 .. n : /\ i * months \in 1 .. 12 /\ (i - 1) * months + 1 \in 1 .. 12
                        /\ (i - 1) * months \in Int /\ i * months \in Int
                        /\ (i - 1) * months < i * months
  BY <1>2
<1>4. MonthGroups(c, y, months) = ps
  <2> SUFFICES ASSUME NEW i \in 1 .. n
               PROVE  LET k == CalendarMonth(c, (i - 1) * months + 1)
                          l == CalendarMonth(c, i * months)
                          year == PlaceMonth(c, y, l)
                      IN  /\ Date(PlaceMonth(c, y, k), k, 1) = from(i)
                          /\ Date(year, l, LastDayOfMonth(year, l)) = till(i)
    BY <1>2 DEF MonthGroups
  <2>1. PICK k \in 1 .. 12, l \in 1 .. 12 : k = (i - 1) * months + 1 /\ l = i * months
    BY <1>3
  <2>2. a + k - 1 = a + (i - 1) * months
    BY <1>3, <2>1
  <2>3. Date(PlaceMonth(c, y, CalendarMonth(c, k)), CalendarMonth(c, k), 1) = MonthStart(a + k - 1)
    BY <1>1, FiscalMonths, Zenon
  <2>4. PICK e : e = CalendarMonth(c, l)
    OBVIOUS
  <2>5. Date(PlaceMonth(c, y, e), e, LastDayOfMonth(PlaceMonth(c, y, e), e)) = MonthStart(a + l) - 1
    BY <1>1, <2>4, FiscalMonths, Zenon
  <2>6. QED
    BY <2>1, <2>2, <2>3, <2>4, <2>5
<1>5. \A b \in Int : /\ MonthStart(b) \in Int /\ DaysOf(b) \in 28 .. 31
                     /\ MonthStart(b + 1) = MonthStart(b) + DaysOf(b)
  BY MonthStep
<1>6. \A i \in 1 .. n : from(i) \in Int /\ till(i) \in Int
  BY <1>3, <1>5
<1>7. \A i \in 1 .. n : from(i) <= till(i)
  <2> TAKE i \in 1 .. n
  <2>1. PICK b \in Int, d \in Int : b = a + (i - 1) * months /\ d = a + i * months /\ b + 1 <= d
    BY <1>3
  <2>2. MonthStart(b + 1) <= MonthStart(d)
    BY <2>1, MonthsOrder
  <2>3. MonthStart(b + 1) = MonthStart(b) + DaysOf(b) /\ DaysOf(b) \in 28 .. 31
    BY <1>5
  <2>4. MonthStart(b) \in Int /\ MonthStart(d) \in Int
    BY <1>5
  <2>5. QED
    BY <2>1, <2>2, <2>3, <2>4
<1>8. \A i \in 1 .. n - 1 : from(i + 1) = till(i) + 1
  <2> TAKE i \in 1 .. n - 1
  <2>1. PICK d \in Int : d = a + i * months /\ d = a + (i + 1 - 1) * months
    BY <1>3
  <2>2. MonthStart(d) \in Int
    BY <1>5
  <2>3. QED
    BY <2>1, <2>2
<1>9. from(1) = StandardYearStart(c, y) /\ till(n) = StandardYearEnd(c, y)
  <2>1. a + (1 - 1) * months = a /\ a + n * months = a + 12
    BY <1>2
  <2>2. QED
    BY <1>1, <2>1, YearBounds
<1> HIDE DEF from, till
<1>10. ps \in Seq(Spans) /\ Len(ps) = n
  BY <1>6 DEF Spans
<1>11. QED
  BY <1>4, <1>6, <1>7, <1>8, <1>9, <1>10, SMTT(60) DEF TiledBy, Contiguous

LEMMA YearIsLong ==
    ASSUME NEW c \in Configs, NEW y \in Int
    PROVE  /\ StandardYearStart(c, y) \in Int /\ StandardYearEnd(c, y) \in Int
           /\ StandardYearEnd(c, y) >= StandardYearStart(c, y) + 364
           /\ StandardYearStart(c, y) = StandardYearEnd(c, y - 1) + 1
<1>1. PICK a \in Int : a = FirstMonth(c, y)
  BY YearBounds
<1>2. FirstMonth(c, y - 1) + 12 = a
  <2>1. c.month \in Int
    BY ConfigForm
  <2>2. QED
    BY <1>1, <2>1 DEF FirstMonth
<1>3. PICK t \in Int, u \in Int : t = MonthStart(a) /\ u = MonthStart(a + 12) /\ u >= t + 365
  <2>1. MonthStart(a) \in Int /\ MonthStart(a + 12) \in Int
    BY MonthStep
  <2>2. QED
    BY <2>1, TwelveMonths
<1>4. StandardYearStart(c, y) = t /\ StandardYearEnd(c, y) = u - 1
  BY <1>1, <1>3, YearBounds
<1>5. PICK z \in Int : z = y - 1
  OBVIOUS
<1>6. StandardYearEnd(c, z) = MonthStart(FirstMonth(c, z) + 12) - 1
  BY YearBounds
<1>7. QED
  BY <1>2, <1>3, <1>4, <1>5, <1>6

LEMMA StandardTiles ==
    ASSUME NEW c \in Configs, NEW y \in Int, NEW periodicity \in Periodicities
    PROVE  TiledBy(StandardPeriods(c, y, periodicity), StandardYearStart(c, y), StandardYearEnd(c, y))
<1>1. CASE periodicity # "weekly"
  <2>1. PICK months \in {1, 3, 6, 12} : months = MonthsIn(periodicity)
    BY DEF MonthsIn
  <2>2. StandardPeriods(c, y, periodicity) = MonthGroups(c, y, months)
    BY <1>1, <2>1 DEF StandardPeriods
  <2>3. QED
    BY <2>2, MonthsTile
<1>2. CASE periodicity = "weekly"
  <2>1. PICK t \in Int, u \in Int : /\ t = StandardYearStart(c, y) /\ u = StandardYearEnd(c, y)
                                    /\ u >= t + 364
    <3>1. /\ StandardYearStart(c, y) \in Int /\ StandardYearEnd(c, y) \in Int
          /\ StandardYearEnd(c, y) >= StandardYearStart(c, y) + 364
      BY YearIsLong
    <3>2. QED
      BY <3>1
  <2>2. PICK ps : ps = [w \in 1 .. 52 |-> [start |-> t + 7 * (w - 1),
                                           end |-> IF w = 52 THEN u ELSE t + 7 * (w - 1) + 6]]
    OBVIOUS
  <2>3. StandardPeriods(c, y, periodicity) = ps
    BY <1>2, <2>1, <2>2 DEF StandardPeriods
  <2>4. \A w \in 1 .. 52 : /\ ps[w] \in Spans /\ ps[w].start = t + 7 * (w - 1)
                           /\ ps[w].end = IF w = 52 THEN u ELSE t + 7 * (w - 1) + 6
    BY <2>2 DEF Spans
  <2>5. ps \in Seq(Spans) /\ Len(ps) = 52 /\ DOMAIN ps = 1 .. 52
    BY <2>2, <2>4
  <2>6. Contiguous(ps)
    <3>1. \A w \in 1 .. 52 : ps[w].start <= ps[w].end
      BY <2>1, <2>4, SMTT(60)
    <3>2. \A w \in 1 .. 51 : ps[w + 1].start = ps[w].end + 1
      <4> TAKE w \in 1 .. 51
      <4>1. ps[w + 1].start = t + 7 * (w + 1 - 1) /\ ps[w].end = t + 7 * (w - 1) + 6
        BY <2>4
      <4>2. QED
        BY <4>1
    <3>3. QED
      BY <2>5, <3>1, <3>2, SMTT(60) DEF Contiguous
  <2>7. ps[1].start = t /\ ps[52].end = u
    BY <2>4
  <2>8. QED
    BY <2>1, <2>3, <2>5, <2>6, <2>7 DEF TiledBy
<1>3. QED
  BY <1>1, <1>2

(***************************************************************************)
(* Years of whole weeks.                                                   *)
(***************************************************************************)
\* The anchor of a year is 365 or 366 days after that of the year before.
LEMMA AnchorStep ==
    ASSUME NEW y \in Int, NEW m \in 1 .. 12, NEW d \in 1 .. 31
    PROVE  LET anchor(z) == PlaceMonthDay(z, <<m, d>>)
           IN  anchor(y) \in Int /\ anchor(y - 1) \in Int /\ anchor(y) - anchor(y - 1) \in {365, 366}
<1>1. PICK x \in Int : x = y - 1 /\ y = x + 1
  OBVIOUS
<1>2. PICK f \in Int, g \in Int : /\ f = DaysBeforeYear(x) /\ g = DaysBeforeYear(y)
                                  /\ g = f + (IF Leap(x) THEN 366 ELSE 365)
  <2>1. /\ DaysBeforeYear(x) \in Int /\ DaysBeforeYear(y) \in Int
        /\ DaysBeforeYear(x + 1) = DaysBeforeYear(x) + (IF Leap(x) THEN 366 ELSE 365)
    BY YearLength
  <2>2. QED
    BY <1>1, <2>1
<1>3. Leap(x) => ~Leap(y)
  BY <1>1 DEF Leap
<1>4. PICK t \in Int : t = <<0, 31, 59, 90, 120, 151, 181, 212, 243, 273, 304, 334>>[m]
  <2>1. m \in {1, 2, 3, 4, 5, 6, 7, 8, 9, 10, 11, 12}
    OBVIOUS
  <2>2. QED
    BY <2>1
<1>5. \A z \in Int : DaysBeforeMonth(z, m) = t + (IF m > 2 /\ Leap(z) THEN 1 ELSE 0)
  BY <1>4 DEF DaysBeforeMonth
<1>6. PICK l \in {28, 30, 31} :
         \A z \in Int : LastDayOfMonth(z, m) = l + (IF m = 2 /\ Leap(z) THEN 1 ELSE 0)
  <2>1. CASE m \in {4, 6, 9, 11}
    BY <2>1 DEF LastDayOfMonth
  <2>2. CASE m = 2
    BY <2>2 DEF LastDayOfMonth
  <2>3. CASE m \notin {2, 4, 6, 9, 11}
    BY <2>3 DEF LastDayOfMonth
  <2>4. QED
    BY <2>1, <2>2, <2>3
<1>7. \A z \in Int : PlaceMonthDay(z, <<m, d>>) =
                        DaysBeforeYear(z) + (t + (IF m > 2 /\ Leap(z) THEN 1 ELSE 0))
                          + Least(d, l + (IF m = 2 /\ Leap(z) THEN 1 ELSE 0))
  BY <1>5, <1>6 DEF PlaceMonthDay, Date
<1>8. PlaceMonthDay(x, <<m, d>>) = f + (t + (IF m > 2 /\ Leap(x) THEN 1 ELSE 0))
                                     + Least(d, l + (IF m = 2 /\ Leap(x) THEN 1 ELSE 0))
  BY <1>2, <1>7
<1>9. PlaceMonthDay(y, <<m, d>>) = g + (t + (IF m > 2 /\ Leap(y) THEN 1 ELSE 0))
                                     + Least(d, l + (IF m = 2 /\ Leap(y) THEN 1 ELSE 0))
  <2>1. PlaceMonthDay(y, <<m, d>>) = DaysBeforeYear(y) + (t + (IF m > 2 /\ Leap(y) THEN 1 ELSE 0))
                                       + Least(d, l + (IF m = 2 /\ Leap(y) THEN 1 ELSE 0))
    BY <1>7
  <2>2. QED
    BY <1>2, <2>1
<1>10. QED
  BY <1>1, <1>2, <1>3, <1>8, <1>9 DEF Least

\* The end of a year is the week day, and close to the anchor.
LEMMA WeekYearEndForm ==
    ASSUME NEW c \in Configs, NEW y \in Int, NEW anchor \in Int,
           anchor = PlaceMonthDay(y, <<c.month, c.day>>)
    PROVE  /\ WeekYearEnd(c, y) \in Int /\ WeekYearEnd(c, y) % 7 = c.weekEnd
           /\ c.rule = "last" => anchor - 6 <= WeekYearEnd(c, y) /\ WeekYearEnd(c, y) <= anchor
           /\ c.rule = "nearest" => anchor - 3 <= WeekYearEnd(c, y) /\ WeekYearEnd(c, y) <= anchor + 3
<1>1. PICK e \in 0 .. 6 : e = c.weekEnd
  BY ConfigForm
<1>2. PICK diff \in 0 .. 6 : diff = ((anchor % 7) - e + 7) % 7
  OBVIOUS
<1>3. (anchor - diff) % 7 = e /\ (anchor - diff + 7) % 7 = e
  <2>1. PICK q \in Int, k \in 0 .. 6 : anchor = 7 * q + k /\ k = anchor % 7
    <3>1. anchor \div 7 \in Int /\ anchor % 7 \in 0 .. 6 /\ anchor = 7 * (anchor \div 7) + (anchor % 7)
      OBVIOUS
    <3>2. QED
      BY <3>1
  <2>2. diff = (k - e + 7) % 7 /\ anchor = 7 * q + k
    BY <1>2, <2>1
  <2>3. CASE k >= e
    <3>1. PICK t \in 0 .. 6 : t = k - e
      BY <2>3
    <3>2. diff = t
      BY <2>2, <3>1
    <3>3. anchor - t = 7 * q + e /\ anchor - t + 7 = 7 * (q + 1) + e
      BY <2>2, <3>1
    <3>4. QED
      BY <3>2, <3>3
  <2>4. CASE k < e
    <3>1. PICK t \in 0 .. 6 : t = k - e + 7
      BY <2>4
    <3>2. diff = t
      BY <2>2, <3>1
    <3>3. anchor - t = 7 * (q - 1) + e /\ anchor - t + 7 = 7 * q + e
      BY <2>2, <3>1
    <3>4. QED
      BY <3>2, <3>3
  <2>5. QED
    BY <2>3, <2>4
<1>4. WeekYearEnd(c, y) = IF c.rule = "last" \/ diff <= 3 THEN anchor - diff ELSE anchor - diff + 7
  BY <1>1, <1>2 DEF WeekYearEnd, Weekday
<1>5. PICK w \in Int : w = IF c.rule = "last" \/ diff <= 3 THEN anchor - diff ELSE anchor - diff + 7
  OBVIOUS
<1>6. w % 7 = e
  BY <1>3, <1>5
<1>7. /\ c.rule = "last" => anchor - 6 <= w /\ w <= anchor
      /\ c.rule = "nearest" => anchor - 3 <= w /\ w <= anchor + 3
  BY <1>5
<1>8. QED
  BY <1>1, <1>4, <1>5, <1>6, <1>7

\* Every year of weeks has 52 or 53 of them: no configuration is refused.
LEMMA WeekYearLength ==
    ASSUME NEW c \in Configs, NEW y \in Int
    PROVE  /\ WeekYearEnd(c, y) \in Int /\ WeekYearEnd(c, y - 1) \in Int
           /\ DaysInWeekYear(c, y) \in {364, 371}
           /\ Weeks(c, y) \in {52, 53} /\ WeekYearEnd(c, y) = WeekYearEnd(c, y - 1) + 7 * Weeks(c, y)
<1>1. PICK m \in 1 .. 12, d \in 1 .. 31 : m = c.month /\ d = c.day
  BY ConfigForm
<1>2. PICK z \in Int : z = y - 1
  OBVIOUS
<1>3. PICK a \in Int, b \in Int : a = PlaceMonthDay(z, <<m, d>>) /\ b = PlaceMonthDay(y, <<m, d>>)
  BY <1>2, AnchorStep, ZenonT(120)
<1>4. b - a \in {365, 366}
  BY <1>2, <1>3, AnchorStep, ZenonT(120)
<1>5. /\ WeekYearEnd(c, z) \in Int /\ WeekYearEnd(c, z) % 7 = c.weekEnd
      /\ c.rule = "last" => a - 6 <= WeekYearEnd(c, z) /\ WeekYearEnd(c, z) <= a
      /\ c.rule = "nearest" => a - 3 <= WeekYearEnd(c, z) /\ WeekYearEnd(c, z) <= a + 3
  BY <1>1, <1>3, WeekYearEndForm
<1>6. /\ WeekYearEnd(c, y) \in Int /\ WeekYearEnd(c, y) % 7 = c.weekEnd
      /\ c.rule = "last" => b - 6 <= WeekYearEnd(c, y) /\ WeekYearEnd(c, y) <= b
      /\ c.rule = "nearest" => b - 3 <= WeekYearEnd(c, y) /\ WeekYearEnd(c, y) <= b + 3
  BY <1>1, <1>3, WeekYearEndForm
<1>7. PICK v \in Int, w \in Int : v = WeekYearEnd(c, z) /\ w = WeekYearEnd(c, y)
  BY <1>5, <1>6
<1>8. (w - v) % 7 = 0 /\ 359 <= w - v /\ w - v <= 372
  <2>1. c.rule \in {"last", "nearest"} /\ c.weekEnd \in 0 .. 6
    BY ConfigForm
  <2>2. v % 7 = w % 7
    BY <1>5, <1>6, <1>7
  <2>3. CASE c.rule = "last"
    BY <1>4, <1>5, <1>6, <1>7, <2>2, <2>3
  <2>4. CASE c.rule = "nearest"
    BY <1>4, <1>5, <1>6, <1>7, <2>2, <2>4
  <2>5. QED
    BY <2>1, <2>3, <2>4
<1>9. w - v \in {364, 371}
  BY <1>8
<1>10. DaysInWeekYear(c, y) = w - v
  BY <1>2, <1>7 DEF DaysInWeekYear
<1>11. Weeks(c, y) \in {52, 53} /\ w = v + 7 * Weeks(c, y)
  BY <1>9, <1>10 DEF Weeks
<1>12. QED
  BY <1>2, <1>7, <1>9, <1>10, <1>11

\* Ends of periods, each so many weeks after the one before.
Reach(weeks, x, f) ==
    /\ f \in [0 .. Len(weeks) -> Int] /\ f[0] = x
    /\ \A i \in 1 .. Len(weeks) : f[i] = f[i - 1] + 7 * weeks[i]

LEMMA MonthsOfWeeksForm ==
    ASSUME NEW c \in Configs
    PROVE  \/ /\ MonthsOfWeeks(c) \in Seq(Nat) /\ Len(MonthsOfWeeks(c)) = 13
              /\ \A i \in 1 .. 13 : MonthsOfWeeks(c)[i] = 4
           \/ \E q \in {<<4, 5, 4>>, <<5, 4, 4>>, <<4, 4, 5>>} :
                 /\ MonthsOfWeeks(c) \in Seq(Nat) /\ Len(MonthsOfWeeks(c)) = 12
                 /\ \A i \in 1 .. 12 : MonthsOfWeeks(c)[i] = q[((i - 1) % 3) + 1]
<1>1. ASSUME NEW q \in {<<4, 5, 4>>, <<5, 4, 4>>, <<4, 4, 5>>}
      PROVE  /\ FourTimes(q) \in Seq(Nat) /\ Len(FourTimes(q)) = 12
             /\ \A i \in 1 .. 12 : FourTimes(q)[i] = q[((i - 1) % 3) + 1]
  <2>1. \A k \in 1 .. 3 : q[k] \in Nat
    <3>1. \A k \in 1 .. 3 : k \in {1, 2, 3}
      OBVIOUS
    <3>2. QED
      BY <3>1
  <2>2. \A i \in 1 .. 12 : ((i - 1) % 3) + 1 \in 1 .. 3
    OBVIOUS
  <2>3. FourTimes(q) = [i \in 1 .. 12 |-> q[((i - 1) % 3) + 1]]
    BY DEF FourTimes
  <2>4. QED
    BY <2>1, <2>2, <2>3
<1>2. PICK thirteen : thirteen = [i \in 1 .. 13 |-> 4]
  OBVIOUS
<1>3. thirteen \in Seq(Nat) /\ Len(thirteen) = 13 /\ \A i \in 1 .. 13 : thirteen[i] = 4
  BY <1>2
<1>4. \/ MonthsOfWeeks(c) = thirteen
      \/ \E q \in {<<4, 5, 4>>, <<5, 4, 4>>, <<4, 4, 5>>} : MonthsOfWeeks(c) = FourTimes(q)
  BY <1>2, Zenon DEF MonthsOfWeeks
<1>5. QED
  BY <1>1, <1>3, <1>4, ZenonT(120)

LEMMA WeeksOf52Form ==
    ASSUME NEW c \in Configs, NEW y \in Int, NEW periodicity \in Periodicities \ {"weekly"},
           NEW weeks, weeks = WeeksOf52(c, y, periodicity)
    PROVE  /\ weeks \in Seq(Nat) /\ Len(weeks) \in Nat \ {0}
           /\ \A i \in 1 .. Len(weeks) : weeks[i] > 0
           /\ \A x \in Int : \A f : Reach(weeks, x, f) => f[Len(weeks)] = x + 364
<1>1. CASE periodicity = "monthly"
  <2>1. weeks = MonthsOfWeeks(c)
    BY <1>1 DEF WeeksOf52
  <2>2. CASE weeks \in Seq(Nat) /\ Len(weeks) = 13 /\ \A i \in 1 .. 13 : weeks[i] = 4
    <3>1. ASSUME NEW x \in Int, NEW f, Reach(weeks, x, f) PROVE f[13] = x + 364
      <4>1. f[0] = x /\ \A i \in 0 .. 13 : f[i] \in Int
        BY <2>2, <3>1 DEF Reach
      <4>2. \A i \in 1 .. 13 : f[i] = f[i - 1] + 7 * weeks[i]
        BY <2>2, <3>1 DEF Reach
      <4>3. \A i \in 1 .. 13 : f[i] = f[i - 1] + 28
        BY <2>2, <4>2, SMTT(60)
      <4>4. f[1] = x + 28 /\ f[2] = x + 56 /\ f[3] = x + 84 /\ f[4] = x + 112
        BY <4>1, <4>3
      <4>5. f[5] = x + 140 /\ f[6] = x + 168 /\ f[7] = x + 196 /\ f[8] = x + 224
        BY <4>1, <4>3, <4>4
      <4>6. f[9] = x + 252 /\ f[10] = x + 280 /\ f[11] = x + 308 /\ f[12] = x + 336
        BY <4>1, <4>3, <4>5
      <4>7. QED
        BY <4>1, <4>3, <4>6
    <3>2. QED
      BY <2>2, <3>1
  <2>3. ASSUME NEW q \in {<<4, 5, 4>>, <<5, 4, 4>>, <<4, 4, 5>>},
               weeks \in Seq(Nat), Len(weeks) = 12,
               \A i \in 1 .. 12 : weeks[i] = q[((i - 1) % 3) + 1]
        PROVE  /\ \A i \in 1 .. Len(weeks) : weeks[i] > 0
               /\ \A x \in Int : \A f : Reach(weeks, x, f) => f[Len(weeks)] = x + 364
    <3>1. PICK a \in Nat, b \in Nat, d \in Nat : /\ a = q[1] /\ b = q[2] /\ d = q[3]
                                                 /\ a > 0 /\ b > 0 /\ d > 0 /\ a + b + d = 13
      OBVIOUS
    <3>2. /\ weeks[1] = a /\ weeks[2] = b /\ weeks[3] = d
          /\ weeks[4] = a /\ weeks[5] = b /\ weeks[6] = d
          /\ weeks[7] = a /\ weeks[8] = b /\ weeks[9] = d
          /\ weeks[10] = a /\ weeks[11] = b /\ weeks[12] = d
      BY <2>3, <3>1
    <3>3. \A i \in 1 .. 12 : weeks[i] > 0
      <4>1. \A i \in 1 .. 12 : i \in {1, 2, 3, 4, 5, 6, 7, 8, 9, 10, 11, 12}
        OBVIOUS
      <4>2. QED
        BY <3>1, <3>2, <4>1
    <3>4. ASSUME NEW x \in Int, NEW f, Reach(weeks, x, f) PROVE f[12] = x + 364
      <4>1. f[0] = x /\ \A i \in 0 .. 12 : f[i] \in Int
        BY <2>3, <3>4 DEF Reach
      <4>2. \A i \in 1 .. 12 : f[i] = f[i - 1] + 7 * weeks[i]
        BY <2>3, <3>4 DEF Reach
      <4>3. /\ f[1] = f[0] + 7 * a /\ f[2] = f[1] + 7 * b /\ f[3] = f[2] + 7 * d
            /\ f[4] = f[3] + 7 * a /\ f[5] = f[4] + 7 * b /\ f[6] = f[5] + 7 * d
        BY <3>2, <4>2
      <4>4. /\ f[7] = f[6] + 7 * a /\ f[8] = f[7] + 7 * b /\ f[9] = f[8] + 7 * d
            /\ f[10] = f[9] + 7 * a /\ f[11] = f[10] + 7 * b /\ f[12] = f[11] + 7 * d
        BY <3>2, <4>2
      <4>5. f[3] = x + 91 /\ f[6] = f[3] + 91
        BY <3>1, <4>1, <4>3
      <4>6. f[9] = f[6] + 91 /\ f[12] = f[9] + 91
        BY <3>1, <4>1, <4>4
      <4>7. QED
        BY <4>1, <4>5, <4>6
    <3>5. QED
      BY <2>3, <3>3, <3>4
  <2>4. \/ weeks \in Seq(Nat) /\ Len(weeks) = 13 /\ \A i \in 1 .. 13 : weeks[i] = 4
        \/ \E q \in {<<4, 5, 4>>, <<5, 4, 4>>, <<4, 4, 5>>} :
              /\ weeks \in Seq(Nat) /\ Len(weeks) = 12
              /\ \A i \in 1 .. 12 : weeks[i] = q[((i - 1) % 3) + 1]
    BY <2>1, MonthsOfWeeksForm, SMTT(60)
  <2>5. CASE \E q \in {<<4, 5, 4>>, <<5, 4, 4>>, <<4, 4, 5>>} :
                /\ weeks \in Seq(Nat) /\ Len(weeks) = 12
                /\ \A i \in 1 .. 12 : weeks[i] = q[((i - 1) % 3) + 1]
    <3>1. weeks \in Seq(Nat) /\ Len(weeks) = 12
      BY <2>5, Zenon
    <3>2. /\ \A i \in 1 .. Len(weeks) : weeks[i] > 0
          /\ \A x \in Int : \A f : Reach(weeks, x, f) => f[Len(weeks)] = x + 364
      BY <2>3, <2>5, Zenon
    <3>3. Len(weeks) \in Nat \ {0}
      BY <3>1
    <3>4. QED
      BY <3>1, <3>2, <3>3, Zenon
  <2>6. QED
    BY <2>2, <2>4, <2>5, Zenon
<1>2. CASE periodicity = "quarterly"
  <2>1. weeks = <<13, 13, 13, 13>>
    BY <1>2 DEF WeeksOf52
  <2>2. weeks \in Seq(Nat) /\ Len(weeks) = 4 /\ \A i \in 1 .. 4 : weeks[i] = 13
    BY <2>1
  <2>3. ASSUME NEW x \in Int, NEW f, Reach(weeks, x, f) PROVE f[4] = x + 364
    <3>1. f[0] = x /\ \A i \in 0 .. 4 : f[i] \in Int
      BY <2>2, <2>3 DEF Reach
    <3>2. \A i \in 1 .. 4 : f[i] = f[i - 1] + 7 * weeks[i]
      BY <2>2, <2>3 DEF Reach
    <3>3. \A i \in 1 .. 4 : f[i] = f[i - 1] + 91
      BY <2>2, <3>2
    <3>4. QED
      BY <3>1, <3>3
  <2>4. QED
    BY <2>2, <2>3
<1>3. CASE periodicity = "bi-annual"
  <2>1. weeks = <<26, 26>>
    BY <1>3 DEF WeeksOf52
  <2>2. weeks \in Seq(Nat) /\ Len(weeks) = 2 /\ \A i \in 1 .. 2 : weeks[i] = 26
    BY <2>1
  <2>3. ASSUME NEW x \in Int, NEW f, Reach(weeks, x, f) PROVE f[2] = x + 364
    <3>1. f[0] = x /\ \A i \in 0 .. 2 : f[i] \in Int
      BY <2>2, <2>3 DEF Reach
    <3>2. \A i \in 1 .. 2 : f[i] = f[i - 1] + 7 * weeks[i]
      BY <2>2, <2>3 DEF Reach
    <3>3. \A i \in 1 .. 2 : f[i] = f[i - 1] + 182
      BY <2>2, <3>2
    <3>4. QED
      BY <3>1, <3>3
  <2>4. QED
    BY <2>2, <2>3
<1>4. CASE periodicity \in {"annual", "consolidated-annual"}
  <2>1. weeks = <<52>>
    BY <1>4 DEF WeeksOf52
  <2>2. weeks \in Seq(Nat) /\ Len(weeks) = 1 /\ weeks[1] = 52
    BY <2>1
  <2>3. ASSUME NEW x \in Int, NEW f, Reach(weeks, x, f) PROVE f[1] = x + 364
    BY <2>2, <2>3 DEF Reach
  <2>4. QED
    BY <2>2, <2>3
<1>5. QED
  BY <1>1, <1>2, <1>3, <1>4 DEF Periodicities

\* The weeks of the periods are those of the year.
LEMMA WeeksForm ==
    ASSUME NEW c \in Configs, NEW y \in Int, NEW periodicity \in Periodicities,
           NEW weeks, weeks = WeeksOfPeriods(c, y, periodicity)
    PROVE  /\ weeks \in Seq(Nat) /\ Len(weeks) \in Nat \ {0}
           /\ \A i \in 1 .. Len(weeks) : weeks[i] > 0
           /\ \A x \in Int : \A f : Reach(weeks, x, f) => f[Len(weeks)] = x + 7 * Weeks(c, y)
<1>1. PICK n \in {52, 53} : n = Weeks(c, y)
  BY WeekYearLength
<1>2. CASE periodicity = "weekly"
  <2>1. weeks = [w \in 1 .. n |-> 1]
    BY <1>1, <1>2 DEF WeeksOfPeriods, WeeksOf52
  <2>2. weeks \in Seq(Nat) /\ Len(weeks) = n /\ \A i \in 1 .. n : weeks[i] = 1
    BY <2>1
  <2>3. ASSUME NEW x \in Int, NEW f, Reach(weeks, x, f) PROVE f[n] = x + 7 * n
    <3> DEFINE S == {i \in Nat : i <= n => f[i] = x + 7 * i}
    <3>1. \A i \in 1 .. n : f[i] = f[i - 1] + 7 * weeks[i]
      BY <2>2, <2>3 DEF Reach
    <3>2. 0 \in S
      BY <2>3 DEF Reach
    <3>3. ASSUME NEW i \in S \cap Nat PROVE i + 1 \in S
      <4>1. CASE i + 1 <= n
        <5>1. i + 1 \in 1 .. n /\ (i + 1) - 1 = i /\ f[i] = x + 7 * i
          BY <3>3, <4>1
        <5>2. f[i + 1] = f[i] + 7 * weeks[i + 1] /\ weeks[i + 1] = 1
          BY <2>2, <3>1, <5>1
        <5>3. QED
          BY <5>1, <5>2
      <4>2. QED
        BY <4>1
    <3>4. n \in S
      <4> HIDE DEF S
      <4>1. \A i \in Nat : i \in S
        BY <3>2, <3>3, AllNumbers
      <4>2. QED
        BY <4>1
    <3>5. QED
      BY <3>4
  <2>4. QED
    BY <1>1, <2>2, <2>3
<1>3. CASE periodicity # "weekly"
  <2>1. PICK of52 : of52 = WeeksOf52(c, y, periodicity)
    OBVIOUS
  <2>2. /\ of52 \in Seq(Nat) /\ Len(of52) \in Nat \ {0}
        /\ \A i \in 1 .. Len(of52) : of52[i] > 0
        /\ \A x \in Int : \A f : Reach(of52, x, f) => f[Len(of52)] = x + 364
    BY <1>3, <2>1, WeeksOf52Form
  <2>3. CASE n = 52
    <3>1. weeks = of52
      BY <1>1, <2>1, <2>3 DEF WeeksOfPeriods
    <3>2. QED
      BY <1>1, <2>2, <2>3, <3>1
  <2>4. CASE n = 53
    <3>1. weeks = [of52 EXCEPT ![Len(of52)] = @ + 1]
      BY <1>1, <1>3, <2>1, <2>4 DEF WeeksOfPeriods
    <3>2. PICK l \in Nat \ {0} : l = Len(of52)
      BY <2>2
    <3>3. /\ weeks \in Seq(Nat) /\ Len(weeks) = l
          /\ \A i \in 1 .. l - 1 : weeks[i] = of52[i]
          /\ weeks[l] = of52[l] + 1 /\ \A i \in 1 .. l : of52[i] \in Nat
      BY <2>2, <3>1, <3>2
    <3>4. \A i \in 1 .. l : weeks[i] > 0
      <4> TAKE i \in 1 .. l
      <4>1. CASE i = l
        <5>1. of52[i] \in Nat /\ weeks[i] = of52[i] + 1
          BY <3>3, <4>1
        <5>2. QED
          BY <5>1
      <4>2. CASE i # l
        <5>1. i \in 1 .. l - 1 /\ i \in 1 .. Len(of52)
          BY <3>2, <4>2
        <5>2. weeks[i] = of52[i] /\ of52[i] > 0
          BY <2>2, <3>3, <5>1
        <5>3. QED
          BY <5>2
      <4>3. QED
        BY <4>1, <4>2
    <3>5. ASSUME NEW x \in Int, NEW f, Reach(weeks, x, f) PROVE f[l] = x + 371
      <4>1. /\ f \in [0 .. l -> Int] /\ f[0] = x
            /\ \A i \in 1 .. l : f[i] = f[i - 1] + 7 * weeks[i]
        BY <3>3, <3>5 DEF Reach
      <4>2. PICK g : g = [i \in 0 .. l |-> IF i = l THEN f[i] - 7 ELSE f[i]]
        OBVIOUS
      <4>3. g \in [0 .. l -> Int] /\ g[0] = x
        BY <4>1, <4>2
      <4>4. ASSUME NEW i \in 1 .. l PROVE g[i] = g[i - 1] + 7 * of52[i]
        <5>1. f[i] = f[i - 1] + 7 * weeks[i] /\ f[i] \in Int /\ f[i - 1] \in Int
          BY <4>1
        <5>2. g[i - 1] = f[i - 1]
          BY <4>2
        <5>3. CASE i = l
          <6>1. g[i] = f[i] - 7 /\ weeks[i] = of52[i] + 1 /\ of52[i] \in Nat
            BY <3>3, <4>2, <5>3
          <6>2. QED
            BY <5>1, <5>2, <6>1
        <5>4. CASE i # l
          <6>1. g[i] = f[i] /\ weeks[i] = of52[i]
            BY <3>3, <4>2, <5>4
          <6>2. QED
            BY <5>1, <5>2, <6>1
        <5>5. QED
          BY <5>3, <5>4
      <4>5. g[l] = x + 364
        <5>1. Reach(of52, x, g)
          BY <3>2, <4>3, <4>4 DEF Reach
        <5>2. QED
          BY <2>2, <3>2, <5>1
      <4>6. g[l] = f[l] - 7 /\ f[l] \in Int
        BY <4>1, <4>2
      <4>7. QED
        BY <4>5, <4>6
    <3>6. QED
      BY <1>1, <2>4, <3>3, <3>4, <3>5
  <2>5. QED
    BY <2>3, <2>4
<1>4. QED
  BY <1>2, <1>3

\* What is defined from the period before exists.
Builds(S, x, l, g, f) ==
    f \in [0 .. l -> S] /\ f[0] = x /\ \A n \in 1 .. l : f[n] = g[n][f[n - 1]]

LEMMA FiniteRecurrence ==
    ASSUME NEW S, NEW x \in S, NEW l \in Nat, NEW g \in [1 .. l -> [S -> S]]
    PROVE  \E f : Builds(S, x, l, g, f)
<1>1. PICK same : same = [v \in S |-> v]
  OBVIOUS
<1>2. PICK h : h = [n \in Nat |-> IF n \in 1 .. l THEN g[n] ELSE same]
  OBVIOUS
<1>3. h \in [Nat -> [S -> S]]
  BY <1>1, <1>2
<1>4. PICK F : Counting(S, x, h, F)
  BY <1>3, CountingRecurrence
<1>5. F \in [Nat -> S] /\ \A n \in Nat : F[n] = IF n = 0 THEN x ELSE h[n][F[n - 1]]
  BY <1>4 DEF Counting
<1>6. PICK f : f = [n \in 0 .. l |-> F[n]]
  OBVIOUS
<1>7. f \in [0 .. l -> S]
  BY <1>5, <1>6
<1>8. f[0] = x
  BY <1>5, <1>6
<1>9. \A n \in 1 .. l : f[n] = g[n][f[n - 1]]
  <2> TAKE n \in 1 .. l
  <2>1. n \in 0 .. l /\ n \in Nat /\ n # 0 /\ n - 1 \in 0 .. l
    OBVIOUS
  <2>2. f[n] = h[n][F[n - 1]] /\ f[n - 1] = F[n - 1] /\ h[n] = g[n]
    BY <1>2, <1>5, <1>6, <2>1
  <2>3. QED
    BY <2>2
<1>10. QED
  BY <1>7, <1>8, <1>9 DEF Builds

LEMMA WeeksTile ==
    ASSUME NEW c \in Configs, NEW y \in Int, NEW periodicity \in Periodicities
    PROVE  TiledBy(WeekPeriods(c, y, periodicity), WeekYearEnd(c, y - 1) + 1, WeekYearEnd(c, y))
<1>1. PICK weeks : weeks = WeeksOfPeriods(c, y, periodicity)
  OBVIOUS
<1>2. /\ weeks \in Seq(Nat) /\ Len(weeks) \in Nat \ {0}
      /\ \A i \in 1 .. Len(weeks) : weeks[i] > 0
      /\ \A x \in Int : \A f : Reach(weeks, x, f) => f[Len(weeks)] = x + 7 * Weeks(c, y)
  BY <1>1, WeeksForm
<1>3. PICK x \in Int : x = WeekYearEnd(c, y - 1) /\ WeekYearEnd(c, y) = x + 7 * Weeks(c, y)
  BY WeekYearLength
<1>4. PICK l \in Nat \ {0} : l = Len(weeks)
  BY <1>2
<1>5. PICK g : g = [n \in 1 .. l |-> [v \in Int |-> v + 7 * weeks[n]]]
  OBVIOUS
<1>6. \A n \in 1 .. l : weeks[n] \in Nat
  BY <1>2, <1>4
<1>7. g \in [1 .. l -> [Int -> Int]]
  BY <1>5, <1>6
<1>8. PICK f : Builds(Int, x, l, g, f)
  BY <1>7, FiniteRecurrence, Zenon
<1>9. f \in [0 .. l -> Int] /\ f[0] = x /\ \A n \in 1 .. l : f[n] = f[n - 1] + 7 * weeks[n]
  <2>1. f \in [0 .. l -> Int] /\ f[0] = x
    BY <1>8 DEF Builds
  <2>2. ASSUME NEW n \in 1 .. l PROVE f[n] = f[n - 1] + 7 * weeks[n]
    <3>1. f[n] = g[n][f[n - 1]] /\ f[n - 1] \in Int
      BY <1>8, <2>1 DEF Builds
    <3>2. QED
      BY <1>5, <3>1
  <2>3. QED
    BY <2>1, <2>2
<1>10. f = [n \in 0 .. l |-> IF n = 0 THEN x ELSE f[n - 1] + 7 * weeks[n]]
  <2>1. \A n \in 0 .. l : f[n] = IF n = 0 THEN x ELSE f[n - 1] + 7 * weeks[n]
    BY <1>9
  <2>2. QED
    BY <1>9, <2>1
<1> DEFINE ended == CHOOSE e : e = [n \in 0 .. Len(weeks) |-> IF n = 0 THEN WeekYearStart(c, y) - 1
                                                             ELSE e[n - 1] + 7 * weeks[n]]
<1>11. WeekYearStart(c, y) - 1 = x
  BY <1>3 DEF WeekYearStart
<1>12. WeekPeriods(c, y, periodicity) = [i \in DOMAIN weeks |-> [start |-> ended[i - 1] + 1, end |-> ended[i]]]
  BY <1>1 DEF WeekPeriods
<1>13. ended = [n \in 0 .. l |-> IF n = 0 THEN x ELSE ended[n - 1] + 7 * weeks[n]]
  BY <1>4, <1>10, <1>11
<1> HIDE DEF ended
<1>14. ended[0] = x /\ \A n \in 1 .. l : ended[n] = ended[n - 1] + 7 * weeks[n]
  <2>1. \A n \in 0 .. l : ended[n] = IF n = 0 THEN x ELSE ended[n - 1] + 7 * weeks[n]
    BY <1>13
  <2>2. QED
    BY <2>1
<1>15. \A n \in 0 .. l : ended[n] \in Int
  <2> DEFINE S == {n \in Nat : n <= l => ended[n] \in Int}
  <2>1. 0 \in S
    BY <1>14
  <2>2. ASSUME NEW n \in S \cap Nat PROVE n + 1 \in S
    <3>1. CASE n + 1 <= l
      <4>1. n + 1 \in 1 .. l /\ (n + 1) - 1 = n /\ ended[n] \in Int
        BY <2>2, <3>1
      <4>2. ended[n + 1] = ended[n] + 7 * weeks[n + 1] /\ weeks[n + 1] \in Nat
        BY <1>6, <1>14, <4>1
      <4>3. QED
        BY <4>1, <4>2
    <3>2. QED
      BY <3>1
  <2>3. \A n \in Nat : n \in S
    <3> HIDE DEF S
    <3>1. QED
      BY <2>1, <2>2, AllNumbers
  <2>4. QED
    BY <2>3
<1>16. ended[l] = x + 7 * Weeks(c, y)
  <2>1. ended \in [0 .. l -> Int]
    BY <1>13, <1>15
  <2>2. Reach(weeks, x, ended)
    BY <1>4, <1>14, <2>1 DEF Reach
  <2>3. QED
    BY <1>2, <1>4, <2>2
<1>17. PICK ps : ps = [i \in 1 .. l |-> [start |-> ended[i - 1] + 1, end |-> ended[i]]]
  OBVIOUS
<1>18. WeekPeriods(c, y, periodicity) = ps
  BY <1>2, <1>4, <1>12, <1>17
<1>19. \A i \in 1 .. l : /\ ps[i].start = ended[i - 1] + 1 /\ ps[i].end = ended[i] /\ ps[i] \in Spans
  <2> TAKE i \in 1 .. l
  <2>1. ended[i - 1] \in Int /\ ended[i] \in Int
    BY <1>15
  <2>2. QED
    BY <1>17, <2>1 DEF Spans
<1>20. ps \in Seq(Spans) /\ Len(ps) = l /\ DOMAIN ps = 1 .. l
  BY <1>17, <1>19
<1>21. Contiguous(ps)
  <2>1. ASSUME NEW i \in 1 .. l PROVE ps[i].start <= ps[i].end
    <3>1. weeks[i] \in Nat /\ weeks[i] > 0 /\ ended[i - 1] \in Int /\ ended[i] = ended[i - 1] + 7 * weeks[i]
      BY <1>2, <1>4, <1>6, <1>14, <1>15
    <3>2. QED
      BY <1>19, <3>1
  <2>2. ASSUME NEW i \in 1 .. l - 1 PROVE ps[i + 1].start = ps[i].end + 1
    <3>1. i + 1 \in 1 .. l /\ i \in 1 .. l /\ (i + 1) - 1 = i
      OBVIOUS
    <3>2. QED
      BY <1>19, <3>1
  <2>3. QED
    BY <1>20, <2>1, <2>2 DEF Contiguous
<1>22. ps[1].start = x + 1 /\ ps[l].end = ended[l]
  <2>1. 1 \in 1 .. l /\ l \in 1 .. l /\ 1 - 1 = 0
    OBVIOUS
  <2>2. QED
    BY <1>14, <1>19, <2>1
<1>23. QED
  BY <1>3, <1>16, <1>18, <1>20, <1>21, <1>22 DEF TiledBy

(***************************************************************************)
(* Custom lists.                                                           *)
(***************************************************************************)
LEMMA CustomForm ==
    ASSUME NEW c \in Configs, c.pattern = "custom"
    PROVE  /\ c.custom \in Seq(MonthDaySpans) /\ Len(c.custom) \in Nat \ {0}
           /\ \A i \in 1 .. Len(c.custom) : c.custom[i].start \in MonthDays /\ c.custom[i].end \in MonthDays
<1>1. c.custom \in Seq(MonthDaySpans) /\ Len(c.custom) > 0
  <2>1. ValidConfig(c)
    BY CalendarAssumption
  <2>2. QED
    BY <2>1 DEF ValidConfig
<1>2. PICK list : list = c.custom
  OBVIOUS
<1>3. Len(list) \in Nat \ {0}
  BY <1>1, <1>2
<1>4. \A i \in 1 .. Len(list) : list[i] \in MonthDaySpans
  BY <1>1, <1>2
<1>5. QED
  BY <1>1, <1>2, <1>3, <1>4 DEF MonthDaySpans

LEMMA MonthsApart ==
    ASSUME NEW y \in Int, NEW b \in MonthDays, NEW e \in MonthDays, b[1] < e[1]
    PROVE  PlaceMonthDay(y, b) < PlaceMonthDay(y, e)
<1>1. PICK m \in 1 .. 12, k \in 1 .. 12, n \in 1 .. 12 : m = b[1] /\ k = e[1] /\ n = m + 1 /\ n <= k
  BY DEF MonthDays
<1>2. PICK p \in 1 .. 31, q \in 1 .. 31 : p = b[2] /\ q = e[2]
  BY DEF MonthDays
<1>3. PICK u \in 0 .. 335, v \in 28 .. 31 : u = DaysBeforeMonth(y, m) /\ v = LastDayOfMonth(y, m)
  BY MonthLengths, ZenonT(120) DEF MonthFits
<1>4. PICK w \in 0 .. 335, t \in 28 .. 31 : w = DaysBeforeMonth(y, k) /\ t = LastDayOfMonth(y, k)
  BY MonthLengths, ZenonT(120) DEF MonthFits
<1>5. u + v <= w
  <2>1. DaysBeforeMonth(y, n) = u + v
    BY <1>1, <1>3, MonthLengths, SMTT(60) DEF MonthFits
  <2>2. DaysBeforeMonth(y, n) <= DaysBeforeMonth(y, k)
    BY <1>1, DaysBeforeMonthOrder
  <2>3. QED
    BY <1>4, <2>1, <2>2
<1>6. PICK f \in Int : f = DaysBeforeYear(y)
  BY YearLength
<1>7. PlaceMonthDay(y, b) = f + u + Least(p, v) /\ PlaceMonthDay(y, e) = f + w + Least(q, t)
  BY <1>1, <1>2, <1>3, <1>4, <1>6 DEF PlaceMonthDay, Date
<1>8. QED
  BY <1>5, <1>7 DEF Least

LEMMA FirstCustomForm ==
    ASSUME NEW c \in Configs, NEW y \in Int, c.pattern = "custom"
    PROVE  FirstCustom(c, y) \in Spans /\ FirstCustom(c, y).start <= FirstCustom(c, y).end
<1>1. PICK b \in MonthDays, e \in MonthDays : b = c.custom[1].start /\ e = c.custom[1].end
  BY CustomForm
<1>2. PICK m \in 1 .. 12, k \in 1 .. 12 : m = b[1] /\ k = e[1]
  BY DEF MonthDays
<1>3. PICK s \in 1 .. 12 : s = StartMonth(c)
  BY ConfigForm DEF StartMonth
<1>4. PICK x \in Int : x = FyStartYear(c, y) /\ (x = y \/ (x = y - 1 /\ s # 1))
  BY <1>3 DEF FyStartYear
<1>5. PICK z \in Int, w \in Int : /\ z = PlaceMonth(c, y, m) /\ w = PlaceMonth(c, y, k)
                                  /\ z = (IF m < s THEN y ELSE x) /\ w = (IF k < s THEN y ELSE x)
  BY <1>3, <1>4 DEF PlaceMonth
<1>6. PICK from \in Int, till \in Int, prev \in Int :
         from = PlaceMonthDay(z, b) /\ till = PlaceMonthDay(w, e) /\ prev = PlaceMonthDay(z - 1, b)
  <2>1. PlaceMonthDay(z, b) \in Int /\ PlaceMonthDay(w, e) \in Int
    BY PlacedInYear
  <2>2. z - 1 \in Int
    OBVIOUS
  <2>3. PlaceMonthDay(z - 1, b) \in Int
    BY <2>2, PlacedInYear
  <2>4. QED
    BY <2>1, <2>3
<1>7. YearOf(from) = z
  <2>1. DaysBeforeYear(z) < from /\ from <= DaysBeforeYear(z + 1)
    BY <1>6, PlacedInYear
  <2>2. QED
    BY <2>1, YearOfIs
<1>8. FirstCustom(c, y) = [start |-> IF from > till THEN prev ELSE from, end |-> till]
  BY <1>1, <1>2, <1>5, <1>6, <1>7 DEF FirstCustom
<1>9. prev <= till
  <2>1. CASE z - 1 = w
    <3>1. m < k
      BY <1>4, <1>5, <2>1
    <3>2. PlaceMonthDay(w, b) < PlaceMonthDay(w, e)
      BY <1>2, <3>1, MonthsApart
    <3>3. QED
      BY <1>6, <2>1, <3>2
  <2>2. CASE z <= w
    <3>1. PICK q \in Int : q = z - 1 /\ q + 1 = z
      OBVIOUS
    <3>2. prev <= DaysBeforeYear(z)
      BY <1>6, <3>1, PlacedInYear
    <3>3. DaysBeforeYear(z) <= DaysBeforeYear(w)
      BY <2>2, YearsOrder
    <3>4. DaysBeforeYear(w) < till
      BY <1>6, PlacedInYear
    <3>5. DaysBeforeYear(z) \in Int /\ DaysBeforeYear(w) \in Int
      BY YearLength
    <3>6. QED
      BY <3>2, <3>3, <3>4, <3>5
  <2>3. QED
    BY <1>4, <1>5, <2>1, <2>2
<1>10. QED
  BY <1>8, <1>9 DEF Spans

LEMMA NextCustomForm ==
    ASSUME NEW p, p.end \in MonthDays, NEW last \in Spans
    PROVE  /\ NextCustom(p, last) \in Spans
           /\ NextCustom(p, last).start = last.end + 1
           /\ NextCustom(p, last).start <= NextCustom(p, last).end
<1>1. PICK start \in Int : start = last.end + 1
  BY DEF Spans
<1>2. PICK end : end = NextOf(start, p.end)
  OBVIOUS
<1>3. end \in Int /\ start <= end
  BY <1>2, NextOfOrder
<1>4. NextCustom(p, last) = [start |-> start, end |-> end]
  BY <1>1, <1>2 DEF NextCustom, NextOf
<1>5. QED
  BY <1>1, <1>3, <1>4 DEF Spans

\* Lists that join up.
Joining == {ps \in Seq(Spans) : Contiguous(ps)}

LEMMA JoinedForm ==
    ASSUME NEW done \in Joining, NEW p, p.end \in MonthDays
    PROVE  Joined(done, p) \in Joining
<1>1. <<>> \in Joining
  BY DEF Joining, Contiguous
<1>2. CASE done = <<>> \/ MonthDay(Last(done).end + 1) # p.start
  BY <1>1, <1>2 DEF Joined
<1>3. CASE done # <<>> /\ MonthDay(Last(done).end + 1) = p.start
  <2>1. done \in Seq(Spans) /\ Contiguous(done)
    BY DEF Joining
  <2>2. PICK n \in Nat \ {0} : n = Len(done)
    BY <1>3, <2>1
  <2>3. PICK last \in Spans : last = Last(done) /\ last = done[n]
    BY <2>1, <2>2 DEF Last
  <2>4. PICK new \in Spans : /\ new = NextCustom(p, last)
                             /\ new.start = last.end + 1 /\ new.start <= new.end
    BY NextCustomForm
  <2>5. PICK ps : ps = Append(done, new)
    OBVIOUS
  <2>6. Joined(done, p) = ps
    BY <1>3, <2>3, <2>4, <2>5 DEF Joined
  <2>7. /\ ps \in Seq(Spans) /\ Len(ps) = n + 1 /\ DOMAIN ps = 1 .. n + 1
        /\ ps[n + 1] = new /\ \A i \in 1 .. n : ps[i] = done[i]
    BY <2>1, <2>2, <2>5
  <2>8. /\ \A i \in 1 .. n : done[i].start <= done[i].end
        /\ \A i \in 1 .. n - 1 : done[i + 1].start = done[i].end + 1
    BY <2>1, <2>2 DEF Contiguous
  <2>9. ASSUME NEW i \in 1 .. n + 1 PROVE ps[i].start <= ps[i].end
    <3>1. CASE i = n + 1
      BY <2>4, <2>7, <3>1
    <3>2. CASE i \in 1 .. n
      BY <2>7, <2>8, <3>2
    <3>3. QED
      BY <3>1, <3>2
  <2>10. ASSUME NEW i \in 1 .. n PROVE ps[i + 1].start = ps[i].end + 1
    <3>1. CASE i = n
      BY <2>3, <2>4, <2>7, <3>1
    <3>2. CASE i \in 1 .. n - 1
      <4>1. i + 1 \in 1 .. n
        BY <3>2
      <4>2. QED
        BY <2>7, <2>8, <3>2, <4>1
    <3>3. QED
      BY <3>1, <3>2
  <2>11. Contiguous(ps)
    BY <2>7, <2>9, <2>10 DEF Contiguous
  <2>12. QED
    BY <2>6, <2>7, <2>11 DEF Joining
<1>4. QED
  BY <1>2, <1>3

LEMMA ListJoins ==
    ASSUME NEW c \in Configs, NEW y \in Int, c.pattern = "custom"
    PROVE  CustomList(c, y) \in Joining
<1>1. PICK x : x = <<FirstCustom(c, y)>>
  OBVIOUS
<1>2. x \in Joining
  BY <1>1, FirstCustomForm DEF Joining, Contiguous
<1>3. PICK others : others = Tail(c.custom)
  OBVIOUS
<1>4. PICK l \in Nat : l = Len(others) /\ \A i \in 1 .. l : others[i].end \in MonthDays
  <2>1. PICK list : list = c.custom
    OBVIOUS
  <2>2. list \in Seq(MonthDaySpans) /\ Len(list) \in Nat \ {0}
    BY <2>1, CustomForm
  <2>3. others \in Seq(MonthDaySpans)
    BY <1>3, <2>1, <2>2
  <2>4. \A i \in 1 .. Len(others) : others[i] \in MonthDaySpans
    BY <2>3
  <2>5. QED
    BY <2>3, <2>4 DEF MonthDaySpans
<1>5. PICK g : g = [n \in 1 .. l |-> [done \in Joining |-> Joined(done, others[n])]]
  OBVIOUS
<1>6. g \in [1 .. l -> [Joining -> Joining]]
  <2>1. \A n \in 1 .. l : \A done \in Joining : Joined(done, others[n]) \in Joining
    BY <1>4, JoinedForm
  <2>2. QED
    BY <1>5, <2>1
<1>7. PICK f : Builds(Joining, x, l, g, f)
  BY <1>2, <1>6, FiniteRecurrence, Zenon
<1>8. f \in [0 .. l -> Joining] /\ f[0] = x
  BY <1>7 DEF Builds
<1>9. \A n \in 1 .. l : f[n] = Joined(f[n - 1], others[n])
  <2> TAKE n \in 1 .. l
  <2>1. f[n] = g[n][f[n - 1]] /\ f[n - 1] \in Joining
    BY <1>7, <1>8 DEF Builds
  <2>2. QED
    BY <1>5, <2>1
<1>10. f = [n \in 0 .. l |-> IF n = 0 THEN x ELSE Joined(f[n - 1], others[n])]
  <2>1. \A n \in 0 .. l : f[n] = IF n = 0 THEN x ELSE Joined(f[n - 1], others[n])
    BY <1>8, <1>9
  <2>2. QED
    BY <1>8, <2>1
<1> DEFINE list == CHOOSE e : e = [n \in 0 .. Len(others) |-> IF n = 0 THEN <<FirstCustom(c, y)>>
                                                             ELSE Joined(e[n - 1], others[n])]
<1>11. CustomList(c, y) = list[Len(others)]
  BY <1>3 DEF CustomList
<1>12. list = [n \in 0 .. l |-> IF n = 0 THEN x ELSE Joined(list[n - 1], others[n])]
  BY <1>1, <1>4, <1>10
<1> HIDE DEF list
<1>13. list[0] = x /\ \A n \in 1 .. l : list[n] = Joined(list[n - 1], others[n])
  <2>1. \A n \in 0 .. l : list[n] = IF n = 0 THEN x ELSE Joined(list[n - 1], others[n])
    BY <1>12
  <2>2. QED
    BY <2>1
<1>14. \A n \in 0 .. l : list[n] \in Joining
  <2> DEFINE S == {n \in Nat : n <= l => list[n] \in Joining}
  <2>1. 0 \in S
    BY <1>2, <1>13
  <2>2. ASSUME NEW n \in S \cap Nat PROVE n + 1 \in S
    <3>1. CASE n + 1 <= l
      <4>1. n + 1 \in 1 .. l /\ (n + 1) - 1 = n /\ list[n] \in Joining
        BY <2>2, <3>1
      <4>2. list[n + 1] = Joined(list[n], others[n + 1]) /\ others[n + 1].end \in MonthDays
        BY <1>4, <1>13, <4>1
      <4>3. list[n + 1] \in Joining
        BY <4>1, <4>2, JoinedForm
      <4>4. QED
        BY <4>3
    <3>2. QED
      BY <3>1
  <2>3. \A n \in Nat : n \in S
    <3> HIDE DEF S
    <3>1. QED
      BY <2>1, <2>2, AllNumbers
  <2>4. QED
    BY <2>3
<1>15. QED
  BY <1>4, <1>11, <1>14

(***************************************************************************)
(* What is asked of the calendars, and answered.                           *)
(***************************************************************************)
LEMMA TilesHold ==
    ASSUME NEW ps, NEW from, NEW to, TiledBy(ps, from, to)
    PROVE  /\ ps \o <<>> = ps /\ Contiguous(ps) /\ ps # <<>>
           /\ ps[1].start = from /\ Last(ps).end = to
<1>1. ps \in Seq(Spans) /\ Len(ps) > 0
  BY DEF TiledBy
<1>2. ps \o <<>> = ps
  BY <1>1
<1>3. QED
  BY <1>1, <1>2 DEF TiledBy, Last

LEMMA PeriodsForm ==
    ASSUME NEW c \in Configs, NEW y \in Int, NEW periodicity \in Periodicities
    PROVE  /\ c.pattern = "custom" => Periods(c, y, periodicity) \in Joining
           /\ c.pattern # "custom" =>
                 TiledBy(Periods(c, y, periodicity), YearEnd(c, y - 1) + 1, YearEnd(c, y))
<1>1. Resolved(c, y)
  BY WeekYearLength DEF Resolved
<1>2. CASE c.pattern = "standard"
  <2>1. Periods(c, y, periodicity) = StandardPeriods(c, y, periodicity)
    BY <1>1, <1>2 DEF Periods
  <2>2. YearEnd(c, y) = StandardYearEnd(c, y) /\ YearEnd(c, y - 1) + 1 = StandardYearStart(c, y)
    BY <1>2, YearIsLong DEF YearEnd
  <2>3. QED
    BY <1>2, <2>1, <2>2, StandardTiles
<1>3. CASE c.pattern = "custom"
  <2>1. Periods(c, y, periodicity) = CustomPeriods(c, y, periodicity)
    BY <1>1, <1>3 DEF Periods
  <2>2. CASE periodicity \in {"monthly", "quarterly", "bi-annual"}
    BY <1>3, <2>1, <2>2, ListJoins DEF CustomPeriods
  <2>3. CASE periodicity \in {"annual", "consolidated-annual"}
    <3>1. PICK t \in Int, u \in Int : t = StandardYearStart(c, y) /\ u = StandardYearEnd(c, y) /\ t <= u
      <4>1. /\ StandardYearStart(c, y) \in Int /\ StandardYearEnd(c, y) \in Int
            /\ StandardYearEnd(c, y) >= StandardYearStart(c, y) + 364
        BY YearIsLong
      <4>2. QED
        BY <4>1
    <3>2. CustomPeriods(c, y, periodicity) = <<[start |-> t, end |-> u]>>
      BY <2>3, <3>1 DEF CustomPeriods
    <3>3. QED
      BY <1>3, <2>1, <3>1, <3>2 DEF Joining, Contiguous, Spans
  <2>4. CASE periodicity = "weekly"
    BY <1>3, <2>1, <2>4 DEF CustomPeriods, Joining, Contiguous
  <2>5. QED
    BY <2>2, <2>3, <2>4 DEF Periodicities
<1>4. CASE c.pattern \notin {"standard", "custom"}
  <2>1. Periods(c, y, periodicity) = WeekPeriods(c, y, periodicity)
    BY <1>1, <1>4 DEF Periods
  <2>2. YearEnd(c, y) = WeekYearEnd(c, y) /\ YearEnd(c, y - 1) = WeekYearEnd(c, y - 1)
    BY <1>4 DEF YearEnd
  <2>3. QED
    BY <1>4, <2>1, <2>2, WeeksTile
<1>5. QED
  BY <1>2, <1>3, <1>4

LEMMA PeriodsAlwaysTile ==
    ASSUME NEW c \in Configs, NEW y \in Int, NEW periodicity \in Periodicities,
           asked = [about |-> "periods", config |-> c, year |-> y, periodicity |-> periodicity]
    PROVE  PeriodsTile
<1>1. PICK list : list = Periods(c, y, periodicity)
  OBVIOUS
<1>2. CASE c.pattern = "custom"
  <2>1. list \in Seq(Spans) /\ Contiguous(list)
    BY <1>1, <1>2, PeriodsForm DEF Joining
  <2>2. list \o <<>> = list
    BY <2>1
  <2>3. QED
    BY <1>1, <1>2, <2>1, <2>2 DEF PeriodsTile
<1>3. CASE c.pattern # "custom"
  <2>1. TiledBy(list, YearEnd(c, y - 1) + 1, YearEnd(c, y))
    BY <1>1, <1>3, PeriodsForm
  <2>2. /\ list \o <<>> = list /\ Contiguous(list) /\ list # <<>>
        /\ list[1].start = YearEnd(c, y - 1) + 1 /\ Last(list).end = YearEnd(c, y)
    BY <2>1, TilesHold
  <2>3. QED
    BY <1>1, <2>2 DEF PeriodsTile
<1>4. QED
  BY <1>2, <1>3

AskedOfCalendars ==
    \/ asked = Nothing
    \/ \E y \in FiscalYears, c \in Configs, periodicity \in Periodicities :
          asked = [about |-> "periods", config |-> c, year |-> y, periodicity |-> periodicity]
    \/ \E y \in FiscalYears, r \in DueRules, pay \in PaymentRules :
          asked = [about |-> "deadlines", rule |-> r, pay |-> pay, year |-> y]

\* For every configuration that is valid, whatever its pattern, anchor and rule, and for every
\* rule of deadlines: the periods of a year tile it, and deadlines keep the order of the days
\* (NewCalendar, Periods, ApplyOffset, paymentDeadline).
THEOREM CalendarsAlwaysHold == GenSpec => []CalendarsHold
<1>1. GenInit => AskedOfCalendars
  BY DEF GenInit, AskedOfCalendars
<1>2. AskedOfCalendars /\ [Next]_vars => AskedOfCalendars'
  <2> SUFFICES ASSUME AskedOfCalendars, [Next]_vars PROVE AskedOfCalendars'
    OBVIOUS
  <2>1. CASE UNCHANGED asked
    BY <2>1 DEF AskedOfCalendars
  <2>2. CASE Ask
    BY <2>2 DEF Ask, AskPeriods, AskDeadlines, AskedOfCalendars
  <2>3. QED
    BY <2>1, <2>2 DEF Next, vars
<1>3. AskedOfCalendars => CalendarsHold
  <2> SUFFICES ASSUME AskedOfCalendars PROVE CalendarsHold
    OBVIOUS
  <2>1. \A y \in FiscalYears : y \in Int
    BY CalendarAssumption
  <2>2. CASE asked = Nothing
    BY <2>2 DEF CalendarsHold, PeriodsTile, DeadlinesKeepOrder, Nothing
  <2>3. ASSUME NEW y \in FiscalYears, NEW c \in Configs, NEW periodicity \in Periodicities,
               asked = [about |-> "periods", config |-> c, year |-> y, periodicity |-> periodicity]
        PROVE  CalendarsHold
    <3>1. PeriodsTile
      BY <2>1, <2>3, PeriodsAlwaysTile
    <3>2. asked.about = "periods"
      BY <2>3
    <3>3. QED
      BY <3>1, <3>2 DEF CalendarsHold, DeadlinesKeepOrder
  <2>4. ASSUME NEW y \in FiscalYears, NEW r \in DueRules, NEW pay \in PaymentRules,
               asked = [about |-> "deadlines", rule |-> r, pay |-> pay, year |-> y]
        PROVE  CalendarsHold
    <3>1. DeadlinesKeepOrder
      BY <2>4, DeadlinesOrder
    <3>2. asked.about = "deadlines"
      BY <2>4
    <3>3. QED
      BY <3>1, <3>2 DEF CalendarsHold, PeriodsTile
  <2>5. QED
    BY <2>2, <2>3, <2>4 DEF AskedOfCalendars
<1>4. QED
  BY <1>1, <1>2, <1>3, PTL DEF GenSpec

=============================================================================
