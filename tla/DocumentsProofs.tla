--------------------------- MODULE DocumentsProofs ---------------------------
(* Theorems about Documents, for any documents, requests and failures, and *)
(* about Drafts, for any files and registers.                              *)
EXTENDS Documents, Drafts, FiniteSetTheorems, WellFoundedInduction, TLAPS

(***************************************************************************)
(* The invariant.  A request that has updated a row and not committed has  *)
(* the row to itself, live; one that creates a document has its identifier *)
(* to itself.  The row that the delete of the workflow has taken is held   *)
(* by no request, and the keys that delete has read, or seen come late,    *)
(* are all that versions refer to.                                         *)
(***************************************************************************)
\* What a request past a place has done.
Stages ==
    \A q \in Busy :
        /\ req[q].at = "bumped" => req[q].op = "add"
        /\ req[q].at = "stored" => req[q].op \in {"create", "add"}
        /\ q \in store <=> req[q].op \in {"create", "add"} /\ req[q].at \in {"stored", "written"}
Creations ==
    \A q \in Busy : req[q].op = "create" =>
        /\ docs[req[q].doc].state = "none" /\ req[q].n = 1
        /\ \A p \in Busy : req[p].doc = req[q].doc => p = q
Changes ==
    \A q \in Busy : req[q].op # "create" =>
        /\ docs[req[q].doc].state # "none"
        /\ req[q].at # "checked" =>
              /\ holder[req[q].doc] = q /\ docs[req[q].doc].state = "live"
              /\ req[q].op = "add" => req[q].n = docs[req[q].doc].version + 1
Kept ==
    \A v \in versions :
        /\ docs[v.doc].state \in {"live", "deleted"}
        /\ req[v.key] = Answered /\ v.key \in store
Purging ==
    /\ purge.at \in {"fired", "done"} => Uncommitted = {}
    /\ purge.at = "done" => versions = {} /\ \A d \in Docs : docs[d].state \notin {"live", "deleted"}
    /\ purge.at # "done" => reclaim = {} /\ late \subseteq Referenced
    /\ purge.at \in {"queued", "fired"} => Referenced \subseteq purge.keys \cup late
Untouched == \A q \in Requests : req[q] = Fresh => q \notin store
Excused == instance # "open" => \A q \in Busy : req[q].doc \in Attached => q \in stale

IInv == /\ TypeOK /\ Stages /\ Creations /\ Changes /\ Kept /\ Purging /\ Untouched /\ Excused
        /\ VersionsIntact /\ NothingUnfindable

LEMMA InitIInv == Init => IInv
<1> SUFFICES ASSUME Init PROVE IInv
  OBVIOUS
<1> USE DocumentsAssumption DEF Init
<1>1. Busy = {}
  BY DEF Busy
<1>2. TypeOK
  BY DEF TypeOK, Rows
<1>3. Stages /\ Creations /\ Changes /\ Excused /\ Untouched
  BY <1>1 DEF Stages, Creations, Changes, Excused, Untouched
<1>4. Kept /\ VersionsIntact /\ NothingUnfindable /\ Purging
  BY DEF Kept, VersionsIntact, NothingUnfindable, Purging, Referenced
<1>5. QED
  BY <1>2, <1>3, <1>4 DEF IInv

(***************************************************************************)
(* Requests.                                                               *)
(***************************************************************************)
\* What a request under way is.
LEMMA BusyForm ==
    ASSUME TypeOK, NEW q \in Busy
    PROVE  /\ q \in Requests /\ req[q] \in InFlight
           /\ req[q].doc \in Docs /\ req[q].op \in Ops /\ req[q].n \in Nat
<1>1. q \in Requests /\ req[q] \in InFlight
  BY DEF Busy, TypeOK
<1>2. QED
  BY <1>1 DEF InFlight

LEMMA InFlightIsBusy ==
    ASSUME NEW q \in Requests, req[q] \in InFlight
    PROVE  q \in Busy
<1>1. Fresh.at = "new" /\ Answered.at = "done" /\ req[q].at \notin {"new", "done"}
  BY DEF Fresh, Answered, InFlight
<1>2. QED
  BY <1>1 DEF Busy

\* Where a step finds a request tells that it is under way.
LEMMA AtIsBusy ==
    ASSUME TypeOK, NEW q \in Requests, req[q].at \in {"checked", "bumped", "stored", "written"}
    PROVE  q \in Busy
<1>1. Fresh.at = "new" /\ Answered.at = "done"
  BY DEF Fresh, Answered
<1>2. QED
  BY <1>1 DEF Busy

\* A request that is answered, whatever it leaves of the object it put.
LEMMA EndStep ==
    ASSUME IInv, NEW q \in Busy, Undone(q),
           UNCHANGED <<docs, versions, reclaim, instance, purge, stale, late>>,
           store' \ {q} = store \ {q}, store' \subseteq Requests, q \in store' => q \in strays',
           strays \subseteq strays', strays' \subseteq Requests, faults' \in Nat
    PROVE  IInv'
<1> USE DEF IInv
<1>1. /\ q \in Requests /\ req \in [Requests -> InFlight \cup {Fresh, Answered}]
      /\ req' = [req EXCEPT ![q] = Answered]
      /\ holder' = [d \in Docs |-> IF holder[d] = q THEN NoOne ELSE holder[d]]
  BY BusyForm DEF TypeOK, Undone
<1>2. Busy' = Busy \ {q} /\ \A p \in Busy' : p \in Busy /\ p # q /\ req'[p] = req[p]
  BY <1>1 DEF Busy
<1>3. TypeOK'
  BY <1>1 DEF TypeOK
<1>4. Stages' /\ Creations' /\ Excused'
  BY <1>2 DEF Stages, Creations, Excused
<1>5. Changes'
  <2>1. \A p \in Busy' : /\ req[p].doc \in Docs
                      /\ \/ holder'[req[p].doc] = holder[req[p].doc]
                         \/ holder[req[p].doc] = q
    BY <1>1, <1>2, BusyForm
  <2>2. QED
    BY <1>2, <2>1 DEF Changes
<1>6. \A v \in versions : v.key # q /\ v.key \in Requests /\ req'[v.key] = Answered
  BY <1>1 DEF Kept, Busy, TypeOK, Versions
<1>7. Kept'
  BY <1>6 DEF Kept
<1>8. Purging'
  BY <1>2 DEF Purging, Uncommitted, Referenced
<1>9. Untouched'
  BY <1>1 DEF Untouched, Answered, Fresh
<1>10. VersionsIntact'
  BY DEF VersionsIntact
<1>11. NothingUnfindable'
  BY <1>2 DEF NothingUnfindable, Referenced
<1>12. QED
  BY <1>3, <1>4, <1>5, <1>7, <1>8, <1>9, <1>10, <1>11

\* A request under way moves on: only its place, its object and its row change.
LEMMA MoveStep ==
    ASSUME IInv, NEW q \in Busy, NEW new \in InFlight, req' = [req EXCEPT ![q] = new],
           new.op = req[q].op, new.doc = req[q].doc, new.n = req[q].n \/ new.op # "create",
           UNCHANGED <<docs, versions, reclaim, instance, purge, stale, strays, late, faults>>,
           store' \in {store, store \cup {q}}, holder' \in [Docs -> Requests \cup {NoOne}],
           new.at = "bumped" => new.op = "add",
           new.at = "stored" => new.op \in {"create", "add"},
           q \in store' <=> new.op \in {"create", "add"} /\ new.at \in {"stored", "written"},
           Changes',
           purge.at \in {"fired", "done"} => new.at # "written" /\ (new.op = "add" => new.at = "checked")
    PROVE  IInv'
<1> USE DEF IInv
<1>1. /\ q \in Requests /\ req \in [Requests -> InFlight \cup {Fresh, Answered}]
      /\ req'[q] = new /\ \A p \in Requests \ {q} : req'[p] = req[p]
  BY BusyForm DEF TypeOK
<1>2. Busy' = Busy
  <2>1. new \notin {Fresh, Answered}
    BY DEF InFlight, Fresh, Answered
  <2>2. QED
    BY <1>1, <2>1 DEF Busy
<1>3. TypeOK'
  BY <1>1 DEF TypeOK
<1>4. Busy \subseteq Requests
  BY DEF Busy
<1>5. Stages' /\ Creations' /\ Excused'
  BY <1>1, <1>2, <1>4 DEF Stages, Creations, Excused
<1>6. Kept'
  <2>1. \A v \in versions : v.key \in Requests /\ v.key # q
    BY <1>1 DEF Kept, Busy, TypeOK, Versions
  <2>2. QED
    BY <1>1, <2>1 DEF Kept
<1>7. Purging'
  BY <1>1, <1>2, <1>4 DEF Purging, Uncommitted, Referenced
<1>8. Untouched'
  BY <1>1, <1>2 DEF Untouched, Busy
<1>9. VersionsIntact' /\ NothingUnfindable'
  BY <1>2 DEF VersionsIntact, NothingUnfindable, Referenced
<1>10. QED
  BY <1>3, <1>5, <1>6, <1>7, <1>8, <1>9

LEMMA CheckStep ==
    ASSUME IInv, NEW q \in Requests, NEW op \in Ops, NEW d \in Docs, Check(q, op, d)
    PROVE  IInv'
<1> DEFINE new == [at |-> "checked", op |-> op, doc |-> d, n |-> 1]
<1> USE DEF IInv
<1>1. /\ new \in InFlight /\ new.at = "checked" /\ new.op = op /\ new.doc = d /\ new.n = 1
  BY DEF InFlight
<1>2. /\ req' = [req EXCEPT ![q] = new] /\ req[q] = Fresh
      /\ UNCHANGED <<docs, versions, store, reclaim, holder, instance, purge, stale, strays, late, faults>>
      /\ d \in Attached => instance = "open"
      /\ op = "create" => purge.at # "done" /\ docs[d].state = "none" /\ \A p \in Busy : req[p].doc # d
      /\ op # "create" => docs[d].state = "live"
  BY DEF Check, Mutable
<1> HIDE DEF new
<1>3. /\ req \in [Requests -> InFlight \cup {Fresh, Answered}]
      /\ req'[q] = new /\ \A p \in Requests \ {q} : req'[p] = req[p]
  BY <1>2 DEF TypeOK
<1>4. Busy' = Busy \cup {q} /\ q \notin Busy /\ Busy \subseteq Requests
  <2>1. new \notin {Fresh, Answered}
    BY <1>1 DEF Fresh, Answered
  <2>2. QED
    BY <1>2, <1>3, <2>1 DEF Busy
<1>5. \A p \in Busy : req'[p] = req[p]
  BY <1>3, <1>4
<1>6. TypeOK'
  BY <1>1, <1>2 DEF TypeOK
<1>7. Stages' /\ Excused'
  BY <1>1, <1>2, <1>3, <1>4, <1>5 DEF Stages, Excused, Untouched
<1>8. Creations' /\ Changes'
  BY <1>1, <1>2, <1>3, <1>4, <1>5 DEF Creations, Changes
<1>9. Kept'
  <2>1. \A v \in versions : v.key \in Requests /\ v.key # q
    BY <1>2 DEF Kept, TypeOK, Versions, Fresh, Answered
  <2>2. QED
    BY <1>2, <1>3, <2>1 DEF Kept
<1>10. Purging' /\ Untouched'
  BY <1>1, <1>2, <1>3, <1>4, <1>5 DEF Purging, Uncommitted, Referenced, Untouched
<1>11. VersionsIntact' /\ NothingUnfindable'
  BY <1>2, <1>4 DEF VersionsIntact, NothingUnfindable, Referenced
<1>12. QED
  BY <1>6, <1>7, <1>8, <1>9, <1>10, <1>11

(***************************************************************************)
(* The steps before the commit.                                            *)
(***************************************************************************)
\* The UPDATE takes the row for itself, and finds it live.
LEMMA UpdateRowStep == ASSUME IInv, NEW q \in Requests, UpdateRow(q) PROVE IInv'
<1> DEFINE d == req[q].doc
           new == [req[q] EXCEPT !.at = IF req[q].op = "add" THEN "bumped" ELSE "written",
                                 !.n = IF req[q].op = "add" THEN Bumped(q) ELSE @]
<1> USE DEF IInv
<1>1. q \in Busy /\ req[q] \in InFlight /\ d \in Docs
  BY AtIsBusy, BusyForm DEF UpdateRow
<1>2. docs[d].version + 1 \in Nat
  BY <1>1 DEF TypeOK, Rows
<1>3. /\ new \in InFlight /\ new.op = req[q].op /\ new.doc = d /\ new.op \in Ops
      /\ new.at = IF req[q].op = "add" THEN "bumped" ELSE "written"
      /\ new.op = "add" => new.n = docs[d].version + 1
  BY <1>1, <1>2 DEF InFlight, Bumped
<1>4. /\ req' = [req EXCEPT ![q] = new] /\ holder' = [holder EXCEPT ![d] = q]
      /\ req[q].at = "checked" /\ req[q].op # "create"
      /\ holder[d] = NoOne /\ purge.at # "fired" /\ docs[d].state = "live"
      /\ UNCHANGED <<docs, versions, store, reclaim, instance, purge, stale, strays, late, faults>>
  BY DEF UpdateRow, Unlocked, StillLive
<1> HIDE DEF new
<1>5. Changes'
  <2>1. \A p \in Busy \ {q} : req'[p] = req[p] /\ req[p].doc \in Docs /\ p \in Requests
    BY <1>4, BusyForm DEF Busy
  <2>2. req'[q] = new /\ Busy' \subseteq Busy \cup {q} /\ holder'[d] = q
    BY <1>1, <1>4 DEF Busy, TypeOK
  <2>3. \A p \in Busy \ {q} : req[p].op # "create" /\ req[p].at # "checked" => req[p].doc # d
    BY <1>4, <2>1, DocumentsAssumption DEF Changes
  <2>4. ASSUME NEW p \in Busy \ {q}, req[p].op # "create"
        PROVE  /\ docs[req[p].doc].state # "none"
               /\ req[p].at # "checked" =>
                     /\ holder'[req[p].doc] = p /\ docs[req[p].doc].state = "live"
                     /\ req[p].op = "add" => req[p].n = docs[req[p].doc].version + 1
    BY <1>4, <2>1, <2>3, <2>4 DEF Changes, TypeOK
  <2>5. QED
    BY <1>3, <1>4, <2>1, <2>2, <2>4 DEF Changes
<1>6. q \notin store
  BY <1>1, <1>4 DEF Stages
<1>7. purge.at # "done"
  BY <1>1, <1>4 DEF Purging
<1>8. holder' \in [Docs -> Requests \cup {NoOne}]
  BY <1>4 DEF TypeOK
<1>9. QED
  BY <1>1, <1>3, <1>4, <1>5, <1>6, <1>7, <1>8, MoveStep DEF Ops

\* The object is put, and the rows are inserted.
LEMMA PutInsertStep == ASSUME IInv, NEW q \in Requests, Put(q) \/ Insert(q) PROVE IInv'
<1> DEFINE new == [req[q] EXCEPT !.at = IF Put(q) THEN "stored" ELSE "written"]
<1> USE DEF IInv
<1>1. q \in Busy /\ req[q] \in InFlight
  BY AtIsBusy, BusyForm DEF Put, UploadDue, Insert
<1>2. /\ new \in InFlight /\ new.op = req[q].op /\ new.doc = req[q].doc /\ new.n = req[q].n
      /\ new.at = IF Put(q) THEN "stored" ELSE "written"
  BY <1>1 DEF InFlight
<1>3. /\ req' = [req EXCEPT ![q] = new]
      /\ UNCHANGED <<docs, versions, reclaim, holder, instance, purge, stale, strays, late, faults>>
  <2>1. CASE Put(q)
    BY <2>1 DEF Put, Moves
  <2>2. CASE Insert(q) /\ ~Put(q)
    BY <2>2 DEF Insert, Moves
  <2>3. QED
    BY <2>1, <2>2
<1>4. /\ req[q].op \in {"create", "add"}
      /\ req[q].op = "add" => req[q].at # "checked"
      /\ store' = IF Put(q) THEN store \cup {q} ELSE store
      /\ ~Put(q) => q \in store /\ (req[q].op = "create" => purge.at \notin {"fired", "done"})
  <2>1. CASE Put(q)
    BY <2>1 DEF Put, UploadDue, Uploading
  <2>2. CASE Insert(q) /\ ~Put(q)
    BY <1>1, <2>2 DEF Insert, Stages, ParentSettled, ParentThere
  <2>3. QED
    BY <2>1, <2>2
<1>5. purge.at \in {"fired", "done"} => new.at # "written" /\ new.op # "add"
  <2>1. purge.at \in {"fired", "done"} => ~(req[q].op = "add" /\ req[q].at # "checked")
    BY <1>1 DEF Purging, Uncommitted
  <2>2. QED
    BY <1>2, <1>4, <2>1
<1>6. req' \in [Requests -> InFlight \cup {Fresh, Answered}] /\ holder' \in [Docs -> Requests \cup {NoOne}]
  BY <1>2, <1>3 DEF TypeOK
<1> HIDE DEF new
<1>7. Changes'
  <2>1. \A p \in Busy' \ {q} : p \in Busy /\ req'[p] = req[p]
    BY <1>1, <1>3 DEF Busy, TypeOK
  <2>2. req'[q] = new
    BY <1>1, <1>3 DEF Busy, TypeOK
  <2>3. QED
    BY <1>1, <1>2, <1>3, <1>4, <2>1, <2>2 DEF Changes
<1>8. store' \in {store, store \cup {q}} /\ q \in store'
  BY <1>4
<1>9. QED
  BY <1>1, <1>2, <1>3, <1>4, <1>5, <1>6, <1>7, <1>8, MoveStep

\* Requests that are answered without a commit.
LEMMA EndSteps ==
    ASSUME IInv, NEW q \in Requests, UpdateMisses(q) \/ InsertRefused(q) \/ Breaks(q)
    PROVE  IInv'
<1> USE DEF IInv
<1>1. q \in Busy
  BY AtIsBusy DEF UpdateMisses, InsertRefused, Breaks, PutFails, UploadDue, InsertFails, Dies
<1>2. Undone(q) /\ UNCHANGED <<docs, versions, reclaim, instance, purge, stale, late>>
  BY DEF UpdateMisses, InsertRefused, Breaks, PutFails, InsertFails, Dies
<1>3. faults' \in Nat
  BY DEF UpdateMisses, InsertRefused, Breaks, PutFails, InsertFails, Dies, Fault, TypeOK
<1>4. /\ store' \ {q} = store \ {q} /\ store' \subseteq Requests
      /\ strays \subseteq strays' /\ strays' \subseteq Requests
  BY DEF UpdateMisses, InsertRefused, Breaks, PutFails, InsertFails, Dies, Compensated, LeftBehind, TypeOK
<1>5. q \in store' => q \in strays'
  <2>1. CASE UpdateMisses(q)
    BY <1>1, <2>1 DEF UpdateMisses, Stages
  <2>2. CASE PutFails(q)
    <3>1. req[q].at \in {"checked", "bumped"}
      BY <2>2 DEF PutFails, UploadDue, Uploading
    <3>2. q \notin store
      BY <1>1, <3>1 DEF Stages
    <3>3. QED
      BY <2>2, <3>2 DEF PutFails
  <2>3. CASE InsertRefused(q) \/ InsertFails(q)
    BY <2>3 DEF InsertRefused, InsertFails, Compensated, LeftBehind
  <2>4. CASE Dies(q)
    BY <2>4 DEF Dies
  <2>5. QED
    BY <2>1, <2>2, <2>3, <2>4 DEF Breaks
<1>6. QED
  BY <1>1, <1>2, <1>3, <1>4, <1>5, EndStep

(***************************************************************************)
(* The commit.                                                             *)
(***************************************************************************)
Numbers(d) == {v.n : v \in {u \in versions : u.doc = d}}

\* What a committed request finds and leaves.
LEMMA CommitAbout ==
    ASSUME IInv, NEW q \in Requests, Commit(q)
    PROVE  /\ q \in Busy /\ req[q] \in InFlight /\ purge.at \notin {"fired", "done"}
           /\ Written(q) \in Rows /\ Written(q).updatedBy = q
           /\ Written(q).state = IF req[q].op = "delete" THEN "deleted" ELSE "live"
           /\ docs[req[q].doc].state = IF req[q].op = "create" THEN "none" ELSE "live"
           /\ Written(q).version = IF req[q].op \in {"create", "add"} THEN req[q].n ELSE docs[req[q].doc].version
           /\ req[q].op = "create" => req[q].n = 1
           /\ req[q].op = "add" => req[q].n = docs[req[q].doc].version + 1
<1> USE DEF IInv
<1>1. q \in Busy /\ req[q].at = "written"
  BY AtIsBusy DEF Commit
<1>2. /\ req[q] \in InFlight /\ req[q].doc \in Docs /\ req[q].op \in Ops /\ req[q].n \in Nat
      /\ docs[req[q].doc] \in Rows
  BY <1>1, BusyForm DEF TypeOK
<1>3. purge.at \notin {"fired", "done"}
  BY <1>1 DEF Purging, Uncommitted
<1>4. /\ docs[req[q].doc].state = IF req[q].op = "create" THEN "none" ELSE "live"
      /\ req[q].op = "create" => req[q].n = 1
      /\ req[q].op = "add" => req[q].n = docs[req[q].doc].version + 1
  BY <1>1, <1>2 DEF Creations, Changes
<1>5. CASE req[q].op = "create"
  BY <1>1, <1>2, <1>3, <1>4, <1>5 DEF Written, Rows
<1>6. CASE req[q].op = "add"
  <2>1. Written(q) = [docs[req[q].doc] EXCEPT !.version = req[q].n, !.updatedBy = q]
    BY <1>6 DEF Written
  <2>2. QED
    BY <1>1, <1>2, <1>3, <1>4, <1>6, <2>1 DEF Rows
<1>7. CASE req[q].op = "update"
  <2>1. Written(q) = [docs[req[q].doc] EXCEPT !.updatedBy = q]
    BY <1>7 DEF Written
  <2>2. QED
    BY <1>1, <1>2, <1>3, <1>4, <1>7, <2>1 DEF Rows
<1>8. CASE req[q].op = "delete"
  <2>1. Written(q) = [docs[req[q].doc] EXCEPT !.state = "deleted", !.updatedBy = q]
    BY <1>8 DEF Written
  <2>2. QED
    BY <1>1, <1>2, <1>3, <1>4, <1>8, <2>1 DEF Rows
<1>9. QED
  BY <1>2, <1>5, <1>6, <1>7, <1>8 DEF Ops

\* The version that is committed has the next number of its document.
LEMMA CommitNumbers ==
    ASSUME IInv, NEW q \in Requests, Commit(q)
    PROVE  VersionsIntact'
<1> USE DEF IInv
<1> PICK d \in Docs : d = req[q].doc
  BY CommitAbout, BusyForm
<1> DEFINE v0 == [doc |-> d, n |-> req[q].n, key |-> q]
           writes == req[q].op \in {"create", "add"}
<1>1. /\ d \in Docs /\ docs \in [Docs -> Rows] /\ versions \subseteq Versions
      /\ req[q].n \in Nat /\ docs[d].version \in Nat
  BY CommitAbout, BusyForm DEF TypeOK, Rows
<1>2. docs' = [docs EXCEPT ![d] = Written(q)] /\ versions' = IF writes THEN versions \cup {v0} ELSE versions
  BY DEF Commit
<1>3. v0.doc = d /\ v0.n = req[q].n
  OBVIOUS
<1> HIDE DEF v0
<1>4. ASSUME NEW e \in Docs \ {d}
      PROVE  /\ docs'[e].state \in {"live", "deleted"} => Numbers(e)' = 1 .. docs'[e].version
             /\ \A u, v \in versions' : u.doc = e /\ v.doc = e /\ u.n = v.n => u = v
  <2>1. docs'[e] = docs[e] /\ \A v \in versions' : v.doc = e => v \in versions
    BY <1>1, <1>2, <1>3
  <2>2. {u \in versions' : u.doc = e} = {u \in versions : u.doc = e}
    BY <1>2, <2>1
  <2>3. Numbers(e)' = Numbers(e)
    BY <2>2 DEF Numbers
  <2>4. QED
    BY <2>1, <2>3 DEF VersionsIntact, Numbers
<1>5. docs'[d] = Written(q)
  BY <1>1, <1>2
<1>6. CASE ~writes
  <2>1. docs'[d].version = docs[d].version /\ docs[d].state = "live"
    BY <1>5, <1>6, CommitAbout
  <2>2. Numbers(d)' = Numbers(d)
    BY <1>2, <1>6 DEF Numbers
  <2>3. QED
    BY <1>1, <1>2, <1>4, <1>6, <2>1, <2>2 DEF VersionsIntact, Numbers
<1>7. CASE writes
  <2>1. Numbers(d) = 1 .. (req[q].n - 1) /\ docs'[d].version = req[q].n /\ req[q].n >= 1
    <3>1. CASE req[q].op = "create"
      <4>1. docs[d].state = "none" /\ req[q].n = 1
        BY <3>1, CommitAbout
      <4>2. Numbers(d) = {}
        BY <4>1 DEF Numbers, Kept
      <4>3. QED
        BY <1>5, <1>7, <4>1, <4>2, CommitAbout
    <3>2. CASE req[q].op = "add"
      <4>1. docs[d].state = "live" /\ req[q].n = docs[d].version + 1
        BY <3>2, CommitAbout
      <4>2. Numbers(d) = 1 .. docs[d].version
        BY <1>1, <4>1 DEF Numbers, VersionsIntact
      <4>3. QED
        BY <1>1, <1>5, <1>7, <4>1, <4>2, CommitAbout
    <3>3. QED
      BY <1>7, <3>1, <3>2
  <2>2. Numbers(d)' = Numbers(d) \cup {req[q].n}
    BY <1>2, <1>3, <1>7 DEF Numbers
  <2>3. Numbers(d)' = 1 .. docs'[d].version
    BY <1>1, <2>1, <2>2
  <2>4. \A u \in versions : u.doc = d => u.n # req[q].n
    <3>1. req[q].n \notin Numbers(d)
      BY <1>1, <2>1
    <3>2. QED
      BY <3>1 DEF Numbers
  <2>5. \A u, v \in versions' : u.doc = d /\ v.doc = d /\ u.n = v.n => u = v
    BY <1>1, <1>2, <1>3, <1>7, <2>4 DEF VersionsIntact
  <2>6. QED
    BY <1>4, <2>3, <2>5 DEF VersionsIntact, Numbers
<1>8. QED
  BY <1>6, <1>7

LEMMA CommitStep == ASSUME IInv, NEW q \in Requests, Commit(q) PROVE IInv'
<1> USE DEF IInv
<1> PICK d \in Docs : d = req[q].doc
  BY CommitAbout, BusyForm
<1> DEFINE writes == req[q].op \in {"create", "add"}
           v0 == [doc |-> d, n |-> req[q].n, key |-> q]
<1>1. /\ q \in Busy /\ req[q].at = "written" /\ req[q].n \in Nat /\ req[q].op \in Ops
      /\ req' = [req EXCEPT ![q] = Answered]
      /\ holder' = [e \in Docs |-> IF holder[e] = q THEN NoOne ELSE holder[e]]
      /\ docs' = [docs EXCEPT ![d] = Written(q)]
      /\ versions' = IF writes THEN versions \cup {v0} ELSE versions
      /\ late' = IF writes /\ purge.at = "queued" THEN late \cup {q} ELSE late
      /\ UNCHANGED <<store, reclaim, instance, purge, stale, strays, faults>>
  BY CommitAbout, BusyForm DEF Commit, Undone
<1>2. /\ Written(q) \in Rows /\ Written(q).state \in {"live", "deleted"}
      /\ purge.at \notin {"fired", "done"}
  BY CommitAbout
<1>3. v0 \in Versions /\ v0.doc = d /\ v0.n = req[q].n /\ v0.key = q
  BY <1>1 DEF Versions
<1> HIDE DEF v0
<1>4. TypeOK'
  BY <1>1, <1>2, <1>3 DEF TypeOK
<1>5. Busy' = Busy \ {q} /\ \A p \in Busy' : p \in Busy /\ p # q /\ req'[p] = req[p]
  BY <1>1 DEF Busy, TypeOK
<1>6. \A p \in Busy' : req[p].op = "create" \/ req[p].at # "checked" => req[p].doc # d
  <2>1. ASSUME NEW p \in Busy', req[p].doc = d, req[p].op = "create" PROVE FALSE
    BY <1>1, <1>5, <2>1 DEF Creations
  <2>2. ASSUME NEW p \in Busy', req[p].doc = d, req[p].op # "create", req[p].at # "checked" PROVE FALSE
    BY <1>1, <1>5, <2>2 DEF Creations, Changes
  <2>3. QED
    BY <2>1, <2>2
<1>7. docs'[d] = Written(q) /\ \A e \in Docs \ {d} : docs'[e] = docs[e]
  BY <1>1 DEF TypeOK
<1>8. \A p \in Busy' : req[p].doc \in Docs
  BY <1>5, BusyForm
<1>9. Stages' /\ Excused'
  BY <1>1, <1>5 DEF Stages, Excused
<1>10. Creations'
  BY <1>5, <1>6, <1>7, <1>8 DEF Creations
<1>11. Changes'
  <2>1. \A p \in Busy' : req[p].op # "create" /\ req[p].at # "checked" =>
           holder'[req[p].doc] = holder[req[p].doc]
    BY <1>1, <1>5, <1>8 DEF Changes
  <2>2. ASSUME NEW p \in Busy', req[p].op # "create" PROVE docs'[req[p].doc].state # "none"
    BY <1>2, <1>5, <1>7, <1>8, <2>2 DEF Changes
  <2>3. QED
    BY <1>5, <1>6, <1>7, <1>8, <2>1, <2>2 DEF Changes
<1>12. q \in store <=> writes
  BY <1>1 DEF Stages
<1>13. Kept'
  <2>1. \A v \in versions : v.key # q /\ v.key \in Requests /\ v.doc \in Docs
    BY <1>1 DEF Kept, Busy, TypeOK, Versions
  <2>2. \A v \in versions : docs'[v.doc].state \in {"live", "deleted"} /\ req'[v.key] = Answered
    BY <1>1, <1>2, <1>7, <2>1 DEF Kept, TypeOK
  <2>3. writes => docs'[v0.doc].state \in {"live", "deleted"} /\ req'[v0.key] = Answered /\ v0.key \in store
    BY <1>1, <1>2, <1>3, <1>7, <1>12 DEF TypeOK
  <2>4. QED
    BY <1>1, <2>2, <2>3 DEF Kept
<1>14. Referenced' = IF writes THEN Referenced \cup {q} ELSE Referenced
  BY <1>1, <1>3 DEF Referenced
<1>15. Purging'
  BY <1>1, <1>2, <1>14 DEF Purging
<1>16. Untouched'
  BY <1>1 DEF Untouched, TypeOK, Fresh, Answered
<1>17. NothingUnfindable'
  BY <1>1, <1>5, <1>12, <1>14 DEF NothingUnfindable
<1>18. QED
  BY <1>4, <1>9, <1>10, <1>11, <1>13, <1>15, <1>16, <1>17, CommitNumbers

(***************************************************************************)
(* The delete of the workflow, and the review of the instance.             *)
(***************************************************************************)
\* The rows of the requests under way are those nobody deletes beneath them.
LEMMA CommitDeleteStep == ASSUME IInv, CommitDelete PROVE IInv'
<1> USE DEF IInv
<1>1. /\ purge.at = "fired" /\ purge' = [at |-> "done", keys |-> {}]
      /\ reclaim' = reclaim \cup purge.keys /\ versions' = {}
      /\ docs' = [d \in Docs |-> IF docs[d].state = "none" THEN docs[d] ELSE [docs[d] EXCEPT !.state = "gone"]]
      /\ UNCHANGED <<store, req, holder, instance, stale, strays, late, faults>>
  BY DEF CommitDelete
<1>2. Busy' = Busy /\ Uncommitted = {} /\ Referenced' = {}
  BY <1>1 DEF Busy, Purging, Referenced
<1>3. ASSUME NEW d \in Docs
      PROVE  /\ docs'[d] \in Rows /\ docs'[d].state \in {"none", "gone"}
             /\ docs'[d].state = "none" <=> docs[d].state = "none"
  BY <1>1, SMTT(60) DEF TypeOK, Rows
<1>4. docs' \in [Docs -> Rows]
  BY <1>1, <1>3
<1>5. TypeOK'
  BY <1>1, <1>4 DEF TypeOK
<1>6. Stages' /\ Excused' /\ Untouched'
  BY <1>1, <1>2 DEF Stages, Excused, Untouched
<1>7. \A p \in Busy : req[p].doc \in Docs
  BY BusyForm
<1>8. Creations'
  BY <1>1, <1>2, <1>3, <1>7 DEF Creations
<1>9. Changes'
  <2>1. \A p \in Busy : req[p].op # "create" => req[p].at = "checked"
    <3>1. ASSUME NEW p \in Busy, req[p].op # "create", req[p].at # "checked" PROVE FALSE
      <4>1. req[p].op = "add" \/ req[p].at = "written"
        BY <3>1, BusyForm DEF InFlight, Stages, Ops
      <4>2. QED
        BY <1>2, <3>1, <4>1 DEF Uncommitted
    <3>2. QED
      BY <3>1
  <2>2. QED
    BY <1>1, <1>2, <1>3, <1>7, <2>1 DEF Changes
<1>10. Kept' /\ VersionsIntact'
  BY <1>1, <1>3 DEF Kept, VersionsIntact
<1>11. Purging'
  BY <1>1, <1>2, <1>3 DEF Purging, Uncommitted
<1>12. NothingUnfindable'
  BY <1>1, <1>2 DEF NothingUnfindable, Purging
<1>13. QED
  BY <1>5, <1>6, <1>8, <1>9, <1>10, <1>11, <1>12

LEMMA PurgeStep == ASSUME IInv, QueueBlobReclaim \/ FireDelete \/ UndoDelete PROVE IInv'
<1> USE DEF IInv
<1>1. UNCHANGED <<docs, versions, store, reclaim, req, holder, instance, stale, strays>>
  BY DEF QueueBlobReclaim, FireDelete, UndoDelete
<1>2. Busy' = Busy /\ Referenced' = Referenced /\ Uncommitted' = Uncommitted
  BY <1>1 DEF Busy, Referenced, Uncommitted
<1>3. TypeOK' /\ Purging' /\ NothingUnfindable'
  <2>1. Referenced \subseteq Requests
    BY DEF TypeOK, Versions, Referenced
  <2>2. CASE QueueBlobReclaim
    BY <1>1, <1>2, <2>1, <2>2 DEF QueueBlobReclaim, TypeOK, Purging, NothingUnfindable, Collected, Referenced
  <2>3. CASE FireDelete
    BY <1>1, <1>2, <2>3 DEF FireDelete, TypeOK, Purging, NothingUnfindable
  <2>4. CASE UndoDelete
    <3>1. faults' \in Nat
      BY <2>4 DEF UndoDelete, Fault, TypeOK
    <3>2. /\ purge.at # "done" /\ purge' = [at |-> "none", keys |-> {}] /\ late' = late
      BY <2>4 DEF UndoDelete
    <3>3. QED
      BY <1>1, <1>2, <3>1, <3>2 DEF TypeOK, Purging, NothingUnfindable
  <2>5. QED
    BY <2>2, <2>3, <2>4
<1>4. Stages' /\ Creations' /\ Changes' /\ Kept' /\ Untouched' /\ Excused' /\ VersionsIntact'
  BY <1>1, <1>2 DEF Stages, Creations, Changes, Kept, Untouched, Excused, VersionsIntact
<1>5. QED
  BY <1>3, <1>4

LEMMA ReviewStep == ASSUME IInv, NEW status \in {"open", "pending", "approved"}, Review(status) PROVE IInv'
<1> USE DEF IInv
<1>1. /\ UNCHANGED <<docs, versions, store, reclaim, req, holder, purge, strays, late, faults>>
      /\ instance' = status /\ stale' = (IF status = "pending" THEN Busy ELSE stale)
      /\ status = "approved" => instance = "pending"
  BY DEF Review
<1>2. Busy' = Busy /\ Referenced' = Referenced /\ Uncommitted' = Uncommitted /\ Busy \subseteq Requests
  BY <1>1 DEF Busy, Referenced, Uncommitted
<1>3. TypeOK' /\ Excused'
  BY <1>1, <1>2 DEF TypeOK, Excused
<1>4. Stages' /\ Creations' /\ Changes' /\ Kept' /\ Untouched' /\ VersionsIntact' /\ Purging' /\ NothingUnfindable'
  BY <1>1, <1>2 DEF Stages, Creations, Changes, Kept, Untouched, VersionsIntact, Purging, NothingUnfindable
<1>5. QED
  BY <1>3, <1>4

LEMMA NextIInv == IInv /\ [Next]_vars => IInv'
<1> SUFFICES ASSUME IInv, [Next]_vars PROVE IInv'
  OBVIOUS
<1>1. CASE UNCHANGED vars
  BY <1>1
  DEF vars, IInv, TypeOK, Stages, Creations, Changes, Kept, Purging, Untouched, Excused, VersionsIntact,
      NothingUnfindable, Busy, Referenced, Uncommitted
<1>2. CASE Next
  BY <1>2, CheckStep, UpdateRowStep, PutInsertStep, EndSteps, CommitStep, CommitDeleteStep, PurgeStep, ReviewStep
  DEF Next, Proceed, EndDelete
<1>3. QED
  BY <1>1, <1>2

LEMMA Invariance == Spec => []IInv
  BY InitIInv, NextIInv, PTL DEF Spec

(***************************************************************************)
(* Theorems.                                                               *)
(***************************************************************************)
\* Rows, requests and the delete of the workflow keep their shape.
THEOREM TypeCorrect == Spec => []TypeOK
<1>1. IInv => TypeOK
  BY DEF IInv
<1>2. QED
  BY <1>1, Invariance, PTL

\* Whatever uploads, edits and deletes race, fail or die: the versions of a document
\* run from 1 to current_version, the row lock of BumpVersion alone seeing to it
\* (sql.go, bumpVersion), and every version has its bytes, which no compensation
\* takes away and no reclaim is to take (usecases.go, Create and CreateVersion).
THEOREM VersionsAlwaysStand == Spec => []VersionsStand
<1>1. IInv => VersionsStand
  <2> SUFFICES ASSUME IInv PROVE VersionsStand
    OBVIOUS
  <2> USE DEF IInv
  <2>1. Referenced \subseteq store
    BY DEF Kept, Referenced
  <2>2. reclaim \cap Referenced = {}
    BY DEF Purging, Referenced
  <2>3. QED
    BY <2>1, <2>2 DEF VersionsStand, BytesThere
<1>2. QED
  BY <1>1, Invariance, PTL

\* An object nothing refers to is one a failure left behind, or an upload that
\* committed between the collection of the keys and the DELETE (QueueBlobReclaim).
THEOREM NothingIsUnfindable == Spec => []NothingUnfindable
<1>1. IInv => NothingUnfindable
  BY DEF IInv
<1>2. QED
  BY <1>1, Invariance, PTL

\* A step changes a document that is locked by the review of its instance only for
\* a request that had looked before (ensureMutable), and one that is deleted never
\* (WHERE deleted_at IS NULL).
LEMMA StepSettled ==
    ASSUME IInv, [Next]_vars
    PROVE  LockedUntouched /\ DeletedUntouched
<1> USE DocumentsAssumption DEF IInv
<1>0. docs \in [Docs -> Rows] /\ \A d \in Docs : docs[d] \in Rows
  BY DEF TypeOK
<1>1. ASSUME NEW q \in Requests, Commit(q)
      PROVE  /\ \A d \in Attached :
                   instance # "open" /\ docs'[d] # docs[d] => docs'[d].updatedBy \in stale
             /\ \A d \in Docs : docs[d].state \in {"deleted", "gone"} => docs'[d] = docs[d]
  <2>1. /\ docs' = [docs EXCEPT ![req[q].doc] = Written(q)] /\ q \in Busy /\ Written(q).updatedBy = q
        /\ docs[req[q].doc].state \notin {"deleted", "gone"}
    BY <1>1, CommitAbout DEF Commit
  <2>2. QED
    BY <1>0, <2>1 DEF Excused
<1>2. ASSUME CommitDelete, NEW d \in Docs
      PROVE  /\ docs'[d] = docs[d] \/ docs'[d].state = "gone"
             /\ docs[d].state \in {"deleted", "gone"} =>
                   docs'[d] = [docs[d] EXCEPT !.state = docs'[d].state] /\ docs'[d].state = "gone"
  <2>1. docs'[d] = IF docs[d].state = "none" THEN docs[d] ELSE [docs[d] EXCEPT !.state = "gone"]
    BY <1>2 DEF CommitDelete
  <2>2. QED
    BY <1>0, <2>1 DEF Rows
<1>3. ASSUME NEW d \in Docs, docs'[d] = docs[d] PROVE docs'[d] = [docs[d] EXCEPT !.state = docs'[d].state]
  BY <1>0, <1>3 DEF Rows
<1>4. CASE docs' = docs
  BY <1>3, <1>4 DEF LockedUntouched, DeletedUntouched
<1>5. CASE \E q \in Requests : Commit(q)
  BY <1>1, <1>3, <1>5 DEF LockedUntouched, DeletedUntouched
<1>6. CASE CommitDelete
  BY <1>2, <1>6, DocumentsAssumption DEF LockedUntouched, DeletedUntouched
<1>7. QED
  BY <1>4, <1>5, <1>6
  DEF Next, vars, Proceed, Breaks, EndDelete, Check, UpdateRow, UpdateMisses, Put, PutFails, Insert,
      InsertRefused, InsertFails, Dies, QueueBlobReclaim, FireDelete, UndoDelete, Review

\* Whatever reviews, deletes and requests in flight interleave: a document under
\* review changes only for a request that had checked before the lock, and a deleted
\* one stays as it was and does not come back.
THEOREM SettledStayUntouched == Spec => SettledUntouched
<1>1. IInv /\ [Next]_vars => [LockedUntouched /\ DeletedUntouched]_docs
  BY StepSettled
<1>2. QED
  BY <1>1, Invariance, PTL DEF Spec, SettledUntouched

-----------------------------------------------------------------------------
(***************************************************************************)
(* Imports: a dry run shows what the commit writes.                        *)
(***************************************************************************)
LEMMA FirstOf == ASSUME NEW S \in SUBSET Nat, S # {} PROVE \E k \in S : \A j \in S : k <= j
<1>1. PICK k \in S : \A j \in S : <<j, k>> \notin OpToRel(<, Nat)
  BY WFMin, NatLessThanWellFounded, Zenon
<1>2. \A j \in S : ~(j < k)
  BY <1>1, Zenon DEF OpToRel
<1>3. QED
  BY <1>2

LEMMA LeastId ==
    ASSUME NEW S, S # {}, \A x \in S : x.id \in Nat
    PROVE  The(S) \in S /\ \A y \in S : The(S).id <= y.id
<1> DEFINE N == {x.id : x \in S}
<1>1. N # {} /\ N \subseteq Nat
  OBVIOUS
<1>2. PICK n \in N : \A m \in N : n <= m
  BY <1>1, FirstOf
<1>4. \E x \in S : \A y \in S : x.id <= y.id
  BY <1>2
<1>5. QED
  BY <1>4 DEF The

LEMMA TheOnly == ASSUME NEW x, x.id \in Nat PROVE The({x}) = x
  BY LeastId

(***************************************************************************)
(* What a commit leaves of the stored records: those it updates have their *)
(* identifiers, those it creates new ones.                                 *)
(***************************************************************************)
Writes(S, U, C, t, m, c, A) ==
    /\ Identified(S) /\ IsFiniteSet(C) /\ C \subseteq Nat \ {0}
    /\ \A n \in U : t[n] \in S /\ m[n].id = t[n].id
    /\ \A n, k \in U : t[n] = t[k] => n = k
    /\ \A n \in C : c[n].id = NewId(n)
    /\ A = (S \ {t[n] : n \in U}) \cup {m[n] : n \in U} \cup {c[n] : n \in C}

LEMMA WrittenOut ==
    ASSUME NEW S, NEW U, NEW C, NEW t, NEW m, NEW c, NEW A, Writes(S, U, C, t, m, c, A)
    PROVE  /\ \A x \in A : x.id \in Nat
           /\ \A r, s \in A : r.id = s.id => r = s
           /\ Cardinality(A) = Cardinality(S) + Cardinality(C)
           /\ \A n \in U : ById(A, t[n].id) = m[n]
           /\ \A s \in S : (\A n \in U : t[n] # s) => ById(A, s.id) = s
<1> USE DEF Writes
<1> DEFINE T == {t[n] : n \in U}
           O == (S \ T) \cup {m[n] : n \in U}
           N == {c[n] : n \in C}
<1>1. \A x \in O : \E s \in S : x.id = s.id /\ ((x = s /\ s \notin T) \/ \E n \in U : s = t[n] /\ x = m[n])
  OBVIOUS
<1>2. \A x \in O : x.id \in 0 .. 100
  BY <1>1 DEF Identified, NewId
<1>3. \A x \in N : x.id \in Nat /\ x.id > 100
  BY DEF NewId
<1>4. \A x, y \in O : x.id = y.id => x = y
  BY <1>1 DEF Identified
<1>5. \A x, y \in N : x.id = y.id => x = y
  BY DEF NewId
<1>6. O \cap N = {}
  BY <1>2, <1>3
<1>7. A = O \cup N
  OBVIOUS
<1>8. \A x, y \in A : x.id = y.id => x = y
  BY <1>2, <1>3, <1>4, <1>5, <1>7
<1>9. IsFiniteSet(O) /\ Cardinality(O) = Cardinality(S)
  <2> DEFINE f == [s \in S |-> IF s \in T THEN m[CHOOSE n \in U : t[n] = s] ELSE s]
  <2>1. ASSUME NEW s \in S PROVE f[s] \in O /\ f[s].id = s.id
    <3>1. CASE s \in T
      <4>1. (CHOOSE n \in U : t[n] = s) \in U /\ t[CHOOSE n \in U : t[n] = s] = s
        BY <3>1
      <4>2. QED
        BY <3>1, <4>1
    <3>2. CASE s \notin T
      BY <3>2
    <3>3. QED
      BY <3>1, <3>2
  <2>2. \A x \in O : \E s \in S : f[s] = x
    <3> SUFFICES ASSUME NEW x \in O PROVE \E s \in S : f[s] = x
      OBVIOUS
    <3>1. PICK s \in S : x.id = s.id
      BY <1>1
    <3>2. QED
      BY <3>1, <2>1, <1>4, SMTT(60)
  <2>3. f \in Injection(S, O)
    <3>1. \A a, b \in S : a.id = b.id => a = b
      BY DEF Identified
    <3>2. f \in [S -> O]
      BY <2>1
    <3>3. \A a, b \in S : f[a] = f[b] => a = b
      <4> HIDE DEF f
      <4>1. QED
        BY <2>1, <3>1
    <3> HIDE DEF f, O, Writes
    <3>4. QED
      BY <3>2, <3>3 DEF Injection, IsInjective
  <2>4. f \in Surjection(S, O)
    BY <2>1, <2>2 DEF Surjection
  <2>5. ExistsBijection(S, O)
    BY <2>3, <2>4 DEF ExistsBijection, Bijection
  <2>6. QED
    BY <2>5, FS_Bijection DEF Identified
<1>10. IsFiniteSet(N) /\ Cardinality(N) = Cardinality(C)
  <2> DEFINE f == [n \in C |-> c[n]]
  <2>1. ASSUME NEW n \in C, NEW k \in C, c[n] = c[k] PROVE n = k
    <3>1. n \in Nat /\ k \in Nat /\ NewId(n) = NewId(k)
      BY <2>1
    <3>2. QED
      BY <3>1 DEF NewId
  <2>2. f \in Injection(C, N)
    BY <2>1 DEF Injection, IsInjective
  <2>3. f \in Surjection(C, N)
    BY DEF Surjection
  <2>4. ExistsBijection(C, N)
    BY <2>2, <2>3 DEF ExistsBijection, Bijection
  <2>5. QED
    BY <2>4, FS_Bijection
<1>11. Cardinality(A) = Cardinality(S) + Cardinality(C)
  <2>1. Cardinality(O \cap N) = 0
    BY <1>6, FS_EmptySet
  <2>2. Cardinality(S) \in Nat /\ Cardinality(C) \in Nat
    BY FS_CardinalityType DEF Identified
  <2>3. Cardinality(O \cup N) = Cardinality(O) + Cardinality(N) - Cardinality(O \cap N)
    <3> HIDE DEF O, N
    <3>1. QED
      BY <1>9, <1>10, FS_Union
  <2>4. QED
    BY <1>7, <1>9, <1>10, <2>1, <2>2, <2>3
<1>12. ASSUME NEW x \in A PROVE ById(A, x.id) = x
  BY <1>8 DEF ById
<1>13. ASSUME NEW n \in U PROVE ById(A, t[n].id) = m[n]
  <2>1. m[n] \in A /\ m[n].id = t[n].id
    OBVIOUS
  <2>2. QED
    BY <1>12, <2>1
<1>14. ASSUME NEW s \in S, \A n \in U : t[n] # s PROVE ById(A, s.id) = s
  BY <1>12, <1>14
<1>15. \A x \in A : x.id \in Nat
  BY <1>2, <1>3, <1>7
<1>16. QED
  BY <1>8, <1>11, <1>13, <1>14, <1>15

(***************************************************************************)
(* One row, and the record it is about.                                    *)
(***************************************************************************)
LEMMA MergedFields ==
    ASSUME NEW d, NEW t, NEW now, NEW planned, DOMAIN d.values = DOMAIN t.values,
           now.values = MergeValues(d, t), planned.fields = ChangeSet(d, t)
    PROVE  FieldsAsShown(planned, d, t, now) /\ Moved(d, now) = {}
<1>1. /\ DOMAIN planned.fields = Moved(d, t)
      /\ \A f \in Moved(d, t) : planned.fields[f] = [from |-> t.values[f], to |-> d.values[f]]
  BY DEF ChangeSet
<1>2. \A f \in DOMAIN d.values : now.values[f] = IF f \in d.spoke THEN d.values[f] ELSE t.values[f]
  BY DEF MergeValues
<1>3. ASSUME NEW f \in DOMAIN t.values
      PROVE  IF f \in DOMAIN planned.fields
             THEN now.values[f] = planned.fields[f].to /\ t.values[f] = planned.fields[f].from
             ELSE Same(f, now.values[f], t.values[f]) /\ (f \notin d.spoke => now.values[f] = t.values[f])
  <2>1. CASE f \in Moved(d, t)
    <3>1. f \in d.spoke /\ now.values[f] = d.values[f]
      BY <1>2, <2>1 DEF Moved
    <3>2. QED
      BY <1>1, <2>1, <3>1
  <2>2. CASE f \notin Moved(d, t)
    <3>1. f \in d.spoke => Same(f, t.values[f], d.values[f])
      BY <2>2 DEF Moved
    <3>2. Same(f, now.values[f], t.values[f]) /\ (f \notin d.spoke => now.values[f] = t.values[f])
      BY <1>2, <3>1 DEF Same, SameText
    <3>3. QED
      BY <1>1, <2>2, <3>2
  <2>3. QED
    BY <2>1, <2>2
<1>4. Moved(d, now) = {}
  BY <1>2 DEF Moved, Same, SameText
<1>5. FieldsAsShown(planned, d, t, now)
  BY <1>3 DEF FieldsAsShown
<1>6. QED
  BY <1>4, <1>5

LEMMA StillFields ==
    ASSUME NEW d, NEW t, NEW planned, DOMAIN d.values = DOMAIN t.values,
           DOMAIN planned.fields = {}
    PROVE  FieldsAsShown(planned, d, t, t)
  BY DEF FieldsAsShown, Same, SameText

\* A rule that a draft describes has the values of its strategy, and no others.
DraftRule(rule) ==
    /\ RuleForm(rule) /\ rule.readable
    /\ rule.type = "fixed" => rule.dates # <<>> /\ rule.filing = <<>> /\ rule.payment = <<>>
    /\ rule.type = "period_offset" => rule.filing # <<>> /\ rule.dates = <<>> /\ rule.paydates = <<>>

LEMMA MergedRuleForm ==
    ASSUME NEW d, DraftRule(d.rule), NEW stored, RuleForm(stored)
    PROVE  /\ RuleForm(MergedRule(d, stored))
           /\ stored.readable => MergedRule(d, stored).readable
           /\ ~DescribesRule(d) => MergedRule(d, stored) = stored
           /\ DescribesRule(d) =>
                /\ DraftRule(MergedRule(d, stored))
                /\ MergedRule(d, stored) =
                      [type |-> d.rule.type,
                       weekend |-> IF "weekendAdjustment" \in d.spoke THEN d.rule.weekend ELSE stored.weekend,
                       start |-> IF "periodStart" \in d.spoke THEN d.rule.start ELSE stored.start,
                       dates |-> d.rule.dates, paydates |-> d.rule.paydates, filing |-> d.rule.filing,
                       payment |-> d.rule.payment, extra |-> stored.extra, readable |-> TRUE]
<1>1. CASE DescribesRule(d)
  <2>1. MergedRule(d, stored) =
          [type |-> d.rule.type,
           weekend |-> IF "weekendAdjustment" \in d.spoke THEN d.rule.weekend ELSE stored.weekend,
           start |-> IF "periodStart" \in d.spoke THEN d.rule.start ELSE stored.start,
           dates |-> d.rule.dates, paydates |-> d.rule.paydates, filing |-> d.rule.filing,
           payment |-> d.rule.payment, extra |-> stored.extra, readable |-> TRUE]
    BY <1>1 DEF MergedRule, DraftRule, RuleForm
  <2>2. PICK m : m = MergedRule(d, stored)
    OBVIOUS
  <2>3. /\ m.type = d.rule.type /\ m.dates = d.rule.dates /\ m.paydates = d.rule.paydates
        /\ m.filing = d.rule.filing /\ m.payment = d.rule.payment /\ m.readable = TRUE
    BY <2>1, <2>2
  <2>4. RuleForm(m)
    <3>1. d.rule.type \in {"", "fixed", "period_offset"}
      BY DEF DraftRule, RuleForm
    <3>2. QED
      BY <2>1, <2>2, <2>3, <3>1 DEF RuleForm
  <2>5. DraftRule(m)
    BY <2>3, <2>4 DEF DraftRule
  <2>6. QED
    BY <1>1, <2>1, <2>2, <2>3, <2>4, <2>5
<1>2. CASE ~DescribesRule(d)
  BY <1>2 DEF MergedRule
<1>3. QED
  BY <1>1, <1>2

\* A rule of a described draft replaces a stored one but for three of its fields.
Nine(m) == m = [type |-> m.type, weekend |-> m.weekend, start |-> m.start, dates |-> m.dates,
                paydates |-> m.paydates, filing |-> m.filing, payment |-> m.payment,
                extra |-> m.extra, readable |-> m.readable]
MergedOf(d, stored, m) ==
    /\ Nine(m)
    /\ m.type = d.rule.type /\ m.type # "" /\ m.dates = d.rule.dates /\ m.paydates = d.rule.paydates
    /\ m.filing = d.rule.filing /\ m.payment = d.rule.payment
    /\ m.extra = stored.extra /\ m.readable = TRUE
    /\ m.weekend = IF "weekendAdjustment" \in d.spoke THEN d.rule.weekend ELSE stored.weekend
    /\ m.start = IF "periodStart" \in d.spoke THEN d.rule.start ELSE stored.start
LEMMA SameNine ==
    ASSUME NEW m, NEW r, Nine(m), Nine(r),
           m.type = r.type, m.weekend = r.weekend, m.start = r.start, m.dates = r.dates, m.paydates = r.paydates,
           m.filing = r.filing, m.payment = r.payment, m.extra = r.extra, m.readable = r.readable
    PROVE  m = r
  BY DEF Nine
LEMMA MergedParts ==
    ASSUME NEW d, DraftRule(d.rule), DescribesRule(d), NEW stored, RuleForm(stored)
    PROVE  MergedOf(d, stored, MergedRule(d, stored))
<1> DEFINE m == MergedRule(d, stored)
<1>1. PICK w : w = IF "weekendAdjustment" \in d.spoke THEN d.rule.weekend ELSE stored.weekend
  OBVIOUS
<1>2. PICK b : b = IF "periodStart" \in d.spoke THEN d.rule.start ELSE stored.start
  OBVIOUS
<1>3. m = [type |-> d.rule.type, weekend |-> w, start |-> b,
           dates |-> d.rule.dates, paydates |-> d.rule.paydates, filing |-> d.rule.filing,
           payment |-> d.rule.payment, extra |-> stored.extra, readable |-> TRUE]
  BY <1>1, <1>2, MergedRuleForm
<1>4. d.rule.type # ""
  BY DEF DescribesRule
<1>5. /\ m.type = d.rule.type /\ m.dates = d.rule.dates /\ m.paydates = d.rule.paydates
      /\ m.filing = d.rule.filing /\ m.payment = d.rule.payment
      /\ m.extra = stored.extra /\ m.readable = TRUE /\ m.weekend = w /\ m.start = b
  BY <1>3
<1> HIDE DEF m
<1>6. MergedOf(d, stored, m)
  BY <1>1, <1>2, <1>3, <1>4, <1>5 DEF MergedOf, Nine
<1>7. QED
  BY <1>6 DEF m

LEMMA ToldForm ==
    ASSUME NEW r
    PROVE  /\ "dates" \in Told(r) <=> r.type = "fixed" /\ r.dates # <<>>
           /\ "paydates" \in Told(r) <=> r.type = "fixed" /\ r.paydates # <<>>
           /\ "filing" \in Told(r) <=> r.type = "period_offset" /\ r.filing # <<>>
           /\ "payment" \in Told(r) <=> r.type = "period_offset" /\ r.payment # <<>>
           /\ "start" \in Told(r) <=> r.start # <<>>
           /\ "weekend" \in Told(r) <=> r.weekend \notin {"", "none"}
           /\ "extra" \in Told(r) <=> r.extra # 0
           /\ "stored" \notin Told(r)
  BY DEF Told

LEMMA OneSentence ==
    ASSUME NEW before, RuleForm(before), NEW now, DraftRule(now), now.type # "",
           DescribeRule(before) = DescribeRule(now)
    PROVE  Effective(before) = Effective(now)
<1>1. now.readable /\ DescribeRule(now) = [p \in Told(now) |-> now[p]]
  BY DEF DraftRule, DescribeRule
<1>2. before.readable
  <2>1. CASE ~before.readable
    <3>1. DescribeRule(before) = [stored |-> before]
      BY <2>1 DEF DescribeRule
    <3>2. DOMAIN [stored |-> before] = {"stored"}
      OBVIOUS
    <3>3. "stored" \in DOMAIN DescribeRule(before)
      BY <3>1, <3>2
    <3>4. QED
      BY <1>1, <3>3, ToldForm
  <2>2. QED
    BY <2>1 DEF RuleForm
<1>3. DescribeRule(before) = [p \in Told(before) |-> before[p]]
  BY <1>2 DEF DescribeRule
<1>4. Told(before) = Told(now)
  BY <1>1, <1>3
<1>5. \A p \in Told(now) : before[p] = now[p]
  BY <1>1, <1>3, <1>4
<1>6. before.type = now.type
  BY <1>4, ToldForm DEF DraftRule, RuleForm
<1>7. before.start = now.start /\ before.extra = now.extra
  BY <1>4, <1>5, ToldForm
<1>8. before.weekend = now.weekend \/ {before.weekend, now.weekend} \subseteq {"", "none"}
  BY <1>4, <1>5, ToldForm
<1>9. now.type = "fixed" => before.dates = now.dates /\ before.paydates = now.paydates
  BY <1>4, <1>5, <1>6, ToldForm
<1>10. now.type = "period_offset" => before.filing = now.filing /\ before.payment = now.payment
  BY <1>4, <1>5, <1>6, ToldForm
<1>11. DOMAIN before = DOMAIN now
  BY DEF RuleForm, DraftRule
<1>12. Idle(before) = Idle(now)
  BY <1>6 DEF Idle
<1>13. DOMAIN now = {"type", "weekend", "start", "dates", "paydates", "filing", "payment", "extra", "readable"}
  BY DEF RuleForm, DraftRule
<1>14. ASSUME NEW p \in DOMAIN now \ Idle(now), p # "weekend" PROVE before[p] = now[p]
  <2>1. p \in {"dates", "paydates"} => now.type = "fixed"
    BY <1>14 DEF Idle
  <2>2. p \in {"filing", "payment"} => now.type = "period_offset"
    BY <1>14 DEF Idle
  <2>3. before.readable = TRUE /\ now.readable = TRUE
    BY <1>1, <1>2 DEF RuleForm, DraftRule
  <2>4. QED
    BY <1>6, <1>7, <1>9, <1>10, <1>13, <1>14, <2>1, <2>2, <2>3
<1>15. QED
  BY <1>8, <1>11, <1>12, <1>14 DEF Effective

LEMMA MergedRuleShown ==
    ASSUME NEW d, DraftRule(d.rule), NEW stored, RuleForm(stored), stored.readable, NEW planned,
           planned.rest = RuleChange(MergedRule(d, DecodeRule(stored)), stored)
    PROVE  /\ RuleAsShown(planned, stored, MergedRule(d, stored))
           /\ RuleChange(MergedRule(d, DecodeRule(MergedRule(d, stored))), MergedRule(d, stored)) = <<>>
<1>1. PICK now : now = MergedRule(d, stored)
  OBVIOUS
<1>2. RuleForm(now) /\ now.readable /\ DecodeRule(now) = now /\ DecodeRule(stored) = stored
  BY <1>1, MergedRuleForm DEF DecodeRule
<1>3. planned.rest = IF now = stored THEN <<>> ELSE <<DescribeRule(stored), DescribeRule(now)>>
  BY <1>1, <1>2 DEF RuleChange, SameRule
<1>4. MergedRule(d, now) = now
  <2>1. CASE DescribesRule(d)
    <3>1. PICK m : m = MergedRule(d, now)
      OBVIOUS
    <3>2. MergedOf(d, stored, now) /\ MergedOf(d, now, m)
      BY <1>1, <1>2, <2>1, <3>1, MergedParts
    <3>3. QED
      BY <3>1, <3>2, SameNine, ZenonT(120) DEF MergedOf
  <2>2. CASE ~DescribesRule(d)
    BY <1>1, <1>2, <2>2, MergedRuleForm
  <2>3. QED
    BY <2>1, <2>2
<1>5. RuleChange(MergedRule(d, DecodeRule(now)), now) = <<>>
  BY <1>2, <1>4 DEF RuleChange, SameRule
<1>6. now.extra = stored.extra /\ (stored.type # "" => now.type # "")
  <2>1. CASE DescribesRule(d)
    BY <1>1, <2>1, MergedParts DEF MergedOf
  <2>2. CASE ~DescribesRule(d)
    BY <1>1, <2>2, MergedRuleForm
  <2>3. QED
    BY <2>1, <2>2
<1>7. now # stored /\ DescribeRule(stored) = DescribeRule(now) => Effective(stored) = Effective(now)
  <2>1. CASE DescribesRule(d)
    <3>1. DraftRule(now)
      BY <1>1, <2>1, MergedRuleForm
    <3>2. now.type # ""
      BY <1>1, <2>1, MergedParts DEF MergedOf
    <3>3. QED
      BY <3>1, <3>2, OneSentence
  <2>2. CASE ~DescribesRule(d)
    BY <1>1, <2>2, MergedRuleForm
  <2>3. QED
    BY <2>1, <2>2
<1>8. RuleAsShown(planned, stored, now)
  <2>1. CASE now = stored
    BY <1>3, <2>1 DEF RuleAsShown
  <2>2. CASE now # stored
    <3>1. planned.rest = <<DescribeRule(stored), DescribeRule(now)>>
      BY <1>3, <2>2
    <3>2. planned.rest[1] = DescribeRule(stored) /\ planned.rest[2] = DescribeRule(now) /\ planned.rest # <<>>
      BY <3>1
    <3>3. QED
      BY <1>6, <1>7, <2>2, <3>1, <3>2 DEF RuleAsShown
  <2>3. QED
    BY <2>1, <2>2
<1>9. QED
  BY <1>1, <1>5, <1>8

LEMMA StillRule ==
    ASSUME NEW d, DraftRule(d.rule), NEW stored, RuleForm(stored), NEW planned,
           planned.rest = RuleChange(MergedRule(d, DecodeRule(stored)), stored), planned.rest = <<>>
    PROVE  /\ RuleAsShown(planned, stored, stored) /\ stored.readable
           /\ MergedRule(d, stored) = stored
<1>1. MergedRule(d, DecodeRule(stored)) = stored
  BY DEF RuleChange, SameRule
<1>2. stored.readable
  <2>1. CASE ~stored.readable
    <3>1. RuleForm(NoRule) /\ NoRule.readable /\ DecodeRule(stored) = NoRule
      BY <2>1 DEF DecodeRule, NoRule, RuleForm
    <3>2. QED
      BY <1>1, <3>1, MergedRuleForm
  <2>2. QED
    BY <2>1
<1>3. QED
  BY <1>1, <1>2 DEF DecodeRule, RuleAsShown

LEMMA SettledRule ==
    ASSUME NEW d, DraftRule(d.rule)
    PROVE  RuleChange(MergedRule(d, DecodeRule(d.rule)), d.rule) = <<>>
<1>1. DecodeRule(d.rule) = d.rule /\ RuleForm(d.rule)
  BY DEF DecodeRule, DraftRule
<1>2. MergedRule(d, d.rule) = d.rule
  <2>1. CASE DescribesRule(d)
    <3>1. PICK m : m = MergedRule(d, d.rule)
      OBVIOUS
    <3>2. PICK r : r = d.rule
      OBVIOUS
    <3>3. Nine(r) /\ r.readable = TRUE
      BY <3>2 DEF DraftRule, RuleForm, Nine
    <3>4. MergedOf(d, r, m)
      BY <1>1, <2>1, <3>1, <3>2, MergedParts
    <3>5. QED
      BY <3>1, <3>2, <3>3, <3>4, SameNine DEF MergedOf
  <2>2. CASE ~DescribesRule(d)
    BY <1>1, <2>2, MergedRuleForm
  <2>3. QED
    BY <2>1, <2>2
<1>3. QED
  BY <1>1, <1>2 DEF RuleChange, SameRule

(***************************************************************************)
(* What a row of an obligation file says of deadlines.                     *)
(***************************************************************************)
ColumnsOf(row, c) ==
    /\ c.declared = Or(ReadEnum(CellOf(row, "deadlineType"), DeadlineTypeVocab), "")
    /\ c.weekend = Or(ReadEnum(CellOf(row, "weekendAdjustment"), WeekendVocab), "")
    /\ c.start = Or(ReadMonthDay(CellOf(row, "periodStart")), <<>>)
    /\ \A f \in Offsets : c.offset[f] = Or(OffsetIn(row, f), {})
    /\ c.dates = Or(DatesIn(row, "fixedDates"), <<>>)
    /\ c.paydates = Or(DatesIn(row, "paymentFixedDates"), <<>>)
    /\ c.badDates = (Failed(DatesIn(row, "fixedDates")) \/ Failed(DatesIn(row, "paymentFixedDates")))
    /\ c.badOffsets = \E f \in Offsets : Failed(OffsetIn(row, f))
LEMMA ColumnsForm == ASSUME NEW row PROVE ColumnsOf(row, ReadDeadlineColumns(row))
  BY DEF ColumnsOf, ReadDeadlineColumns

LEMMA NoDates == ASSUME NEW f, f = [x \in DOMAIN f |-> f[x]], DOMAIN f = {} PROVE f = <<>>
  OBVIOUS
LEMMA ReadingForm ==
    ASSUME NEW cell, NEW ok, NEW value
    PROVE  /\ Reading(cell, ok, value).is \in {"blank", "refused", "value"}
           /\ Reading(cell, ok, value).is = "value" => Reading(cell, ok, value).value = value /\ ok
  BY DEF Reading
LEMMA DatesForm ==
    ASSUME NEW row, NEW field
    PROVE  LET dates == Or(DatesIn(row, field), <<>>) IN dates = [n \in DOMAIN dates |-> dates[n]]
<1>1. ASSUME NEW cell PROVE ReadMonthDayList(cell) = [n \in DOMAIN ReadMonthDayList(cell) |-> ReadMonthDayList(cell)[n]]
  <2> DEFINE dates == [n \in DOMAIN PartsOf(cell) |-> ParseMonthDay(PartsOf(cell)[n])]
  <2>1. ReadMonthDayList(cell) \in {<<>>, dates}
    BY DEF ReadMonthDayList, Refusal
  <2>2. dates = [n \in DOMAIN dates |-> dates[n]]
    OBVIOUS
  <2>3. <<>> = [n \in DOMAIN <<>> |-> <<>>[n]]
    OBVIOUS
  <2> HIDE DEF dates
  <2>4. QED
    BY <2>1, <2>2, <2>3
<1>2. DatesIn(row, field).is = "value" => DatesIn(row, field).value = ReadMonthDayList(CellOf(row, field).tokens)
  BY ReadingForm DEF DatesIn, ReadMonthDays
<1>3. QED
  BY <1>1, <1>2 DEF Or
LEMMA OffsetForm ==
    ASSUME NEW row, NEW f
    PROVE  OffsetIn(row, f).is = "value" => \E n : OffsetIn(row, f).value = {n}
<1> DEFINE most == OffsetMax(f)
           tokens == CellOf(row, f).tokens
<1>1. OffsetIn(row, f) = Reading(CellOf(row, f), ReadCount(tokens, most) # Refusal, {ReadCount(tokens, most)[1]})
  BY DEF OffsetIn, ReadOffset
<1>2. PICK n : n = ReadCount(tokens, most)[1]
  OBVIOUS
<1>3. OffsetIn(row, f) \in {[is |-> "blank"], [is |-> "refused"], [is |-> "value", value |-> {n}]}
  BY <1>1, <1>2 DEF Reading
<1>4. QED
  BY <1>3
LEMMA DeclaredForm ==
    ASSUME NEW row, NEW c, ColumnsOf(row, c) PROVE c.declared \in {"", "fixed", "period_offset"}
<1>1. ASSUME NEW cell, ReadEnum(cell, DeadlineTypeVocab).is = "value"
      PROVE  ReadEnum(cell, DeadlineTypeVocab).value \in {"fixed", "period_offset"}
  <2>1. \A s \in DOMAIN DeadlineTypeVocab : DeadlineTypeVocab[s] \in {"fixed", "period_offset"}
    BY DEF DeadlineTypeVocab
  <2>2. /\ ReadEnum(cell, DeadlineTypeVocab).value = DeadlineTypeVocab[cell.spelling]
        /\ cell.spelling \in DOMAIN DeadlineTypeVocab
    BY <1>1 DEF ReadEnum, Reading
  <2>3. QED
    BY <2>1, <2>2
<1>2. QED
  BY <1>1 DEF ColumnsOf, Or


\* A draft of an obligation, by what its row says.
DraftOf(row, c, s, d) ==
    /\ ColumnsOf(row, c) /\ s = DecideStrategy(c)
    /\ d.rule = ReadDeadlineRule(c, s) /\ d.spoke = DOMAIN row \cap ObligationFields
    /\ DOMAIN d.values = ObligationTexts \cup {"periodicity"}
    /\ ~d.fails => ~ColumnsFail(row, c) /\ s \notin {"incomplete", "ambiguous"}
    /\ \E p : d.remarks = ColumnRemarks(c, s, p)
LEMMA DraftForm ==
    ASSUME NEW row
    PROVE  \E c, s : DraftOf(row, c, s, ReadObligationRow(row))
<1>1. PICK c, s, p :
         /\ c = ReadDeadlineColumns(row) /\ s = DecideStrategy(c)
         /\ p = Or(ReadEnum(CellOf(row, "periodicity"), PeriodicityVocab), "")
  OBVIOUS
<1>2. PICK d : d = ReadObligationRow(row)
  OBVIOUS
<1>3. d = ObligationDraft(row, c, s, p)
  BY <1>1, <1>2 DEF ReadObligationRow, ObligationUnder
<1>4. /\ d.rule = ReadDeadlineRule(c, s) /\ d.spoke = DOMAIN row \cap ObligationFields
      /\ DOMAIN d.values = ObligationTexts \cup {"periodicity"}
      /\ d.remarks = ColumnRemarks(c, s, p)
  BY <1>3 DEF ObligationDraft
<1>5. d.fails = ObligationFails(row, c, s)
  BY <1>3 DEF ObligationDraft
<1>6. ~d.fails => ~ColumnsFail(row, c) /\ s \notin {"incomplete", "ambiguous"}
  BY <1>5 DEF ObligationFails
<1>7. QED
  BY <1>1, <1>2, <1>4, <1>6, ColumnsForm DEF DraftOf

Parts(c, t, da, pa, fi, py, r) ==
    /\ Nine(r) /\ r.readable = TRUE /\ r.type = t /\ r.weekend = c.weekend /\ r.start = c.start
    /\ r.dates = da /\ r.paydates = pa /\ r.filing = fi /\ r.payment = py
LEMMA DeadlineRuleForm ==
    ASSUME NEW c, NEW t, NEW da, NEW pa, NEW fi, NEW py
    PROVE  Parts(c, t, da, pa, fi, py, DeadlineRule(c, t, da, pa, fi, py))
<1> DEFINE r == DeadlineRule(c, t, da, pa, fi, py)
<1>1. PICK w, b, e : w = c.weekend /\ b = c.start /\ e = 0
  OBVIOUS
<1>2. r = [type |-> t, weekend |-> w, start |-> b, dates |-> da, paydates |-> pa,
           filing |-> fi, payment |-> py, extra |-> e, readable |-> TRUE]
  BY <1>1 DEF DeadlineRule
<1>3. /\ r.type = t /\ r.weekend = w /\ r.start = b /\ r.dates = da /\ r.paydates = pa
      /\ r.filing = fi /\ r.payment = py /\ r.readable = TRUE
  BY <1>2
<1>4. Nine(r)
  BY <1>2, <1>3 DEF Nine
<1> HIDE DEF r
<1>5. Parts(c, t, da, pa, fi, py, r)
  BY <1>1, <1>3, <1>4 DEF Parts
<1>6. QED
  BY <1>5 DEF r

\* A row that is not refused describes a whole rule, or none.
LEMMA DraftRuleForm ==
    ASSUME NEW row, NEW c, NEW s, NEW d, DraftOf(row, c, s, d), ~d.fails
    PROVE  /\ DraftRule(d.rule) /\ d.rule.weekend = c.weekend /\ d.rule.start = c.start
           /\ \/ /\ s = "fixed" /\ d.rule.type = "fixed"
                 /\ d.rule.dates = c.dates /\ d.rule.paydates = c.paydates
              \/ /\ s = "period_offset" /\ d.rule.type = "period_offset"
                 /\ d.rule.filing = MonthsAndDays(c, "filingOffsetMonths", "filingOffsetDays")
                 /\ HasPaymentOffset(c) =>
                       d.rule.payment = MonthsAndDays(c, "paymentOffsetMonths", "paymentOffsetDays")
              \/ s = "none" /\ d.rule.type = ""
<1>1. ColumnsOf(row, c) /\ s = DecideStrategy(c) /\ d.rule = ReadDeadlineRule(c, s)
      /\ ~ColumnsFail(row, c) /\ s \notin {"incomplete", "ambiguous"}
  BY DEF DraftOf
<1>2. s \in {"fixed", "period_offset", "none"}
  BY <1>1 DEF DecideStrategy
<1>3. CASE s = "fixed"
  <2>1. d.rule = DeadlineRule(c, "fixed", c.dates, c.paydates, <<>>, <<>>)
    BY <1>1, <1>3 DEF ReadDeadlineRule
  <2>2. HasFixed(c)
    BY <1>1, <1>3 DEF DecideStrategy
  <2>3. ~c.badDates /\ ~(c.paydates # <<>> /\ DOMAIN c.dates # DOMAIN c.paydates)
    BY <1>1 DEF ColumnsFail
  <2>4. c.dates # <<>>
    <3>1. c.paydates = [n \in DOMAIN c.paydates |-> c.paydates[n]]
      BY <1>1, DatesForm DEF ColumnsOf
    <3>2. c.dates = <<>> => DOMAIN c.dates = {}
      OBVIOUS
    <3>3. QED
      BY <2>2, <2>3, <3>1, <3>2, NoDates DEF HasFixed
  <2>5. QED
    <3>1. PICK r : r = d.rule
      OBVIOUS
    <3>2. Parts(c, "fixed", c.dates, c.paydates, <<>>, <<>>, r)
      BY <2>1, <3>1, DeadlineRuleForm
    <3>3. RuleForm(r)
      BY <3>2 DEF Parts, RuleForm, Nine
    <3>4. DraftRule(r)
      BY <2>4, <3>2, <3>3 DEF Parts, DraftRule
    <3>5. QED
      BY <1>3, <3>1, <3>2, <3>4 DEF Parts
<1>4. CASE s = "period_offset"
  <2>1. PICK f, p : /\ f = MonthsAndDays(c, "filingOffsetMonths", "filingOffsetDays")
                    /\ p = IF HasPaymentOffset(c) THEN MonthsAndDays(c, "paymentOffsetMonths", "paymentOffsetDays")
                           ELSE <<>>
    OBVIOUS
  <2>2. d.rule = DeadlineRule(c, "period_offset", <<>>, <<>>, f, p)
    BY <1>1, <1>4, <2>1 DEF ReadDeadlineRule
  <2>3. f # <<>>
    BY <2>1 DEF MonthsAndDays
  <2>4. QED
    <3>1. PICK r : r = d.rule
      OBVIOUS
    <3>2. Parts(c, "period_offset", <<>>, <<>>, f, p, r)
      BY <2>2, <3>1, DeadlineRuleForm
    <3>3. RuleForm(r)
      BY <3>2 DEF Parts, RuleForm, Nine
    <3>4. DraftRule(r)
      BY <2>1, <2>3, <3>2, <3>3 DEF Parts, DraftRule
    <3>5. QED
      BY <1>4, <2>1, <3>1, <3>2, <3>4 DEF Parts
<1>5. CASE s = "none"
  <2>1. d.rule = DeadlineRule(c, "", <<>>, <<>>, <<>>, <<>>)
    BY <1>1, <1>5 DEF ReadDeadlineRule
  <2>2. QED
    <3>1. PICK r : r = d.rule
      OBVIOUS
    <3>2. Parts(c, "", <<>>, <<>>, <<>>, <<>>, r)
      BY <2>1, <3>1, DeadlineRuleForm
    <3>3. RuleForm(r)
      BY <3>2 DEF Parts, RuleForm, Nine
    <3>4. DraftRule(r)
      BY <3>2, <3>3 DEF Parts, DraftRule
    <3>5. QED
      BY <1>5, <3>1, <3>2, <3>4 DEF Parts
<1>6. QED
  BY <1>2, <1>3, <1>4, <1>5

\* An absent column speaks of nothing.
LEMMA SpokenCells ==
    ASSUME NEW row
    PROVE  /\ Or(ReadMonthDay(CellOf(row, "periodStart")), <<>>) # <<>> => "periodStart" \in DOMAIN row
           /\ Or(ReadEnum(CellOf(row, "weekendAdjustment"), WeekendVocab), "") # "" =>
                 "weekendAdjustment" \in DOMAIN row
<1>1. Is(Blank, "blank")
  BY DEF Is, Blank
<1>2. ASSUME NEW f, f \notin DOMAIN row PROVE Is(CellOf(row, f), "blank")
  BY <1>1, <1>2 DEF CellOf
<1>3. ASSUME NEW cell, Is(cell, "blank")
      PROVE  Or(ReadMonthDay(cell), <<>>) = <<>> /\ Or(ReadEnum(cell, WeekendVocab), "") = ""
  BY <1>3 DEF ReadMonthDay, ReadEnum, Reading, Or
<1>4. QED
  BY <1>2, <1>3

LEMMA OffsetsSay ==
    ASSUME NEW row, NEW c, ColumnsOf(row, c), NEW f \in Offsets, OffsetIn(row, f).is = "value"
    PROVE  /\ c.offset[f] = OffsetIn(row, f).value /\ c.offset[f] # {}
           /\ ValueOr(c.offset[f]) \in OffsetIn(row, f).value
           /\ HasOffset(c)
           /\ f \in {"paymentOffsetMonths", "paymentOffsetDays"} => HasPaymentOffset(c)
<1>1. c.offset[f] = OffsetIn(row, f).value
  BY DEF ColumnsOf, Or
<1>2. c.offset[f] # {}
  BY <1>1, OffsetForm
<1>3. ValueOr(c.offset[f]) \in c.offset[f]
  BY <1>2 DEF ValueOr
<1>4. /\ HasOffset(c)
      /\ f \in {"paymentOffsetMonths", "paymentOffsetDays"} => HasPaymentOffset(c)
  BY <1>2 DEF HasOffset, HasPaymentOffset, HasFilingOffset, Offsets
<1>5. QED
  BY <1>1, <1>2, <1>3, <1>4

\* A deadline cell of a row that has no remark is in the rule the commit leaves.
LEMMA CellsKept ==
    ASSUME NEW row, NEW c, NEW s, NEW d, DraftOf(row, c, s, d), ~d.fails, d.remarks = {},
           NEW stored, RuleForm(stored), stored.readable, NEW now, now = MergedRule(d, stored),
           DescribesRule(d) \/ (StoredSchedules(stored) /\ ~(PartialRule(d) /\ ~SaysNothing(stored)))
    PROVE  (~DescribesRule(d) /\ Hollow(stored)) \/ CellsApplied(row, now)
<1>1. /\ DraftRule(d.rule) /\ d.rule.weekend = c.weekend /\ d.rule.start = c.start
      /\ \/ /\ s = "fixed" /\ d.rule.type = "fixed"
            /\ d.rule.dates = c.dates /\ d.rule.paydates = c.paydates
         \/ /\ s = "period_offset" /\ d.rule.type = "period_offset"
            /\ d.rule.filing = MonthsAndDays(c, "filingOffsetMonths", "filingOffsetDays")
            /\ HasPaymentOffset(c) =>
                  d.rule.payment = MonthsAndDays(c, "paymentOffsetMonths", "paymentOffsetDays")
         \/ s = "none" /\ d.rule.type = ""
  BY DraftRuleForm, ZenonT(120)
<1>2. /\ ColumnsOf(row, c) /\ s = DecideStrategy(c) /\ ~ColumnsFail(row, c)
      /\ d.spoke = DOMAIN row \cap ObligationFields /\ \E p : d.remarks = ColumnRemarks(c, s, p)
  BY DEF DraftOf
<1>3. c.declared \in {"", "fixed", "period_offset"}
  BY <1>2, DeclaredForm
<1>4. /\ ~(c.declared = "fixed" /\ s = "fixed" /\ HasOffset(c))
      /\ ~(c.declared = "period_offset" /\ s = "period_offset" /\ HasFixed(c))
  <2>1. PICK p : ColumnRemarks(c, s, p) = {}
    BY <1>2
  <2>2. "unused offsets" \notin ColumnRemarks(c, s, p) /\ "unused dates" \notin ColumnRemarks(c, s, p)
    BY <2>1
  <2>3. QED
    BY <2>2 DEF ColumnRemarks
<1>5. /\ c.start = Or(ReadMonthDay(CellOf(row, "periodStart")), <<>>)
      /\ c.weekend = Or(ReadEnum(CellOf(row, "weekendAdjustment"), WeekendVocab), "")
      /\ c.declared = Or(ReadEnum(CellOf(row, "deadlineType"), DeadlineTypeVocab), "")
      /\ c.dates = Or(DatesIn(row, "fixedDates"), <<>>)
      /\ c.paydates = Or(DatesIn(row, "paymentFixedDates"), <<>>)
  BY <1>2 DEF ColumnsOf
<1>6. ~HasFixed(c) => c.dates = <<>> /\ c.paydates = <<>>
  BY DEF HasFixed
<1>7. ASSUME \A f \in Offsets : OffsetApplied(row, f, now),
             c.dates \in {<<>>, now.dates}, c.paydates \in {<<>>, now.paydates},
             c.start \in {<<>>, now.start}, c.weekend \in {"", now.weekend},
             c.declared \in {"", now.type}
      PROVE  CellsApplied(row, now)
  BY <1>5, <1>7 DEF CellsApplied
<1>8. CASE s = "none"
  <2>1. ~DescribesRule(d) /\ now = stored
    BY <1>1, <1>8, MergedRuleForm DEF DescribesRule
  <2>2. c.declared = "" /\ ~HasFixed(c) /\ ~HasOffset(c)
    BY <1>2, <1>3, <1>8 DEF DecideStrategy, ColumnsFail, HasOffset
  <2>3. stored.type # ""
    BY <2>1 DEF StoredSchedules
  <2>4. CASE PartialRule(d)
    BY <2>1, <2>3, <2>4 DEF Hollow
  <2>5. CASE ~PartialRule(d)
    <3>1. c.start = <<>> /\ c.weekend = ""
      BY <1>1, <2>1, <2>5 DEF PartialRule
    <3>2. \A f \in Offsets : OffsetApplied(row, f, now)
      BY <1>2, <2>2, OffsetsSay DEF OffsetApplied
    <3>3. CellsApplied(row, now)
      BY <1>6, <1>7, <2>2, <3>1, <3>2
    <3>4. QED
      BY <3>3
  <2>6. QED
    BY <2>4, <2>5
<1>9. CASE s # "none"
  <2>1. DescribesRule(d)
    BY <1>1, <1>9 DEF DescribesRule
  <2>2. MergedOf(d, stored, now)
    BY <1>1, <2>1, MergedParts
  <2>3. c.start \in {<<>>, now.start} /\ c.weekend \in {"", now.weekend}
    <3>1. {"periodStart", "weekendAdjustment"} \subseteq ObligationFields
      BY DEF ObligationFields, RuleFields
    <3>2. /\ c.start # <<>> => "periodStart" \in d.spoke
          /\ c.weekend # "" => "weekendAdjustment" \in d.spoke
      BY <1>2, <1>5, <3>1, SpokenCells
    <3>3. QED
      BY <1>1, <2>2, <3>2 DEF MergedOf
  <2>4. CASE s = "fixed"
    <3>1. now.type = "fixed" /\ now.dates = c.dates /\ now.paydates = c.paydates
      BY <1>1, <2>2, <2>4 DEF MergedOf
    <3>2. c.declared \in {"", "fixed"} /\ ~HasOffset(c)
      BY <1>2, <1>3, <1>4, <2>4 DEF DecideStrategy
    <3>3. \A f \in Offsets : OffsetApplied(row, f, now)
      BY <1>2, <3>2, OffsetsSay DEF OffsetApplied
    <3>4. QED
      BY <1>7, <2>3, <3>1, <3>2, <3>3
  <2>5. CASE s = "period_offset"
    <3>1. /\ now.type = "period_offset"
          /\ now.filing = MonthsAndDays(c, "filingOffsetMonths", "filingOffsetDays")
          /\ HasPaymentOffset(c) =>
                now.payment = MonthsAndDays(c, "paymentOffsetMonths", "paymentOffsetDays")
      BY <1>1, <2>2, <2>5 DEF MergedOf
    <3>2. c.declared \in {"", "period_offset"} /\ ~HasFixed(c)
      BY <1>2, <1>3, <1>4, <2>5 DEF DecideStrategy
    <3>3. ASSUME NEW f \in Offsets, OffsetIn(row, f).is = "value"
          PROVE  OffsetApplied(row, f, now)
      <4>1. /\ ValueOr(c.offset[f]) \in OffsetIn(row, f).value
            /\ f \in {"paymentOffsetMonths", "paymentOffsetDays"} => HasPaymentOffset(c)
        BY <1>2, <3>3, OffsetsSay
      <4>2. CASE f \in {"filingOffsetMonths", "filingOffsetDays"}
        <5>1. PICK a, b : /\ a = ValueOr(c.offset["filingOffsetMonths"])
                          /\ b = ValueOr(c.offset["filingOffsetDays"])
          OBVIOUS
        <5>2. now.filing = <<a, b>>
          BY <3>1, <5>1 DEF MonthsAndDays
        <5>3. now.filing # <<>> /\ now.filing[1] = a /\ now.filing[2] = b
          BY <5>2
        <5>4. now.filing[IF OffsetMax(f) = OffsetMonthsMax THEN 1 ELSE 2] \in OffsetIn(row, f).value
          BY <4>1, <4>2, <5>1, <5>3 DEF OffsetMax, OffsetMonthsMax, OffsetDaysMax
        <5>5. QED
          BY <3>1, <4>2, <5>3, <5>4 DEF OffsetApplied
      <4>3. CASE f \in {"paymentOffsetMonths", "paymentOffsetDays"}
        <5>1. PICK a, b : /\ a = ValueOr(c.offset["paymentOffsetMonths"])
                          /\ b = ValueOr(c.offset["paymentOffsetDays"])
          OBVIOUS
        <5>2. now.payment = <<a, b>>
          BY <3>1, <4>1, <4>3, <5>1 DEF MonthsAndDays
        <5>3. now.payment # <<>> /\ now.payment[1] = a /\ now.payment[2] = b
          BY <5>2
        <5>4. now.payment[IF OffsetMax(f) = OffsetMonthsMax THEN 1 ELSE 2] \in OffsetIn(row, f).value
          BY <4>1, <4>3, <5>1, <5>3 DEF OffsetMax, OffsetMonthsMax, OffsetDaysMax
        <5>5. QED
          BY <3>1, <4>3, <5>3, <5>4 DEF OffsetApplied
      <4>4. QED
        BY <4>2, <4>3 DEF Offsets
    <3>4. \A f \in Offsets : OffsetApplied(row, f, now)
      BY <3>3 DEF OffsetApplied
    <3>5. QED
      BY <1>6, <1>7, <2>3, <3>1, <3>2, <3>4
  <2>6. QED
    BY <1>1, <1>9, <2>4, <2>5
<1>10. QED
  BY <1>8, <1>9

(***************************************************************************)
(* The records of one name, or of one pair, before and after a commit.     *)
(***************************************************************************)
LEMMA Least ==
    ASSUME NEW S, NEW x \in S, \A y \in S : y.id \in Nat, \A y, z \in S : y.id = z.id => y = z,
           \A y \in S : x.id <= y.id
    PROVE  The(S) = x
<1>1. The(S) \in S /\ The(S).id <= x.id
  BY LeastId
<1>2. QED
  BY <1>1

LEMMA Classes ==
    ASSUME NEW S, NEW U, NEW C, NEW t, NEW m, NEW c, NEW A, Writes(S, U, C, t, m, c, A),
           NEW name, NEW q, \A n \in U : name[m[n]] = name[t[n]], \A n \in C : name[c[n]] = q[n]
    PROVE  /\ \A y \in A :
                 \/ \E s \in S : /\ name[s] = name[y] /\ y.id = s.id
                                 /\ (y = s \/ \E n \in U : s = t[n] /\ y = m[n])
                 \/ \E n \in C : y = c[n] /\ name[y] = q[n]
           /\ \A s \in S : \E y \in A : y.id = s.id /\ name[y] = name[s]
  BY DEF Writes

\* A second reading finds the record that the first one wrote.
Rereads(S, U, C, t, m, c, A, name, q, D) ==
    /\ Writes(S, U, C, t, m, c, A)
    /\ U \subseteq D /\ C \subseteq D /\ U \cap C = {}
    /\ \A n, k \in D : q[n] = q[k] => n = k
    /\ \A n \in U : name[m[n]] = name[t[n]]
    /\ \A n \in C : name[c[n]] = q[n] /\ {s \in S : name[s] = q[n]} = {}
    /\ \A n \in D \ C :
          t[n] \in S /\ name[t[n]] = q[n] /\ \A s \in S : name[s] = q[n] => t[n].id <= s.id
LEMMA FoundAgain ==
    ASSUME NEW S, NEW U, NEW C, NEW t, NEW m, NEW c, NEW A, NEW name, NEW q, NEW D,
           Rereads(S, U, C, t, m, c, A, name, q, D), NEW n \in D
    PROVE  LET G == {y \in A : name[y] = q[n]}
           IN  G # {} /\ The(G) = (IF n \in C THEN c[n] ELSE IF n \in U THEN m[n] ELSE t[n])
<1> USE DEF Rereads
<1> DEFINE G == {y \in A : name[y] = q[n]}
<1>1. /\ \A y \in A :
            \/ \E s \in S : /\ name[s] = name[y] /\ y.id = s.id
                            /\ (y = s \/ \E k \in U : s = t[k] /\ y = m[k])
            \/ \E k \in C : y = c[k] /\ name[y] = q[k]
  <2>1. /\ Writes(S, U, C, t, m, c, A) /\ \A k \in U : name[m[k]] = name[t[k]]
        /\ \A k \in C : name[c[k]] = q[k]
    OBVIOUS
  <2> HIDE DEF Rereads
  <2>2. QED
    BY <2>1, Classes
<1>2. (\A x \in A : x.id \in Nat) /\ (\A r, s \in A : r.id = s.id => r = s)
  BY WrittenOut
<1>3. PICK x : x = IF n \in C THEN c[n] ELSE IF n \in U THEN m[n] ELSE t[n]
  OBVIOUS
<1>4. x \in G /\ \A y \in G : x.id <= y.id
  <2>1. CASE n \in C
    <3>1. x \in A /\ name[x] = q[n]
      BY <1>3, <2>1 DEF Writes
    <3>2. \A y \in G : y = x
      BY <1>1, <1>3, <2>1
    <3>3. QED
      BY <1>2, <3>1, <3>2
  <2>2. CASE n \notin C
    <3>1. /\ t[n] \in S /\ name[t[n]] = q[n] /\ \A s \in S : name[s] = q[n] => t[n].id <= s.id
      BY <2>2
    <3>2. x \in A /\ name[x] = q[n] /\ x.id = t[n].id
      <4>1. CASE n \in U
        BY <1>3, <2>2, <3>1, <4>1 DEF Writes
      <4>2. CASE n \notin U
        <5>1. \A k \in U : t[k] # t[n]
          BY <3>1, <4>2
        <5>2. QED
          BY <1>3, <2>2, <3>1, <4>2, <5>1 DEF Writes
      <4>3. QED
        BY <4>1, <4>2
    <3>3. ASSUME NEW y \in G PROVE t[n].id <= y.id
      BY <1>1, <2>2, <3>1
    <3>4. QED
      BY <3>2, <3>3
  <2>3. QED
    BY <2>1, <2>2
<1>5. The(G) = x
  <2>1. (\A y \in G : y.id \in Nat) /\ (\A y, z \in G : y.id = z.id => y = z)
    BY <1>2
  <2> HIDE DEF G
  <2>2. QED
    BY <1>4, <2>1, Least
<1>6. QED
  BY <1>3, <1>4, <1>5

LEMMA PlannedChange ==
    ASSUME NEW x, NEW fields, NEW rest, NEW remarks, NEW p, p = PlanChange(x, fields, rest, remarks),
           p.action # "invalid"
    PROVE  /\ p.target = {x} /\ p.fields = fields /\ p.rest = rest /\ p.remarks = remarks
           /\ \/ p.action = "unchanged" /\ DOMAIN fields = {} /\ rest = <<>>
              \/ p.action = "update" /\ ~(DOMAIN fields = {} /\ rest = <<>>)
  BY DEF PlanChange, Planned, InvalidRow

(***************************************************************************)
(* Obligations: one row of a plan that is carried out.                     *)
(***************************************************************************)
Found(drafts, n, stored) == ObligationsByPair(drafts, stored, drafts[n])
ObligationStands(drafts, n, stored, p) ==
    /\ \A k \in 1 .. n - 1 : KeyOf(drafts[k]) # KeyOf(drafts[n])
    /\ Resolves(drafts[n], stored) /\ ~drafts[n].fails
    /\ Found(drafts, n, stored) = {} => p.action = "create" /\ p.target = {}
    /\ Found(drafts, n, stored) # {} =>
          LET x == The(Found(drafts, n, stored))
          IN  /\ p.target = {x} /\ p.fields = ChangeSet(drafts[n], x)
              /\ p.rest = RuleChange(MergedRule(drafts[n], DecodeRule(x.rule)), x.rule)
              /\ p.remarks = drafts[n].remarks \cup DeadlineRemarks(drafts[n], Found(drafts, n, stored))
              /\ p.action \in {"unchanged", "update"}
              /\ p.action = "unchanged" <=> Moved(drafts[n], x) = {} /\ p.rest = <<>>
LEMMA StandingObligation ==
    ASSUME NEW drafts, NEW n, NEW stored, NEW p, p = PlanObligationRow(drafts, n, stored),
           p.action # "invalid"
    PROVE  ObligationStands(drafts, n, stored, p)
<1> DEFINE F == Found(drafts, n, stored)
<1>1. InvalidRow.action = "invalid"
  BY DEF InvalidRow, Planned
<1>2. /\ \A k \in 1 .. n - 1 : KeyOf(drafts[k]) # KeyOf(drafts[n])
      /\ Resolves(drafts[n], stored) /\ ~drafts[n].fails
      /\ p = PlanObligation(drafts[n], stored, F)
  BY <1>1 DEF PlanObligationRow, Found
<1>3. F = {} => p.action = "create" /\ p.target = {}
  BY <1>1, <1>2 DEF PlanObligation, CreateRow, Planned
<1>4. ASSUME F # {}
      PROVE  LET x == The(F)
             IN  /\ p.target = {x} /\ p.fields = ChangeSet(drafts[n], x)
                 /\ p.rest = RuleChange(MergedRule(drafts[n], DecodeRule(x.rule)), x.rule)
                 /\ p.remarks = drafts[n].remarks \cup DeadlineRemarks(drafts[n], F)
                 /\ p.action \in {"unchanged", "update"}
                 /\ p.action = "unchanged" <=> Moved(drafts[n], x) = {} /\ p.rest = <<>>
  <2>1. PICK x, fields, rest, remarks :
           /\ x = The(F) /\ fields = ChangeSet(drafts[n], x)
           /\ rest = RuleChange(MergedRule(drafts[n], DecodeRule(x.rule)), x.rule)
           /\ remarks = drafts[n].remarks \cup DeadlineRemarks(drafts[n], F)
    OBVIOUS
  <2>2. p = PlanChange(x, fields, rest, remarks)
    BY <1>2, <1>4, <2>1 DEF PlanObligation
  <2>3. DOMAIN fields = Moved(drafts[n], x)
    BY <2>1 DEF ChangeSet
  <2> HIDE DEF F
  <2>4. /\ p.target = {x} /\ p.fields = fields /\ p.rest = rest /\ p.remarks = remarks
        /\ \/ p.action = "unchanged" /\ DOMAIN fields = {} /\ rest = <<>>
           \/ p.action = "update" /\ ~(DOMAIN fields = {} /\ rest = <<>>)
    BY <2>2, PlannedChange
  <2>5. QED
    BY <2>1, <2>3, <2>4
<1> HIDE DEF F
<1>5. QED
  BY <1>2, <1>3, <1>4 DEF ObligationStands, F

LEMMA MergedObligation ==
    ASSUME NEW d, NEW x, ObligationForm(x), NEW now, now = MergeObligation(d, x)
    PROVE  /\ now.id = x.id /\ now.entity = x.entity /\ now.type = x.type
           /\ now.values = MergeValues(d, x) /\ now.rule = MergedRule(d, x.rule)
  BY DEF MergeObligation, ObligationForm

\* What a row shows of the record it is about is what becomes of it.
ObligationShown(row, d, p, x, now) ==
    /\ AsShown("obligations", p, d, x, now)
    /\ \/ p.remarks # {}
       \/ ~DescribesRule(d) /\ Hollow(x.rule)
       \/ CellsApplied(row, now.rule)
LEMMA RowOfObligation ==
    ASSUME NEW drafts, NEW n, NEW stored, NEW p, ObligationStands(drafts, n, stored, p),
           \A o \in stored.obligations : o.id \in Nat /\ ObligationForm(o),
           NEW row, NEW c, NEW s, DraftOf(row, c, s, drafts[n]),
           NEW x, Found(drafts, n, stored) # {}, x = The(Found(drafts, n, stored)),
           NEW now, p.action = "unchanged" => now = x,
           p.action = "update" => now = MergeObligation(drafts[n], x) /\ x.rule.readable
    PROVE  /\ ObligationShown(row, drafts[n], p, x, now)
           /\ Moved(drafts[n], now) = {}
           /\ RuleChange(MergedRule(drafts[n], DecodeRule(now.rule)), now.rule) = <<>>
<1> DEFINE F == Found(drafts, n, stored)
<1>1. PICK d : d = drafts[n]
  OBVIOUS
<1>2. F \subseteq stored.obligations
  BY DEF Found, ObligationsByPair
<1>3. x \in F
  <2> HIDE DEF F
  <2>1. QED
    BY <1>2, LeastId DEF F
<1>4. ObligationForm(x) /\ RuleForm(x.rule) /\ DOMAIN x.values = ObligationTexts \cup {"periodicity"}
  BY <1>2, <1>3 DEF ObligationForm
<1>5. /\ ~d.fails /\ p.target = {x} /\ p.fields = ChangeSet(d, x)
      /\ p.rest = RuleChange(MergedRule(d, DecodeRule(x.rule)), x.rule)
      /\ p.remarks = d.remarks \cup DeadlineRemarks(d, F)
      /\ p.action \in {"unchanged", "update"}
      /\ p.action = "unchanged" <=> Moved(d, x) = {} /\ p.rest = <<>>
  BY <1>1 DEF ObligationStands
<1>6. DraftOf(row, c, s, d) /\ DraftRule(d.rule) /\ DOMAIN d.values = DOMAIN x.values
  <2>1. DraftOf(row, c, s, d)
    BY <1>1
  <2>2. DraftRule(d.rule)
    BY <1>5, <2>1, DraftRuleForm, ZenonT(60)
  <2>3. QED
    BY <1>4, <2>1, <2>2 DEF DraftOf
<1>7. ASSUME x.rule.readable, NEW rule, rule = MergedRule(d, x.rule)
      PROVE  p.remarks # {} \/ (~DescribesRule(d) /\ Hollow(x.rule)) \/ CellsApplied(row, rule)
  <2>1. SUFFICES ASSUME p.remarks = {} PROVE (~DescribesRule(d) /\ Hollow(x.rule)) \/ CellsApplied(row, rule)
    OBVIOUS
  <2>2. d.remarks = {} /\ DeadlineRemarks(d, F) = {}
    BY <1>5, <2>1
  <2>3. DescribesRule(d) \/ (StoredSchedules(x.rule) /\ ~(PartialRule(d) /\ ~SaysNothing(x.rule)))
    BY <2>2, <1>3 DEF DeadlineRemarks
  <2>4. QED
    BY <1>4, <1>5, <1>6, <1>7, <2>2, <2>3, CellsKept, ZenonT(60)
<1>8. CASE p.action = "unchanged"
  <2>1. now = x /\ Moved(d, x) = {} /\ p.rest = <<>>
    BY <1>5, <1>8
  <2>2. RuleAsShown(p, x.rule, x.rule) /\ x.rule.readable /\ MergedRule(d, x.rule) = x.rule
    <3>1. RuleForm(x.rule) /\ DraftRule(d.rule) /\ p.rest = <<>>
          /\ p.rest = RuleChange(MergedRule(d, DecodeRule(x.rule)), x.rule)
      BY <1>4, <1>5, <1>6, <2>1
    <3>2. PICK old : old = x.rule
      OBVIOUS
    <3>3. RuleAsShown(p, old, old) /\ old.readable /\ MergedRule(d, old) = old
      BY <3>1, <3>2, StillRule
    <3>4. QED
      BY <3>2, <3>3
  <2>3. DOMAIN p.fields = {}
    BY <1>5, <2>1 DEF ChangeSet
  <2>4. FieldsAsShown(p, d, x, x)
    BY <1>6, <2>3, StillFields
  <2>5. AsShown("obligations", p, d, x, now)
    BY <2>1, <2>2, <2>4 DEF AsShown
  <2>6. p.remarks # {} \/ (~DescribesRule(d) /\ Hollow(x.rule)) \/ CellsApplied(row, now.rule)
    BY <1>7, <2>1, <2>2
  <2>7. RuleChange(MergedRule(d, DecodeRule(now.rule)), now.rule) = <<>>
    BY <1>5, <2>1
  <2>8. QED
    BY <1>1, <2>1, <2>5, <2>6, <2>7 DEF ObligationShown
<1>9. CASE p.action = "update"
  <2>1. /\ now.values = MergeValues(d, x) /\ now.rule = MergedRule(d, x.rule) /\ x.rule.readable
    BY <1>1, <1>4, <1>9, MergedObligation
  <2>2. /\ RuleAsShown(p, x.rule, now.rule)
        /\ RuleChange(MergedRule(d, DecodeRule(now.rule)), now.rule) = <<>>
    BY <1>4, <1>5, <1>6, <2>1, MergedRuleShown
  <2>3. FieldsAsShown(p, d, x, now) /\ Moved(d, now) = {}
    BY <1>5, <1>6, <2>1, MergedFields
  <2>4. AsShown("obligations", p, d, x, now)
    BY <1>9, <2>2, <2>3 DEF AsShown
  <2>5. p.remarks # {} \/ (~DescribesRule(d) /\ Hollow(x.rule)) \/ CellsApplied(row, now.rule)
    BY <1>7, <2>1
  <2>6. QED
    BY <1>1, <2>2, <2>3, <2>4, <2>5 DEF ObligationShown
<1>10. QED
  BY <1>5, <1>8, <1>9

LEMMA FoundPairs ==
    ASSUME NEW drafts, NEW stored, DOMAIN drafts \subseteq Nat,
           \A j, k \in DOMAIN drafts : KeyOf(drafts[j]) = KeyOf(drafts[k]) => j = k,
           NEW n \in DOMAIN drafts
    PROVE  /\ \A o \in Found(drafts, n, stored) :
                 /\ o \in stored.obligations /\ <<o.entity, o.type>> = PairOf(drafts[n], stored)
                 /\ \A j \in DOMAIN drafts :
                       Resolves(drafts[j], stored) /\ PairOf(drafts[j], stored) = <<o.entity, o.type>> => j <= n
           /\ Resolves(drafts[n], stored) /\ ~SpelledTwice(drafts, stored) =>
                 Found(drafts, n, stored) =
                     {o \in stored.obligations : <<o.entity, o.type>> = PairOf(drafts[n], stored)}
<1> DEFINE RowsMeaning(pair) == {k \in DOMAIN drafts : Resolves(drafts[k], stored) /\ PairOf(drafts[k], stored) = pair}
<1>1. Found(drafts, n, stored) =
        {o \in stored.obligations : KeyOf(drafts[n]) \in FoundUnder(drafts, stored, <<o.entity, o.type>>)}
  BY DEF Found, ObligationsByPair
<1>2. ASSUME NEW pair, KeyOf(drafts[n]) \in FoundUnder(drafts, stored, pair)
      PROVE  n \in RowsMeaning(pair) /\ \A i \in RowsMeaning(pair) : i <= n
  <2>1. PICK k \in {j \in RowsMeaning(pair) : \A i \in RowsMeaning(pair) : i <= j} : KeyOf(drafts[n]) = KeyOf(drafts[k])
    BY <1>2 DEF FoundUnder
  <2>2. k = n
    BY <2>1
  <2>3. QED
    BY <2>1, <2>2
<1>3. ASSUME NEW pair, n \in RowsMeaning(pair), \A i \in RowsMeaning(pair) : i <= n
      PROVE  KeyOf(drafts[n]) \in FoundUnder(drafts, stored, pair)
  BY <1>3 DEF FoundUnder
<1>4. ASSUME NEW o \in Found(drafts, n, stored)
      PROVE  /\ o \in stored.obligations /\ <<o.entity, o.type>> = PairOf(drafts[n], stored)
             /\ \A j \in DOMAIN drafts :
                   Resolves(drafts[j], stored) /\ PairOf(drafts[j], stored) = <<o.entity, o.type>> => j <= n
  <2>1. PICK pair : pair = <<o.entity, o.type>>
    OBVIOUS
  <2>2. o \in stored.obligations /\ KeyOf(drafts[n]) \in FoundUnder(drafts, stored, pair)
    BY <1>1, <1>4, <2>1
  <2>3. n \in RowsMeaning(pair) /\ \A i \in RowsMeaning(pair) : i <= n
    BY <1>2, <2>2
  <2>4. QED
    BY <2>1, <2>2, <2>3
<1>5. ASSUME Resolves(drafts[n], stored), ~SpelledTwice(drafts, stored),
             NEW o \in stored.obligations, <<o.entity, o.type>> = PairOf(drafts[n], stored)
      PROVE  o \in Found(drafts, n, stored)
  <2>1. PICK pair : pair = <<o.entity, o.type>>
    OBVIOUS
  <2>2. n \in RowsMeaning(pair)
    BY <1>5, <2>1
  <2>3. \A i \in RowsMeaning(pair) : i = n
    BY <1>5, <2>1, <2>2 DEF SpelledTwice
  <2>4. KeyOf(drafts[n]) \in FoundUnder(drafts, stored, pair)
    BY <1>3, <2>2, <2>3
  <2>5. QED
    BY <1>1, <2>1, <2>4
<1>6. QED
  <2>1. Resolves(drafts[n], stored) /\ ~SpelledTwice(drafts, stored) =>
           Found(drafts, n, stored) =
               {o \in stored.obligations : <<o.entity, o.type>> = PairOf(drafts[n], stored)}
    BY <1>4, <1>5
  <2>2. QED
    BY <1>4, <2>1

(***************************************************************************)
(* A file of obligations whose plan is carried out.                        *)
(***************************************************************************)
RowsOfFile(rows, drafts, plan) ==
    /\ Len(rows) \in Nat /\ DOMAIN rows = 1 .. Len(rows)
    /\ DOMAIN drafts = DOMAIN rows /\ DOMAIN plan = DOMAIN rows
ObligationFile(rows, drafts, plan, stored) ==
    /\ RowsOfFile(rows, drafts, plan)
    /\ \A n \in DOMAIN rows : drafts[n] = ReadObligationRow(rows[n])
    /\ Identified(stored.obligations) /\ \A o \in stored.obligations : ObligationForm(o)
    /\ plan = PlanObligations(drafts, stored) /\ ~RefusesCommit(plan, "obligations")
ObligationsStand(drafts, plan, stored) ==
    /\ \A n \in DOMAIN drafts : ObligationStands(drafts, n, stored, plan[n])
    /\ \A j, k \in DOMAIN drafts : KeyOf(drafts[j]) = KeyOf(drafts[k]) => j = k
    /\ \A n \in DOMAIN drafts : plan[n].target # {} <=> plan[n].action # "create"
    /\ \A n \in DOMAIN drafts :
          plan[n].target # {} =>
              /\ Found(drafts, n, stored) # {}
              /\ The(plan[n].target) = The(Found(drafts, n, stored))
              /\ The(plan[n].target) \in Found(drafts, n, stored)
              /\ plan[n].target = {The(plan[n].target)}
              /\ plan[n].action \in {"unchanged", "update"}
    /\ \A n \in DOMAIN drafts : plan[n].target = {} => Found(drafts, n, stored) = {}
    /\ \A j, k \in DOMAIN drafts :
          plan[j].target # {} /\ plan[k].target # {} /\ The(plan[j].target) = The(plan[k].target) => j = k
LEMMA StandingObligations ==
    ASSUME NEW rows, NEW drafts, NEW plan, NEW stored, ObligationFile(rows, drafts, plan, stored)
    PROVE  ObligationsStand(drafts, plan, stored)
<1>1. DOMAIN drafts \subseteq Nat /\ DOMAIN plan = DOMAIN drafts
  BY DEF ObligationFile, RowsOfFile
<1>2. ASSUME NEW n \in DOMAIN drafts PROVE ObligationStands(drafts, n, stored, plan[n])
  <2>1. plan[n] = PlanObligationRow(drafts, n, stored) /\ plan[n].action # "invalid"
    BY <1>1 DEF ObligationFile, PlanObligations, RefusesCommit
  <2>2. QED
    BY <2>1, StandingObligation
<1>3. ASSUME NEW j \in DOMAIN drafts, NEW k \in DOMAIN drafts, KeyOf(drafts[j]) = KeyOf(drafts[k]) PROVE j = k
  <2>1. DOMAIN drafts = 1 .. Len(rows) /\ Len(rows) \in Nat
    BY DEF ObligationFile, RowsOfFile
  <2>2. ~(j \in 1 .. k - 1) /\ ~(k \in 1 .. j - 1)
    BY <1>2, <1>3 DEF ObligationStands
  <2>3. QED
    BY <2>1, <2>2
<1>4. \A o \in stored.obligations : o.id \in Nat
  BY DEF ObligationFile, Identified, NewId
<1>5. ASSUME NEW n \in DOMAIN drafts, Found(drafts, n, stored) # {}
      PROVE  /\ plan[n].action \in {"unchanged", "update"}
             /\ The(plan[n].target) = The(Found(drafts, n, stored))
             /\ The(plan[n].target) \in Found(drafts, n, stored)
             /\ plan[n].target = {The(plan[n].target)}
  <2>1. PICK x : x = The(Found(drafts, n, stored))
    OBVIOUS
  <2>2. plan[n].target = {x} /\ plan[n].action \in {"unchanged", "update"}
    BY <1>2, <1>5, <2>1 DEF ObligationStands
  <2>3. Found(drafts, n, stored) \subseteq stored.obligations
    BY DEF Found, ObligationsByPair
  <2>4. x \in Found(drafts, n, stored)
    BY <1>4, <1>5, <2>1, <2>3, LeastId
  <2>5. The({x}) = x
    BY <1>4, <2>3, <2>4, TheOnly
  <2>6. QED
    BY <2>1, <2>2, <2>4, <2>5
<1>6. ASSUME NEW n \in DOMAIN drafts, Found(drafts, n, stored) = {}
      PROVE  plan[n].action = "create" /\ plan[n].target = {}
  BY <1>2, <1>6 DEF ObligationStands
<1>7. ASSUME NEW j \in DOMAIN drafts, NEW k \in DOMAIN drafts, plan[j].target # {}, plan[k].target # {},
             The(plan[j].target) = The(plan[k].target)
      PROVE  j = k
  <2>1. PICK o : o = The(plan[j].target)
    OBVIOUS
  <2>2. o \in Found(drafts, j, stored) /\ o \in Found(drafts, k, stored)
    BY <1>5, <1>6, <1>7, <2>1
  <2>3. /\ <<o.entity, o.type>> = PairOf(drafts[j], stored) /\ <<o.entity, o.type>> = PairOf(drafts[k], stored)
        /\ \A i \in DOMAIN drafts :
              Resolves(drafts[i], stored) /\ PairOf(drafts[i], stored) = <<o.entity, o.type>> => i <= j /\ i <= k
    BY <1>1, <1>3, <2>2, FoundPairs
  <2>4. Resolves(drafts[j], stored) /\ Resolves(drafts[k], stored)
    BY <1>2 DEF ObligationStands
  <2>5. j <= k /\ k <= j
    BY <2>3, <2>4
  <2>6. QED
    BY <1>1, <2>5
<1>8. \A n \in DOMAIN drafts : plan[n].target = {} => Found(drafts, n, stored) = {}
  BY <1>5
<1>9. \A n \in DOMAIN drafts : plan[n].target # {} => Found(drafts, n, stored) # {}
  BY <1>6
<1>10. \A n \in DOMAIN drafts : plan[n].target # {} <=> plan[n].action # "create"
  <2>1. ASSUME NEW n \in DOMAIN drafts PROVE plan[n].target # {} <=> plan[n].action # "create"
    <3>1. CASE Found(drafts, n, stored) = {}
      BY <1>6, <3>1
    <3>2. CASE Found(drafts, n, stored) # {}
      BY <1>5, <3>2
    <3>3. QED
      BY <3>1, <3>2
  <2>2. QED
    BY <2>1
<1>11. QED
  BY <1>2, <1>3, <1>5, <1>7, <1>8, <1>9, <1>10 DEF ObligationsStand

Targets(plan) == [n \in DOMAIN plan |-> The(plan[n].target)]
MergedIn(drafts, plan) == [n \in DOMAIN plan |-> MergeObligation(drafts[n], The(plan[n].target))]
CreatedIn(drafts, plan, stored) ==
    [n \in DOMAIN plan |-> CreatedObligation(drafts[n], n, PairOf(drafts[n], stored))]
LEMMA ObligationWrites ==
    ASSUME NEW rows, NEW drafts, NEW plan, NEW stored, ObligationFile(rows, drafts, plan, stored)
    PROVE  Writes(stored.obligations, With(plan, "update"), With(plan, "create"), Targets(plan),
                  MergedIn(drafts, plan), CreatedIn(drafts, plan, stored),
                  ApplyObligations(drafts, plan, stored))
<1>1. PICK S, U, C, t, m, c, A :
         /\ S = stored.obligations /\ U = With(plan, "update") /\ C = With(plan, "create")
         /\ t = Targets(plan) /\ m = MergedIn(drafts, plan) /\ c = CreatedIn(drafts, plan, stored)
         /\ A = ApplyObligations(drafts, plan, stored)
  OBVIOUS
<1>2. ObligationsStand(drafts, plan, stored)
  BY StandingObligations
<1>3. /\ DOMAIN plan = DOMAIN drafts /\ DOMAIN plan = 1 .. Len(rows) /\ Len(rows) \in Nat
      /\ Identified(S) /\ \A o \in S : ObligationForm(o)
  BY <1>1 DEF ObligationFile, RowsOfFile
<1>4. IsFiniteSet(C) /\ C \subseteq Nat \ {0}
  <2>1. C \subseteq 1 .. Len(rows) /\ IsFiniteSet(1 .. Len(rows))
    BY <1>1, <1>3, FS_Interval DEF With
  <2>2. QED
    <3>1. IsFiniteSet(C)
      BY <2>1, FS_Subset
    <3>2. QED
      BY <1>3, <2>1, <3>1
<1>5. ASSUME NEW n \in U
      PROVE  t[n] = The(plan[n].target) /\ t[n] \in S /\ m[n] = MergeObligation(drafts[n], t[n])
             /\ m[n].id = t[n].id /\ plan[n].target # {} /\ n \in DOMAIN drafts
  <2>1. n \in DOMAIN plan /\ plan[n].action = "update"
    BY <1>1 DEF With
  <2>2. t[n] = The(plan[n].target) /\ m[n] = MergeObligation(drafts[n], t[n])
    BY <1>1, <2>1 DEF Targets, MergedIn
  <2>3. plan[n].target # {} /\ t[n] \in Found(drafts, n, stored)
    BY <1>2, <1>3, <2>1, <2>2 DEF ObligationsStand
  <2>4. t[n] \in S
    BY <1>1, <2>3 DEF Found, ObligationsByPair
  <2>5. m[n].id = t[n].id
    BY <1>3, <2>2, <2>4, MergedObligation
  <2>6. QED
    BY <1>3, <2>1, <2>2, <2>3, <2>4, <2>5
<1>6. \A n, k \in U : t[n] = t[k] => n = k
  BY <1>2, <1>5 DEF ObligationsStand
<1>7. ASSUME NEW n \in C
      PROVE  c[n].id = NewId(n) /\ c[n] = CreatedObligation(drafts[n], n, PairOf(drafts[n], stored))
  BY <1>1 DEF With, CreatedIn, CreatedObligation
<1>8. A = (S \ {t[n] : n \in U}) \cup {m[n] : n \in U} \cup {c[n] : n \in C}
  <2>1. A = (S \ {The(plan[n].target) : n \in U})
            \cup {MergeObligation(drafts[n], The(plan[n].target)) : n \in U}
            \cup {CreatedObligation(drafts[n], n, PairOf(drafts[n], stored)) : n \in C}
    BY <1>1 DEF ApplyObligations
  <2>2. QED
    BY <1>5, <1>7, <2>1
<1>9. QED
  BY <1>1, <1>3, <1>4, <1>5, <1>6, <1>7, <1>8 DEF Writes

\* Nothing is left to change.
ObligationSettled(d, x) ==
    Moved(d, x) = {} /\ RuleChange(MergedRule(d, DecodeRule(x.rule)), x.rule) = <<>>
\* What becomes of the record a row is about.
LEMMA ObligationLeft ==
    ASSUME NEW rows, NEW drafts, NEW plan, NEW stored, ObligationFile(rows, drafts, plan, stored),
           NEW A, A = ApplyObligations(drafts, plan, stored),
           NEW n \in DOMAIN rows, plan[n].target # {}
    PROVE  LET x == The(plan[n].target)
               now == ById(A, x.id)
           IN  /\ x \in stored.obligations
               /\ n \in With(plan, "update") => now = MergedIn(drafts, plan)[n]
               /\ n \notin With(plan, "update") => now = x
               /\ ObligationShown(rows[n], drafts[n], plan[n], x, now)
               /\ ObligationSettled(drafts[n], now)
<1>1. PICK S, U, C, t, m, c :
         /\ S = stored.obligations /\ U = With(plan, "update") /\ C = With(plan, "create")
         /\ t = Targets(plan) /\ m = MergedIn(drafts, plan) /\ c = CreatedIn(drafts, plan, stored)
  OBVIOUS
<1>2. ObligationsStand(drafts, plan, stored) /\ Writes(S, U, C, t, m, c, A)
  BY <1>1, StandingObligations, ObligationWrites
<1>3. PICK x, now : x = The(plan[n].target) /\ now = ById(A, x.id)
  OBVIOUS
<1>4. /\ DOMAIN plan = DOMAIN drafts /\ DOMAIN rows = DOMAIN drafts /\ n \in DOMAIN drafts
      /\ drafts[n] = ReadObligationRow(rows[n])
      /\ \A o \in stored.obligations : o.id \in Nat /\ ObligationForm(o)
  <2>1. \A o \in stored.obligations : o.id \in Nat /\ ObligationForm(o)
    BY DEF ObligationFile, Identified, NewId
  <2>2. QED
    BY <2>1 DEF ObligationFile, RowsOfFile
<1>5. /\ ObligationStands(drafts, n, stored, plan[n]) /\ Found(drafts, n, stored) # {}
      /\ x = The(Found(drafts, n, stored)) /\ x \in Found(drafts, n, stored)
      /\ plan[n].action \in {"unchanged", "update"} /\ t[n] = x
  BY <1>1, <1>2, <1>3, <1>4 DEF ObligationsStand, Targets
<1>6. x \in S
  BY <1>1, <1>5 DEF Found, ObligationsByPair
<1>7. CASE n \in U
  <2>1. plan[n].action = "update" /\ now = m[n] /\ m[n] = MergeObligation(drafts[n], x)
    <3>1. ById(A, t[n].id) = m[n]
      BY <1>2, <1>7, WrittenOut
    <3>2. now = m[n]
      BY <1>3, <1>5, <3>1
    <3>3. plan[n].action = "update" /\ m[n] = MergeObligation(drafts[n], x)
      BY <1>1, <1>3, <1>4, <1>7 DEF With, MergedIn
    <3>4. QED
      BY <3>2, <3>3
  <2>2. x.rule.readable
    BY <1>3, <1>4, <2>1 DEF ObligationFile, RefusesCommit
  <2>3. PICK cc, s : DraftOf(rows[n], cc, s, drafts[n])
    BY <1>4, DraftForm
  <2>4. /\ ObligationShown(rows[n], drafts[n], plan[n], x, now)
        /\ Moved(drafts[n], now) = {}
        /\ RuleChange(MergedRule(drafts[n], DecodeRule(now.rule)), now.rule) = <<>>
    <3>1. /\ plan[n].action = "unchanged" => now = x
          /\ plan[n].action = "update" => now = MergeObligation(drafts[n], x) /\ x.rule.readable
      BY <2>1, <2>2
    <3>2. /\ ObligationStands(drafts, n, stored, plan[n])
          /\ \A o \in stored.obligations : o.id \in Nat /\ ObligationForm(o)
          /\ Found(drafts, n, stored) # {} /\ x = The(Found(drafts, n, stored))
      BY <1>4, <1>5
    <3>3. PICK p, row : p = plan[n] /\ row = rows[n]
      OBVIOUS
    <3>4. /\ ObligationShown(row, drafts[n], p, x, now)
          /\ Moved(drafts[n], now) = {}
          /\ RuleChange(MergedRule(drafts[n], DecodeRule(now.rule)), now.rule) = <<>>
      BY <2>3, <3>1, <3>2, <3>3, RowOfObligation
    <3>5. QED
      BY <3>3, <3>4
  <2>5. QED
    BY <1>1, <1>3, <1>6, <1>7, <2>1, <2>4 DEF ObligationSettled
<1>8. CASE n \notin U
  <2>1. plan[n].action = "unchanged"
    BY <1>1, <1>4, <1>5, <1>8 DEF With
  <2>2. \A k \in U : t[k] # x
    <3>1. ASSUME NEW k \in U, t[k] = x PROVE FALSE
      <4>1. k \in DOMAIN drafts /\ plan[k].action = "update" /\ t[k] = The(plan[k].target)
        BY <1>1, <1>4 DEF With, Targets
      <4>2. plan[k].target # {}
        BY <1>2, <4>1 DEF ObligationsStand
      <4>3. k = n
        BY <1>2, <1>3, <1>4, <3>1, <4>1, <4>2 DEF ObligationsStand
      <4>4. QED
        BY <2>1, <4>1, <4>3
    <3>2. QED
      BY <3>1
  <2>3. now = x
    BY <1>2, <1>3, <1>6, <2>2, WrittenOut
  <2>4. PICK cc, s : DraftOf(rows[n], cc, s, drafts[n])
    BY <1>4, DraftForm
  <2>5. /\ ObligationShown(rows[n], drafts[n], plan[n], x, now)
        /\ Moved(drafts[n], now) = {}
        /\ RuleChange(MergedRule(drafts[n], DecodeRule(now.rule)), now.rule) = <<>>
    <3>1. /\ plan[n].action = "unchanged" => now = x
          /\ plan[n].action = "update" => now = MergeObligation(drafts[n], x) /\ x.rule.readable
      BY <2>1, <2>3
    <3>2. /\ ObligationStands(drafts, n, stored, plan[n])
          /\ \A o \in stored.obligations : o.id \in Nat /\ ObligationForm(o)
          /\ Found(drafts, n, stored) # {} /\ x = The(Found(drafts, n, stored))
      BY <1>4, <1>5
    <3>3. PICK p, row : p = plan[n] /\ row = rows[n]
      OBVIOUS
    <3>4. /\ ObligationShown(row, drafts[n], p, x, now)
          /\ Moved(drafts[n], now) = {}
          /\ RuleChange(MergedRule(drafts[n], DecodeRule(now.rule)), now.rule) = <<>>
      BY <2>4, <3>1, <3>2, <3>3, RowOfObligation
    <3>5. QED
      BY <3>3, <3>4
  <2>6. QED
    BY <1>1, <1>3, <1>6, <1>8, <2>3, <2>5 DEF ObligationSettled
<1>9. QED
  BY <1>7, <1>8

LEMMA ObligationsKept ==
    ASSUME NEW rows, NEW drafts, NEW plan, NEW stored, ObligationFile(rows, drafts, plan, stored),
           NEW after, after.obligations = ApplyObligations(drafts, plan, stored)
    PROVE  /\ RowsAsShown("obligations", rows, drafts, plan, stored, after)
           /\ OnlyRowsWritten("obligations", plan, stored, after)
<1>1. PICK A, S, U, C, t, m, c :
         /\ A = after.obligations
         /\ S = stored.obligations /\ U = With(plan, "update") /\ C = With(plan, "create")
         /\ t = Targets(plan) /\ m = MergedIn(drafts, plan) /\ c = CreatedIn(drafts, plan, stored)
  OBVIOUS
<1>2. ObligationsStand(drafts, plan, stored) /\ Writes(S, U, C, t, m, c, A)
  BY <1>1, StandingObligations, ObligationWrites
<1>3. DOMAIN plan = DOMAIN drafts /\ DOMAIN rows = DOMAIN drafts
  BY DEF ObligationFile, RowsOfFile
<1>4. RecordsOf("obligations", after) = A /\ RecordsOf("obligations", stored) = S
  BY <1>1 DEF RecordsOf
<1>5. ASSUME NEW n \in DOMAIN plan, plan[n].target # {}
      PROVE  /\ AsShown("obligations", plan[n], drafts[n], The(plan[n].target),
                        ById(A, The(plan[n].target).id))
             /\ \/ plan[n].remarks # {}
                \/ ~DescribesRule(drafts[n]) /\ Hollow(The(plan[n].target).rule)
                \/ CellsApplied(rows[n], ById(A, The(plan[n].target).id).rule)
  <2>1. PICK x, now : x = The(plan[n].target) /\ now = ById(A, x.id)
    OBVIOUS
  <2>2. ObligationShown(rows[n], drafts[n], plan[n], x, now)
    BY <1>1, <1>3, <1>5, <2>1, ObligationLeft
  <2>3. QED
    BY <2>1, <2>2 DEF ObligationShown
<1>6. RowsAsShown("obligations", rows, drafts, plan, stored, after)
  <2>1. "obligations" # "entities"
    OBVIOUS
  <2>2. QED
    BY <1>1, <1>4, <1>5, <2>1, Zenon DEF RowsAsShown
<1>7. S \ UNION {plan[n].target : n \in DOMAIN plan} \subseteq A
  <2>1. ASSUME NEW s \in S, \A n \in DOMAIN plan : s \notin plan[n].target, NEW n \in U PROVE t[n] # s
    <3>1. n \in DOMAIN plan /\ plan[n].action = "update" /\ t[n] = The(plan[n].target)
      BY <1>1 DEF With, Targets
    <3>2. plan[n].target # {}
      BY <1>2, <1>3, <3>1 DEF ObligationsStand
    <3>3. plan[n].target = {t[n]}
      BY <1>2, <1>3, <3>1, <3>2 DEF ObligationsStand
    <3>4. QED
      BY <2>1, <3>1, <3>3
  <2>2. QED
    BY <1>2, <2>1 DEF Writes
<1>8. Cardinality(A) = Cardinality(S) + Cardinality(C)
  BY <1>2, WrittenOut
<1>9. QED
  BY <1>1, <1>4, <1>6, <1>7, <1>8 DEF OnlyRowsWritten

LEMMA ObligationsSettle ==
    ASSUME NEW rows, NEW drafts, NEW plan, NEW stored, ObligationFile(rows, drafts, plan, stored),
           ~SpelledTwice(drafts, stored),
           NEW after, after.obligations = ApplyObligations(drafts, plan, stored),
           after.entities = stored.entities, after.types = stored.types
    PROVE  /\ OneOfAType(stored.obligations) => OneOfAType(after.obligations)
           /\ Settles("obligations", drafts, after)
<1>1. PICK A, S, U, C, t, m, c :
         /\ A = after.obligations
         /\ S = stored.obligations /\ U = With(plan, "update") /\ C = With(plan, "create")
         /\ t = Targets(plan) /\ m = MergedIn(drafts, plan) /\ c = CreatedIn(drafts, plan, stored)
  OBVIOUS
<1>2. ObligationsStand(drafts, plan, stored) /\ Writes(S, U, C, t, m, c, A)
  BY <1>1, StandingObligations, ObligationWrites
<1>3. /\ DOMAIN plan = DOMAIN drafts /\ DOMAIN rows = DOMAIN drafts /\ DOMAIN drafts \subseteq Nat
      /\ \A n \in DOMAIN drafts : drafts[n] = ReadObligationRow(rows[n])
  BY DEF ObligationFile, RowsOfFile
<1>4. (\A o \in S : ObligationForm(o)) /\ \A o \in S : o.id \in Nat
  BY <1>1 DEF ObligationFile, Identified, NewId
<1>5. PICK name, q : /\ name = [y \in S \cup A |-> <<y.entity, y.type>>]
                     /\ q = [n \in DOMAIN drafts |-> PairOf(drafts[n], stored)]
  OBVIOUS
<1>6. U \subseteq DOMAIN drafts /\ C \subseteq DOMAIN drafts /\ U \cap C = {}
  BY <1>1, <1>3 DEF With
<1>7. \A n \in DOMAIN drafts : Resolves(drafts[n], stored) /\ ~drafts[n].fails
  BY <1>2 DEF ObligationsStand, ObligationStands
<1>8. \A n, k \in DOMAIN drafts : q[n] = q[k] => n = k
  BY <1>2, <1>5, <1>7 DEF SpelledTwice, ObligationsStand
<1>9. ASSUME NEW n \in DOMAIN drafts
      PROVE  Found(drafts, n, stored) = {s \in S : name[s] = q[n]}
  <2>1. Found(drafts, n, stored) = {o \in S : <<o.entity, o.type>> = PairOf(drafts[n], stored)}
    BY <1>1, <1>2, <1>3, <1>7, FoundPairs DEF ObligationsStand
  <2>2. QED
    BY <1>5, <2>1
<1>10. \A n \in U : name[m[n]] = name[t[n]]
  <2>1. ASSUME NEW n \in U PROVE name[m[n]] = name[t[n]]
    <3>1. t[n] \in S /\ m[n] \in A
      BY <1>2 DEF Writes
    <3>2. m[n] = MergeObligation(drafts[n], t[n])
      BY <1>1 DEF MergedIn, Targets, With
    <3>3. m[n].entity = t[n].entity /\ m[n].type = t[n].type
      BY <1>4, <3>1, <3>2, MergedObligation
    <3>4. QED
      BY <1>5, <3>1, <3>3
  <2>2. QED
    BY <2>1
<1>11. ASSUME NEW n \in C
       PROVE  /\ name[c[n]] = q[n] /\ c[n].values = drafts[n].values /\ c[n].rule = drafts[n].rule
              /\ {s \in S : name[s] = q[n]} = {}
  <2>1. n \in DOMAIN drafts /\ plan[n].action = "create" /\ c[n] \in A
    BY <1>1, <1>2, <1>3 DEF With, Writes
  <2>2. c[n] = CreatedObligation(drafts[n], n, q[n])
    BY <1>1, <1>3, <1>5, <2>1 DEF CreatedIn
  <2>3. PICK a, b : q[n] = <<a, b>>
    BY <1>5, <2>1 DEF PairOf
  <2>4. /\ c[n].entity = a /\ c[n].type = b
        /\ c[n].values = drafts[n].values /\ c[n].rule = drafts[n].rule
    BY <2>2, <2>3 DEF CreatedObligation
  <2>5. name[c[n]] = q[n]
    BY <1>5, <2>1, <2>3, <2>4
  <2>6. Found(drafts, n, stored) = {}
    BY <1>2, <2>1 DEF ObligationsStand
  <2>7. QED
    BY <1>9, <2>1, <2>4, <2>5, <2>6
<1>12. ASSUME NEW n \in DOMAIN drafts \ C
       PROVE  /\ plan[n].target # {} /\ t[n] = The(plan[n].target)
              /\ t[n] \in S /\ name[t[n]] = q[n] /\ \A s \in S : name[s] = q[n] => t[n].id <= s.id
  <2>1. plan[n].action # "create" /\ t[n] = The(plan[n].target)
    BY <1>1, <1>3 DEF With, Targets
  <2>2. plan[n].target # {}
    BY <1>2, <2>1 DEF ObligationsStand
  <2>3. Found(drafts, n, stored) # {} /\ t[n] = The(Found(drafts, n, stored))
    BY <1>2, <2>1, <2>2 DEF ObligationsStand
  <2>4. \A o \in Found(drafts, n, stored) : o.id \in Nat
    BY <1>4, <1>9
  <2>5. t[n] \in Found(drafts, n, stored) /\ \A s \in Found(drafts, n, stored) : t[n].id <= s.id
    BY <2>3, <2>4, LeastId
  <2>6. QED
    BY <1>9, <2>1, <2>2, <2>5
<1>13. OneOfAType(S) => OneOfAType(A)
  <2>1. SUFFICES ASSUME OneOfAType(S), NEW o \in A, NEW p \in A, <<o.entity, o.type>> = <<p.entity, p.type>>
                 PROVE  o = p
    BY DEF OneOfAType
  <2>2. name[o] = name[p]
    BY <1>5, <2>1
  <2>3. \A y \in A : \/ \E s \in S : name[s] = name[y] /\ y.id = s.id
                     \/ \E n \in C : y = c[n] /\ name[y] = q[n]
    BY <1>2, <1>10, <1>11, Classes, SMTT(60)
  <2>4. \A a, b \in S : name[a] = name[b] => a = b
    BY <1>5, <2>1 DEF OneOfAType
  <2>5. \A n \in C : \A s \in S : name[s] # q[n]
    BY <1>11
  <2>6. o.id = p.id => o = p
    BY <1>2, WrittenOut
  <2>7. CASE \E s \in S : name[s] = name[o] /\ o.id = s.id
    BY <2>2, <2>3, <2>4, <2>5, <2>6, <2>7
  <2>8. CASE \E n \in C : o = c[n] /\ name[o] = q[n]
    BY <1>6, <1>8, <2>2, <2>3, <2>5, <2>8
  <2>9. QED
    BY <2>3, <2>7, <2>8
<1>14. ASSUME NEW n \in DOMAIN drafts PROVE PlanObligationRow(drafts, n, after).action = "unchanged"
  <2>1. PICK d : d = drafts[n]
    OBVIOUS
  <2>2. /\ \A k \in DOMAIN drafts : Resolves(drafts[k], after) = Resolves(drafts[k], stored)
        /\ \A k \in DOMAIN drafts : PairOf(drafts[k], after) = PairOf(drafts[k], stored)
    BY DEF Resolves, PairOf, EntitiesByKey, TypesByKey
  <2>3. Resolves(drafts[n], after) /\ ~SpelledTwice(drafts, after)
    BY <1>7, <2>2 DEF SpelledTwice
  <2>4. Found(drafts, n, after) = {y \in A : name[y] = q[n]}
    <3>1. Found(drafts, n, after) = {o \in A : <<o.entity, o.type>> = PairOf(drafts[n], after)}
      BY <1>1, <1>2, <1>3, <2>3, FoundPairs DEF ObligationsStand
    <3>2. QED
      BY <1>5, <2>2, <3>1
  <2>5. PICK G, x : G = {y \in A : name[y] = q[n]} /\ x = The(G)
    OBVIOUS
  <2>6. G # {} /\ x = IF n \in C THEN c[n] ELSE IF n \in U THEN m[n] ELSE t[n]
    <3>1. Rereads(S, U, C, t, m, c, A, name, q, DOMAIN drafts)
      BY <1>2, <1>6, <1>8, <1>10, <1>11, <1>12 DEF Rereads
    <3>2. LET H == {y \in A : name[y] = q[n]}
          IN  H # {} /\ The(H) = (IF n \in C THEN c[n] ELSE IF n \in U THEN m[n] ELSE t[n])
      BY <3>1, FoundAgain
    <3>3. QED
      BY <2>5, <3>2
  <2>7. Moved(d, x) = {} /\ RuleChange(MergedRule(d, DecodeRule(x.rule)), x.rule) = <<>>
    <3>1. CASE n \in C
      <4>1. x.values = d.values /\ x.rule = d.rule
        BY <1>11, <2>1, <2>6, <3>1
      <4>2. Moved(d, x) = {}
        BY <4>1 DEF Moved, Same, SameText
      <4>3. PICK cc, s : DraftOf(rows[n], cc, s, d)
        BY <1>3, <2>1, DraftForm
      <4>4. DraftRule(d.rule)
        BY <1>7, <2>1, <4>3, DraftRuleForm, ZenonT(60)
      <4>5. QED
        BY <4>1, <4>2, <4>4, SettledRule
    <3>2. CASE n \notin C
      <4>1. plan[n].target # {} /\ t[n] = The(plan[n].target) /\ n \in DOMAIN rows
        BY <1>3, <1>12, <3>2
      <4>2. PICK now : now = ById(A, t[n].id)
        OBVIOUS
      <4>3. now = IF n \in U THEN m[n] ELSE t[n]
        BY <1>1, <4>1, <4>2, ObligationLeft
      <4>4. Moved(d, now) = {} /\ RuleChange(MergedRule(d, DecodeRule(now.rule)), now.rule) = <<>>
        <5>1. A = ApplyObligations(drafts, plan, stored) /\ now = ById(A, The(plan[n].target).id)
          BY <1>1, <4>1, <4>2
        <5>2. ObligationSettled(drafts[n], now)
          BY <4>1, <5>1, ObligationLeft
        <5>3. QED
          BY <2>1, <5>2 DEF ObligationSettled
      <4>5. QED
        BY <2>6, <3>2, <4>3, <4>4
    <3>3. QED
      BY <3>1, <3>2
  <2>8. PlanObligationRow(drafts, n, after) = PlanObligation(d, after, G)
    <3>1. \A k \in 1 .. n - 1 : KeyOf(drafts[k]) # KeyOf(drafts[n])
      BY <1>2 DEF ObligationsStand, ObligationStands
    <3>2. ~drafts[n].fails /\ G = ObligationsByPair(drafts, after, drafts[n])
      BY <1>7, <2>4, <2>5 DEF Found
    <3>3. QED
      BY <2>1, <2>3, <3>1, <3>2 DEF PlanObligationRow
  <2>9. PICK fields, rest, remarks :
           PlanObligation(d, after, G) = PlanChange(x, fields, rest, remarks)
           /\ fields = ChangeSet(d, x) /\ rest = RuleChange(MergedRule(d, DecodeRule(x.rule)), x.rule)
    BY <2>5, <2>6 DEF PlanObligation
  <2>10. DOMAIN fields = {} /\ rest = <<>>
    BY <2>7, <2>9 DEF ChangeSet
  <2>11. PlanChange(x, fields, rest, remarks).action = "unchanged"
    BY <2>10 DEF PlanChange, Planned
  <2>12. QED
    BY <2>8, <2>9, <2>11
<1>15. Settles("obligations", drafts, after)
  BY <1>14 DEF Settles, PlanFile, PlanObligations
<1>16. QED
  BY <1>1, <1>13, <1>15

(***************************************************************************)
(* Entities: one row of a plan that is carried out.                        *)
(***************************************************************************)
FoundNamed(drafts, n, stored) == EntitiesByKey(stored, NameOf(drafts[n]))
EntityStands(drafts, n, stored, p) ==
    /\ NameOf(drafts[n]) # "" /\ FirstNamed(drafts, NameOf(drafts[n])) = n
    /\ ~drafts[n].fails /\ ResolveParent(drafts[n], drafts, stored) # Nowhere
    /\ ~(Cardinality(FoundNamed(drafts, n, stored)) > 1)
    /\ FoundNamed(drafts, n, stored) = {} => p.action = "create" /\ p.target = {}
    /\ FoundNamed(drafts, n, stored) # {} =>
          LET x == The(FoundNamed(drafts, n, stored))
          IN  /\ p.target = {x} /\ p.fields = ChangeSet(drafts[n], x)
              /\ p.rest = ParentChange(drafts[n], ResolveParent(drafts[n], drafts, stored), x)
              /\ p.action \in {"unchanged", "update"}
              /\ p.action = "unchanged" <=> Moved(drafts[n], x) = {} /\ p.rest = <<>>
LEMMA StandingEntity ==
    ASSUME NEW drafts, NEW n, NEW stored, NEW p, p = PlanEntityRow(drafts, n, stored),
           p.action # "invalid"
    PROVE  EntityStands(drafts, n, stored, p)
<1> DEFINE F == FoundNamed(drafts, n, stored)
<1>1. InvalidRow.action = "invalid"
  BY DEF InvalidRow, Planned
<1>2. PICK parent : parent = ResolveParent(drafts[n], drafts, stored)
  OBVIOUS
<1>3. /\ NameOf(drafts[n]) # "" /\ FirstNamed(drafts, NameOf(drafts[n])) = n
      /\ p = PlanEntity(drafts[n], parent, F)
  BY <1>1, <1>2 DEF PlanEntityRow, FoundNamed
<1>4. ~drafts[n].fails /\ parent # Nowhere /\ ~(Cardinality(F) > 1)
  BY <1>1, <1>3 DEF PlanEntity
<1>5. F = {} => p.action = "create" /\ p.target = {}
  <2> HIDE DEF F
  <2>1. PICK remarks : remarks = drafts[n].remarks
    OBVIOUS
  <2>2. F = {} => p = CreateRow(remarks)
    BY <1>1, <1>3, <1>4, <2>1 DEF PlanEntity
  <2>3. CreateRow(remarks).action = "create" /\ CreateRow(remarks).target = {}
    BY DEF CreateRow, Planned
  <2>4. QED
    BY <2>2, <2>3
<1>6. ASSUME F # {}
      PROVE  LET x == The(F)
             IN  /\ p.target = {x} /\ p.fields = ChangeSet(drafts[n], x)
                 /\ p.rest = ParentChange(drafts[n], parent, x)
                 /\ p.action \in {"unchanged", "update"}
                 /\ p.action = "unchanged" <=> Moved(drafts[n], x) = {} /\ p.rest = <<>>
  <2>1. PICK x, fields, rest, remarks :
           /\ x = The(F) /\ fields = ChangeSet(drafts[n], x)
           /\ rest = ParentChange(drafts[n], parent, x) /\ remarks = drafts[n].remarks
    OBVIOUS
  <2>2. p = PlanChange(x, fields, rest, remarks)
    BY <1>3, <1>4, <1>6, <2>1 DEF PlanEntity
  <2>3. DOMAIN fields = Moved(drafts[n], x)
    BY <2>1 DEF ChangeSet
  <2> HIDE DEF F
  <2>4. /\ p.target = {x} /\ p.fields = fields /\ p.rest = rest
        /\ \/ p.action = "unchanged" /\ DOMAIN fields = {} /\ rest = <<>>
           \/ p.action = "update" /\ ~(DOMAIN fields = {} /\ rest = <<>>)
    BY <2>2, PlannedChange
  <2>5. QED
    BY <2>1, <2>3, <2>4
<1> HIDE DEF F
<1>7. QED
  BY <1>2, <1>3, <1>4, <1>5, <1>6 DEF EntityStands, F

LEMMA MergedEntity ==
    ASSUME NEW d, NEW parent, NEW x, EntityForm(x), NEW now, now = MergeEntity(d, parent, x)
    PROVE  /\ now.id = x.id /\ now.values = MergeValues(d, x)
           /\ now.parent = MergeParent(d, parent, x)
  BY DEF MergeEntity, EntityForm

DraftOfEntity(row, d) ==
    d.spoke = Speaks(row) /\ DOMAIN d.values = EntityFields \ {"parent"}
LEMMA EntityDraftForm == ASSUME NEW row PROVE DraftOfEntity(row, ReadEntityRow(row))
  BY DEF DraftOfEntity, ReadEntityRow

EntityShown(row, d, p, x, now) == AsShown("entities", p, d, x, now) /\ DefaultsKept(row, x, now)
EntitySettled(d, parent, x) == Moved(d, x) = {} /\ ParentChange(d, parent, x) = <<>>
LEMMA RowOfEntity ==
    ASSUME NEW d, NEW x, EntityForm(x), NEW row, DraftOfEntity(row, d), NEW parent, NEW p,
           p.target = {x}, p.fields = ChangeSet(d, x), p.rest = ParentChange(d, parent, x),
           p.action \in {"unchanged", "update"},
           p.action = "unchanged" <=> Moved(d, x) = {} /\ p.rest = <<>>,
           NEW now, p.action = "unchanged" => now = x,
           p.action = "update" => now = MergeEntity(d, parent, x)
    PROVE  EntityShown(row, d, p, x, now) /\ EntitySettled(d, parent, now)
<1>1. DOMAIN d.values = DOMAIN x.values /\ FiscalEnums \subseteq DOMAIN d.values
  BY DEF DraftOfEntity, EntityForm, EntityFields, FiscalEnums
<1>2. ParentChange(d, parent, x) = IF MergeParent(d, parent, x) = x.parent THEN <<>>
                                   ELSE <<x.parent, MergeParent(d, parent, x)>>
  BY DEF ParentChange, MergeParent
<1>3. ASSUME NEW f \in FiscalEnums, Is(CellOf(row, f), "blank") PROVE f \notin d.spoke
  BY <1>3 DEF DraftOfEntity, Speaks, FiscalIn, ReadEnum, Reading
<1>4. CASE p.action = "unchanged"
  <2>1. now = x /\ Moved(d, x) = {} /\ p.rest = <<>>
    BY <1>4
  <2>2. DOMAIN p.fields = {}
    BY <2>1 DEF ChangeSet
  <2>3. FieldsAsShown(p, d, x, x)
    BY <1>1, <2>2, StillFields
  <2>4. AsShown("entities", p, d, x, now)
    BY <2>1, <2>3 DEF AsShown, ParentAsShown
  <2>5. DefaultsKept(row, x, now)
    BY <2>1 DEF DefaultsKept
  <2>6. QED
    BY <2>1, <2>4, <2>5 DEF EntityShown, EntitySettled
<1>5. CASE p.action = "update"
  <2>1. now.values = MergeValues(d, x) /\ now.parent = MergeParent(d, parent, x)
    BY <1>5, MergedEntity
  <2>2. FieldsAsShown(p, d, x, now) /\ Moved(d, now) = {}
    BY <1>1, <2>1, MergedFields
  <2>3. ParentAsShown(p, x.parent, now.parent)
    BY <1>2, <2>1 DEF ParentAsShown
  <2>4. AsShown("entities", p, d, x, now)
    BY <1>5, <2>2, <2>3 DEF AsShown
  <2>5. DefaultsKept(row, x, now)
    BY <1>1, <1>3, <2>1 DEF DefaultsKept, MergeValues
  <2>6. ParentChange(d, parent, now) = <<>>
    BY <2>1 DEF ParentChange, MergeParent
  <2>7. QED
    BY <2>2, <2>4, <2>5, <2>6 DEF EntityShown, EntitySettled
<1>6. QED
  BY <1>4, <1>5

EntityFile(rows, drafts, plan, stored) ==
    /\ RowsOfFile(rows, drafts, plan)
    /\ \A n \in DOMAIN rows : drafts[n] = ReadEntityRow(rows[n])
    /\ Identified(stored.entities) /\ \A e \in stored.entities : EntityForm(e)
    /\ plan = PlanEntities(drafts, stored) /\ ~RefusesCommit(plan, "entities")
EntitiesStand(drafts, plan, stored) ==
    /\ \A n \in DOMAIN drafts : EntityStands(drafts, n, stored, plan[n])
    /\ \A j, k \in DOMAIN drafts : NameOf(drafts[j]) = NameOf(drafts[k]) => j = k
    /\ \A n \in DOMAIN drafts : plan[n].target # {} <=> plan[n].action # "create"
    /\ \A n \in DOMAIN drafts :
          plan[n].target # {} =>
              /\ FoundNamed(drafts, n, stored) # {}
              /\ The(plan[n].target) = The(FoundNamed(drafts, n, stored))
              /\ The(plan[n].target) \in FoundNamed(drafts, n, stored)
              /\ plan[n].target = {The(plan[n].target)}
              /\ plan[n].action \in {"unchanged", "update"}
    /\ \A n \in DOMAIN drafts : plan[n].target = {} => FoundNamed(drafts, n, stored) = {}
    /\ \A j, k \in DOMAIN drafts :
          plan[j].target # {} /\ plan[k].target # {} /\ The(plan[j].target) = The(plan[k].target) => j = k
LEMMA StandingEntities ==
    ASSUME NEW rows, NEW drafts, NEW plan, NEW stored, EntityFile(rows, drafts, plan, stored)
    PROVE  EntitiesStand(drafts, plan, stored)
<1>1. DOMAIN plan = DOMAIN drafts
  BY DEF EntityFile, RowsOfFile
<1>2. ASSUME NEW n \in DOMAIN drafts PROVE EntityStands(drafts, n, stored, plan[n])
  <2>1. plan[n] = PlanEntityRow(drafts, n, stored) /\ plan[n].action # "invalid"
    BY <1>1 DEF EntityFile, PlanEntities, RefusesCommit
  <2>2. QED
    BY <2>1, StandingEntity
<1>3. \A j, k \in DOMAIN drafts : NameOf(drafts[j]) = NameOf(drafts[k]) => j = k
  <2>1. ASSUME NEW j \in DOMAIN drafts, NEW k \in DOMAIN drafts, NameOf(drafts[j]) = NameOf(drafts[k])
        PROVE  j = k
    <3>1. FirstNamed(drafts, NameOf(drafts[j])) = j /\ FirstNamed(drafts, NameOf(drafts[k])) = k
      BY <1>2 DEF EntityStands
    <3>2. QED
      BY <2>1, <3>1
  <2>2. QED
    BY <2>1
<1>4. \A e \in stored.entities : e.id \in Nat
  BY DEF EntityFile, Identified, NewId
<1>5. ASSUME NEW n \in DOMAIN drafts, FoundNamed(drafts, n, stored) # {}
      PROVE  /\ plan[n].action \in {"unchanged", "update"}
             /\ The(plan[n].target) = The(FoundNamed(drafts, n, stored))
             /\ The(plan[n].target) \in FoundNamed(drafts, n, stored)
             /\ plan[n].target = {The(plan[n].target)}
  <2>1. PICK x : x = The(FoundNamed(drafts, n, stored))
    OBVIOUS
  <2>2. plan[n].target = {x} /\ plan[n].action \in {"unchanged", "update"}
    BY <1>2, <1>5, <2>1 DEF EntityStands
  <2>3. FoundNamed(drafts, n, stored) \subseteq stored.entities
    BY DEF FoundNamed, EntitiesByKey
  <2>4. x \in FoundNamed(drafts, n, stored)
    BY <1>4, <1>5, <2>1, <2>3, LeastId
  <2>5. The({x}) = x
    BY <1>4, <2>3, <2>4, TheOnly
  <2>6. QED
    BY <2>1, <2>2, <2>4, <2>5
<1>6. ASSUME NEW n \in DOMAIN drafts, FoundNamed(drafts, n, stored) = {}
      PROVE  plan[n].action = "create" /\ plan[n].target = {}
  BY <1>2, <1>6 DEF EntityStands
<1>7. ASSUME NEW j \in DOMAIN drafts, NEW k \in DOMAIN drafts, plan[j].target # {}, plan[k].target # {},
             The(plan[j].target) = The(plan[k].target)
      PROVE  j = k
  <2>1. PICK e : e = The(plan[j].target)
    OBVIOUS
  <2>2. e \in FoundNamed(drafts, j, stored) /\ e \in FoundNamed(drafts, k, stored)
    BY <1>5, <1>6, <1>7, <2>1
  <2>3. QED
    BY <1>3, <2>2 DEF FoundNamed, EntitiesByKey
<1>8. \A n \in DOMAIN drafts : plan[n].target = {} => FoundNamed(drafts, n, stored) = {}
  BY <1>5
<1>9. \A n \in DOMAIN drafts : plan[n].target # {} => FoundNamed(drafts, n, stored) # {}
  BY <1>6
<1>10. \A n \in DOMAIN drafts : plan[n].target # {} <=> plan[n].action # "create"
  <2>1. ASSUME NEW n \in DOMAIN drafts PROVE plan[n].target # {} <=> plan[n].action # "create"
    <3>1. CASE FoundNamed(drafts, n, stored) = {}
      BY <1>6, <3>1
    <3>2. CASE FoundNamed(drafts, n, stored) # {}
      BY <1>5, <3>2
    <3>3. QED
      BY <3>1, <3>2
  <2>2. QED
    BY <2>1
<1>11. QED
  BY <1>2, <1>3, <1>5, <1>7, <1>8, <1>9, <1>10 DEF EntitiesStand

MergedEntities(drafts, plan, stored) ==
    [n \in DOMAIN plan |->
        MergeEntity(drafts[n], ResolveParent(drafts[n], drafts, stored), The(plan[n].target))]
CreatedEntities(drafts, plan, stored) ==
    [n \in DOMAIN plan |-> CreatedEntity(drafts[n], n, ResolveParent(drafts[n], drafts, stored))]
LEMMA EntityWrites ==
    ASSUME NEW rows, NEW drafts, NEW plan, NEW stored, EntityFile(rows, drafts, plan, stored)
    PROVE  Writes(stored.entities, With(plan, "update"), With(plan, "create"), Targets(plan),
                  MergedEntities(drafts, plan, stored), CreatedEntities(drafts, plan, stored),
                  ApplyEntities(drafts, plan, stored))
<1>1. PICK S, U, C, t, m, c, A :
         /\ S = stored.entities /\ U = With(plan, "update") /\ C = With(plan, "create")
         /\ t = Targets(plan) /\ m = MergedEntities(drafts, plan, stored)
         /\ c = CreatedEntities(drafts, plan, stored) /\ A = ApplyEntities(drafts, plan, stored)
  OBVIOUS
<1>2. EntitiesStand(drafts, plan, stored)
  BY StandingEntities
<1>3. /\ DOMAIN plan = DOMAIN drafts /\ DOMAIN plan = 1 .. Len(rows) /\ Len(rows) \in Nat
      /\ Identified(S) /\ \A e \in S : EntityForm(e)
  BY <1>1 DEF EntityFile, RowsOfFile
<1>4. IsFiniteSet(C) /\ C \subseteq Nat \ {0}
  <2>1. C \subseteq 1 .. Len(rows) /\ IsFiniteSet(1 .. Len(rows))
    BY <1>1, <1>3, FS_Interval DEF With
  <2>2. QED
    <3>1. IsFiniteSet(C)
      BY <2>1, FS_Subset
    <3>2. QED
      BY <1>3, <2>1, <3>1
<1>5. ASSUME NEW n \in U
      PROVE  /\ t[n] = The(plan[n].target) /\ t[n] \in S /\ plan[n].target # {} /\ n \in DOMAIN drafts
             /\ m[n] = MergeEntity(drafts[n], ResolveParent(drafts[n], drafts, stored), t[n])
             /\ m[n].id = t[n].id
  <2>1. n \in DOMAIN plan /\ plan[n].action = "update"
    BY <1>1 DEF With
  <2>2. /\ t[n] = The(plan[n].target)
        /\ m[n] = MergeEntity(drafts[n], ResolveParent(drafts[n], drafts, stored), t[n])
    BY <1>1, <2>1 DEF Targets, MergedEntities
  <2>3. plan[n].target # {} /\ t[n] \in FoundNamed(drafts, n, stored)
    BY <1>2, <1>3, <2>1, <2>2 DEF EntitiesStand
  <2>4. t[n] \in S
    BY <1>1, <2>3 DEF FoundNamed, EntitiesByKey
  <2>5. m[n].id = t[n].id
    BY <1>3, <2>2, <2>4, MergedEntity
  <2>6. QED
    BY <1>3, <2>1, <2>2, <2>3, <2>4, <2>5
<1>6. \A n, k \in U : t[n] = t[k] => n = k
  BY <1>2, <1>5 DEF EntitiesStand
<1>7. ASSUME NEW n \in C
      PROVE  /\ c[n].id = NewId(n)
             /\ c[n] = CreatedEntity(drafts[n], n, ResolveParent(drafts[n], drafts, stored))
  BY <1>1 DEF With, CreatedEntities, CreatedEntity
<1>8. A = (S \ {t[n] : n \in U}) \cup {m[n] : n \in U} \cup {c[n] : n \in C}
  <2>1. A = (S \ {The(plan[n].target) : n \in U})
            \cup {MergeEntity(drafts[n], ResolveParent(drafts[n], drafts, stored), The(plan[n].target)) : n \in U}
            \cup {CreatedEntity(drafts[n], n, ResolveParent(drafts[n], drafts, stored)) : n \in C}
    BY <1>1 DEF ApplyEntities
  <2>2. QED
    BY <1>5, <1>7, <2>1
<1>9. QED
  BY <1>1, <1>3, <1>4, <1>5, <1>6, <1>7, <1>8 DEF Writes

LEMMA EntityLeft ==
    ASSUME NEW rows, NEW drafts, NEW plan, NEW stored, EntityFile(rows, drafts, plan, stored),
           NEW A, A = ApplyEntities(drafts, plan, stored),
           NEW n \in DOMAIN rows, plan[n].target # {}
    PROVE  LET x == The(plan[n].target)
               now == ById(A, x.id)
           IN  /\ x \in stored.entities
               /\ n \in With(plan, "update") => now = MergedEntities(drafts, plan, stored)[n]
               /\ n \notin With(plan, "update") => now = x
               /\ EntityShown(rows[n], drafts[n], plan[n], x, now)
               /\ EntitySettled(drafts[n], ResolveParent(drafts[n], drafts, stored), now)
<1>1. PICK S, U, C, t, m, c :
         /\ S = stored.entities /\ U = With(plan, "update") /\ C = With(plan, "create")
         /\ t = Targets(plan) /\ m = MergedEntities(drafts, plan, stored)
         /\ c = CreatedEntities(drafts, plan, stored)
  OBVIOUS
<1>2. EntitiesStand(drafts, plan, stored) /\ Writes(S, U, C, t, m, c, A)
  BY <1>1, StandingEntities, EntityWrites
<1>3. PICK d, row, parent, p, x, now :
         /\ d = drafts[n] /\ row = rows[n] /\ p = plan[n]
         /\ parent = ResolveParent(drafts[n], drafts, stored)
         /\ x = The(plan[n].target) /\ now = ById(A, x.id)
  OBVIOUS
<1>4. /\ DOMAIN plan = DOMAIN drafts /\ DOMAIN rows = DOMAIN drafts /\ n \in DOMAIN drafts
      /\ DraftOfEntity(row, d) /\ \A e \in S : EntityForm(e)
  <2>1. DraftOfEntity(row, d)
    BY <1>3, EntityDraftForm DEF EntityFile
  <2>2. QED
    BY <1>1, <2>1 DEF EntityFile, RowsOfFile
<1>5. /\ EntityStands(drafts, n, stored, p) /\ FoundNamed(drafts, n, stored) # {}
      /\ x = The(FoundNamed(drafts, n, stored)) /\ x \in FoundNamed(drafts, n, stored)
      /\ p.action \in {"unchanged", "update"} /\ t[n] = x
  BY <1>1, <1>2, <1>3, <1>4 DEF EntitiesStand, Targets
<1>6. x \in S
  BY <1>1, <1>5 DEF FoundNamed, EntitiesByKey
<1>7. /\ p.target = {x} /\ p.fields = ChangeSet(d, x) /\ p.rest = ParentChange(d, parent, x)
      /\ p.action = "unchanged" <=> Moved(d, x) = {} /\ p.rest = <<>>
  BY <1>3, <1>5 DEF EntityStands
<1>8. CASE n \in U
  <2>1. now = m[n]
    <3>1. ById(A, t[n].id) = m[n]
      BY <1>2, <1>8, WrittenOut
    <3>2. QED
      BY <1>3, <1>5, <3>1
  <2>2. p.action = "update" /\ m[n] = MergeEntity(d, parent, x)
    BY <1>1, <1>3, <1>4, <1>8 DEF With, MergedEntities
  <2>3. /\ p.action = "unchanged" => now = x
        /\ p.action = "update" => now = MergeEntity(d, parent, x)
    BY <2>1, <2>2
  <2>4. EntityShown(row, d, p, x, now) /\ EntitySettled(d, parent, now)
    BY <1>4, <1>5, <1>6, <1>7, <2>3, RowOfEntity
  <2>5. QED
    BY <1>1, <1>3, <1>6, <1>8, <2>1, <2>4
<1>9. CASE n \notin U
  <2>1. p.action = "unchanged"
    BY <1>1, <1>3, <1>4, <1>5, <1>9 DEF With
  <2>2. \A k \in U : t[k] # x
    <3>1. ASSUME NEW k \in U, t[k] = x PROVE FALSE
      <4>1. k \in DOMAIN drafts /\ plan[k].action = "update" /\ t[k] = The(plan[k].target)
        BY <1>1, <1>4 DEF With, Targets
      <4>2. plan[k].target # {}
        BY <1>2, <4>1 DEF EntitiesStand
      <4>3. k = n
        BY <1>2, <1>3, <1>4, <3>1, <4>1, <4>2 DEF EntitiesStand
      <4>4. QED
        BY <1>3, <2>1, <4>1, <4>3
    <3>2. QED
      BY <3>1
  <2>3. now = x
    BY <1>2, <1>3, <1>6, <2>2, WrittenOut
  <2>4. /\ p.action = "unchanged" => now = x
        /\ p.action = "update" => now = MergeEntity(d, parent, x)
    BY <2>1, <2>3
  <2>5. EntityShown(row, d, p, x, now) /\ EntitySettled(d, parent, now)
    BY <1>4, <1>5, <1>6, <1>7, <2>4, RowOfEntity
  <2>6. QED
    BY <1>1, <1>3, <1>6, <1>9, <2>3, <2>5
<1>10. QED
  BY <1>8, <1>9

LEMMA EntitiesKept ==
    ASSUME NEW rows, NEW drafts, NEW plan, NEW stored, EntityFile(rows, drafts, plan, stored),
           NEW after, after.entities = ApplyEntities(drafts, plan, stored)
    PROVE  /\ RowsAsShown("entities", rows, drafts, plan, stored, after)
           /\ OnlyRowsWritten("entities", plan, stored, after)
<1>1. PICK A, S, U, C, t, m, c :
         /\ A = after.entities
         /\ S = stored.entities /\ U = With(plan, "update") /\ C = With(plan, "create")
         /\ t = Targets(plan) /\ m = MergedEntities(drafts, plan, stored)
         /\ c = CreatedEntities(drafts, plan, stored)
  OBVIOUS
<1>2. EntitiesStand(drafts, plan, stored) /\ Writes(S, U, C, t, m, c, A)
  BY <1>1, StandingEntities, EntityWrites
<1>3. DOMAIN plan = DOMAIN drafts /\ DOMAIN rows = DOMAIN drafts
  BY DEF EntityFile, RowsOfFile
<1>4. RecordsOf("entities", after) = A /\ RecordsOf("entities", stored) = S
  BY <1>1 DEF RecordsOf
<1>5. ASSUME NEW n \in DOMAIN plan, plan[n].target # {}
      PROVE  /\ AsShown("entities", plan[n], drafts[n], The(plan[n].target),
                        ById(A, The(plan[n].target).id))
             /\ DefaultsKept(rows[n], The(plan[n].target), ById(A, The(plan[n].target).id))
  <2>1. PICK x, now : x = The(plan[n].target) /\ now = ById(A, x.id)
    OBVIOUS
  <2>2. EntityShown(rows[n], drafts[n], plan[n], x, now)
    BY <1>1, <1>3, <1>5, <2>1, EntityLeft
  <2>3. QED
    BY <2>1, <2>2 DEF EntityShown
<1>6. RowsAsShown("entities", rows, drafts, plan, stored, after)
  <2>1. "obligations" # "entities"
    OBVIOUS
  <2>2. QED
    BY <1>1, <1>4, <1>5, <2>1, Zenon DEF RowsAsShown
<1>7. S \ UNION {plan[n].target : n \in DOMAIN plan} \subseteq A
  <2>1. ASSUME NEW s \in S, \A n \in DOMAIN plan : s \notin plan[n].target, NEW n \in U PROVE t[n] # s
    <3>1. n \in DOMAIN plan /\ plan[n].action = "update" /\ t[n] = The(plan[n].target)
      BY <1>1 DEF With, Targets
    <3>2. plan[n].target # {}
      BY <1>2, <1>3, <3>1 DEF EntitiesStand
    <3>3. plan[n].target = {t[n]}
      BY <1>2, <1>3, <3>1, <3>2 DEF EntitiesStand
    <3>4. QED
      BY <2>1, <3>1, <3>3
  <2>2. QED
    BY <1>2, <2>1 DEF Writes
<1>8. Cardinality(A) = Cardinality(S) + Cardinality(C)
  BY <1>2, WrittenOut
<1>9. QED
  BY <1>1, <1>4, <1>6, <1>7, <1>8 DEF OnlyRowsWritten

\* A file whose plan is carried out, by what is stored and what is left.
EntityCommit(drafts, stored, S, U, C, t, m, c, A, name, q) ==
    /\ Rereads(S, U, C, t, m, c, A, name, q, DOMAIN drafts)
    /\ S = stored.entities /\ name = [y \in S \cup A |-> NormalizeKey(y.values["name"])]
    /\ q = [n \in DOMAIN drafts |-> NameOf(drafts[n])]
    /\ \A n \in DOMAIN drafts : q[n] # "" /\ FoundNamed(drafts, n, stored) = {s \in S : name[s] = q[n]}
    /\ \A n \in C : c[n] = CreatedEntity(drafts[n], n, ResolveParent(drafts[n], drafts, stored))
LEMMA EntitiesCommit ==
    ASSUME NEW rows, NEW drafts, NEW plan, NEW stored, EntityFile(rows, drafts, plan, stored)
    PROVE  LET A == ApplyEntities(drafts, plan, stored)
           IN  EntityCommit(drafts, stored, stored.entities, With(plan, "update"), With(plan, "create"),
                            Targets(plan), MergedEntities(drafts, plan, stored),
                            CreatedEntities(drafts, plan, stored), A,
                            [y \in stored.entities \cup A |-> NormalizeKey(y.values["name"])],
                            [n \in DOMAIN drafts |-> NameOf(drafts[n])])
<1>1. PICK A, S, U, C, t, m, c, name, q :
         /\ A = ApplyEntities(drafts, plan, stored)
         /\ S = stored.entities /\ U = With(plan, "update") /\ C = With(plan, "create")
         /\ t = Targets(plan) /\ m = MergedEntities(drafts, plan, stored)
         /\ c = CreatedEntities(drafts, plan, stored)
         /\ name = [y \in S \cup A |-> NormalizeKey(y.values["name"])]
         /\ q = [n \in DOMAIN drafts |-> NameOf(drafts[n])]
  OBVIOUS
<1>2. EntitiesStand(drafts, plan, stored) /\ Writes(S, U, C, t, m, c, A)
  BY <1>1, StandingEntities, EntityWrites
<1>3. DOMAIN plan = DOMAIN drafts /\ DOMAIN rows = DOMAIN drafts
  BY DEF EntityFile, RowsOfFile
<1>4. \A n \in DOMAIN drafts : DraftOfEntity(rows[n], drafts[n])
  BY <1>3, EntityDraftForm DEF EntityFile
<1>5. (\A e \in S : EntityForm(e)) /\ \A e \in S : e.id \in Nat
  BY <1>1 DEF EntityFile, Identified, NewId
<1>6. U \subseteq DOMAIN drafts /\ C \subseteq DOMAIN drafts /\ U \cap C = {}
  BY <1>1, <1>3 DEF With
<1>7. \A n, k \in DOMAIN drafts : q[n] = q[k] => n = k
  BY <1>1, <1>2 DEF EntitiesStand
<1>8. ASSUME NEW n \in DOMAIN drafts
      PROVE  q[n] # "" /\ FoundNamed(drafts, n, stored) = {s \in S : name[s] = q[n]}
  <2>1. NameOf(drafts[n]) # "" /\ q[n] = NameOf(drafts[n])
    BY <1>1, <1>2 DEF EntitiesStand, EntityStands
  <2>2. FoundNamed(drafts, n, stored) = {e \in S : NormalizeKey(e.values["name"]) = q[n]}
    BY <1>1, <2>1 DEF FoundNamed, EntitiesByKey
  <2>3. QED
    BY <1>1, <2>1, <2>2
<1>9. ASSUME NEW n \in DOMAIN drafts \ C
      PROVE  /\ plan[n].target # {} /\ t[n] = The(plan[n].target)
             /\ t[n] \in S /\ name[t[n]] = q[n] /\ \A s \in S : name[s] = q[n] => t[n].id <= s.id
  <2>1. plan[n].action # "create" /\ t[n] = The(plan[n].target)
    BY <1>1, <1>3 DEF With, Targets
  <2>2. plan[n].target # {}
    BY <1>2, <2>1 DEF EntitiesStand
  <2>3. FoundNamed(drafts, n, stored) # {} /\ t[n] = The(FoundNamed(drafts, n, stored))
    BY <1>2, <2>1, <2>2 DEF EntitiesStand
  <2>4. \A e \in FoundNamed(drafts, n, stored) : e.id \in Nat
    BY <1>5, <1>8
  <2>5. t[n] \in FoundNamed(drafts, n, stored) /\ \A s \in FoundNamed(drafts, n, stored) : t[n].id <= s.id
    BY <2>3, <2>4, LeastId
  <2>6. QED
    BY <1>8, <2>1, <2>2, <2>5
<1>10. ASSUME NEW n \in U PROVE name[m[n]] = name[t[n]]
  <2>1. t[n] \in S /\ m[n] \in A /\ n \in DOMAIN drafts \ C
    BY <1>2, <1>6 DEF Writes
  <2>2. PICK parent, d : parent = ResolveParent(drafts[n], drafts, stored) /\ d = drafts[n]
    OBVIOUS
  <2>3. m[n] = MergeEntity(d, parent, t[n])
    BY <1>1, <2>2 DEF MergedEntities, Targets, With
  <2>4. m[n].values = MergeValues(d, t[n])
    BY <1>5, <2>1, <2>3, MergedEntity
  <2>5. "name" \in DOMAIN d.values
    BY <1>4, <2>1, <2>2 DEF DraftOfEntity, EntityFields, EntityTexts
  <2>6. m[n].values["name"] = IF "name" \in d.spoke THEN d.values["name"] ELSE t[n].values["name"]
    BY <2>4, <2>5 DEF MergeValues
  <2>7. NormalizeKey(t[n].values["name"]) = NormalizeKey(d.values["name"])
    BY <1>1, <1>9, <2>1, <2>2 DEF NameOf
  <2>8. NormalizeKey(m[n].values["name"]) = NormalizeKey(t[n].values["name"])
    BY <2>6, <2>7
  <2>9. QED
    BY <1>1, <2>1, <2>8
<1>11. ASSUME NEW n \in C
       PROVE  /\ name[c[n]] = q[n] /\ {s \in S : name[s] = q[n]} = {}
              /\ c[n] = CreatedEntity(drafts[n], n, ResolveParent(drafts[n], drafts, stored))
  <2>1. n \in DOMAIN drafts /\ plan[n].action = "create" /\ c[n] \in A
    BY <1>1, <1>2, <1>3 DEF With, Writes
  <2>2. c[n] = CreatedEntity(drafts[n], n, ResolveParent(drafts[n], drafts, stored))
    BY <1>1, <1>3, <2>1 DEF CreatedEntities
  <2>3. c[n].values = drafts[n].values
    BY <2>2 DEF CreatedEntity
  <2>4. name[c[n]] = q[n]
    BY <1>1, <2>1, <2>3 DEF NameOf
  <2>5. FoundNamed(drafts, n, stored) = {}
    BY <1>2, <2>1 DEF EntitiesStand
  <2>6. QED
    BY <1>8, <2>1, <2>2, <2>4, <2>5
<1>12. Rereads(S, U, C, t, m, c, A, name, q, DOMAIN drafts)
  BY <1>2, <1>6, <1>7, <1>9, <1>10, <1>11 DEF Rereads
<1>13. EntityCommit(drafts, stored, S, U, C, t, m, c, A, name, q)
  BY <1>1, <1>8, <1>11, <1>12 DEF EntityCommit
<1>14. QED
  BY <1>1, <1>13

\* The parent a row names is the same record before and after.
LEMMA ParentStays ==
    ASSUME NEW drafts, NEW stored, NEW S, NEW U, NEW C, NEW t, NEW m, NEW c, NEW A, NEW name, NEW q,
           EntityCommit(drafts, stored, S, U, C, t, m, c, A, name, q), DOMAIN drafts \subseteq Nat,
           \A n \in DOMAIN drafts : ~(Cardinality(FoundNamed(drafts, n, stored)) > 1),
           NEW after, after.entities = A, NEW d, ResolveParent(d, drafts, stored) # Nowhere
    PROVE  ResolveParent(d, drafts, after) = ResolveParent(d, drafts, stored)
<1>1. PICK key : key = NormalizeKey(d.parent)
  OBVIOUS
<1>10. Writes(S, U, C, t, m, c, A) /\ S = stored.entities
  BY DEF EntityCommit, Rereads
<1>11. /\ name = [y \in S \cup A |-> NormalizeKey(y.values["name"])]
       /\ q = [n \in DOMAIN drafts |-> NameOf(drafts[n])]
       /\ C \subseteq DOMAIN drafts
  BY DEF EntityCommit, Rereads
<1>12. /\ \A n \in C : name[c[n]] = q[n] /\ {s \in S : name[s] = q[n]} = {}
       /\ \A n \in U : name[m[n]] = name[t[n]]
  BY DEF EntityCommit, Rereads
<1>13. /\ \A n \in DOMAIN drafts : FoundNamed(drafts, n, stored) = {s \in S : name[s] = q[n]}
       /\ \A n \in DOMAIN drafts \ C : t[n] \in S /\ name[t[n]] = q[n]
       /\ \A n, k \in DOMAIN drafts : q[n] = q[k] => n = k
  BY DEF EntityCommit, Rereads
<1>2. CASE key = ""
  BY <1>1, <1>2 DEF ResolveParent
<1>3. CASE key # ""
  <2>1. PICK E, G : /\ E = {s \in S : name[s] = key} /\ G = {y \in A : name[y] = key}
    OBVIOUS
  <2>2. E = EntitiesByKey(stored, key) /\ G = EntitiesByKey(after, key)
    BY <1>3, <1>10, <1>11, <2>1 DEF EntitiesByKey
  <2>3. /\ \A y \in A : \/ \E s \in S : name[s] = name[y] /\ y.id = s.id
                        \/ \E n \in C : y = c[n] /\ name[y] = q[n]
        /\ \A s \in S : \E y \in A : y.id = s.id /\ name[y] = name[s]
    BY <1>10, <1>12, Classes
  <2>4. (\A x \in A : x.id \in Nat) /\ \A x, y \in A : x.id = y.id => x = y
    BY <1>10, WrittenOut
  <2>5. IsFiniteSet(E) /\ \A s \in S : s.id \in Nat
    <3>1. IsFiniteSet(S) /\ E \subseteq S /\ \A s \in S : s.id \in Nat
      BY <1>10, <2>1 DEF Writes, Identified, NewId
    <3>2. QED
      BY <3>1, FS_Subset
  <2>6. CASE Cardinality(E) = 1
    <3>1. PICK e : E = {e}
      BY <2>5, <2>6, FS_Singleton
    <3>2. e \in S /\ name[e] = key
      BY <2>1, <3>1
    <3>3. PICK y \in A : y.id = e.id /\ name[y] = name[e]
      BY <2>3, <3>2
    <3>4. ASSUME NEW z \in G PROVE z = y
      <4>1. ~(\E n \in C : z = c[n] /\ name[z] = q[n])
        BY <1>12, <2>1, <3>2
      <4>2. PICK s \in S : name[s] = name[z] /\ z.id = s.id
        BY <2>1, <2>3, <4>1
      <4>3. s = e
        BY <2>1, <3>1, <4>2
      <4>4. QED
        BY <2>1, <2>4, <3>3, <4>2, <4>3
    <3>5. G = {y}
      BY <2>1, <3>2, <3>3, <3>4
    <3>6. The(E) = e /\ The(G) = y /\ Cardinality(G) = 1
      BY <2>4, <2>5, <3>1, <3>2, <3>5, TheOnly, FS_Singleton
    <3>7. The(E).id = The(G).id
      BY <3>3, <3>6
    <3>8. /\ ResolveParent(d, drafts, stored) = The(E).id
          /\ ResolveParent(d, drafts, after) = The(G).id
      BY <1>1, <1>3, <2>2, <2>6, <3>6 DEF ResolveParent
    <3>9. QED
      BY <3>7, <3>8
  <2>7. CASE Cardinality(E) # 1
    <3>1. RowsNamed(drafts, key) # {} /\ ResolveParent(d, drafts, stored) = NewId(FirstNamed(drafts, key))
      BY <1>1, <1>3, <2>2, <2>7 DEF ResolveParent
    <3>2. PICK k : k = FirstNamed(drafts, key)
      OBVIOUS
    <3>3. k \in RowsNamed(drafts, key)
      <4>1. RowsNamed(drafts, key) \in SUBSET Nat
        BY DEF RowsNamed
      <4>2. \E j \in RowsNamed(drafts, key) : \A i \in RowsNamed(drafts, key) : j <= i
        BY <3>1, <4>1, FirstOf
      <4>3. QED
        BY <3>2, <4>2 DEF FirstNamed
    <3>4. k \in DOMAIN drafts /\ q[k] = key
      BY <1>11, <3>3 DEF RowsNamed
    <3>5. E = {}
      <4>1. E = FoundNamed(drafts, k, stored)
        BY <1>13, <2>1, <3>4
      <4>2. Cardinality(E) \in Nat /\ ~(Cardinality(E) > 1)
        BY <2>5, <3>4, <4>1, FS_CardinalityType
      <4>3. Cardinality(E) = 0
        BY <2>7, <4>2
      <4>4. QED
        BY <2>5, <4>3, FS_EmptySet
    <3>6. k \in C
      BY <1>13, <2>1, <3>4, <3>5
    <3>7. c[k] \in A /\ name[c[k]] = key /\ c[k].id = NewId(k)
      BY <1>10, <1>12, <3>4, <3>6 DEF Writes
    <3>8. \A z \in G : z = c[k]
      <4>1. \A s \in S : name[s] # key
        BY <2>1, <3>5
      <4>2. ASSUME NEW z \in G PROVE z = c[k]
        <5>1. z \in A /\ name[z] = key
          BY <2>1
        <5>2. PICK n \in C : z = c[n] /\ q[n] = key
          BY <2>3, <4>1, <5>1
        <5>3. n = k
          BY <1>11, <1>13, <3>4, <5>2
        <5>4. QED
          BY <5>2, <5>3
      <4>3. QED
        BY <4>2
    <3>9. G = {c[k]}
      BY <2>1, <3>7, <3>8
    <3>10. PICK y : y = c[k]
      OBVIOUS
    <3>11. The(G) = y /\ Cardinality(G) = 1
      BY <2>4, <3>7, <3>9, <3>10, TheOnly, FS_Singleton
    <3>12. ResolveParent(d, drafts, after) = y.id
      BY <1>1, <1>3, <2>2, <3>11 DEF ResolveParent
    <3>13. QED
      BY <3>1, <3>2, <3>7, <3>10, <3>12
  <2>8. QED
    BY <2>6, <2>7
<1>4. QED
  BY <1>2, <1>3

LEMMA AtMostOne ==
    ASSUME NEW F, IsFiniteSet(F), ~(Cardinality(F) > 1) PROVE \A a, b \in F : a = b
<1>1. CASE Cardinality(F) = 0
  BY <1>1, FS_EmptySet
<1>2. CASE Cardinality(F) = 1
  BY <1>2, FS_Singleton
<1>3. QED
  BY <1>1, <1>2, FS_CardinalityType

LEMMA EntitiesSettle ==
    ASSUME NEW rows, NEW drafts, NEW plan, NEW stored, EntityFile(rows, drafts, plan, stored),
           NEW after, after.entities = ApplyEntities(drafts, plan, stored)
    PROVE  Settles("entities", drafts, after)
<1>1. PICK A, S, U, C, t, m, c, name, q :
         /\ A = ApplyEntities(drafts, plan, stored)
         /\ S = stored.entities /\ U = With(plan, "update") /\ C = With(plan, "create")
         /\ t = Targets(plan) /\ m = MergedEntities(drafts, plan, stored)
         /\ c = CreatedEntities(drafts, plan, stored)
         /\ name = [y \in S \cup A |-> NormalizeKey(y.values["name"])]
         /\ q = [n \in DOMAIN drafts |-> NameOf(drafts[n])]
  OBVIOUS
<1>2. EntitiesStand(drafts, plan, stored) /\ EntityCommit(drafts, stored, S, U, C, t, m, c, A, name, q)
  BY <1>1, StandingEntities, EntitiesCommit
<1>3. /\ DOMAIN plan = DOMAIN drafts /\ DOMAIN rows = DOMAIN drafts /\ DOMAIN drafts \subseteq Nat
  BY DEF EntityFile, RowsOfFile
<1>4. Writes(S, U, C, t, m, c, A) /\ IsFiniteSet(S)
  BY <1>2 DEF EntityCommit, Rereads, Writes, Identified
<1>5. /\ U \subseteq DOMAIN drafts /\ C \subseteq DOMAIN drafts /\ U \cap C = {}
      /\ \A j, k \in DOMAIN drafts : q[j] = q[k] => j = k
  BY <1>2 DEF EntityCommit, Rereads
<1>6. /\ \A k \in U : name[m[k]] = name[t[k]]
      /\ \A k \in C : name[c[k]] = q[k] /\ {s \in S : name[s] = q[k]} = {}
      /\ \A k \in C : c[k] = CreatedEntity(drafts[k], k, ResolveParent(drafts[k], drafts, stored))
  BY <1>2 DEF EntityCommit, Rereads
<1>7. /\ \A k \in DOMAIN drafts \ C :
            t[k] \in S /\ name[t[k]] = q[k] /\ \A s \in S : name[s] = q[k] => t[k].id <= s.id
      /\ \A k \in DOMAIN drafts : q[k] # "" /\ FoundNamed(drafts, k, stored) = {s \in S : name[s] = q[k]}
  BY <1>2 DEF EntityCommit, Rereads
<1>8. \A k \in DOMAIN drafts :
         /\ NameOf(drafts[k]) # "" /\ FirstNamed(drafts, NameOf(drafts[k])) = k
         /\ ~drafts[k].fails /\ ResolveParent(drafts[k], drafts, stored) # Nowhere
         /\ ~(Cardinality(FoundNamed(drafts, k, stored)) > 1)
  BY <1>2 DEF EntitiesStand, EntityStands
<1>9. ASSUME NEW n \in DOMAIN drafts PROVE PlanEntityRow(drafts, n, after).action = "unchanged"
  <2>1. PICK d, parent : d = drafts[n] /\ parent = ResolveParent(drafts[n], drafts, stored)
    OBVIOUS
  <2>2. ResolveParent(d, drafts, after) = parent
    <3>1. after.entities = A /\ ResolveParent(d, drafts, stored) # Nowhere
      BY <1>1, <1>8, <2>1
    <3>2. /\ EntityCommit(drafts, stored, S, U, C, t, m, c, A, name, q) /\ DOMAIN drafts \subseteq Nat
          /\ \A k \in DOMAIN drafts : ~(Cardinality(FoundNamed(drafts, k, stored)) > 1)
      BY <1>2, <1>3, <1>8
    <3>3. ResolveParent(d, drafts, after) = ResolveParent(d, drafts, stored)
      BY <3>1, <3>2, ParentStays
    <3>4. QED
      BY <2>1, <3>3
  <2>3. PICK G, x : G = {y \in A : name[y] = q[n]} /\ x = The(G)
    OBVIOUS
  <2>4. EntitiesByKey(after, NameOf(d)) = G
    <3>1. q[n] = NameOf(d) /\ NameOf(d) # ""
      BY <1>1, <1>8, <2>1
    <3>2. QED
      BY <1>1, <2>3, <3>1 DEF EntitiesByKey
  <2>5. G # {} /\ x = IF n \in C THEN c[n] ELSE IF n \in U THEN m[n] ELSE t[n]
    <3>1. Rereads(S, U, C, t, m, c, A, name, q, DOMAIN drafts)
      BY <1>2 DEF EntityCommit
    <3>2. LET H == {y \in A : name[y] = q[n]}
          IN  H # {} /\ The(H) = (IF n \in C THEN c[n] ELSE IF n \in U THEN m[n] ELSE t[n])
      BY <3>1, FoundAgain
    <3>3. QED
      BY <2>3, <3>2
  <2>6. ~(Cardinality(G) > 1)
    <3>1. PICK F : F = FoundNamed(drafts, n, stored)
      OBVIOUS
    <3>2. \A a, b \in F : a = b
      <4>1. F \subseteq S
        BY <1>7, <3>1
      <4>2. IsFiniteSet(F) /\ ~(Cardinality(F) > 1)
        BY <1>4, <1>8, <3>1, <4>1, FS_Subset
      <4>3. QED
        BY <4>2, AtMostOne
    <3>3. \A y \in A : \/ \E s \in S : name[s] = name[y] /\ y.id = s.id
                       \/ \E k \in C : y = c[k] /\ name[y] = q[k]
      BY <1>4, <1>6, Classes
    <3>4. \A y, z \in A : y.id = z.id => y = z
      BY <1>4, WrittenOut
    <3>5. \A s \in S : name[s] = q[n] => s \in F
      BY <1>7, <3>1
    <3>6. \A k \in C : q[k] = q[n] => k = n /\ \A s \in S : name[s] # q[n]
      BY <1>5, <1>6
    <3>7. ASSUME NEW y \in G, NEW z \in G PROVE y = z
      <4>1. y \in A /\ z \in A /\ name[y] = q[n] /\ name[z] = q[n]
        BY <2>3
      <4>2. CASE n \in C
        <5>1. y = c[n] /\ z = c[n]
          BY <3>3, <3>6, <4>1, <4>2
        <5>2. QED
          BY <5>1
      <4>3. CASE n \notin C
        <5>1. PICK s1 \in S : name[s1] = q[n] /\ y.id = s1.id
          BY <3>3, <3>6, <4>1, <4>3
        <5>2. PICK s2 \in S : name[s2] = q[n] /\ z.id = s2.id
          BY <3>3, <3>6, <4>1, <4>3
        <5>3. s1 = s2
          BY <3>2, <3>5, <5>1, <5>2
        <5>4. QED
          BY <3>4, <4>1, <5>1, <5>2, <5>3
      <4>4. QED
        BY <4>2, <4>3
    <3>8. PICK y : y \in G
      BY <2>5
    <3>9. G = {y}
      BY <3>7, <3>8
    <3>10. Cardinality(G) = 1
      BY <3>9, FS_Singleton
    <3>11. QED
      BY <3>10
  <2>7. EntitySettled(d, parent, x)
    <3>1. CASE n \in C
      <4>1. x = CreatedEntity(d, n, parent)
        BY <1>6, <2>1, <2>5, <3>1
      <4>2. x.values = d.values /\ x.parent = parent
        BY <4>1 DEF CreatedEntity
      <4>3. Moved(d, x) = {}
        BY <4>2 DEF Moved, Same, SameText
      <4>4. QED
        BY <4>2, <4>3 DEF EntitySettled, ParentChange
    <3>2. CASE n \notin C
      <4>1. n \in DOMAIN rows /\ t[n] = The(plan[n].target) /\ plan[n].action # "create"
        BY <1>1, <1>3, <3>2 DEF With, Targets
      <4>2. plan[n].target # {}
        BY <1>2, <4>1 DEF EntitiesStand
      <4>3. PICK now : now = ById(A, The(plan[n].target).id)
        OBVIOUS
      <4>4. /\ now = IF n \in U THEN m[n] ELSE t[n]
            /\ EntitySettled(drafts[n], ResolveParent(drafts[n], drafts, stored), now)
        BY <1>1, <4>1, <4>2, <4>3, EntityLeft
      <4>5. QED
        BY <2>1, <2>5, <3>2, <4>4
    <3>3. QED
      BY <3>1, <3>2
  <2>8. PlanEntityRow(drafts, n, after) = PlanEntity(d, parent, G)
    BY <1>8, <2>1, <2>2, <2>4 DEF PlanEntityRow
  <2>9. PICK fields, rest, remarks :
           PlanEntity(d, parent, G) = PlanChange(x, fields, rest, remarks)
           /\ fields = ChangeSet(d, x) /\ rest = ParentChange(d, parent, x)
    BY <1>8, <2>1, <2>3, <2>5, <2>6 DEF PlanEntity
  <2>10. DOMAIN fields = {} /\ rest = <<>>
    BY <2>7, <2>9 DEF ChangeSet, EntitySettled
  <2>11. PlanChange(x, fields, rest, remarks).action = "unchanged"
    BY <2>10 DEF PlanChange, Planned
  <2>12. QED
    BY <2>8, <2>9, <2>11
<1>10. QED
  BY <1>9 DEF Settles, PlanFile, PlanEntities

(***************************************************************************)
(* The theorem.                                                            *)
(***************************************************************************)
LEMMA StoredForm ==
    ASSUME NEW stored, stored = [entities |-> stored.entities, types |-> stored.types,
                                 obligations |-> stored.obligations], NEW A
    PROVE  LET e == [stored EXCEPT !.entities = A]
               o == [stored EXCEPT !.obligations = A]
           IN  /\ e.entities = A /\ e.types = stored.types /\ e.obligations = stored.obligations
               /\ o.obligations = A /\ o.types = stored.types /\ o.entities = stored.entities
  OBVIOUS

LEMMA FileAsShown ==
    ASSUME NEW family \in Imports, NEW rows \in family.files, NEW stored \in family.stored
    PROVE  Drafting(family.kind, rows, DraftsOf(family.kind, rows), stored)
<1>1. PICK kind, drafts, plan, after :
         /\ kind = family.kind /\ drafts = DraftsOf(kind, rows) /\ plan = PlanFile(kind, drafts, stored)
         /\ after = CommitFile(kind, drafts, plan, stored)
  OBVIOUS
<1>2. /\ kind \in {"entities", "obligations"} /\ Len(rows) \in Nat /\ DOMAIN rows = 1 .. Len(rows)
      /\ stored = [entities |-> stored.entities, types |-> stored.types,
                   obligations |-> stored.obligations]
      /\ Identified(stored.entities) /\ Identified(stored.obligations)
      /\ \A e \in stored.entities : EntityForm(e)
      /\ \A o \in stored.obligations : ObligationForm(o)
  BY <1>1, ImportsAssumption
<1>3. ASSUME ~RefusesCommit(plan, kind)
      PROVE  /\ RowsAsShown(kind, rows, drafts, plan, stored, after)
             /\ OnlyRowsWritten(kind, plan, stored, after)
             /\ \/ kind = "obligations" /\ SpelledTwice(drafts, stored)
                \/ /\ OneOfAType(stored.obligations) => OneOfAType(after.obligations)
                   /\ Settles(kind, drafts, after)
  <2>1. CASE kind = "entities"
    <3>1. drafts = [n \in DOMAIN rows |-> ReadEntityRow(rows[n])] /\ plan = PlanEntities(drafts, stored)
      BY <1>1, <2>1 DEF DraftsOf, PlanFile
    <3>2. after = [stored EXCEPT !.entities = ApplyEntities(drafts, plan, stored)]
      BY <1>1, <1>3, <2>1 DEF CommitFile
    <3>3. /\ after.entities = ApplyEntities(drafts, plan, stored)
          /\ after.obligations = stored.obligations
      BY <1>2, <3>2, StoredForm
    <3>4. EntityFile(rows, drafts, plan, stored)
      BY <1>2, <1>3, <2>1, <3>1 DEF EntityFile, RowsOfFile, PlanEntities
    <3>5. /\ RowsAsShown("entities", rows, drafts, plan, stored, after)
          /\ OnlyRowsWritten("entities", plan, stored, after) /\ Settles("entities", drafts, after)
      BY <3>3, <3>4, EntitiesKept, EntitiesSettle
    <3>6. QED
      BY <2>1, <3>3, <3>5
  <2>2. CASE kind = "obligations"
    <3>1. drafts = [n \in DOMAIN rows |-> ReadObligationRow(rows[n])] /\ plan = PlanObligations(drafts, stored)
      BY <1>1, <2>2 DEF DraftsOf, PlanFile
    <3>2. after = [stored EXCEPT !.obligations = ApplyObligations(drafts, plan, stored)]
      BY <1>1, <1>3, <2>2 DEF CommitFile
    <3>3. /\ after.obligations = ApplyObligations(drafts, plan, stored)
          /\ after.entities = stored.entities /\ after.types = stored.types
      BY <1>2, <3>2, StoredForm
    <3>4. ObligationFile(rows, drafts, plan, stored)
      BY <1>2, <1>3, <2>2, <3>1 DEF ObligationFile, RowsOfFile, PlanObligations
    <3>5. /\ RowsAsShown("obligations", rows, drafts, plan, stored, after)
          /\ OnlyRowsWritten("obligations", plan, stored, after)
      BY <3>3, <3>4, ObligationsKept
    <3>6. ~SpelledTwice(drafts, stored) =>
             /\ OneOfAType(stored.obligations) => OneOfAType(after.obligations)
             /\ Settles("obligations", drafts, after)
      BY <3>3, <3>4, ObligationsSettle
    <3>7. QED
      BY <2>2, <3>5, <3>6
  <2>3. QED
    BY <1>2, <2>1, <2>2
<1>4. Committed(kind, rows, drafts, plan, stored, after)
  BY <1>3 DEF Committed
<1>5. QED
  BY <1>1, <1>4 DEF Drafting, Planning

AskedOfImports ==
    \/ asked = Nothing
    \/ \E family \in Imports : \E rows \in family.files, stored \in family.stored :
          asked = [about |-> "import",
                   import |-> [kind |-> family.kind, rows |-> rows, stored |-> stored]]

\* For every file and everything that may be stored: what a commit writes is what the plan showed,
\* no more and no other record, and the same file again changes nothing (PlanEntities,
\* PlanObligations, apply.go, changes.go).
THEOREM PreviewsAlwaysHold == ImportSpec => []PreviewIsEffect
<1>1. asked = Nothing => AskedOfImports
  BY DEF AskedOfImports
<1>2. AskedOfImports /\ [AskImport]_asked => AskedOfImports'
  <2> SUFFICES ASSUME AskedOfImports, [AskImport]_asked PROVE AskedOfImports'
    OBVIOUS
  <2>1. CASE UNCHANGED asked
    BY <2>1 DEF AskedOfImports
  <2>2. CASE AskImport
    BY <2>2 DEF AskImport, AskedOfImports
  <2>3. QED
    BY <2>1, <2>2
<1>3. AskedOfImports => PreviewIsEffect
  <2> SUFFICES ASSUME AskedOfImports PROVE PreviewIsEffect
    OBVIOUS
  <2>1. CASE asked = Nothing
    BY <2>1 DEF PreviewIsEffect, Nothing
  <2>2. ASSUME NEW family \in Imports, NEW rows \in family.files, NEW stored \in family.stored,
               asked = [about |-> "import",
                        import |-> [kind |-> family.kind, rows |-> rows, stored |-> stored]]
        PROVE  PreviewIsEffect
    <3>1. PICK kind : kind = family.kind
      OBVIOUS
    <3>2. Drafting(kind, rows, DraftsOf(kind, rows), stored)
      BY <3>1, FileAsShown
    <3>3. asked.import.kind = kind /\ asked.import.rows = rows /\ asked.import.stored = stored
      BY <2>2, <3>1
    <3>4. QED
      BY <3>2, <3>3 DEF PreviewIsEffect
  <2>3. QED
    BY <2>1, <2>2 DEF AskedOfImports
<1>4. QED
  BY <1>1, <1>2, <1>3, PTL DEF ImportSpec
=============================================================================
