------------------------- MODULE TaskApprovalProofs -------------------------
(* Theorems about TaskApproval, for any number of overlapping requests. *)
EXTENDS TaskApproval, TLAPS

USE DEF Statuses, Ops, Rows, Active, Idle

(***************************************************************************)
(* Types, and what the row lock is good for: between its UPDATE and its    *)
(* COMMIT a request alone may change the row, so an approval it saw there  *)
(* is still in the draft it commits.                                       *)
(***************************************************************************)
LockOK ==
    \A q \in Requests : req[q].at = "written" =>
        /\ lock[req[q].on] = q
        /\ req[q].draft.status # "gone"
        /\ req[q].op = "approve" => IsApproved(req[q].draft)
        /\ IsApproved(row[req[q].on]) => IsApproved(req[q].draft)

\* The variables keep their types; the status column only ever holds a status
\* the flow knows.
LEMMA InitTypeOK == Init => TypeOK /\ LockOK
  BY TaskApprovalAssumption DEF Init, TypeOK, LockOK

LEMMA NextTypeOK == TypeOK /\ LockOK /\ [Next]_vars => TypeOK' /\ LockOK'
<1> SUFFICES ASSUME TypeOK, LockOK, [Next]_vars PROVE TypeOK' /\ LockOK'
  OBVIOUS
<1> USE TaskApprovalAssumption DEF TypeOK, LockOK, IsApproved
<1>1. ASSUME NEW q \in Requests, NEW op \in Ops, NEW p \in People, NEW i \in Instances,
             NEW s \in {"open", "completed"}, NEW c \in Contents, Load(q, op, p, i, s, c)
      PROVE  TypeOK' /\ LockOK'
  BY <1>1 DEF Load
<1>2. ASSUME NEW q \in Requests, Write(q) PROVE TypeOK' /\ LockOK'
  <2>1. req[q] \in Active
    BY <1>2 DEF Write
  <2>2. PICK i \in Instances : i = req[q].on
    BY <2>1
  <2>3. /\ Edited(req[q], row[i]) \in Rows
        /\ Edited(req[q], row[i]).status # "gone"
        /\ req[q].op = "approve" => IsApproved(Edited(req[q], row[i]))
        /\ IsApproved(row[i]) => IsApproved(Edited(req[q], row[i]))
    BY <1>2, <2>1, <2>2, SMTT(60) DEF Write, Edited, Rejected
  <2>4. req' = [req EXCEPT ![q].at = "written", ![q].draft = Edited(req[q], row[i])]
    BY <1>2, <2>2 DEF Write
  <2>5. lock' = [lock EXCEPT ![i] = q] /\ lock[i] = NoRequest
    BY <1>2, <2>2 DEF Write
  <2>6. UNCHANGED <<row, deletion, prepared, told, attested, raced>>
    BY <1>2 DEF Write
  <2>7. req'[q] \in Active /\ req'[q].on = i /\ req'[q].op = req[q].op /\ req'[q].draft = Edited(req[q], row[i])
    BY <2>1, <2>2, <2>3, <2>4, ZenonT(120)
  <2>8. TypeOK'
    BY <2>4, <2>5, <2>6, <2>7
  <2>9. LockOK'
    BY <2>2, <2>3, <2>4, <2>5, <2>6, <2>7, SMTT(60)
  <2>10. QED
    BY <2>8, <2>9
<1>3. ASSUME NEW q \in Requests, Commit(q) PROVE TypeOK' /\ LockOK'
  <2>1. req[q] \in Active
    BY <1>3 DEF Commit
  <2>2. TypeOK'
    BY <1>3, <2>1 DEF Commit, Told, Entry
  <2>3. ASSUME NEW p \in Requests, req'[p].at = "written"
        PROVE  p # q /\ req'[p] = req[p] /\ req[p] \in Active /\ req[p].on # req[q].on
    BY <1>3, <2>1, <2>3 DEF Commit
  <2>4. LockOK'
    BY <1>3, <2>1, <2>3 DEF Commit
  <2>5. QED
    BY <2>2, <2>4
<1>4. ASSUME NEW q \in Requests, Abort(q) PROVE TypeOK' /\ LockOK'
  <2>1. TypeOK'
    BY <1>4 DEF Abort
  <2>2. ASSUME NEW p \in Requests, req'[p].at = "written"
        PROVE  p # q /\ req'[p] = req[p] /\ req[p] \in Active
    BY <1>4, <2>2 DEF Abort
  <2>3. ASSUME NEW p \in Requests, req'[p].at = "written"
        PROVE  lock'[req[p].on] = p
    BY <1>4, <2>2, <2>3 DEF Abort
  <2>4. UNCHANGED row
    BY <1>4 DEF Abort
  <2>5. LockOK'
    BY <2>2, <2>3, <2>4
  <2>6. QED
    BY <2>1, <2>5
<1>5. CASE DeleteCascades
  <2>1. ASSUME NEW q \in Requests, req[q].at = "written" PROVE FALSE
    <3>1. req[q] \in Active
      BY <2>1
    <3>2. QED
      BY <1>5, <2>1, <3>1 DEF DeleteCascades
  <2>2. LockOK'
    BY <1>5, <2>1 DEF DeleteCascades
  <2>3. ASSUME NEW i \in Instances PROVE [row[i] EXCEPT !.status = "gone"] \in Rows
    <3>1. row[i] \in Rows
      OBVIOUS
    <3>2. [row[i] EXCEPT !.status = "gone"]
            = [status |-> "gone", content |-> row[i].content,
               submittedBy |-> row[i].submittedBy, approvedBy |-> row[i].approvedBy]
      BY <3>1
    <3>3. QED
      BY <3>1, <3>2
  <2>4. row' \in [Instances -> Rows]
    BY <1>5, <2>3 DEF DeleteCascades
  <2>5. TypeOK'
    BY <1>5, <2>4 DEF DeleteCascades
  <2>6. QED
    BY <2>2, <2>5
<1>6. CASE DeleteCensus \/ DeleteFires \/ DeleteAborts
  <2>1. UNCHANGED <<row, req, lock, prepared, told, attested>>
    BY <1>6 DEF DeleteCensus, DeleteFires, DeleteAborts
  <2>0. raced' \subseteq Instances
    <3>1. ASSUME NEW q \in Requests, req[q].at # "idle" PROVE req[q].on \in Instances
      BY <3>1
    <3>2. QED
      BY <1>6, <3>1 DEF DeleteCensus, DeleteFires, DeleteAborts, Busy
  <2>2. deletion' \in {"none", "counted", "fired", "done"}
    BY <1>6 DEF DeleteCensus, DeleteFires, DeleteAborts
  <2>3. QED
    BY <2>0, <2>1, <2>2
<1>7. CASE UNCHANGED vars
  BY <1>7 DEF vars
<1> HIDE DEF TypeOK, LockOK, IsApproved
<1>8. CASE \E q \in Requests : Write(q) \/ Commit(q) \/ Abort(q)
  BY <1>2, <1>3, <1>4, <1>8
<1>9. CASE \E q \in Requests, op \in Ops, p \in People, i \in Instances,
              s \in {"open", "completed"}, c \in Contents : Load(q, op, p, i, s, c)
  <2>1. PICK q \in Requests, op \in Ops, p \in People, i \in Instances,
             s \in {"open", "completed"}, c \in Contents : Load(q, op, p, i, s, c)
    BY <1>9
  <2>2. QED
    BY <1>1, <2>1, SMTT(60)
<1>10. QED
  BY <1>5, <1>6, <1>7, <1>8, <1>9 DEF Next

THEOREM TypeCorrect == Spec => []TypeOK
<1>1. QED
  BY InitTypeOK, NextTypeOK, PTL DEF Spec

-----------------------------------------------------------------------------
LEMMA StepApprovalSticks ==
  ASSUME TypeOK, LockOK, [Next]_vars, NEW i \in Instances, IsApproved(row[i])
  PROVE  IsApproved(row'[i])
<1> USE DEF TypeOK, LockOK, IsApproved
<1>1. ASSUME NEW q \in Requests, Commit(q) PROVE IsApproved(row'[i])
  <2>1. req[q] \in Active
    BY <1>1 DEF Commit
  <2>2. QED
    BY <1>1, <2>1 DEF Commit
<1>2. CASE DeleteCascades
  BY <1>2 DEF DeleteCascades
<1>3. CASE UNCHANGED row
  BY <1>3
<1>4. QED
  BY <1>1, <1>2, <1>3, ZenonT(120)
  DEF Next, Load, Write, Abort, DeleteCensus, DeleteFires, DeleteAborts, vars

\* However the requests overlap, no statement of the flow takes an approval
\* back: rejectSQL and the UPDATE of an edit leave approved_by alone.
THEOREM ApprovalsStick == Spec => ApprovalSticks
<1>1. TypeOK /\ LockOK /\ [Next]_vars
        => [\A i \in Instances : IsApproved(row[i]) => IsApproved(row'[i])]_row
  BY StepApprovalSticks
<1>2. QED
  BY <1>1, InitTypeOK, NextTypeOK, PTL DEF Spec, ApprovalSticks

-----------------------------------------------------------------------------
(***************************************************************************)
(* The delete trigger.  An early approval is still in its row, so the      *)
(* second count meets it; once the DELETE has fired there is none.         *)
(***************************************************************************)
EarlyInv ==
    /\ \A i \in Instances : attested[i] = "early" =>
          IsApproved(row[i]) /\ row[i].status # "gone" /\ deletion # "fired"
    /\ \A i \in Instances : attested[i] = "late" => i \in raced
    /\ Deleting => \A q \in Requests : req[q].at # "idle" => req[q].on \in raced

LEMMA InitEarlyInv == Init => EarlyInv
  BY DEF Init, EarlyInv, Deleting

LEMMA NextEarlyInv == TypeOK /\ LockOK /\ EarlyInv /\ [Next]_vars => EarlyInv'
<1> SUFFICES ASSUME TypeOK, LockOK, EarlyInv, [Next]_vars PROVE EarlyInv'
  OBVIOUS
<1> USE DEF TypeOK, LockOK, EarlyInv, IsApproved, Deleting
<1>1. ASSUME NEW q \in Requests, NEW op \in Ops, NEW p \in People, NEW i \in Instances,
             NEW s \in {"open", "completed"}, NEW c \in Contents, Load(q, op, p, i, s, c)
      PROVE  EarlyInv'
  BY <1>1 DEF Load
<1>2. ASSUME NEW q \in Requests, Write(q) PROVE EarlyInv'
  <2>1. req[q] \in Active
    BY <1>2 DEF Write
  <2>2. QED
    BY <1>2, <2>1 DEF Write
<1>3. ASSUME NEW q \in Requests, Commit(q) PROVE EarlyInv'
  <2>1. req[q] \in Active /\ req[q].draft.status # "gone" /\ req[q].at # "idle"
    BY <1>3 DEF Commit
  <2>2. ASSUME NEW i \in Instances, attested'[i] = "early"
        PROVE  IsApproved(row'[i]) /\ row'[i].status # "gone" /\ deletion' # "fired"
    BY <1>3, <2>1, <2>2 DEF Commit
  <2>3. ASSUME NEW i \in Instances, attested'[i] = "late" PROVE i \in raced'
    BY <1>3, <2>1, <2>3 DEF Commit
  <2>4. QED
    BY <1>3, <2>1, <2>2, <2>3 DEF Commit
<1>4. CASE DeleteFires
  BY <1>4 DEF DeleteFires, TriggerRefuses, AttestedRows
<1>5. CASE DeleteCascades
  BY <1>5 DEF DeleteCascades
<1>6. CASE DeleteCensus
  BY <1>6 DEF DeleteCensus, Busy
<1>7. CASE DeleteAborts
  BY <1>7 DEF DeleteAborts
<1>8. ASSUME NEW q \in Requests, Abort(q) PROVE EarlyInv'
  BY <1>8 DEF Abort
<1>9. CASE UNCHANGED vars
  BY <1>9 DEF vars
<1>10. CASE \E q \in Requests, op \in Ops, p \in People, i \in Instances,
               s \in {"open", "completed"}, c \in Contents : Load(q, op, p, i, s, c)
  <2>1. PICK q \in Requests, op \in Ops, p \in People, i \in Instances,
             s \in {"open", "completed"}, c \in Contents : Load(q, op, p, i, s, c)
    BY <1>10
  <2>2. QED
    BY <1>1, <2>1
<1>11. QED
  BY <1>2, <1>3, <1>4, <1>5, <1>6, <1>7, <1>8, <1>9, <1>10 DEF Next

\* refuse_delete_with_attested_work: an approval committed before the DELETE
\* fires, after the census or before it, keeps its row; so does any other that
\* overlapped no delete.
THEOREM EarlyApprovalsSurvive == Spec => []EarlyApprovalSurvives
<1>1. EarlyInv => EarlyApprovalSurvives
  BY DEF EarlyInv, EarlyApprovalSurvives
<1>2. QED
  BY <1>1, InitTypeOK, NextTypeOK, InitEarlyInv, NextEarlyInv, PTL DEF Spec

-----------------------------------------------------------------------------
(***************************************************************************)
(* Where nothing overlaps, a request writes what it decided on: its guards *)
(* still hold of the row, and the row is the one it saw.                   *)
(***************************************************************************)
Under(q) == req[q].at # "idle"

Alone ==
    \A p, q \in Requests : p # q /\ Under(p) /\ Under(q) /\ req[p].on = req[q].on
        => req[p].on \in raced
Standing(q) ==
    LET r == row[req[q].on] IN
    /\ r.status # "gone" /\ req[q].seen = r.status
    /\ Allowed(req[q].op, req[q].by, req[q].on)
    /\ req[q].at = "written" => req[q].draft = Edited(req[q], r)
DecidedOnThis ==
    \A q \in Requests : Under(q) /\ req[q].on \notin raced => Standing(q)
RowsRight ==
    \A i \in Instances \ raced :
        /\ IsApproved(row[i]) => attested[i] # "no"
        /\ row[i].status = "pending" => row[i].content = prepared[i] /\ ~IsApproved(row[i])

SoloInv == Alone /\ DecidedOnThis /\ RowsRight /\ RecordsAgree

LEMMA InitSolo == Init => SoloInv
  BY TaskApprovalAssumption
  DEF Init, SoloInv, Alone, DecidedOnThis, RowsRight, RecordsAgree, ApprovedAsSubmitted, TrailFaithful,
      IsApproved, Under

\* Nothing that an instance says has changed: neither what a request on it decided, nor the records.
LEMMA SoloUnchanged ==
    ASSUME TypeOK, SoloInv, UNCHANGED <<row, prepared, told, attested>>, raced \subseteq raced',
           Alone', DecidedOnThis'
    PROVE  SoloInv'
  BY DEF SoloInv, RowsRight, RecordsAgree, ApprovedAsSubmitted, TrailFaithful, IsApproved

\* What a request decided stands while neither it nor its row changes.
LEMMA StandingKept ==
    ASSUME NEW o \in Requests, Standing(o), req'[o] = req[o], row'[req[o].on] = row[req[o].on]
    PROVE  Standing(o)'
  BY DEF Standing, Allowed, Editable, Submittable, Approvable, IsPendingApproval, IsApproved

\* The row that a request on its own commits, and what is then told of it.
LEMMA CommitsRight ==
    ASSUME TypeOK, EarlyInv, SoloInv, NEW q \in Requests, Commit(q), req[q].on \notin raced
    PROVE  LET i == req[q].on IN
           /\ ~IsApproved(row[i])
           /\ IsApproved(row'[i]) => /\ attested'[i] # "no" /\ row'[i].status = "completed"
                                     /\ row'[i].approvedBy # row'[i].submittedBy
                                     /\ row'[i].content = prepared'[i]
           /\ row'[i].status = "pending" => row'[i].content = prepared'[i] /\ ~IsApproved(row'[i])
           /\ told'[i] = row'[i].status
<1> DEFINE i == req[q].on
           d == req[q].draft
<1>1. req[q] \in Active /\ req[q].at = "written" /\ i \in Instances /\ row[i] \in Rows
  BY DEF Commit, TypeOK
<1>2. /\ row[i].status # "gone" /\ req[q].seen = row[i].status
      /\ Allowed(req[q].op, req[q].by, i) /\ d = Edited(req[q], row[i])
  BY <1>1 DEF SoloInv, DecidedOnThis, Standing, Under
<1>3. /\ row'[i] = d /\ told'[i] = Told(q)
      /\ prepared'[i] = (IF req[q].op = "submit" THEN d.content ELSE prepared[i])
      /\ req[q].op = "approve" => attested'[i] # "no"
  BY <1>1 DEF Commit, TypeOK
<1>4. /\ row[i].status = "pending" => row[i].content = prepared[i] /\ ~IsApproved(row[i])
      /\ told[i] = row[i].status
  BY <1>1, <1>2 DEF SoloInv, RowsRight, RecordsAgree, TrailFaithful
<1>5. ~IsApproved(row[i])
  BY <1>1, <1>2, <1>4 DEF Allowed, Editable, Submittable, Approvable, IsPendingApproval
<1>6. told'[i] = d.status
  <2>1. Entry(q).from = row[i].status /\ Entry(q).to = d.status
    BY <1>1, <1>2 DEF Entry, Allowed, Approvable, IsPendingApproval
  <2>2. QED
    BY <1>3, <1>4, <2>1 DEF Told
<1>7. CASE req[q].op = "update"
  <2>1. d.status = req[q].status /\ d.approvedBy = row[i].approvedBy
    BY <1>1, <1>2, <1>7 DEF Edited
  <2>2. QED
    BY <1>1, <1>3, <1>5, <1>6, <2>1 DEF IsApproved
<1>8. CASE req[q].op = "submit"
  <2>1. d.status = "pending" /\ d.approvedBy = row[i].approvedBy
    BY <1>1, <1>2, <1>8 DEF Edited
  <2>2. QED
    BY <1>3, <1>5, <1>6, <1>8, <2>1 DEF IsApproved
<1>9. CASE req[q].op = "approve"
  <2>1. /\ d.status = "completed" /\ d.approvedBy = req[q].by /\ d.submittedBy = row[i].submittedBy
        /\ d.content = row[i].content
    BY <1>1, <1>2, <1>9 DEF Edited
  <2>2. row[i].status = "pending" /\ row[i].submittedBy # req[q].by
    BY <1>2, <1>9 DEF Allowed, Approvable, IsPendingApproval
  <2>3. QED
    BY <1>3, <1>4, <1>5, <1>6, <1>9, <2>1, <2>2
<1>10. CASE req[q].op = "reject"
  <2>1. d.status = "open" /\ d.approvedBy = row[i].approvedBy
    BY <1>1, <1>2, <1>10 DEF Edited, Rejected
  <2>2. QED
    BY <1>3, <1>5, <1>6, <2>1 DEF IsApproved
<1>11. QED
  BY <1>1, <1>7, <1>8, <1>9, <1>10

LEMMA SoloLoad ==
    ASSUME TypeOK, SoloInv, NEW q \in Requests, NEW op \in Ops, NEW p \in People, NEW i \in Instances,
           NEW s \in {"open", "completed"}, NEW c \in Contents, Load(q, op, p, i, s, c)
    PROVE  SoloInv'
<1> DEFINE r == [at |-> "loaded", op |-> op, by |-> p, on |-> i, status |-> s,
                 content |-> c, seen |-> row[i].status, draft |-> row[i]]
<1>1. /\ req' = [req EXCEPT ![q] = r] /\ UNCHANGED <<row, lock, deletion, prepared, told, attested>>
      /\ raced \subseteq raced' /\ raced' \subseteq raced \cup {i} /\ (i \in Busy => i \in raced')
      /\ row[i].status # "gone" /\ Allowed(op, p, i)
  BY DEF Load
<1>2. /\ req'[q] = r /\ \A o \in Requests \ {q} : req'[o] = req[o]
      /\ r.at = "loaded" /\ r.on = i /\ r.op = op /\ r.by = p /\ r.seen = row[i].status
  BY <1>1 DEF TypeOK
<1> HIDE DEF r
<1>3. Alone'
  <2>1. ASSUME NEW o \in Requests \ {q}, Under(o), req[o].on = i
        PROVE  i \in raced'
    BY <1>1, <2>1 DEF Busy, Under
  <2>2. QED
    BY <1>1, <1>2, <2>1 DEF SoloInv, Alone, Under
<1>4. ASSUME NEW o \in Requests, Under(o)', (req[o].on \notin raced)' PROVE Standing(o)'
  <2>1. CASE o = q
    BY <1>1, <1>2, <2>1
    DEF Standing, Allowed, Editable, Submittable, Approvable, IsPendingApproval, IsApproved
  <2>2. CASE o # q
    <3>1. Standing(o) /\ req'[o] = req[o] /\ row' = row
      BY <1>1, <1>2, <1>4, <2>2 DEF SoloInv, DecidedOnThis, Under
    <3>2. QED
      BY <3>1, StandingKept
  <2>3. QED
    BY <2>1, <2>2
<1>5. DecidedOnThis'
  BY <1>4 DEF DecidedOnThis
<1>6. QED
  BY <1>1, <1>3, <1>5, SoloUnchanged

LEMMA SoloWrite ==
    ASSUME TypeOK, SoloInv, NEW q \in Requests, Write(q)
    PROVE  SoloInv'
<1> DEFINE i == req[q].on
           d == Edited(req[q], row[i])
<1>1. /\ req[q] \in Active /\ req' = [req EXCEPT ![q].at = "written", ![q].draft = d]
      /\ req \in [Requests -> Active \cup {Idle}]
  BY DEF Write, TypeOK
<1>2. UNCHANGED <<row, deletion, prepared, told, attested, raced>>
  BY DEF Write
<1>3. d = Edited(req[q], row[i])
  OBVIOUS
<1> HIDE DEF d
<1>4. /\ req'[q].at = "written" /\ req'[q].on = i /\ req'[q].op = req[q].op
      /\ req'[q].by = req[q].by /\ req'[q].seen = req[q].seen /\ req'[q].status = req[q].status
      /\ req'[q].content = req[q].content /\ req'[q].draft = d
  BY <1>1
<1>5. \A o \in Requests \ {q} : req'[o] = req[o]
  BY <1>1
<1>6. Under(q)
  BY <1>1 DEF Under
<1>7. Alone'
  <2>1. \A o \in Requests : req'[o].on = req[o].on /\ (Under(o)' => Under(o))
    BY <1>4, <1>5, <1>6 DEF Under
  <2>2. QED
    BY <1>2, <2>1 DEF SoloInv, Alone
<1>8. ASSUME NEW o \in Requests, Under(o)', (req[o].on \notin raced)' PROVE Standing(o)'
  <2>1. Under(o) /\ req[o].on \notin raced
    BY <1>2, <1>4, <1>5, <1>6, <1>8 DEF Under
  <2>2. Standing(o)
    BY <2>1 DEF SoloInv, DecidedOnThis
  <2>3. CASE o = q
    <3>1. req'[q].draft = Edited(req'[q], row[i])
      BY <1>3, <1>4 DEF Edited, Rejected
    <3>2. QED
      BY <1>2, <1>4, <2>2, <2>3, <3>1
      DEF Standing, Allowed, Editable, Submittable, Approvable, IsPendingApproval, IsApproved
  <2>4. CASE o # q
    BY <1>2, <1>5, <2>2, <2>4, StandingKept
  <2>5. QED
    BY <2>3, <2>4
<1>9. DecidedOnThis'
  BY <1>8 DEF DecidedOnThis
<1>10. QED
  BY <1>2, <1>7, <1>9, SoloUnchanged

LEMMA SoloCommit ==
    ASSUME TypeOK, EarlyInv, SoloInv, NEW q \in Requests, Commit(q)
    PROVE  SoloInv'
<1> DEFINE i == req[q].on
<1>1. /\ req[q] \in Active /\ i \in Instances /\ req' = [req EXCEPT ![q] = Idle] /\ raced' = raced
      /\ \A j \in Instances \ {i} : /\ row'[j] = row[j] /\ told'[j] = told[j]
                                    /\ prepared'[j] = prepared[j] /\ attested'[j] = attested[j]
      /\ Under(q)
  BY DEF Commit, TypeOK, Under
<1>2. req'[q].at = "idle" /\ \A o \in Requests \ {q} : req'[o] = req[o]
  BY <1>1 DEF TypeOK
<1>3. Alone'
  BY <1>1, <1>2 DEF SoloInv, Alone, Under
<1>4. ASSUME NEW o \in Requests, Under(o)', (req[o].on \notin raced)' PROVE Standing(o)'
  <2>1. o # q /\ req'[o] = req[o] /\ Under(o) /\ req[o].on \notin raced
    BY <1>1, <1>2, <1>4 DEF Under
  <2>2. req[o] \in Active
    BY <2>1 DEF TypeOK, Under
  <2>3. Standing(o) /\ req[o].on # i
    BY <1>1, <2>1 DEF SoloInv, Alone, DecidedOnThis
  <2>4. row'[req[o].on] = row[req[o].on]
    BY <1>1, <2>2, <2>3
  <2>5. QED
    BY <2>1, <2>3, <2>4, StandingKept
<1>5. DecidedOnThis'
  BY <1>4 DEF DecidedOnThis
<1>6. ASSUME NEW j \in Instances \ raced
      PROVE  /\ IsApproved(row'[j]) => /\ attested'[j] # "no" /\ row'[j].status = "completed"
                                       /\ row'[j].approvedBy # row'[j].submittedBy
                                       /\ row'[j].content = prepared'[j]
             /\ row'[j].status = "pending" => row'[j].content = prepared'[j] /\ ~IsApproved(row'[j])
             /\ row'[j].status # "gone" => told'[j] = row'[j].status
  <2>1. CASE j = i
    BY <2>1, CommitsRight
  <2>2. CASE j # i
    BY <1>1, <2>2 DEF SoloInv, RowsRight, RecordsAgree, ApprovedAsSubmitted, TrailFaithful
  <2>3. QED
    BY <2>1, <2>2
<1>7. RowsRight' /\ ApprovedAsSubmitted' /\ TrailFaithful'
  BY <1>1, <1>6 DEF RowsRight, ApprovedAsSubmitted, TrailFaithful, IsApproved
<1>8. QED
  BY <1>3, <1>5, <1>7 DEF SoloInv, RecordsAgree

LEMMA SoloAbort ==
    ASSUME TypeOK, SoloInv, NEW q \in Requests, Abort(q)
    PROVE  SoloInv'
<1>1. /\ req' = [req EXCEPT ![q] = Idle]
      /\ UNCHANGED <<row, deletion, prepared, told, attested, raced>>
  BY DEF Abort
<1>2. req'[q].at = "idle" /\ \A o \in Requests \ {q} : req'[o] = req[o]
  BY <1>1 DEF TypeOK
<1>3. Alone'
  BY <1>1, <1>2 DEF SoloInv, Alone, Under
<1>4. ASSUME NEW o \in Requests, Under(o)', (req[o].on \notin raced)' PROVE Standing(o)'
  <2>1. Standing(o) /\ req'[o] = req[o] /\ row' = row
    BY <1>1, <1>2, <1>4 DEF SoloInv, DecidedOnThis, Under
  <2>2. QED
    BY <2>1, StandingKept
<1>5. DecidedOnThis'
  BY <1>4 DEF DecidedOnThis
<1>6. QED
  BY <1>1, <1>3, <1>5, SoloUnchanged

\* The delete: its census marks whoever is under way, and the cascade, which the
\* trigger has let through, finds no approval on an instance that was left alone.
LEMMA SoloDelete ==
    ASSUME TypeOK, EarlyInv, SoloInv, DeleteCensus \/ DeleteFires \/ DeleteCascades \/ DeleteAborts
    PROVE  SoloInv'
<1>1. UNCHANGED <<req, prepared, told, attested>> /\ raced \subseteq raced'
  BY DEF DeleteCensus, DeleteFires, DeleteCascades, DeleteAborts
<1>2. Alone'
  BY <1>1 DEF SoloInv, Alone, Under
<1>3. CASE ~DeleteCascades
  <2>1. row' = row
    BY <1>3 DEF DeleteCensus, DeleteFires, DeleteAborts
  <2>2. ASSUME NEW o \in Requests, Under(o)', (req[o].on \notin raced)' PROVE Standing(o)'
    <3>1. Standing(o)
      BY <1>1, <2>2 DEF SoloInv, DecidedOnThis, Under
    <3>2. QED
      BY <1>1, <2>1, <3>1, StandingKept
  <2>3. DecidedOnThis'
    BY <2>2 DEF DecidedOnThis
  <2>4. QED
    BY <1>1, <1>2, <2>1, <2>3, SoloUnchanged
<1>4. CASE DeleteCascades
  <2>1. /\ raced' = raced /\ \A q \in Requests : Under(q) => req[q].on \in raced
        /\ \A i \in Instances : attested[i] # "early"
    BY <1>4 DEF DeleteCascades, EarlyInv, Deleting, Under
  <2>2. ASSUME NEW i \in Instances \ raced
        PROVE  row'[i].status = "gone" /\ ~IsApproved(row'[i])
    <3>1. ~IsApproved(row[i])
      BY <2>1 DEF SoloInv, RowsRight, EarlyInv, TypeOK
    <3>2. row[i] \in Rows /\ row' = [j \in Instances |-> [row[j] EXCEPT !.status = "gone"]]
      BY <1>4 DEF DeleteCascades, TypeOK
    <3>3. QED
      BY <3>1, <3>2 DEF IsApproved
  <2>3. DecidedOnThis'
    BY <1>1, <2>1 DEF DecidedOnThis, Under
  <2>4. RowsRight' /\ ApprovedAsSubmitted' /\ TrailFaithful'
    BY <2>1, <2>2 DEF RowsRight, ApprovedAsSubmitted, TrailFaithful, IsApproved
  <2>5. QED
    BY <1>2, <2>3, <2>4 DEF SoloInv, RecordsAgree
<1>5. QED
  BY <1>3, <1>4

LEMMA NextSolo == TypeOK /\ EarlyInv /\ SoloInv /\ [Next]_vars => SoloInv'
<1> SUFFICES ASSUME TypeOK, EarlyInv, SoloInv, [Next]_vars PROVE SoloInv'
  OBVIOUS
<1>1. CASE \E q \in Requests, op \in Ops, p \in People, i \in Instances,
              s \in {"open", "completed"}, c \in Contents : Load(q, op, p, i, s, c)
  <2>1. PICK q \in Requests, op \in Ops, p \in People, i \in Instances,
             s \in {"open", "completed"}, c \in Contents : Load(q, op, p, i, s, c)
    BY <1>1
  <2>2. QED
    BY <2>1, SoloLoad
<1>2. CASE \E q \in Requests : Write(q) \/ Commit(q) \/ Abort(q)
  BY <1>2, SoloWrite, SoloCommit, SoloAbort
<1>3. CASE DeleteCensus \/ DeleteFires \/ DeleteCascades \/ DeleteAborts
  BY <1>3, SoloDelete
<1>4. CASE UNCHANGED vars
  <2>1. ASSUME NEW o \in Requests, Standing(o) PROVE Standing(o)'
    BY <1>4, <2>1, StandingKept DEF vars
  <2>2. Alone' /\ DecidedOnThis'
    BY <1>4, <2>1 DEF vars, SoloInv, Alone, DecidedOnThis, Under
  <2>3. QED
    BY <1>4, <2>2, SoloUnchanged DEF vars
<1>5. QED
  BY <1>1, <1>2, <1>3, <1>4 DEF Next

\* Approve, and the audit entries of the flow (auditValues): on an instance whose
\* requests do not overlap, whoever approved is not who submitted, the record is
\* the one that was submitted, and its entries lead from status to status up to
\* the one it has.
THEOREM RecordsAlwaysAgree == Spec => []RecordsAgree
<1>1. SoloInv => RecordsAgree
  BY DEF SoloInv
<1>2. QED
  BY <1>1, InitTypeOK, NextTypeOK, InitEarlyInv, NextEarlyInv, InitSolo, NextSolo, PTL DEF Spec

LEMMA StepFrozen ==
  ASSUME TypeOK, EarlyInv, SoloInv, [Next]_vars, NEW i \in Instances \ raced, IsApproved(row[i])
  PROVE  row'[i] = row[i]
<1>1. ASSUME NEW q \in Requests, Commit(q) PROVE row'[i] = row[i]
  <2>1. req[q] \in Active
    BY <1>1 DEF Commit, TypeOK
  <2>2. req[q].on # i
    BY <1>1, CommitsRight
  <2>3. QED
    BY <1>1, <2>1, <2>2 DEF Commit, TypeOK
<1>2. CASE DeleteCascades
  BY <1>2 DEF DeleteCascades, EarlyInv, SoloInv, RowsRight, TypeOK
<1>3. CASE UNCHANGED row
  BY <1>3
<1>4. QED
  BY <1>1, <1>2, <1>3, ZenonT(120)
  DEF Next, Load, Write, Abort, DeleteCensus, DeleteFires, DeleteAborts, vars

\* "Approved and therefore immutable" (TaskInstance.IsApproved): no edit, no
\* second decision and no delete of the workflow changes an approved instance
\* whose requests do not overlap.
THEOREM ApprovedStaysFrozen == Spec => ApprovedIsFrozen
<1>1. TypeOK /\ EarlyInv /\ SoloInv /\ [Next]_vars
        => [\A i \in Instances \ raced : IsApproved(row[i]) => row'[i] = row[i]]_row
  BY StepFrozen
<1>2. QED
  BY <1>1, InitTypeOK, NextTypeOK, InitEarlyInv, NextEarlyInv, InitSolo, NextSolo, PTL
  DEF Spec, ApprovedIsFrozen

=============================================================================
