---------------------------- MODULE TaskApproval ----------------------------
(***************************************************************************)
(* The approval flow of modules/taskinstances (update, submit, approve and *)
(* reject) and the delete of the workflow the instances hang off.          *)
(*                                                                         *)
(* A request runs on one READ COMMITTED transaction: it loads the row with *)
(* a plain SELECT, decides on what it loaded, then writes with an UPDATE   *)
(* whose WHERE names the id alone.  The UPDATE takes the row lock, applies *)
(* to whatever the row has become, and shows at COMMIT.                    *)
(***************************************************************************)
CONSTANTS
    Instances,        \* task instances of one workflow
    People,           \* users holding every capability of the flow
    Requests,         \* slots for requests in flight
    Contents,         \* tax data, figures and dates, as far as they differ
    NeedApproval,     \* instances with approval_required
    Nobody, NoRequest

ASSUME TaskApprovalAssumption ==
    /\ NeedApproval \subseteq Instances
    /\ Nobody \notin People /\ NoRequest \notin Requests
    /\ Contents # {}

VARIABLES
    row,       \* committed rows of task_instances
    req,       \* requests in flight
    lock,      \* lock[i]: the request whose uncommitted UPDATE holds row i
    deletion,  \* the workflow's delete
    \* history
    prepared,  \* prepared[i]: the content the last submission of i was made on
    told,      \* told[i]: the status the audit entries of i lead to
    attested,  \* attested[i]: whether i was approved, and before the DELETE fired
    raced      \* instances on which two requests, or one and the delete, overlapped

vars == <<row, req, lock, deletion, prepared, told, attested, raced>>

\* not_started, in_progress, in_review and blocked are all "open" to the flow.
Statuses == {"open", "pending", "completed"}
Ops == {"update", "submit", "approve", "reject"}

Rows == [status : Statuses \cup {"gone"}, content : Contents,
         submittedBy : People \cup {Nobody}, approvedBy : People \cup {Nobody}]

Active == [at : {"loaded", "written"}, op : Ops, by : People, on : Instances,
           status : {"open", "completed"}, content : Contents,
           seen : Statuses, draft : Rows]
Idle == [at |-> "idle"]

TypeOK ==
    /\ row \in [Instances -> Rows]
    /\ req \in [Requests -> Active \cup {Idle}]
    /\ lock \in [Instances -> Requests \cup {NoRequest}]
    /\ deletion \in {"none", "counted", "fired", "done"}
    /\ prepared \in [Instances -> Contents]
    /\ told \in [Instances -> Statuses \cup {"broken"}]
    /\ attested \in [Instances -> {"no", "late", "early"}]
    /\ raced \subseteq Instances

Init ==
    /\ \E c \in Contents :
          /\ row = [i \in Instances |-> [status |-> "open", content |-> c,
                                         submittedBy |-> Nobody, approvedBy |-> Nobody]]
          /\ prepared = [i \in Instances |-> c]
    /\ req = [q \in Requests |-> Idle]
    /\ lock = [i \in Instances |-> NoRequest]
    /\ deletion = "none"
    /\ told = [i \in Instances |-> "open"]
    /\ attested = [i \in Instances |-> "no"] /\ raced = {}

-----------------------------------------------------------------------------
(***************************************************************************)
(* What each use case decides on, and what its UPDATE sets.                *)
(***************************************************************************)
IsApproved(r) == r.approvedBy # Nobody
IsPendingApproval(r) == r.status = "pending"

\* Seeded fault: Update refuses a pending record and forgets an approved one.
EditableUnlessPending(r) == ~IsPendingApproval(r)
Editable(r) == ~IsApproved(r) /\ ~IsPendingApproval(r)

\* Seeded fault: a submission forgets an approved record.
SubmittableUnlessPending(i) == i \in NeedApproval /\ ~IsPendingApproval(row[i])
Submittable(i) == i \in NeedApproval /\ Editable(row[i])

Approvable(r, p) == IsPendingApproval(r) /\ r.submittedBy # p

Allowed(op, p, i) ==
    LET r == row[i] IN
    CASE op = "update"  -> Editable(r)
      [] op = "submit"  -> Submittable(i)
      [] op = "approve" -> Approvable(r, p)
      [] op = "reject"  -> IsPendingApproval(r)

Rejected(r) == [r EXCEPT !.status = "open", !.submittedBy = Nobody]

\* The row an UPDATE leaves: columns it does not name keep what they hold now.
Edited(q, r) ==
    CASE q.op = "update"  -> [r EXCEPT !.status = q.status, !.content = q.content]
      [] q.op = "submit"  -> [r EXCEPT !.status = "pending", !.submittedBy = q.by]
      [] q.op = "approve" -> [r EXCEPT !.status = "completed", !.approvedBy = q.by]
      [] q.op = "reject"  -> Rejected(r)

-----------------------------------------------------------------------------
(***************************************************************************)
(* A request.                                                              *)
(***************************************************************************)
Busy == {req[q].on : q \in {p \in Requests : req[p].at # "idle"}}
Deleting == deletion \in {"counted", "fired"}

\* GetById and the guards.  A refused request changes nothing.
Load(q, op, p, i, s, c) ==
    /\ req[q] = Idle
    /\ row[i].status # "gone"
    /\ Allowed(op, p, i)
    /\ op # "update" => s = "open" /\ c = row[i].content
    /\ req' = [req EXCEPT ![q] =
                 [at |-> "loaded", op |-> op, by |-> p, on |-> i, status |-> s,
                  content |-> c, seen |-> row[i].status, draft |-> row[i]]]
    /\ raced' = IF i \in Busy \/ Deleting THEN raced \cup {i} ELSE raced
    /\ UNCHANGED <<row, lock, deletion, prepared, told, attested>>

\* The UPDATE, once whoever holds the row has let go of it.
Write(q) ==
    LET i == req[q].on IN
    /\ req[q].at = "loaded" /\ lock[i] = NoRequest /\ row[i].status # "gone"
    /\ req' = [req EXCEPT ![q].at = "written", ![q].draft = Edited(req[q], row[i])]
    /\ lock' = [lock EXCEPT ![i] = q]
    /\ UNCHANGED <<row, deletion, prepared, told, attested, raced>>

\* Seeded fault: both sides of the entry are read after the UPDATE.
EntryFromDraft(q) == [from |-> req[q].draft.status, to |-> req[q].draft.status]
\* What the audit entry of a request says it moved the status from and to.
Entry(q) ==
    [from |-> IF req[q].op \in {"approve", "reject"} THEN "pending" ELSE req[q].seen,
     to   |-> req[q].draft.status]

Told(q) ==
    LET t == told[req[q].on] IN
    IF Entry(q).from = Entry(q).to THEN t
    ELSE IF Entry(q).from = t THEN Entry(q).to ELSE "broken"

\* audit.Record and the COMMIT of the request's transaction.
Commit(q) ==
    LET i == req[q].on IN
    /\ req[q].at = "written"
    /\ row' = [row EXCEPT ![i] = req[q].draft]
    /\ lock' = [lock EXCEPT ![i] = NoRequest]
    /\ req' = [req EXCEPT ![q] = Idle]
    /\ prepared' = IF req[q].op = "submit" THEN [prepared EXCEPT ![i] = req[q].draft.content]
                   ELSE prepared
    /\ told' = [told EXCEPT ![i] = Told(q)]
    /\ attested' = IF req[q].op # "approve" \/ attested[i] # "no" THEN attested
                   ELSE [attested EXCEPT ![i] = IF deletion = "fired" THEN "late" ELSE "early"]
    /\ UNCHANGED <<deletion, raced>>

\* An error after the load, or an UPDATE that finds no row: all is rolled back.
Abort(q) ==
    /\ req[q].at # "idle"
    /\ req' = [req EXCEPT ![q] = Idle]
    /\ lock' = [i \in Instances |-> IF lock[i] = q THEN NoRequest ELSE lock[i]]
    /\ UNCHANGED <<row, deletion, prepared, told, attested, raced>>

-----------------------------------------------------------------------------
(***************************************************************************)
(* The delete of the workflow.                                             *)
(***************************************************************************)
\* Seeded fault: neither the census nor the trigger finds an approval.
NothingAttested == {}
AttestedRows == {i \in Instances : IsApproved(row[i])}

\* Seeded fault: the database does not count again.
TriggerAbsent == FALSE
TriggerRefuses == AttestedRows # {}

\* CountDependents, on the committed rows.
DeleteCensus ==
    /\ deletion = "none" /\ AttestedRows = {}
    /\ deletion' = "counted"
    /\ raced' = raced \cup Busy
    /\ UNCHANGED <<row, req, lock, prepared, told, attested>>

\* DELETE FROM workflows: the trigger counts again under a fresh snapshot.
DeleteFires ==
    /\ deletion = "counted"
    /\ deletion' = IF TriggerRefuses THEN "none" ELSE "fired"
    /\ UNCHANGED <<row, req, lock, prepared, told, attested, raced>>

\* The cascade waits for every row lock and deletes what the rows have become.
DeleteCascades ==
    /\ deletion = "fired" /\ \A i \in Instances : lock[i] = NoRequest
    /\ deletion' = "done"
    /\ row' = [i \in Instances |-> [row[i] EXCEPT !.status = "gone"]]
    /\ UNCHANGED <<req, lock, prepared, told, attested, raced>>

\* Any later statement of the use case fails.
DeleteAborts ==
    /\ deletion \in {"counted", "fired"} /\ deletion' = "none"
    /\ UNCHANGED <<row, req, lock, prepared, told, attested, raced>>

-----------------------------------------------------------------------------
Next ==
    \/ \E q \in Requests, op \in Ops, p \in People, i \in Instances,
          s \in {"open", "completed"}, c \in Contents : Load(q, op, p, i, s, c)
    \/ \E q \in Requests : Write(q) \/ Commit(q) \/ Abort(q)
    \/ DeleteCensus \/ DeleteFires \/ DeleteCascades \/ DeleteAborts

Spec == Init /\ [][Next]_vars

-----------------------------------------------------------------------------
(***************************************************************************)
(* What the source says of an approval.  The guards are read without a     *)
(* lock, so it holds of instances whose requests do not overlap.           *)
(***************************************************************************)
\* "Approved and therefore immutable": a change must be an amendment, not an
\* in-place edit (TaskInstance.IsApproved, MsgApprovedImmutable).
ApprovedIsImmutable ==
    [][\A i \in Instances : IsApproved(row[i]) => row'[i] = row[i]]_row

\* The same, where nothing overlapped.
ApprovedIsFrozen ==
    [][\A i \in Instances \ raced : IsApproved(row[i]) => row'[i] = row[i]]_row

\* An approval attests to what somebody else submitted (the separation of duties
\* of Approve), and the record stays completed.
ApprovedAsSubmitted ==
    \A i \in Instances \ raced : IsApproved(row[i]) =>
        /\ row[i].approvedBy # row[i].submittedBy
        /\ row[i].content = prepared[i] /\ row[i].status = "completed"

\* The entries of an instance join up: each starts where the last one ended,
\* and they end where the row is (auditValues).
TrailFaithful ==
    \A i \in Instances \ raced : row[i].status # "gone" => told[i] = row[i].status

\* The record of an approval is right in both places: the row attests what it was asked
\* for (Approve), and its audit entries tell the same story (auditValues).
RecordsAgree == ApprovedAsSubmitted /\ TrailFaithful

(***************************************************************************)
(* What is left of that when requests overlap.                             *)
(***************************************************************************)
\* No statement takes an approval back, however stale what it was decided on
\* (rejectSQL and the UPDATE of an edit leave approved_by alone).
ApprovalSticks ==
    [][\A i \in Instances : IsApproved(row[i]) => IsApproved(row'[i])]_row

\* An approved instance is not the collateral of a delete (migration 23): it
\* goes only if requests overlapped the delete and the approval came after the
\* DELETE had fired.
EarlyApprovalSurvives ==
    \A i \in Instances :
        attested[i] = "early" \/ (attested[i] = "late" /\ i \notin raced)
            => row[i].status # "gone"

=============================================================================
