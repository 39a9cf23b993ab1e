------------------------------ MODULE Documents ------------------------------
(***************************************************************************)
(* The documents of one workflow (modules/documents): uploads, versions,   *)
(* edits and soft deletes, with the delete of the workflow that takes them *)
(* along and queues their objects for reclaim (modules/workflows).         *)
(*                                                                         *)
(* Rows live in Postgres and change when a transaction commits; bytes live *)
(* in an object store that knows no transactions.  A request uploads at    *)
(* most one object, under a key of its own: the key is named by the        *)
(* request.  Only the task instance's status matters of the instance the   *)
(* documents are attached to.                                              *)
(***************************************************************************)
EXTENDS Naturals

CONSTANTS
    Docs,       \* identifiers of documents
    Attached,   \* those attached to the task instance
    Requests,   \* each is one request, and the key of the object it uploads
    NoOne,
    MaxFaults   \* bound: failed steps and crashes

ASSUME DocumentsAssumption ==
    /\ Attached \subseteq Docs /\ NoOne \notin Requests /\ MaxFaults \in Nat

VARIABLES
    docs,       \* committed rows of documents
    versions,   \* committed rows of document_versions
    store,      \* keys of the objects in the store
    reclaim,    \* keys in storage_reclaim
    req,        \* the requests
    holder,     \* holder[d]: the request whose uncommitted UPDATE holds row d
    instance,   \* status of the task instance
    purge,      \* the delete of the workflow
    \* history and bound
    stale,      \* requests that checked the instance before it was locked
    strays,     \* keys of objects a failure has left behind
    late,       \* keys committed after the delete collected the keys
    faults

vars == <<docs, versions, store, reclaim, req, holder, instance, purge, stale, strays, late, faults>>

Ops == {"create", "add", "update", "delete"}
Rows == [state : {"none", "live", "deleted", "gone"}, version : Nat, updatedBy : Requests \cup {NoOne}]
Versions == [doc : Docs, n : Nat, key : Requests]

InFlight == [at : {"checked", "bumped", "stored", "written"}, op : Ops, doc : Docs, n : Nat]
Fresh == [at |-> "new"]
Answered == [at |-> "done"]

TypeOK ==
    /\ docs \in [Docs -> Rows] /\ versions \subseteq Versions
    /\ store \subseteq Requests /\ reclaim \subseteq Requests
    /\ req \in [Requests -> InFlight \cup {Fresh, Answered}]
    /\ holder \in [Docs -> Requests \cup {NoOne}]
    /\ instance \in {"open", "pending", "approved"}
    /\ purge \in [at : {"none", "queued", "fired", "done"}, keys : SUBSET Requests]
    /\ stale \subseteq Requests /\ strays \subseteq Requests /\ late \subseteq Requests
    /\ faults \in Nat

Init ==
    /\ docs = [d \in Docs |-> [state |-> "none", version |-> 0, updatedBy |-> NoOne]]
    /\ versions = {} /\ store = {} /\ reclaim = {}
    /\ req = [q \in Requests |-> Fresh] /\ holder = [d \in Docs |-> NoOne]
    /\ instance = "open" /\ purge = [at |-> "none", keys |-> {}]
    /\ stale = {} /\ strays = {} /\ late = {} /\ faults = 0

Busy == {q \in Requests : req[q] \notin {Fresh, Answered}}
Moves(q, place) == req' = [req EXCEPT ![q].at = place]
Fault == faults < MaxFaults /\ faults' = faults + 1

-----------------------------------------------------------------------------
(***************************************************************************)
(* The checks of a request, on what is committed when it looks.            *)
(***************************************************************************)
\* Seeded fault: a document under review is not locked.
MutableUntilApproved(d) == d \in Attached => instance # "approved"
\* ensureMutable: approved is frozen, pending approval is locked.
Mutable(d) == d \in Attached => instance = "open"

Check(q, op, d) ==
    /\ req[q] = Fresh
    /\ Mutable(d)
    /\ IF op = "create"
       THEN purge.at # "done" /\ docs[d].state = "none" /\ \A p \in Busy : req[p].doc # d
       ELSE docs[d].state = "live"
    /\ req' = [req EXCEPT ![q] = [at |-> "checked", op |-> op, doc |-> d, n |-> 1]]
    /\ UNCHANGED <<docs, versions, store, reclaim, holder, instance, purge, stale, strays, late, faults>>

\* The transaction is undone and the request answered.
Undone(q) ==
    /\ req' = [req EXCEPT ![q] = Answered]
    /\ holder' = [d \in Docs |-> IF holder[d] = q THEN NoOne ELSE holder[d]]

-----------------------------------------------------------------------------
(***************************************************************************)
(* AddVersion, Update and Delete start with an UPDATE of the document.     *)
(***************************************************************************)
\* Seeded fault: the UPDATE does not wait for another of the same row.
NeverWaits(d) == purge.at # "fired"
\* Nobody else's uncommitted UPDATE or DELETE of the row.
Unlocked(d) == holder[d] = NoOne /\ purge.at # "fired"

\* WHERE id AND deleted_at IS NULL, on what the row has become.
StillLive(d) == docs[d].state = "live"

\* BumpVersion returns the number the new version will have.
Bumped(q) == docs[req[q].doc].version + 1

\* BumpVersion, UpdateMetadata, SoftDelete.
UpdateRow(q) ==
    /\ req[q].at = "checked" /\ req[q].op # "create"
    /\ Unlocked(req[q].doc) /\ StillLive(req[q].doc)
    /\ holder' = [holder EXCEPT ![req[q].doc] = q]
    /\ req' = [req EXCEPT ![q].at = IF req[q].op = "add" THEN "bumped" ELSE "written",
                          ![q].n = IF req[q].op = "add" THEN Bumped(q) ELSE @]
    /\ UNCHANGED <<docs, versions, store, reclaim, instance, purge, stale, strays, late, faults>>

\* Seeded fault: a missed UPDATE is tried again, and again.
UpdateRetries(q) ==
    /\ req[q].at = "checked" /\ req[q].op # "create"
    /\ Unlocked(req[q].doc) /\ ~StillLive(req[q].doc)
    /\ UNCHANGED vars
\* No row: the document has gone in the meantime.
UpdateMisses(q) ==
    /\ req[q].at = "checked" /\ req[q].op # "create"
    /\ Unlocked(req[q].doc) /\ ~StillLive(req[q].doc)
    /\ Undone(q)
    /\ UNCHANGED <<docs, versions, store, reclaim, instance, purge, stale, strays, late, faults>>

-----------------------------------------------------------------------------
(***************************************************************************)
(* Create and AddVersion: the bytes first, then the rows.                  *)
(***************************************************************************)
Uploading(q) == req[q].at = IF req[q].op = "create" THEN "checked" ELSE "bumped"
UploadDue(q) == q \in Busy /\ req[q].op \in {"create", "add"} /\ Uploading(q)

Put(q) ==
    /\ UploadDue(q)
    /\ store' = store \cup {q}
    /\ Moves(q, "stored")
    /\ UNCHANGED <<docs, versions, reclaim, holder, instance, purge, stale, strays, late, faults>>

\* Seeded fault: the metadata is written though the bytes were refused.
PutIgnored(q) ==
    /\ UploadDue(q) /\ Fault
    /\ Moves(q, "stored")
    /\ UNCHANGED <<docs, versions, store, reclaim, holder, instance, purge, stale, strays, late>>
\* The store or a check on the stream fails; some bytes may be there already, and
\* the best-effort delete may fail too.
PutFails(q) ==
    /\ UploadDue(q) /\ Fault
    /\ Undone(q)
    /\ \/ UNCHANGED <<store, strays>>
       \/ store' = store \cup {q} /\ strays' = strays \cup {q}
    /\ UNCHANGED <<docs, versions, reclaim, instance, purge, stale, late>>

\* The foreign key of a new document waits for a delete of its workflow under way.
ParentSettled(q) == req[q].op = "create" => purge.at # "fired"
ParentThere(q) == req[q].op = "create" => purge.at # "done"

Insert(q) ==
    /\ req[q].at = "stored" /\ ParentSettled(q) /\ ParentThere(q)
    /\ Moves(q, "written")
    /\ UNCHANGED <<docs, versions, store, reclaim, holder, instance, purge, stale, strays, late, faults>>

\* deleteBlob takes the object back.
Compensated(q) == store' = store \ {q} /\ UNCHANGED strays
\* The compensation fails: the error is logged and the object stays.
LeftBehind(q) == strays' = strays \cup {q} /\ UNCHANGED store

\* The workflow has gone: the foreign key refuses.
InsertRefused(q) ==
    /\ req[q].at = "stored" /\ ~ParentThere(q)
    /\ Undone(q) /\ Compensated(q)
    /\ UNCHANGED <<docs, versions, reclaim, instance, purge, stale, late, faults>>

\* An INSERT or the audit entry fails, and perhaps the compensation.
InsertFails(q) ==
    /\ req[q].at = "stored" /\ Fault
    /\ Undone(q) /\ (Compensated(q) \/ LeftBehind(q))
    /\ UNCHANGED <<docs, versions, reclaim, instance, purge, stale, late>>

-----------------------------------------------------------------------------
(***************************************************************************)
(* The end of a request.                                                   *)
(***************************************************************************)
\* The row a committed request leaves.
Written(q) ==
    LET row == docs[req[q].doc] IN
    CASE req[q].op = "create" -> [state |-> "live", version |-> req[q].n, updatedBy |-> q]
      [] req[q].op = "add"    -> [row EXCEPT !.version = req[q].n, !.updatedBy = q]
      [] req[q].op = "update" -> [row EXCEPT !.updatedBy = q]
      [] req[q].op = "delete" -> [row EXCEPT !.state = "deleted", !.updatedBy = q]

Commit(q) ==
    /\ req[q].at = "written"
    /\ docs' = [docs EXCEPT ![req[q].doc] = Written(q)]
    /\ IF req[q].op \in {"create", "add"}
       THEN /\ versions' = versions \cup {[doc |-> req[q].doc, n |-> req[q].n, key |-> q]}
            /\ late' = IF purge.at = "queued" THEN late \cup {q} ELSE late
       ELSE UNCHANGED <<versions, late>>
    /\ Undone(q)
    /\ UNCHANGED <<store, reclaim, instance, purge, stale, strays, faults>>

\* A failure nothing compensates: the final read or the COMMIT, or the process.
Dies(q) ==
    /\ q \in Busy /\ Fault
    /\ Undone(q)
    /\ strays' = IF q \in store THEN strays \cup {q} ELSE strays
    /\ UNCHANGED <<docs, versions, store, reclaim, instance, purge, stale, late>>

-----------------------------------------------------------------------------
(***************************************************************************)
(* The delete of the workflow (one at a time: the second waits, then finds *)
(* nothing), and the flow the instance goes through.                       *)
(***************************************************************************)
\* Seeded fault: the keys of soft-deleted documents are not collected.
LiveKeys == {v.key : v \in {u \in versions : docs[u.doc].state = "live"}}
Collected == {v.key : v \in versions}

\* The census refuses attested work; QueueBlobReclaim reads what is committed.
QueueBlobReclaim ==
    /\ purge.at = "none" /\ instance # "approved"
    /\ purge' = [at |-> "queued", keys |-> Collected]
    /\ late' = {}
    /\ UNCHANGED <<docs, versions, store, reclaim, req, holder, instance, stale, strays, faults>>

\* Rows another request has written and not committed: the DELETE waits for them.
Uncommitted == {q \in Busy : req[q].at = "written" \/ (req[q].op = "add" /\ req[q].at # "checked")}

\* DELETE FROM workflows and the cascade; the trigger sees no approved instance.
FireDelete ==
    /\ purge.at = "queued" /\ Uncommitted = {} /\ instance # "approved"
    /\ purge' = [purge EXCEPT !.at = "fired"]
    /\ UNCHANGED <<docs, versions, store, reclaim, req, holder, instance, stale, strays, late, faults>>

CommitDelete ==
    /\ purge.at = "fired"
    /\ purge' = [at |-> "done", keys |-> {}]
    /\ reclaim' = reclaim \cup purge.keys
    /\ docs' = [d \in Docs |-> IF docs[d].state = "none" THEN docs[d] ELSE [docs[d] EXCEPT !.state = "gone"]]
    /\ versions' = {}
    /\ UNCHANGED <<store, req, holder, instance, stale, strays, late, faults>>

\* Refused by the trigger, or undone by a failure.
UndoDelete ==
    /\ \/ purge.at = "queued" /\ instance = "approved" /\ UNCHANGED faults
       \/ purge.at \in {"queued", "fired"} /\ Fault
    /\ purge' = [at |-> "none", keys |-> {}]
    /\ UNCHANGED <<docs, versions, store, reclaim, req, holder, instance, stale, strays, late>>

\* Submit, approve or reject, committed (modelled in full in TaskApproval).
Review(status) ==
    /\ purge.at \notin {"fired", "done"}
    /\ <<instance, status>> \in {<<"open", "pending">>, <<"pending", "approved">>, <<"pending", "open">>}
    /\ instance' = status
    /\ stale' = IF status = "pending" THEN Busy ELSE stale
    /\ UNCHANGED <<docs, versions, store, reclaim, req, holder, purge, strays, late, faults>>

-----------------------------------------------------------------------------
Proceed(q) ==
    \/ UpdateRow(q) \/ UpdateMisses(q) \/ Put(q) \/ Insert(q) \/ InsertRefused(q) \/ Commit(q)
Breaks(q) == PutFails(q) \/ InsertFails(q) \/ Dies(q)
EndDelete == FireDelete \/ CommitDelete \/ UndoDelete

Next ==
    \/ \E q \in Requests :
          \/ \E op \in Ops, d \in Docs : Check(q, op, d)
          \/ Proceed(q) \/ Breaks(q)
    \/ QueueBlobReclaim \/ EndDelete
    \/ \E status \in {"open", "pending", "approved"} : Review(status)

Spec == Init /\ [][Next]_vars

\* A request under way is worked on, a DELETE that need not wait any more goes on.
Fairness == WF_vars(EndDelete) /\ \A q \in Requests : WF_vars(Proceed(q))

FairSpec == Spec /\ Fairness

-----------------------------------------------------------------------------
\* Version numbers run from 1 to current_version without a gap or a repetition,
\* and a latest version exists: the row lock of BumpVersion alone sees to it, the
\* unique constraint is never what a user meets (sql.go, bumpVersion).
VersionsIntact ==
    \A d \in Docs :
        /\ docs[d].state \in {"live", "deleted"} =>
              {v.n : v \in {u \in versions : u.doc = d}} = 1 .. docs[d].version
        /\ \A u, v \in versions : u.doc = d /\ v.doc = d /\ u.n = v.n => u = v

Referenced == {v.key : v \in versions}

\* Every version has its bytes: whatever fails, no compensation takes away the
\* object of a version that is there (Download: "the metadata says it should exist").
\* Nor may it be removed later: the queue, filled on the transaction of the delete,
\* names nothing a version still refers to (QueueBlobReclaim).
BytesThere == Referenced \subseteq store /\ reclaim \cap Referenced = {}

\* Together: the versions of a document are numbered without a gap, and each has
\* its bytes (usecases.go, Create and CreateVersion).
VersionsStand == VersionsIntact /\ BytesThere

\* An object nothing refers to was left by a failure, or by an upload that
\* committed between the collection of the keys and the DELETE.
NothingUnfindable ==
    store \subseteq Referenced \cup reclaim \cup Busy \cup strays \cup late

\* The documents of an instance under review or approved are changed by nobody
\* but a request that had checked before the lock (ensureMutable).  A deleted one
\* never changes again and does not come back: no version slips in behind the
\* delete (WHERE deleted_at IS NULL).
LockedUntouched ==
    \A d \in Attached :
        instance # "open" /\ docs'[d] # docs[d] /\ docs'[d].state # "gone" => docs'[d].updatedBy \in stale
DeletedUntouched ==
    \A d \in Docs : docs[d].state \in {"deleted", "gone"} =>
        docs'[d] = [docs[d] EXCEPT !.state = docs'[d].state] /\ docs'[d].state \in {docs[d].state, "gone"}
SettledUntouched == [][LockedUntouched /\ DeletedUntouched]_docs

\* Nobody waits for ever: a request and a delete of the workflow both end.
EverybodyAnswered ==
    /\ \A q \in Requests : q \in Busy ~> q \notin Busy
    /\ purge.at = "queued" ~> purge.at \in {"none", "done"}

=============================================================================
