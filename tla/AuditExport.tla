----------------------------- MODULE AuditExport -----------------------------
(***************************************************************************)
(* The audit chain of one tenant (platform/audit) and its export to a      *)
(* write-once object store (platform/audit/worm).                          *)
(*                                                                         *)
(* Transactions append to the chain under an advisory lock they keep until *)
(* they end.  An exporter cuts the next range of the chain into a segment  *)
(* of the ledger, puts the segment's file in the store and confirms it.    *)
(* One process is elected to export; after a lost lease two may.           *)
(*                                                                         *)
(* A file is given by its range, the document format it is written in and  *)
(* the format of the file it points back to: with the entries and the      *)
(* stamped instant fixed, these are what its digest depends on.            *)
(***************************************************************************)
EXTENDS Integers, Sequences

CONSTANTS
    Writers,               \* transactions of the domain
    Exporters,
    Free,                  \* nobody
    MaxEntriesPerSegment,  \* as configured
    MaxSegmentsPerRun,
    Formats,               \* values FormatVersion has in the builds deployed
    MaxHead,               \* bound: the domain appends while the head is below it
    MaxFaults              \* bound: steps that fail, crashes and deploys

ASSUME AuditExportAssumption ==
    /\ Free \notin Writers \cup Exporters /\ Writers \cap Exporters = {}
    /\ MaxEntriesPerSegment \in Nat \ {0} /\ MaxSegmentsPerRun \in Nat \ {0}
    /\ Formats \subseteq Nat /\ Formats # {}
    /\ MaxHead \in Nat /\ MaxFaults \in Nat

VARIABLES
    log,      \* audit_log: the committed entries, in commit order
    drafts,   \* drafts[w]: seqs of the entries w has inserted and not committed
    lock,     \* who holds the advisory lock of the chain
    ledger,   \* audit_export_segments
    store,    \* the object store
    at,       \* at[x]: where the pass of exporter x is
    hand,     \* hand[x]: the segment x is working on
    left,     \* left[x]: segments the pass may still work on
    format,   \* format[x]: FormatVersion of the build x runs
    \* history and bound
    mixed,    \* segments that builds of two formats had in hand at once
    faults

chainVars == <<log, drafts, lock>>
passVars == <<at, hand, left, format>>
vars == <<chainVars, ledger, store, passVars, mixed, faults>>

Actors == Writers \cup Exporters
Files == [seq : Nat, from : Nat, to : Nat, format : Formats, after : Formats \cup {0}]
Rows == [file : Files, status : {"pending", "uploaded"}]
NoFile == [seq |-> 0]

ChainOK ==
    /\ log \in Seq([seq : Nat, of : Nat])
    /\ drafts \in [Writers -> Seq(Nat)]
    /\ lock \in Actors \cup {Free}

PassOK ==
    /\ at \in [Exporters -> {"idle", "looking", "waiting", "cutting", "resuming", "putting", "put"}]
    /\ hand \in [Exporters -> Files \cup {NoFile}]
    /\ \A x \in Exporters : at[x] \in {"cutting", "resuming", "putting", "put"} => hand[x] \in Files
    /\ left \in [Exporters -> 0 .. MaxSegmentsPerRun]
    /\ format \in [Exporters -> Formats]

TypeOK ==
    /\ ChainOK /\ PassOK
    /\ ledger \subseteq Rows /\ store \subseteq Files
    /\ mixed \subseteq Nat /\ faults \in Nat

Init ==
    /\ log = <<>> /\ drafts = [w \in Writers |-> <<>>] /\ lock = Free
    /\ ledger = {} /\ store = {}
    /\ at = [x \in Exporters |-> "idle"] /\ hand = [x \in Exporters |-> NoFile]
    /\ left = [x \in Exporters |-> 0]
    /\ format \in [Exporters -> Formats]
    /\ mixed = {} /\ faults = 0

Fault == faults < MaxFaults /\ faults' = faults + 1

-----------------------------------------------------------------------------
(***************************************************************************)
(* The chain: Recorder.Record on the caller's transaction.                 *)
(***************************************************************************)
ChainHead == Len(log)

\* Seeded fault: the head is read without waiting for the lock.
Unlocked(a) == TRUE
\* pg_advisory_xact_lock: nobody else holds the lock, or the caller does.
Lockable(a) == lock \in {Free, a}

\* Take the lock, read the head, insert the entry that follows it.
Record(w) ==
    /\ Lockable(w) /\ ChainHead < MaxHead /\ Len(drafts[w]) < 2
    /\ lock' = w
    /\ drafts' = [drafts EXCEPT ![w] = Append(@, ChainHead + Len(@) + 1)]
    /\ UNCHANGED <<log, ledger, store, passVars, mixed, faults>>

\* The lock goes with the transaction.
CommitDomain(w) ==
    /\ drafts[w] # <<>>
    /\ log' = log \o [n \in 1 .. Len(drafts[w]) |-> [seq |-> drafts[w][n], of |-> 0]]
    /\ drafts' = [drafts EXCEPT ![w] = <<>>] /\ lock' = Free
    /\ UNCHANGED <<ledger, store, passVars, mixed, faults>>

RollBackDomain(w) ==
    /\ drafts[w] # <<>>
    /\ drafts' = [drafts EXCEPT ![w] = <<>>] /\ lock' = Free
    /\ UNCHANGED <<log, ledger, store, passVars, mixed, faults>>

-----------------------------------------------------------------------------
(***************************************************************************)
(* A pass of the exporter: find a segment to finish, or cut the next.      *)
(***************************************************************************)
Pending == {r \in ledger : r.status = "pending"}
Landed == {r \in ledger : r.status = "uploaded"}
LastLanded == {r \in Landed : \A s \in Landed : s.file.seq <= r.file.seq}

\* x takes file f in hand; other builds that hold it are remembered.
Holding(x, f) ==
    /\ hand' = [hand EXCEPT ![x] = f]
    /\ mixed' = IF \E y \in Exporters : hand[y].seq = f.seq /\ format[y] # format[x]
                THEN mixed \cup {f.seq} ELSE mixed

Goes(x, place) == at' = [at EXCEPT ![x] = place]
EmptyHanded(x) == hand' = [hand EXCEPT ![x] = NoFile] /\ UNCHANGED mixed

\* The pass is over for this tenant.
EndPass(x) == Goes(x, "idle") /\ EmptyHanded(x) /\ left' = [left EXCEPT ![x] = 0]

StartPass(x) ==
    /\ at[x] = "idle" /\ Goes(x, "looking")
    /\ left' = [left EXCEPT ![x] = MaxSegmentsPerRun]
    /\ UNCHANGED <<chainVars, ledger, store, hand, format, mixed, faults>>

Budget(x) == left[x] > 0

\* Seeded fault: a pass does not finish what an earlier one left.
LookForNew(x) ==
    /\ at[x] = "looking" /\ Budget(x)
    /\ left' = [left EXCEPT ![x] = @ - 1]
    /\ Goes(x, "waiting")
    /\ UNCHANGED <<chainVars, ledger, store, hand, format, mixed, faults>>
\* pendingOf, on a transaction of its own.
Look(x) ==
    /\ at[x] = "looking" /\ Budget(x)
    /\ left' = [left EXCEPT ![x] = @ - 1]
    /\ \/ Pending = {} /\ Goes(x, "waiting") /\ UNCHANGED <<hand, mixed>>
       \/ \E r \in Pending : Goes(x, "resuming") /\ Holding(x, r.file)
    /\ UNCHANGED <<chainVars, ledger, store, format, faults>>

BudgetSpent(x) ==
    /\ at[x] = "looking" /\ left[x] = 0 /\ EndPass(x)
    /\ UNCHANGED <<chainVars, ledger, store, format, faults>>

\* A cut appends an entry of its own: a smaller cap would never catch up.
MinEntriesPerSegment == 2
Cap == IF MaxEntriesPerSegment < MinEntriesPerSegment
       THEN MinEntriesPerSegment ELSE MaxEntriesPerSegment

Lesser(m, n) == IF m < n THEN m ELSE n

\* The range that follows file p, its own export record included.
Following(p, x) ==
    [seq |-> p.seq + 1, from |-> p.to + 1, to |-> Lesser(ChainHead + 1, p.to + Cap),
     format |-> format[x], after |-> p.format]

Genesis == [seq |-> 0, to |-> 0, format |-> 0]
Cursor == IF LastLanded = {} THEN {Genesis} ELSE {r.file : r \in LastLanded}

\* Under the chain lock: read the cursor and the head.
CutReads(x) ==
    /\ at[x] = "waiting" /\ Lockable(x)
    /\ \E p \in Cursor :
          IF ChainHead > p.to
          THEN Goes(x, "cutting") /\ lock' = x /\ Holding(x, Following(p, x)) /\ UNCHANGED left
          ELSE EndPass(x) /\ UNCHANGED lock
    /\ UNCHANGED <<log, drafts, ledger, store, format, faults>>

\* Seeded fault: the ordinal and the start of a range need not be new.
ClaimableUnlessPending(f) == Pending = {}
\* The unique constraints of the ledger.
Claimable(f) ==
    /\ Pending = {}
    /\ \A r \in ledger : r.file.seq # f.seq /\ r.file.from # f.from

\* Record "audit.exported" and claim the range, on the same transaction.
CutCommits(x) ==
    /\ at[x] = "cutting" /\ Claimable(hand[x])
    /\ log' = Append(log, [seq |-> ChainHead + 1, of |-> hand[x].seq])
    /\ ledger' = ledger \cup {[file |-> hand[x], status |-> "pending"]}
    /\ lock' = Free
    /\ Goes(x, "putting")
    /\ UNCHANGED <<drafts, store, hand, left, format, mixed, faults>>

\* Seeded fault: the export record is written on a transaction of its own.
CutConflictsRecorded(x) ==
    /\ at[x] = "cutting" /\ ~Claimable(hand[x])
    /\ log' = Append(log, [seq |-> ChainHead + 1, of |-> hand[x].seq])
    /\ lock' = Free
    /\ EndPass(x)
    /\ UNCHANGED <<drafts, ledger, store, format, faults>>
\* Another exporter claimed in the meantime: the INSERT fails, all is undone.
CutConflicts(x) ==
    /\ at[x] = "cutting" /\ ~Claimable(hand[x])
    /\ lock' = Free
    /\ EndPass(x)
    /\ UNCHANGED <<log, drafts, ledger, store, format, faults>>

-----------------------------------------------------------------------------
(***************************************************************************)
(* Finishing a segment: rebuild, upload, confirm.                          *)
(***************************************************************************)
Row(f) == {r \in ledger : r.file.seq = f.seq}
Before(f) == {r \in ledger : r.file.seq = f.seq - 1}

\* The file as this build writes it, over the range of the ledger's row.
Rewritten(x) ==
    LET f == hand[x] IN
    [f EXCEPT !.format = format[x],
              !.after = IF Before(f) = {} THEN 0
                        ELSE (CHOOSE r \in Before(f) : TRUE).file.format]

\* Seeded fault: the ledger is not told of the new document.
NotRestated(f) == ledger
\* Restate: a row still pending takes the facts of the new document.
Restated(f) ==
    (ledger \ {r \in Row(f) : r.status = "pending"})
      \cup {[file |-> f, status |-> "pending"] : r \in {s \in Row(f) : s.status = "pending"}}

Rebuild(x) ==
    /\ at[x] = "resuming"
    /\ hand' = [hand EXCEPT ![x] = Rewritten(x)]
    /\ ledger' = IF hand[x].format # format[x] THEN Restated(Rewritten(x)) ELSE ledger
    /\ Goes(x, "putting")
    /\ UNCHANGED <<chainVars, store, left, format, mixed, faults>>

\* Put under the key of the range; an object under that key is replaced.
Put(x) ==
    /\ at[x] = "putting"
    /\ store' = {f \in store : f.from # hand[x].from \/ f.to # hand[x].to} \cup {hand[x]}
    /\ Goes(x, "put")
    /\ UNCHANGED <<chainVars, ledger, hand, left, format, mixed, faults>>

\* UPDATE ... WHERE id AND status = 'pending', however many rows that is.
Confirm(x) ==
    /\ at[x] = "put"
    /\ ledger' = (ledger \ Row(hand[x]))
                   \cup {[r EXCEPT !.status = "uploaded"] : r \in Row(hand[x])}
    /\ Goes(x, "looking") /\ EmptyHanded(x)
    /\ UNCHANGED <<chainVars, store, left, format, faults>>

\* A step fails: a lost answer of the store or of the database, a refusal, a
\* cancelled context.  The transaction under way is undone, the pass is over,
\* and Fail only counts the attempt.
Fails(x) ==
    /\ at[x] # "idle" /\ Fault
    /\ lock' = IF lock = x THEN Free ELSE lock
    /\ EndPass(x)
    /\ UNCHANGED <<log, drafts, ledger, store, format>>

\* The process dies or is replaced, perhaps by one of another build.
Restart(x, v) ==
    /\ Fault
    /\ format' = [format EXCEPT ![x] = v]
    /\ lock' = IF lock = x THEN Free ELSE lock
    /\ EndPass(x)
    /\ UNCHANGED <<log, drafts, ledger, store>>

-----------------------------------------------------------------------------
Step(x) ==
    \/ StartPass(x) \/ Look(x) \/ BudgetSpent(x) \/ CutReads(x) \/ CutCommits(x)
    \/ CutConflicts(x) \/ Rebuild(x) \/ Put(x) \/ Confirm(x)

EndDomain(w) == CommitDomain(w) \/ RollBackDomain(w)

Next ==
    \/ \E w \in Writers : Record(w) \/ EndDomain(w)
    \/ \E x \in Exporters : Step(x) \/ Fails(x) \/ \E v \in Formats : Restart(x, v)

Spec == Init /\ [][Next]_vars

\* The scheduler runs passes again and again, transactions end, and Postgres
\* hands the lock out in turn.
Fairness ==
    /\ \A w \in Writers : WF_vars(EndDomain(w))
    /\ \A x \in Exporters : WF_vars(Step(x)) /\ SF_vars(CutReads(x))

FairSpec == Spec /\ Fairness

-----------------------------------------------------------------------------
\* The chain has no gap, no fork and no repetition: nothing but the lock in
\* Record sees to it (the table is partitioned, its unique key is not enough).
ChainIntact == \A n \in 1 .. Len(log) : log[n].seq = n

\* "Nothing may be cut past a range that has not landed", and ranges meet: the
\* cursor loses no entry and repeats none (Exporter).
CutsFollowLanded ==
    /\ \A r, s \in ledger : r.file.seq = s.file.seq => r = s
    /\ \A r \in ledger :
          /\ r.file.from <= r.file.to /\ r.file.to <= Len(log)
          /\ IF r.file.seq = 1 THEN r.file.from = 1
             ELSE \E p \in Landed : p.file.seq + 1 = r.file.seq /\ p.file.to + 1 = r.file.from

\* Together: the segments of the ledger are consecutive pieces of one chain.
SegmentsTileChain == ChainIntact /\ CutsFollowLanded

\* The trail claims no export the ledger does not know, nor the reverse (Claim),
\* and a segment holds its own record unless its range was capped (cut).
ExportsRecorded ==
    /\ \A n \in 1 .. Len(log) : log[n].of # 0 => \E r \in ledger : r.file.seq = log[n].of
    /\ \A r \in ledger : \E n \in r.file.to .. Len(log) :
          /\ log[n].of = r.file.seq
          /\ \A k \in 1 .. Len(log) : log[k].of = r.file.seq => k = n
          /\ n = r.file.to \/ r.file.to + 1 = r.file.from + Cap

\* What VerifySeries asks of the files of landed segments: each is there, hashes
\* to what the ledger says and names the digest of the file before it.  Builds
\* of two formats at work on one segment at the same time can defeat this.
SeriesVerifies ==
    \A r \in Landed : r.file.seq \notin mixed => r.file \in store

\* Together: ledger, trail and store tell one story of what was exported (Claim,
\* Confirm, VerifySeries).
ExportsAgree == ExportsRecorded /\ SeriesVerifies

\* Once nobody writes to the chain any more, all of it ends up in the store, and
\* the exports that record themselves come to an end (exportTenant).
AllExported ==
    <>[](Pending = {} /\ (ChainHead > 0 => \E r \in LastLanded : r.file.to = ChainHead))

=============================================================================
