-------------------------- MODULE AuditExportProofs --------------------------
(***************************************************************************)
(* Theorems about AuditExport, for any number of writers, exporters and    *)
(* formats: the chain has no fork, and segments follow each other.  And    *)
(* about Segments, for any history of a chain: the files of an archive     *)
(* tell their readers what the chain is, and what has been done to them.   *)
(***************************************************************************)
EXTENDS AuditExport, Segments, FiniteSetTheorems, SequenceTheorems, WellFoundedInduction, TLAPS

USE AuditExportAssumption

\* What is appended to a sequence keeps its type.
LEMMA AppendType ==
    ASSUME NEW S, NEW s \in Seq(S), NEW e \in S
    PROVE  /\ Append(s, e) \in Seq(S) /\ Len(Append(s, e)) = Len(s) + 1
           /\ Append(s, e)[Len(s) + 1] = e
           /\ \A n \in 1 .. Len(s) : Append(s, e)[n] = s[n]
  OBVIOUS

\* The entries CommitDomain appends are entries.
LEMMA DraftEntries ==
    ASSUME NEW d \in Seq(Nat)
    PROVE  LET e == [n \in 1 .. Len(d) |-> [seq |-> d[n], of |-> 0]]
           IN  e \in Seq([seq : Nat, of : Nat]) /\ Len(e) = Len(d)
<1> DEFINE e == [n \in 1 .. Len(d) |-> [seq |-> d[n], of |-> 0]]
<1>1. Len(d) \in Nat /\ DOMAIN e = 1 .. Len(d)
  OBVIOUS
<1>2. ASSUME NEW n \in 1 .. Len(d) PROVE e[n] \in [seq : Nat, of : Nat]
  <2>1. d[n] \in Nat
    OBVIOUS
  <2>2. QED
    BY <2>1
<1>3. e \in [1 .. Len(d) -> [seq : Nat, of : Nat]]
  BY <1>2
<1>4. QED
  BY <1>1, <1>3

LEMMA ConcatType ==
    ASSUME NEW S, NEW s \in Seq(S), NEW t \in Seq(S)
    PROVE  /\ s \o t \in Seq(S) /\ Len(s \o t) = Len(s) + Len(t)
           /\ \A n \in 1 .. Len(s) : (s \o t)[n] = s[n]
           /\ \A n \in 1 .. Len(t) : (s \o t)[Len(s) + n] = t[n]
  OBVIOUS

-----------------------------------------------------------------------------
(***************************************************************************)
(* Types, one step per action.                                             *)
(***************************************************************************)
\* The file that follows a landed one, and a file rebuilt by another build.
LEMMA FollowingType ==
    ASSUME TypeOK, NEW x \in Exporters, NEW p \in Cursor, ChainHead > p.to
    PROVE  Following(p, x) \in Files
<1> USE DEF TypeOK, ChainOK, PassOK
<1>1. p.seq \in Nat /\ p.to \in Nat /\ p.format \in Formats \cup {0}
  BY DEF Cursor, Genesis, LastLanded, Landed, Rows, Files
<1>2. Cap \in Nat /\ ChainHead \in Nat
  BY DEF Cap, MinEntriesPerSegment, ChainHead
<1>3. p.seq + 1 \in Nat /\ p.to + 1 \in Nat /\ Lesser(ChainHead + 1, p.to + Cap) \in Nat
  BY <1>1, <1>2, SMTT(40) DEF Lesser
<1>4. QED
  BY <1>1, <1>3 DEF Following, Files

LEMMA RewrittenType ==
    ASSUME TypeOK, NEW x \in Exporters, hand[x] \in Files
    PROVE  /\ Rewritten(x) \in Files
           /\ Rewritten(x).seq = hand[x].seq /\ Rewritten(x).from = hand[x].from
           /\ Rewritten(x).to = hand[x].to
<1> USE DEF TypeOK, PassOK
<1> DEFINE a == IF Before(hand[x]) = {} THEN 0
                ELSE (CHOOSE r \in Before(hand[x]) : TRUE).file.format
<1>1. a \in Formats \cup {0}
  <2>1. CASE Before(hand[x]) = {}
    BY <2>1
  <2>2. CASE Before(hand[x]) # {}
    <3>1. (CHOOSE r \in Before(hand[x]) : TRUE) \in Before(hand[x])
      BY <2>2
    <3>2. Before(hand[x]) \subseteq Rows
      BY DEF Before
    <3>3. QED
      BY <2>2, <3>1, <3>2 DEF Rows, Files
  <2>3. QED
    BY <2>1, <2>2
<1>2. Rewritten(x) = [hand[x] EXCEPT !.format = format[x], !.after = a]
  BY DEF Rewritten
<1>3. Rewritten(x) = [seq |-> hand[x].seq, from |-> hand[x].from, to |-> hand[x].to,
                      format |-> format[x], after |-> a]
  BY <1>2 DEF Files
<1>4. QED
  BY <1>1, <1>3 DEF Files

LEMMA RestatedType ==
    ASSUME TypeOK, NEW f \in Files
    PROVE  Restated(f) \subseteq Rows
  BY DEF TypeOK, Restated, Row, Rows

LEMMA HoldingType ==
    ASSUME TypeOK, NEW x \in Exporters, NEW f \in Files, Holding(x, f)
    PROVE  hand' = [hand EXCEPT ![x] = f] /\ mixed' \subseteq Nat
<1>1. f.seq \in Nat
  BY DEF Files
<1>2. QED
  BY <1>1 DEF Holding, TypeOK

LEMMA InitTypeOK == Init => TypeOK
  BY DEF Init, TypeOK, ChainOK, PassOK, NoFile

LEMMA NextTypeOK == TypeOK /\ [Next]_vars => TypeOK'
<1> SUFFICES ASSUME TypeOK, [Next]_vars PROVE TypeOK'
  OBVIOUS
<1> USE DEF TypeOK, ChainOK, PassOK, Actors, chainVars, passVars, Goes, EmptyHanded, EndPass, Fault
<1>1. ASSUME NEW w \in Writers, Record(w) PROVE TypeOK'
  <2>1. ChainHead + Len(drafts[w]) + 1 \in Nat
    BY DEF ChainHead
  <2>2. Append(drafts[w], ChainHead + Len(drafts[w]) + 1) \in Seq(Nat)
    BY <2>1, AppendType
  <2>3. drafts' \in [Writers -> Seq(Nat)]
    BY <1>1, <2>2 DEF Record
  <2>4. QED
    BY <1>1, <2>3 DEF Record
<1>2. ASSUME NEW w \in Writers, CommitDomain(w) PROVE TypeOK'
  <2>1. log' \in Seq([seq : Nat, of : Nat])
    BY <1>2, DraftEntries, ConcatType DEF CommitDomain
  <2>2. drafts' \in [Writers -> Seq(Nat)]
    BY <1>2 DEF CommitDomain
  <2>3. QED
    BY <1>2, <2>1, <2>2 DEF CommitDomain
<1>3. ASSUME NEW w \in Writers, RollBackDomain(w) PROVE TypeOK'
  BY <1>3 DEF RollBackDomain
<1>4. ASSUME NEW x \in Exporters, StartPass(x) PROVE TypeOK'
  BY <1>4 DEF StartPass
<1>5. ASSUME NEW x \in Exporters, Look(x) PROVE TypeOK'
  <2>1. left' \in [Exporters -> 0 .. MaxSegmentsPerRun]
    BY <1>5 DEF Look, Budget
  <2>2. CASE Goes(x, "waiting") /\ UNCHANGED <<hand, mixed>>
    BY <1>5, <2>1, <2>2 DEF Look
  <2>3. ASSUME NEW r \in Pending, Goes(x, "resuming"), Holding(x, r.file) PROVE TypeOK'
    <3>1. r.file \in Files
      BY DEF Pending, Rows
    <3>2. hand' = [hand EXCEPT ![x] = r.file] /\ mixed' \subseteq Nat
      BY <2>3, <3>1, HoldingType
    <3>3. QED
      BY <1>5, <2>1, <2>3, <3>1, <3>2 DEF Look
  <2>4. QED
    BY <1>5, <2>2, <2>3 DEF Look
<1>6. ASSUME NEW x \in Exporters, BudgetSpent(x) PROVE TypeOK'
  BY <1>6 DEF BudgetSpent
<1>7. ASSUME NEW x \in Exporters, CutReads(x) PROVE TypeOK'
  <2>1. CASE EndPass(x) /\ UNCHANGED lock
    BY <1>7, <2>1 DEF CutReads
  <2>2. ASSUME NEW p \in Cursor, ChainHead > p.to, Goes(x, "cutting"), lock' = x,
               Holding(x, Following(p, x)), UNCHANGED left
        PROVE  TypeOK'
    <3>1. Following(p, x) \in Files
      BY <2>2, FollowingType
    <3>2. hand' = [hand EXCEPT ![x] = Following(p, x)] /\ mixed' \subseteq Nat
      BY <2>2, <3>1, HoldingType
    <3>3. QED
      BY <1>7, <2>2, <3>1, <3>2 DEF CutReads
  <2>3. QED
    BY <1>7, <2>1, <2>2 DEF CutReads
<1>8. ASSUME NEW x \in Exporters, CutCommits(x) PROVE TypeOK'
  <2>1. hand[x] \in Files /\ hand[x].seq \in Nat /\ ChainHead + 1 \in Nat
    BY <1>8 DEF CutCommits, Files, ChainHead
  <2>2. log' \in Seq([seq : Nat, of : Nat])
    BY <1>8, <2>1, AppendType DEF CutCommits
  <2>3. ledger' \subseteq Rows
    BY <1>8, <2>1 DEF CutCommits, Rows
  <2>4. QED
    BY <1>8, <2>1, <2>2, <2>3 DEF CutCommits
<1>9. ASSUME NEW x \in Exporters, CutConflicts(x) PROVE TypeOK'
  BY <1>9 DEF CutConflicts
<1>10. ASSUME NEW x \in Exporters, Rebuild(x) PROVE TypeOK'
  <2>1. Rewritten(x) \in Files
    BY <1>10, RewrittenType DEF Rebuild
  <2>2. ledger' \subseteq Rows
    BY <1>10, <2>1, RestatedType DEF Rebuild
  <2>3. QED
    BY <1>10, <2>1, <2>2 DEF Rebuild
<1>11. ASSUME NEW x \in Exporters, Put(x) PROVE TypeOK'
  BY <1>11 DEF Put
<1>12. ASSUME NEW x \in Exporters, Confirm(x) PROVE TypeOK'
  <2>1. ASSUME NEW r \in Row(hand[x]) PROVE [r EXCEPT !.status = "uploaded"] \in Rows
    <3>1. r \in Rows
      BY DEF Row
    <3>2. r.file \in Files /\ r = [file |-> r.file, status |-> r.status]
      BY <3>1 DEF Rows
    <3>5. [r EXCEPT !.status = "uploaded"] = [file |-> r.file, status |-> "uploaded"]
      BY <3>2, SMTT(40)
    <3>3. [file |-> r.file, status |-> "uploaded"] \in Rows
      BY <3>2 DEF Rows
    <3>4. QED
      BY <3>5, <3>3
  <2>0. ledger' \subseteq Rows
    BY <1>12, <2>1 DEF Confirm
  <2>2. QED
    BY <1>12, <2>0 DEF Confirm
<1>13. ASSUME NEW x \in Exporters, Fails(x) PROVE TypeOK'
  BY <1>13 DEF Fails
<1>14. ASSUME NEW x \in Exporters, NEW v \in Formats, Restart(x, v) PROVE TypeOK'
  BY <1>14 DEF Restart
<1>15. CASE UNCHANGED vars
  BY <1>15 DEF vars
<1>16. QED
  BY <1>1, <1>2, <1>3, <1>4, <1>5, <1>6, <1>7, <1>8, <1>9, <1>10, <1>11, <1>12, <1>13, <1>14, <1>15
  DEF Next, Step, EndDomain

\* The chain, the ledger, the store and every pass keep their shape.
THEOREM TypeCorrect == Spec => []TypeOK
<1>1. QED
  BY InitTypeOK, NextTypeOK, PTL DEF Spec

-----------------------------------------------------------------------------
(***************************************************************************)
(* The lock.  Whoever has uncommitted entries, or a range measured and not *)
(* claimed, holds it; so the head it read is still the head.               *)
(***************************************************************************)
LockInv ==
    /\ \A w \in Writers :
          /\ drafts[w] # <<>> => lock = w
          /\ \A n \in 1 .. Len(drafts[w]) : drafts[w][n] = Len(log) + n
    /\ \A x \in Exporters : at[x] = "cutting" => lock = x
    /\ ChainIntact

LEMMA InitLockInv == Init => LockInv
  BY DEF Init, LockInv, ChainIntact

LEMMA NextLockInv == TypeOK /\ LockInv /\ [Next]_vars => LockInv'
<1> SUFFICES ASSUME TypeOK, LockInv, [Next]_vars PROVE LockInv'
  OBVIOUS
<1> USE DEF TypeOK, ChainOK, PassOK, LockInv, Actors, chainVars, passVars, Goes, EndPass, ChainHead
<1>0. \A v \in Writers : Len(drafts[v]) \in Nat /\ (drafts[v] = <<>> <=> Len(drafts[v]) = 0)
  OBVIOUS
<1>1. ASSUME NEW w \in Writers, Record(w) PROVE LockInv'
  <2>1. UNCHANGED <<log, at>> /\ lock' = w /\ lock \in {Free, w}
    BY <1>1 DEF Record, Lockable
  <2>2. drafts' = [drafts EXCEPT ![w] = Append(@, Len(log) + Len(@) + 1)]
    BY <1>1 DEF Record
  <2>3. \A v \in Writers \ {w} : drafts'[v] = drafts[v] /\ drafts[v] = <<>>
    BY <2>1, <2>2
  <2>4. ASSUME NEW n \in 1 .. Len(drafts'[w]) PROVE drafts'[w][n] = Len(log) + n
    <3>1. Len(log) + Len(drafts[w]) + 1 \in Nat
      OBVIOUS
    <3>2. drafts'[w] = Append(drafts[w], Len(log) + Len(drafts[w]) + 1)
      BY <2>2
    <3>3. /\ drafts[w] \in Seq(Nat) /\ Len(drafts'[w]) = Len(drafts[w]) + 1
          /\ drafts'[w][Len(drafts[w]) + 1] = Len(log) + Len(drafts[w]) + 1
          /\ \A k \in 1 .. Len(drafts[w]) : drafts'[w][k] = drafts[w][k]
      BY <3>1, <3>2, AppendType
    <3>4. CASE n = Len(drafts[w]) + 1
      BY <3>1, <3>3, <3>4
    <3>5. CASE n # Len(drafts[w]) + 1
      <4>1. n \in 1 .. Len(drafts[w])
        BY <2>4, <3>3, <3>5
      <4>2. QED
        BY <3>3, <4>1
    <3>6. QED
      BY <3>4, <3>5
  <2>5. ASSUME NEW x \in Exporters PROVE at[x] # "cutting"
    BY <2>1, <2>5
  <2>6. ASSUME NEW v \in Writers
        PROVE  /\ drafts'[v] # <<>> => lock' = v
               /\ \A n \in 1 .. Len(drafts'[v]) : drafts'[v][n] = Len(log') + n
    <3>1. CASE v = w
      BY <2>1, <2>4, <3>1
    <3>2. CASE v # w
      BY <2>1, <2>3, <3>2
    <3>3. QED
      BY <3>1, <3>2
  <2>7. ChainIntact'
    BY <2>1 DEF ChainIntact
  <2>8. QED
    BY <2>1, <2>5, <2>6, <2>7
<1>2. ASSUME NEW w \in Writers, CommitDomain(w) PROVE LockInv'
  <2>1. lock = w /\ lock' = Free /\ UNCHANGED at
    BY <1>2 DEF CommitDomain
  <2>2. \A v \in Writers : drafts'[v] = <<>>
    BY <1>2, <2>1 DEF CommitDomain
  <2>3. \A x \in Exporters : at[x] # "cutting"
    BY <2>1
  <2>4. ChainIntact'
    <3> DEFINE e == [n \in 1 .. Len(drafts[w]) |-> [seq |-> drafts[w][n], of |-> 0]]
    <3>1. e \in Seq([seq : Nat, of : Nat]) /\ Len(e) = Len(drafts[w])
      BY DraftEntries
    <3>2. log' = log \o e
      BY <1>2 DEF CommitDomain
    <3>3. \A n \in 1 .. Len(e) : e[n].seq = Len(log) + n
      BY <3>1
    <3> HIDE DEF e
    <3>4. Len(log') = Len(log) + Len(e)
      <4>0. log \in Seq([seq : Nat, of : Nat])
        OBVIOUS
      <4>1. Len(log \o e) = Len(log) + Len(e)
        BY ONLY <3>1, <4>0, ConcatType
      <4>2. QED
        BY <3>2, <4>1
    <3>5. \A n \in 1 .. Len(log) : log'[n] = log[n]
      <4>1. \A n \in 1 .. Len(log) : (log \o e)[n] = log[n]
        BY <3>1, ConcatType
      <4>2. QED
        BY <3>2, <4>1
    <3>6. \A n \in 1 .. Len(e) : log'[Len(log) + n] = e[n]
      <4>1. \A n \in 1 .. Len(e) : (log \o e)[Len(log) + n] = e[n]
        BY <3>1, ConcatType
      <4>2. QED
        BY <3>2, <4>1
    <3>7. ASSUME NEW n \in 1 .. Len(log') PROVE log'[n].seq = n
      <4>1. CASE n <= Len(log)
        <5>1. Len(log) \in Nat /\ n \in 1 .. Len(log)
          BY <4>1, <3>1, <3>4
        <5>2. QED
          BY <5>1, <3>5 DEF ChainIntact
      <4>2. CASE n > Len(log)
        <5>1. n - Len(log) \in 1 .. Len(e) /\ n = Len(log) + (n - Len(log))
          BY <4>2, <3>1, <3>4
        <5>2. QED
          BY <5>1, <3>3, <3>6
      <4>3. QED
        BY <4>1, <4>2
    <3>8. QED
      BY <3>7 DEF ChainIntact
  <2>5. QED
    BY <2>1, <2>2, <2>3, <2>4
<1>3. ASSUME NEW w \in Writers, RollBackDomain(w) PROVE LockInv'
  <2>1. lock = w /\ lock' = Free /\ UNCHANGED <<at, log>>
    BY <1>3 DEF RollBackDomain
  <2>2. \A v \in Writers : drafts'[v] = <<>>
    BY <1>3, <2>1 DEF RollBackDomain
  <2>3. QED
    BY <2>1, <2>2 DEF ChainIntact
<1>4. ASSUME NEW x \in Exporters, CutReads(x) PROVE LockInv'
  BY <1>4 DEF CutReads, Lockable, ChainIntact
<1>5. ASSUME NEW x \in Exporters, CutCommits(x) PROVE LockInv'
  <2>1. lock = x /\ lock' = Free /\ UNCHANGED drafts /\ hand[x] \in Files
    BY <1>5 DEF CutCommits
  <2>2. \A v \in Writers : drafts[v] = <<>>
    BY <2>1
  <2>3. \A y \in Exporters : at'[y] # "cutting"
    BY <1>5, <2>1 DEF CutCommits
  <2>4. log' = Append(log, [seq |-> Len(log) + 1, of |-> hand[x].seq])
    BY <1>5 DEF CutCommits
  <2>5. [seq |-> Len(log) + 1, of |-> hand[x].seq] \in [seq : Nat, of : Nat]
    BY <2>1 DEF Files
  <2>6. ChainIntact'
    BY <2>4, <2>5, AppendType DEF ChainIntact
  <2>7. QED
    BY <2>1, <2>2, <2>3, <2>6
<1>6. ASSUME NEW x \in Exporters,
             StartPass(x) \/ Look(x) \/ BudgetSpent(x) \/ CutConflicts(x) \/ Rebuild(x)
               \/ Put(x) \/ Confirm(x) \/ Fails(x) \/ \E v \in Formats : Restart(x, v)
      PROVE  LockInv'
  <2>1. UNCHANGED <<log, drafts>>
    BY <1>6 DEF StartPass, Look, BudgetSpent, CutConflicts, Rebuild, Put, Confirm, Fails, Restart
  <2>2. at'[x] # "cutting" /\ \A y \in Exporters \ {x} : at'[y] = at[y]
    BY <1>6 DEF StartPass, Look, BudgetSpent, CutConflicts, Rebuild, Put, Confirm, Fails, Restart
  <2>3. lock' = lock \/ lock = x
    BY <1>6 DEF StartPass, Look, BudgetSpent, CutConflicts, Rebuild, Put, Confirm, Fails, Restart
  <2>4. QED
    BY <2>1, <2>2, <2>3 DEF ChainIntact
<1>7. CASE UNCHANGED vars
  BY <1>7 DEF vars, ChainIntact
<1>8. QED
  BY <1>1, <1>2, <1>3, <1>4, <1>5, <1>6, <1>7 DEF Next, Step, EndDomain

\* The chain of audit entries never forks, skips or repeats a number, whatever
\* commits, rolls back or dies while it holds the lock (Record, LockChain).
THEOREM ChainNeverForks == Spec => []ChainIntact
<1>1. LockInv => ChainIntact
  BY DEF LockInv
<1>2. QED
  BY <1>1, InitTypeOK, NextTypeOK, InitLockInv, NextLockInv, PTL DEF Spec

-----------------------------------------------------------------------------
(***************************************************************************)
(* The ledger.  A range that is being cut starts where a landed segment    *)
(* ended; an exporter that finishes a segment holds the range of its row.  *)
(***************************************************************************)
Starts(f) ==
    IF f.seq = 1 THEN f.from = 1
    ELSE \E p \in Landed : p.file.seq + 1 = f.seq /\ p.file.to + 1 = f.from

SameRange(f, g) == f.seq = g.seq /\ f.from = g.from /\ f.to = g.to

HandInv ==
    /\ \A r \in ledger : r.file.seq >= 1
    /\ \A x \in Exporters :
        /\ at[x] = "cutting" =>
              /\ hand[x].seq >= 1 /\ Starts(hand[x])
              /\ hand[x].from <= hand[x].to /\ hand[x].to <= Len(log) + 1
        /\ at[x] \in {"resuming", "putting", "put"} =>
              \E r \in ledger : SameRange(r.file, hand[x])

\* The rows of the next ledger are those of this one: their ranges and what has
\* landed stay, whatever else of them changes.
SameSegments ==
    /\ \A s \in ledger' : \E r \in ledger : SameRange(s.file, r.file)
    /\ \A r \in ledger : \E s \in ledger' : SameRange(s.file, r.file)
    /\ \A p \in Landed : \E q \in Landed' : SameRange(q.file, p.file)
    /\ \A s, t \in ledger' : s.file.seq = t.file.seq => s = t

LEMMA StartsStay ==
    ASSUME NEW f \in Files, NEW g \in Files, SameRange(f, g), Starts(g),
           \A p \in Landed : \E q \in Landed' : SameRange(q.file, p.file)
    PROVE  (Starts(f))'
  BY DEF Starts, SameRange

LEMMA SegmentsStay ==
    ASSUME TypeOK, TypeOK', CutsFollowLanded, SameSegments, log' = log
    PROVE  CutsFollowLanded'
<1>1. ASSUME NEW s \in ledger'
      PROVE  /\ s.file.from <= s.file.to /\ s.file.to <= Len(log')
             /\ (Starts(s.file))'
  <2>1. PICK r \in ledger : SameRange(s.file, r.file)
    BY DEF SameSegments
  <2>2. s.file \in Files /\ r.file \in Files
    BY DEF TypeOK, Rows
  <2>3. r.file.from <= r.file.to /\ r.file.to <= Len(log) /\ Starts(r.file)
    BY DEF CutsFollowLanded, Starts
  <2>4. (Starts(s.file))'
    BY <2>1, <2>2, <2>3, StartsStay DEF SameSegments, Starts, SameRange
  <2>5. QED
    BY <2>1, <2>3, <2>4 DEF SameRange
<1>2. QED
  BY <1>1 DEF CutsFollowLanded, Starts, SameSegments

\* Both pieces over a step that leaves the ledger, or its segments, as they are
\* and in which one exporter at most moves.
LEMMA MovesStay ==
    ASSUME TypeOK, TypeOK', CutsFollowLanded, HandInv, SameSegments, log' = log,
           NEW x \in Exporters,
           \A r \in ledger' : r.file.seq >= 1,
           \A y \in Exporters \ {x} : at'[y] = at[y] /\ hand'[y] = hand[y],
           at'[x] = "cutting" => /\ hand'[x].seq >= 1 /\ (Starts(hand[x]))'
                                 /\ hand'[x].from <= hand'[x].to /\ hand'[x].to <= Len(log) + 1,
           at'[x] \in {"resuming", "putting", "put"} =>
              \E r \in ledger' : SameRange(r.file, hand'[x])
    PROVE  CutsFollowLanded' /\ HandInv'
<1>1. CutsFollowLanded'
  BY SegmentsStay
<1>2. ASSUME NEW y \in Exporters, y # x, at[y] = "cutting"
      PROVE  (Starts(hand[y]))'
  <2>1. hand[y] \in Files /\ Starts(hand[y])
    BY <1>2 DEF HandInv, TypeOK, PassOK
  <2>2. hand'[y] = hand[y] /\ SameRange(hand[y], hand[y])
    BY <1>2 DEF SameRange
  <2>3. PICK f \in Files : f = hand[y]
    BY <2>1
  <2>4. (Starts(f))'
    BY <2>1, <2>2, <2>3, StartsStay DEF SameSegments
  <2>5. QED
    BY <2>2, <2>3, <2>4 DEF Starts
<1>3. ASSUME NEW y \in Exporters, y # x, at[y] \in {"resuming", "putting", "put"}
      PROVE  \E r \in ledger' : SameRange(r.file, hand'[y])
  BY <1>3 DEF HandInv, SameSegments, SameRange
<1>4. ASSUME NEW y \in Exporters, at'[y] = "cutting"
      PROVE  /\ hand'[y].seq >= 1 /\ (Starts(hand[y]))'
             /\ hand'[y].from <= hand'[y].to /\ hand'[y].to <= Len(log') + 1
  <2>1. CASE y = x
    <3>1. QED
      BY <1>4, <2>1
  <2>2. CASE y # x
    <3>1. at[y] = "cutting" /\ hand'[y] = hand[y]
      BY <1>4, <2>2
    <3>2. QED
      BY <1>2, <2>2, <3>1 DEF HandInv
  <2>3. QED
    BY <2>1, <2>2
<1>5. ASSUME NEW y \in Exporters, at'[y] \in {"resuming", "putting", "put"}
      PROVE  \E r \in ledger' : SameRange(r.file, hand'[y])
  BY <1>3, <1>5
<1>6. HandInv'
  BY <1>4, <1>5 DEF HandInv
<1>7. QED
  BY <1>1, <1>6

LEMMA UnchangedSegments ==
    ASSUME CutsFollowLanded, UNCHANGED ledger
    PROVE  SameSegments
  BY DEF CutsFollowLanded, SameSegments, SameRange, Landed

\* Rebuild may restate a row that is pending: its range stays, and what landed is left alone.
LEMMA RebuildKeeps ==
    ASSUME TypeOK, CutsFollowLanded, HandInv, NEW x \in Exporters, Rebuild(x)
    PROVE  SameSegments /\ Landed \subseteq Landed'
<1>1. /\ at[x] = "resuming"
      /\ ledger' = ledger \/ ledger' = Restated(Rewritten(x))
  BY DEF Rebuild
<1>2. hand[x] \in Files /\ \E r \in ledger : SameRange(r.file, hand[x])
  BY <1>1 DEF HandInv, TypeOK, PassOK
<1>3. SameRange(Rewritten(x), hand[x])
  BY <1>2, RewrittenType DEF SameRange
<1>4. \A r \in ledger : r.file.seq = hand[x].seq => SameRange(r.file, hand[x])
  BY <1>2 DEF CutsFollowLanded, SameRange
<1>5. SameSegments
  <2>1. CASE ledger' = ledger
    BY <2>1, UnchangedSegments
  <2>2. CASE ledger' = Restated(Rewritten(x))
    <3>1. \A s \in ledger' : \/ s \in ledger /\ (s.file.seq = hand[x].seq => s.status # "pending")
                           \/ /\ s = [file |-> Rewritten(x), status |-> "pending"]
                              /\ \E r \in ledger : r.file.seq = hand[x].seq /\ r.status = "pending"
      BY <1>3, <2>2 DEF Restated, Row, SameRange
    <3>2. \A r \in ledger : \/ r \in ledger'
                          \/ /\ r.file.seq = hand[x].seq /\ r.status = "pending"
                             /\ [file |-> Rewritten(x), status |-> "pending"] \in ledger'
      BY <1>3, <2>2 DEF Restated, Row, SameRange
    <3>3. \A s \in ledger' : \E r \in ledger : SameRange(s.file, r.file)
      BY <1>3, <1>4, <3>1 DEF SameRange
    <3>4. \A r \in ledger : \E s \in ledger' : SameRange(s.file, r.file)
      BY <1>3, <1>4, <3>2 DEF SameRange
    <3>5. \A p \in Landed : p \in Landed'
      BY <3>2 DEF Landed
    <3>6. \A s, t \in ledger' : s.file.seq = t.file.seq => s = t
      BY <1>3, <3>1 DEF CutsFollowLanded, SameRange
    <3>7. QED
      BY <3>3, <3>4, <3>5, <3>6 DEF SameSegments, SameRange
  <2>3. QED
    BY <1>1, <2>1, <2>2
<1>6. Landed \subseteq Landed'
  BY <1>1 DEF Landed, Restated, Row
<1>7. QED
  BY <1>5, <1>6

\* Confirm changes the status of rows and nothing else.
LEMMA ConfirmKeeps ==
    ASSUME TypeOK, CutsFollowLanded, HandInv, NEW x \in Exporters, Confirm(x)
    PROVE  SameSegments /\ Landed \subseteq Landed'
<1>1. ledger' = (ledger \ Row(hand[x]))
                   \cup {[r EXCEPT !.status = "uploaded"] : r \in Row(hand[x])}
  BY DEF Confirm
<1>2. ASSUME NEW r \in ledger
      PROVE  [r EXCEPT !.status = "uploaded"] = [file |-> r.file, status |-> "uploaded"]
  <2>1. r = [file |-> r.file, status |-> r.status]
    BY DEF TypeOK, Rows
  <2>2. QED
    BY <2>1
<1> DEFINE up(r) == [file |-> r.file, status |-> "uploaded"]
<1>3. /\ \A s \in ledger' : \/ s \in ledger /\ s \notin Row(hand[x])
                           \/ \E r \in Row(hand[x]) : s = up(r)
      /\ \A r \in ledger \ Row(hand[x]) : r \in ledger'
      /\ \A r \in Row(hand[x]) : up(r) \in ledger'
  <2>1. \A r \in Row(hand[x]) : [r EXCEPT !.status = "uploaded"] = up(r)
    BY <1>2 DEF Row
  <2> HIDE DEF up
  <2>2. QED
    BY <1>1, <2>1
<1>4. /\ \A s \in ledger' : \E r \in ledger : s.file = r.file /\ (s = r \/ s.status = "uploaded")
      /\ \A r \in ledger : \E s \in ledger' : s.file = r.file /\ (s = r \/ s.status = "uploaded")
  <2>1. \A r : up(r).file = r.file /\ up(r).status = "uploaded"
    OBVIOUS
  <2>2. Row(hand[x]) \subseteq ledger
    BY DEF Row
  <2> HIDE DEF up
  <2>3. ASSUME NEW r \in ledger
        PROVE  \E s \in ledger' : s.file = r.file /\ (s = r \/ s.status = "uploaded")
    BY <1>3, <2>1
  <2>4. QED
    BY <1>3, <2>1, <2>2, <2>3
<1>5. ASSUME NEW s \in ledger', NEW t \in ledger', s.file.seq = t.file.seq PROVE s = t
  <2>1. \A r, q \in ledger : r.file.seq = q.file.seq => r = q
    BY DEF CutsFollowLanded
  <2>2. CASE s \in ledger /\ s \notin Row(hand[x])
    <3>1. s.file.seq # hand[x].seq
      BY <2>2 DEF Row
    <3>2. t \in ledger
      BY <1>3, <1>5, <3>1 DEF Row
    <3>3. QED
      BY <1>5, <2>1, <2>2, <3>2
  <2>3. CASE \E r \in Row(hand[x]) : s = up(r)
    <3>1. PICK r \in Row(hand[x]) : s = up(r)
      BY <2>3
    <3>2. t.file.seq = hand[x].seq
      BY <1>5, <3>1 DEF Row
    <3>3. PICK q \in Row(hand[x]) : t = up(q)
      BY <1>3, <3>2 DEF Row
    <3>4. r = q
      BY <2>1 DEF Row
    <3>5. QED
      BY <3>1, <3>3, <3>4
  <2>4. QED
    BY <1>3, <2>2, <2>3
<1>6. SameSegments
  BY <1>4, <1>5 DEF SameSegments, SameRange, Landed
<1>7. ASSUME NEW p \in Landed PROVE p \in Landed'
  <2>1. p \in ledger /\ p.status = "uploaded" /\ p \in Rows
    BY DEF Landed, TypeOK
  <2>2. up(p) = p
    BY <2>1 DEF Rows
  <2>3. p \in ledger'
    BY <1>3, <2>1, <2>2
  <2>4. QED
    BY <2>1, <2>3 DEF Landed
<1>8. QED
  BY <1>6, <1>7

\* A range that follows the cursor.
LEMMA FollowingStarts ==
    ASSUME TypeOK, HandInv, NEW x \in Exporters, NEW p \in Cursor, ChainHead > p.to
    PROVE  /\ Following(p, x).seq >= 1 /\ Starts(Following(p, x))
           /\ Following(p, x).from <= Following(p, x).to
           /\ Following(p, x).to <= Len(log) + 1
<1>1. p.seq \in Nat /\ p.to \in Nat
  BY DEF Cursor, Genesis, LastLanded, Landed, Rows, Files, TypeOK
<1>2. Cap \in Nat /\ Cap >= 1 /\ Len(log) \in Nat
  BY DEF Cap, MinEntriesPerSegment, TypeOK, ChainOK
<1>3. /\ Following(p, x).seq = p.seq + 1 /\ Following(p, x).from = p.to + 1
      /\ Following(p, x).to = Lesser(Len(log) + 1, p.to + Cap)
  BY DEF Following, ChainHead
<1>4. CASE p = Genesis
  BY <1>1, <1>2, <1>3, <1>4 DEF Genesis, Starts, Lesser, ChainHead
<1>5. CASE \E r \in LastLanded : p = r.file
  <2>1. PICK r \in Landed : p = r.file
    BY <1>5 DEF LastLanded
  <2>2. p.seq >= 1
    BY <2>1 DEF HandInv, Landed
  <2>3. Starts(Following(p, x))
    BY <1>1, <1>3, <2>1, <2>2 DEF Starts
  <2>4. QED
    BY <1>1, <1>2, <1>3, <2>3 DEF Lesser, ChainHead
<1>6. QED
  BY <1>4, <1>5 DEF Cursor

LEMMA NextFollows ==
    TypeOK /\ TypeOK' /\ CutsFollowLanded /\ HandInv /\ LockInv /\ [Next]_vars
      => CutsFollowLanded' /\ HandInv'
<1> SUFFICES ASSUME TypeOK, TypeOK', CutsFollowLanded, HandInv, LockInv, [Next]_vars
             PROVE  CutsFollowLanded' /\ HandInv'
  OBVIOUS
<1> USE DEF Goes, EmptyHanded, EndPass, chainVars, passVars
<1>0. at \in [Exporters -> {"idle", "looking", "waiting", "cutting", "resuming", "putting", "put"}]
      /\ hand \in [Exporters -> Files \cup {NoFile}]
  BY DEF TypeOK, PassOK
<1>1. ASSUME NEW w \in Writers, Record(w) \/ EndDomain(w)
      PROVE  CutsFollowLanded' /\ HandInv'
  <2>1. UNCHANGED <<ledger, at, hand>>
    BY <1>1 DEF Record, EndDomain, CommitDomain, RollBackDomain
  <2>2. Len(log') \in Nat /\ Len(log) \in Nat /\ Len(log') >= Len(log)
    <3>1. CASE UNCHANGED log
      BY <3>1 DEF TypeOK, ChainOK
    <3>2. CASE CommitDomain(w)
      <4> DEFINE e == [n \in 1 .. Len(drafts[w]) |-> [seq |-> drafts[w][n], of |-> 0]]
      <4>1. e \in Seq([seq : Nat, of : Nat]) /\ log \in Seq([seq : Nat, of : Nat])
        BY DraftEntries DEF TypeOK, ChainOK
      <4>2. log' = log \o e
        BY <3>2 DEF CommitDomain
      <4> HIDE DEF e
      <4>3. Len(log \o e) = Len(log) + Len(e) /\ Len(e) \in Nat /\ Len(log) \in Nat
        BY ONLY <4>1, ConcatType
      <4>4. QED
        BY <4>2, <4>3
    <3>3. QED
      BY <1>1, <3>1, <3>2 DEF Record, EndDomain, RollBackDomain
  <2>3. ASSUME NEW r \in ledger PROVE r.file.to \in Nat /\ r.file.to <= Len(log')
    <3>1. r.file.to \in Nat /\ r.file.to <= Len(log)
      BY DEF CutsFollowLanded, TypeOK, Rows, Files
    <3>2. QED
      BY <2>2, <3>1
  <2>4. ASSUME NEW x \in Exporters, at[x] = "cutting" PROVE hand[x].to <= Len(log') + 1
    <3>1. hand[x].to \in Nat /\ hand[x].to <= Len(log) + 1
      BY <2>4 DEF HandInv, TypeOK, PassOK, Files
    <3>2. QED
      BY <2>2, <3>1
  <2>5. QED
    BY <2>1, <2>3, <2>4 DEF CutsFollowLanded, HandInv, Starts, Landed
<1>2. ASSUME NEW x \in Exporters,
             StartPass(x) \/ BudgetSpent(x) \/ CutConflicts(x) \/ Fails(x)
               \/ \E v \in Formats : Restart(x, v)
      PROVE  CutsFollowLanded' /\ HandInv'
  <2>1. UNCHANGED <<ledger, log>> /\ at'[x] \in {"idle", "looking"}
        /\ \A y \in Exporters \ {x} : at'[y] = at[y] /\ hand'[y] = hand[y]
    BY <1>0, <1>2 DEF StartPass, BudgetSpent, CutConflicts, Fails, Restart
  <2>2. SameSegments
    BY <2>1, UnchangedSegments
  <2>3. QED
    BY <2>1, <2>2, MovesStay DEF HandInv
<1>3. ASSUME NEW x \in Exporters, Look(x) PROVE CutsFollowLanded' /\ HandInv'
  <2>1. UNCHANGED <<ledger, log>>
        /\ \A y \in Exporters \ {x} : at'[y] = at[y] /\ hand'[y] = hand[y]
    BY <1>0, <1>3 DEF Look, Holding
  <2>2. /\ at'[x] \in {"waiting", "resuming"}
        /\ at'[x] = "resuming" => \E r \in ledger : hand'[x] = r.file
    BY <1>0, <1>3 DEF Look, Holding, Pending
  <2>3. SameSegments
    BY <2>1, UnchangedSegments
  <2>4. QED
    BY <2>1, <2>2, <2>3, MovesStay DEF HandInv, SameRange
<1>4. ASSUME NEW x \in Exporters, CutReads(x) PROVE CutsFollowLanded' /\ HandInv'
  <2>1. UNCHANGED <<ledger, log>>
        /\ \A y \in Exporters \ {x} : at'[y] = at[y] /\ hand'[y] = hand[y]
    BY <1>0, <1>4 DEF CutReads, Holding
  <2>2. /\ at'[x] \in {"idle", "cutting"}
        /\ at'[x] = "cutting" => \E p \in Cursor : ChainHead > p.to /\ hand'[x] = Following(p, x)
    BY <1>0, <1>4 DEF CutReads, Holding
  <2>3. at'[x] = "cutting" => /\ hand'[x].seq >= 1 /\ (Starts(hand[x]))'
                              /\ hand'[x].from <= hand'[x].to /\ hand'[x].to <= Len(log) + 1
    <3>1. SUFFICES ASSUME at'[x] = "cutting"
                   PROVE  /\ hand'[x].seq >= 1 /\ (Starts(hand[x]))'
                          /\ hand'[x].from <= hand'[x].to /\ hand'[x].to <= Len(log) + 1
      OBVIOUS
    <3>2. PICK p \in Cursor : ChainHead > p.to /\ hand'[x] = Following(p, x)
      BY <2>2, <3>1
    <3>3. PICK f : f = Following(p, x)
      OBVIOUS
    <3>4. f.seq >= 1 /\ Starts(f) /\ f.from <= f.to /\ f.to <= Len(log) + 1
      BY <3>2, <3>3, FollowingStarts
    <3>5. (Starts(f))'
      BY <2>1, <3>4 DEF Starts, Landed
    <3>6. hand'[x] = f
      BY <3>2, <3>3
    <3>7. (Starts(hand[x]))'
      BY <3>5, <3>6 DEF Starts
    <3>8. QED
      BY <3>4, <3>6, <3>7
  <2>4. SameSegments
    BY <2>1, UnchangedSegments
  <2>5. QED
    BY <2>1, <2>2, <2>3, <2>4, MovesStay DEF HandInv
<1>5. ASSUME NEW x \in Exporters, CutCommits(x) PROVE CutsFollowLanded' /\ HandInv'
  <2> DEFINE new == [file |-> hand[x], status |-> "pending"]
  <2>1. /\ ledger' = ledger \cup {new} /\ hand' = hand /\ at[x] = "cutting" /\ at'[x] = "putting"
        /\ \A y \in Exporters \ {x} : at'[y] = at[y]
        /\ Claimable(hand[x])
    BY <1>0, <1>5 DEF CutCommits
  <2>2. Len(log') = Len(log) + 1 /\ Len(log) \in Nat
    <3>1. hand[x] \in Files /\ log \in Seq([seq : Nat, of : Nat]) /\ Len(log) + 1 \in Nat
      BY <1>5 DEF CutCommits, TypeOK, ChainOK, PassOK
    <3>2. [seq |-> Len(log) + 1, of |-> hand[x].seq] \in [seq : Nat, of : Nat]
      BY <3>1 DEF Files
    <3>3. QED
      BY <1>5, <3>1, <3>2, AppendType DEF CutCommits, ChainHead
  <2>3. /\ hand[x].seq >= 1 /\ Starts(hand[x])
        /\ hand[x].from <= hand[x].to /\ hand[x].to <= Len(log) + 1
    BY <2>1 DEF HandInv
  <2>4. Landed' = Landed
    BY <2>1 DEF Landed
  <2>5. ASSUME NEW y \in Exporters, at'[y] = "cutting" PROVE FALSE
    BY <2>1, <2>5 DEF LockInv
  <2>6. ASSUME NEW r \in ledger PROVE r.file.to <= Len(log')
    <3>1. r.file.to \in Nat /\ r.file.to <= Len(log)
      BY DEF CutsFollowLanded, TypeOK, Rows, Files
    <3>2. QED
      BY <2>2, <3>1
  <2>7. CutsFollowLanded'
    <3>1. \A r, s \in ledger' : r.file.seq = s.file.seq => r = s
      BY <2>1 DEF CutsFollowLanded, Claimable
    <3>2. ASSUME NEW r \in ledger' PROVE r.file.from <= r.file.to /\ r.file.to <= Len(log') /\ (Starts(r.file))'
      <4>1. CASE r \in ledger
        BY <2>4, <2>6, <4>1 DEF CutsFollowLanded, Starts
      <4>2. CASE r = new
        BY <2>2, <2>3, <2>4, <4>2 DEF Starts
      <4>3. QED
        BY <2>1, <4>1, <4>2
    <3>3. QED
      BY <3>1, <3>2 DEF CutsFollowLanded, Starts
  <2>8. HandInv'
    <3>1. \A r \in ledger' : r.file.seq >= 1
      BY <2>1, <2>3 DEF HandInv
    <3>2. ASSUME NEW y \in Exporters, at'[y] \in {"resuming", "putting", "put"}
          PROVE  \E r \in ledger' : SameRange(r.file, hand'[y])
      <4>1. CASE y = x
        <5>1. new \in ledger' /\ new.file = hand[x] /\ hand'[y] = hand[x]
          BY <2>1, <4>1
        <5>2. QED
          BY <5>1 DEF SameRange
      <4>2. CASE y # x
        <5>1. \E r \in ledger : SameRange(r.file, hand[y])
          BY <2>1, <3>2, <4>2 DEF HandInv
        <5>2. QED
          BY <2>1, <5>1
      <4>3. QED
        BY <4>1, <4>2
    <3>3. QED
      BY <2>5, <3>1, <3>2 DEF HandInv
  <2>9. QED
    BY <2>7, <2>8
<1>6. ASSUME NEW x \in Exporters, Rebuild(x) PROVE CutsFollowLanded' /\ HandInv'
  <2>1. /\ log' = log /\ at'[x] = "putting" /\ at[x] = "resuming" /\ hand'[x] = Rewritten(x)
        /\ \A y \in Exporters \ {x} : at'[y] = at[y] /\ hand'[y] = hand[y]
        /\ ledger' = ledger \/ ledger' = Restated(Rewritten(x))
    BY <1>0, <1>6 DEF Rebuild
  <2>2. hand[x] \in Files /\ \E r \in ledger : SameRange(r.file, hand[x])
    BY <2>1 DEF HandInv, TypeOK, PassOK
  <2>3. SameRange(Rewritten(x), hand[x])
    BY <2>2, RewrittenType DEF SameRange
  <2>4. \A r \in ledger : r.file.seq = hand[x].seq => SameRange(r.file, hand[x])
    BY <2>2 DEF CutsFollowLanded, SameRange
  <2>5. SameSegments
    BY <1>6, RebuildKeeps
  <2>6. \A r \in ledger' : r.file.seq >= 1
    BY <2>5 DEF SameSegments, SameRange, HandInv
  <2>7. \E r \in ledger' : SameRange(r.file, hand'[x])
    BY <2>1, <2>2, <2>3, <2>5 DEF SameSegments, SameRange
  <2>8. QED
    BY <2>1, <2>5, <2>6, <2>7, MovesStay
<1>7. ASSUME NEW x \in Exporters, Put(x) PROVE CutsFollowLanded' /\ HandInv'
  <2>1. UNCHANGED <<ledger, log, hand>> /\ at[x] = "putting" /\ at'[x] = "put"
        /\ \A y \in Exporters \ {x} : at'[y] = at[y]
    BY <1>0, <1>7 DEF Put
  <2>2. SameSegments
    BY <2>1, UnchangedSegments
  <2>3. QED
    BY <2>1, <2>2, MovesStay DEF HandInv
<1>8. ASSUME NEW x \in Exporters, Confirm(x) PROVE CutsFollowLanded' /\ HandInv'
  <2>1. /\ log' = log /\ at'[x] = "looking"
        /\ \A y \in Exporters \ {x} : at'[y] = at[y] /\ hand'[y] = hand[y]
        /\ ledger' = (ledger \ Row(hand[x]))
                       \cup {[r EXCEPT !.status = "uploaded"] : r \in Row(hand[x])}
    BY <1>0, <1>8 DEF Confirm
  <2>6. SameSegments
    BY <1>8, ConfirmKeeps
  <2>7. \A r \in ledger' : r.file.seq >= 1
    BY <2>6 DEF SameSegments, SameRange, HandInv
  <2>8. QED
    BY <2>1, <2>6, <2>7, MovesStay
<1>9. CASE UNCHANGED vars
  BY <1>9 DEF vars, CutsFollowLanded, HandInv, Starts, Landed
<1>10. QED
  BY <1>1, <1>2, <1>3, <1>4, <1>5, <1>6, <1>7, <1>8, <1>9 DEF Next, Step

\* The cursor loses no entry and repeats none: the segments of the ledger follow
\* each other without a gap or an overlap, and each was cut when the one before
\* it had landed, whatever exporters race, fail or change build (cut, Claim).
THEOREM SegmentsFollow == Spec => []CutsFollowLanded
<1>1. Init => CutsFollowLanded /\ HandInv
  BY DEF Init, CutsFollowLanded, HandInv
<1>2. QED
  BY <1>1, InitTypeOK, NextTypeOK, InitLockInv, NextLockInv, NextFollows, PTL DEF Spec

\* Both at once: what the ledger names are consecutive pieces of one unforked
\* chain, for any number of writers and exporters (Record, cut, Claim).
THEOREM SegmentsTile == Spec => []SegmentsTileChain
<1>1. ChainIntact /\ CutsFollowLanded => SegmentsTileChain
  BY DEF SegmentsTileChain
<1>2. QED
  BY <1>1, ChainNeverForks, SegmentsFollow, PTL

-----------------------------------------------------------------------------
(***************************************************************************)
(* The trail.  While a range is being cut the head it was measured against *)
(* is the head: its own record comes last in it, or after its cap.         *)
(***************************************************************************)
CuttingFits ==
    \A x \in Exporters : at[x] = "cutting" =>
        hand[x].to = Lesser(Len(log) + 1, hand[x].from - 1 + Cap)

\* A step that does not claim a range leaves the segments of the ledger.
LEMMA StepKeeps ==
    ASSUME TypeOK, CutsFollowLanded, HandInv, [Next]_vars, \A x \in Exporters : ~CutCommits(x)
    PROVE  SameSegments /\ Landed \subseteq Landed'
<1>1. CASE UNCHANGED ledger
  BY <1>1, UnchangedSegments DEF Landed
<1>2. CASE \E x \in Exporters : Rebuild(x)
  BY <1>2, RebuildKeeps
<1>3. CASE \E x \in Exporters : Confirm(x)
  BY <1>3, ConfirmKeeps
<1>4. QED
  BY <1>1, <1>2, <1>3
  DEF Next, Step, EndDomain, Record, CommitDomain, RollBackDomain, StartPass, Look, BudgetSpent,
      CutReads, CutConflicts, Put, Fails, Restart, vars, chainVars, passVars

\* What the log becomes: only a commit of the domain or of a cut adds to it.
LEMMA StepLog ==
    ASSUME TypeOK, LockInv, [Next]_vars
    PROVE  \/ log' = log
           \/ /\ UNCHANGED <<ledger, at, hand, store, format, mixed>>
              /\ \A x \in Exporters : at[x] # "cutting"
              /\ Len(log') >= Len(log) /\ Len(log') \in Nat
              /\ \A n \in 1 .. Len(log) : log'[n] = log[n]
              /\ \A n \in 1 .. Len(log') : n > Len(log) => log'[n].of = 0
           \/ \E x \in Exporters : CutCommits(x)
<1>1. ASSUME NEW w \in Writers, CommitDomain(w)
      PROVE  /\ UNCHANGED <<ledger, at, hand, store, format, mixed>>
             /\ \A x \in Exporters : at[x] # "cutting"
             /\ Len(log') >= Len(log) /\ Len(log') \in Nat
             /\ \A n \in 1 .. Len(log) : log'[n] = log[n]
             /\ \A n \in 1 .. Len(log') : n > Len(log) => log'[n].of = 0
  <2> DEFINE e == [n \in 1 .. Len(drafts[w]) |-> [seq |-> drafts[w][n], of |-> 0]]
  <2>1. /\ e \in Seq([seq : Nat, of : Nat]) /\ log \in Seq([seq : Nat, of : Nat])
        /\ \A n \in 1 .. Len(e) : e[n].of = 0
    BY DraftEntries DEF TypeOK, ChainOK
  <2>2. log' = log \o e /\ lock = w /\ UNCHANGED <<ledger, at, hand, store, format, mixed>>
    BY <1>1 DEF CommitDomain, passVars, LockInv
  <2> HIDE DEF e
  <2>3. /\ Len(log \o e) = Len(log) + Len(e) /\ Len(e) \in Nat /\ Len(log) \in Nat
        /\ \A n \in 1 .. Len(log) : (log \o e)[n] = log[n]
        /\ \A n \in 1 .. Len(e) : (log \o e)[Len(log) + n] = e[n]
    BY ONLY <2>1, ConcatType
  <2>4. \A x \in Exporters : at[x] # "cutting"
    BY <2>2, AuditExportAssumption DEF LockInv
  <2>5. ASSUME NEW n \in 1 .. Len(log'), n > Len(log) PROVE log'[n].of = 0
    <3>1. n - Len(log) \in 1 .. Len(e) /\ n = Len(log) + (n - Len(log))
      BY <2>2, <2>3, <2>5
    <3>2. QED
      BY <2>1, <2>2, <2>3, <3>1
  <2>6. QED
    BY <2>2, <2>3, <2>4, <2>5
<1>2. QED
  BY <1>1
  DEF Next, Step, EndDomain, Record, RollBackDomain, StartPass, Look, BudgetSpent,
      CutReads, CutConflicts, Rebuild, Put, Confirm, Fails, Restart, vars, chainVars, passVars

\* One exporter moves at a time.
LEMMA OneMoves ==
    ASSUME TypeOK, NEW x \in Exporters,
           Step(x) \/ Fails(x) \/ \E v \in Formats : Restart(x, v)
    PROVE  /\ \A y \in Exporters \ {x} : at'[y] = at[y] /\ hand'[y] = hand[y] /\ format'[y] = format[y]
           /\ at'[x] = "cutting" => CutReads(x)
<1> USE DEF Goes, EndPass, EmptyHanded, Holding, TypeOK, PassOK
<1>1. CASE StartPass(x) \/ Look(x) \/ BudgetSpent(x)
  BY <1>1 DEF StartPass, Look, BudgetSpent
<1>2. CASE CutReads(x) \/ CutCommits(x) \/ CutConflicts(x)
  BY <1>2 DEF CutReads, CutCommits, CutConflicts
<1>3. CASE Rebuild(x) \/ Put(x) \/ Confirm(x)
  BY <1>3 DEF Rebuild, Put, Confirm
<1>4. CASE Fails(x) \/ \E v \in Formats : Restart(x, v)
  BY <1>4 DEF Fails, Restart
<1>5. QED
  BY <1>1, <1>2, <1>3, <1>4 DEF Step

LEMMA NextFits ==
    ASSUME TypeOK, LockInv, CuttingFits, [Next]_vars
    PROVE  CuttingFits'
<1> USE DEF CuttingFits
<1>1. CASE \E x \in Exporters : CutCommits(x)
  <2>1. PICK x \in Exporters : CutCommits(x)
    BY <1>1
  <2>2. \A y \in Exporters : at'[y] # "cutting"
    BY <2>1 DEF CutCommits, Goes, LockInv, TypeOK, PassOK
  <2>3. QED
    BY <2>2
<1>2. CASE /\ UNCHANGED <<ledger, at, hand, store, format, mixed>>
           /\ \A x \in Exporters : at[x] # "cutting"
  BY <1>2
<1>3. CASE log' = log
  <2>1. ASSUME NEW x \in Exporters, at'[x] = "cutting"
        PROVE  hand'[x].to = Lesser(Len(log) + 1, hand'[x].from - 1 + Cap)
    <3>1. CASE CutReads(x)
      <4>1. PICK p \in Cursor : hand'[x] = Following(p, x)
        BY <2>1, <3>1 DEF CutReads, Holding, Goes, EndPass, TypeOK, PassOK
      <4>2. p.to \in Nat
        BY DEF Cursor, Genesis, LastLanded, Landed, Rows, Files, TypeOK
      <4>3. hand'[x].from = p.to + 1 /\ hand'[x].to = Lesser(Len(log) + 1, p.to + Cap)
        BY <4>1 DEF Following, ChainHead
      <4>4. hand'[x].from - 1 = p.to
        BY <4>2, <4>3
      <4>5. QED
        BY <4>3, <4>4
    <3>2. CASE ~CutReads(x)
      <4>1. at[x] = "cutting" /\ hand'[x] = hand[x]
        BY <2>1, <3>2, OneMoves
        DEF Next, EndDomain, Record, CommitDomain, RollBackDomain, vars, passVars
      <4>2. QED
        BY <4>1
    <3>3. QED
      BY <3>1, <3>2
  <2>2. QED
    BY <1>3, <2>1
<1>4. QED
  BY <1>1, <1>2, <1>3, StepLog

\* What Claim and its export record leave: one entry for each row and one row for each entry.
LEMMA NextRecorded ==
    ASSUME TypeOK, TypeOK', LockInv, CutsFollowLanded, HandInv, CuttingFits, ExportsRecorded, [Next]_vars
    PROVE  ExportsRecorded'
<1> DEFINE Its(r, n, l) == /\ n \in r.file.to .. Len(l) /\ l[n].of = r.file.seq
                           /\ \A k \in 1 .. Len(l) : l[k].of = r.file.seq => k = n
                           /\ n = r.file.to \/ r.file.to + 1 = r.file.from + Cap
<1>0. /\ \A r \in ledger : r.file.seq \in Nat \ {0} /\ r.file.to \in Nat \ {0}
      /\ Len(log) \in Nat
      /\ \A n \in 1 .. Len(log) : log[n].of # 0 => \E r \in ledger : r.file.seq = log[n].of
      /\ \A r \in ledger : \E n \in Nat : Its(r, n, log)
  <2>1. ASSUME NEW r \in ledger PROVE r.file.seq \in Nat \ {0} /\ r.file.to \in Nat \ {0}
    <3>1. r.file \in Files /\ \A p \in Landed : p.file \in Files
      BY DEF TypeOK, Rows, Landed
    <3>2. r.file.seq \in Nat \ {0} /\ r.file.from <= r.file.to
      BY <3>1 DEF Files, HandInv, CutsFollowLanded
    <3>3. r.file.from >= 1
      BY <3>1 DEF Files, CutsFollowLanded
    <3>4. QED
      BY <3>1, <3>2, <3>3 DEF Files
  <2>2. Len(log) \in Nat
    BY DEF TypeOK, ChainOK
  <2>3. \A n \in 1 .. Len(log) : log[n].of # 0 => \E r \in ledger : r.file.seq = log[n].of
    BY DEF ExportsRecorded
  <2>4. ASSUME NEW r \in ledger PROVE \E n \in Nat : Its(r, n, log)
    <3>1. PICK n \in r.file.to .. Len(log) :
                /\ log[n].of = r.file.seq
                /\ \A k \in 1 .. Len(log) : log[k].of = r.file.seq => k = n
                /\ n = r.file.to \/ r.file.to + 1 = r.file.from + Cap
      BY DEF ExportsRecorded
    <3>2. n \in Nat
      BY <2>1, <2>2
    <3>3. QED
      BY <3>1, <3>2
  <2>5. QED
    BY <2>1, <2>2, <2>3, <2>4
<1>1. CASE \E x \in Exporters : CutCommits(x)
  <2>1. PICK x \in Exporters : CutCommits(x)
    BY <1>1
  <2> DEFINE h == hand[x]
             e == [seq |-> Len(log) + 1, of |-> h.seq]
  <2>2. /\ h \in Files /\ h.seq \in Nat /\ h.from \in Nat /\ at[x] = "cutting" /\ Claimable(h)
        /\ log' = Append(log, e) /\ ledger' = ledger \cup {[file |-> h, status |-> "pending"]}
    BY <2>1 DEF CutCommits, TypeOK, PassOK, Files, ChainHead
  <2>3. /\ h.seq >= 1 /\ h.to = Lesser(Len(log) + 1, h.from - 1 + Cap)
        /\ Cap \in Nat
    BY <2>2 DEF HandInv, CuttingFits, Cap, MinEntriesPerSegment
  <2>4. /\ Len(log') = Len(log) + 1 /\ log'[Len(log) + 1].of = h.seq
        /\ \A n \in 1 .. Len(log) : log'[n] = log[n]
    <3>1. e \in [seq : Nat, of : Nat] /\ log \in Seq([seq : Nat, of : Nat])
      BY <2>2, <1>0 DEF TypeOK, ChainOK
    <3>2. QED
      BY <2>2, <3>1, AppendType
  <2>5. \A r \in ledger : r.file.seq # h.seq
    BY <2>2 DEF Claimable
  <2> HIDE DEF h, e
  <2>6. ASSUME NEW n \in 1 .. Len(log'), log'[n].of # 0
        PROVE  \E r \in ledger' : r.file.seq = log'[n].of
    <3>1. CASE n = Len(log) + 1
      <4>1. PICK r : r = [file |-> h, status |-> "pending"]
        OBVIOUS
      <4>2. r \in ledger' /\ r.file.seq = h.seq
        BY <2>2, <4>1
      <4>3. QED
        BY <2>4, <3>1, <4>2
    <3>2. CASE n # Len(log) + 1
      <4>1. n \in 1 .. Len(log) /\ log'[n] = log[n]
        BY <1>0, <2>4, <3>2
      <4>2. QED
        BY <1>0, <2>2, <2>6, <4>1
    <3>3. QED
      BY <3>1, <3>2
  <2>7. ASSUME NEW r \in ledger' PROVE \E n \in Nat : Its(r, n, log')
    <3>1. CASE r \in ledger
      <4>1. PICK n \in Nat : Its(r, n, log)
        BY <1>0, <3>1
      <4>2. ASSUME NEW k \in 1 .. Len(log'), log'[k].of = r.file.seq PROVE k = n
        <5>1. k # Len(log) + 1
          BY <2>4, <2>5, <3>1, <4>2
        <5>2. k \in 1 .. Len(log) /\ log'[k] = log[k]
          BY <1>0, <2>4, <5>1
        <5>3. QED
          BY <4>1, <4>2, <5>2
      <4>3. n \in r.file.to .. Len(log') /\ log'[n].of = r.file.seq
        <5>1. n >= 1
          BY <1>0, <3>1, <4>1
        <5>2. QED
          BY <1>0, <2>4, <3>1, <4>1, <5>1
      <4>4. QED
        BY <4>1, <4>2, <4>3
    <3>2. CASE r = [file |-> h, status |-> "pending"]
      <4>1. r.file = h
        BY <3>2
      <4>2. ASSUME NEW k \in 1 .. Len(log'), log'[k].of = h.seq PROVE k = Len(log) + 1
        <5>1. CASE k \in 1 .. Len(log)
          BY <1>0, <2>3, <2>4, <2>5, <4>2, <5>1
        <5>2. QED
          BY <1>0, <2>4, <5>1
      <4>3. /\ Len(log) + 1 \in h.to .. Len(log')
            /\ Len(log) + 1 = h.to \/ h.to + 1 = h.from + Cap
        BY <1>0, <2>2, <2>3, <2>4 DEF Lesser
      <4>4. Its(r, Len(log) + 1, log')
        BY <2>4, <4>1, <4>2, <4>3
      <4>5. QED
        BY <1>0, <4>4
    <3>3. QED
      BY <2>2, <3>1, <3>2
  <2>8. QED
    BY <2>6, <2>7 DEF ExportsRecorded
<1>2. CASE /\ ledger' = ledger /\ Len(log') >= Len(log) /\ Len(log') \in Nat
           /\ \A n \in 1 .. Len(log) : log'[n] = log[n]
           /\ \A n \in 1 .. Len(log') : n > Len(log) => log'[n].of = 0
  <2>1. ASSUME NEW n \in 1 .. Len(log'), log'[n].of # 0
        PROVE  n \in 1 .. Len(log) /\ log'[n] = log[n]
    BY <1>0, <1>2, <2>1
  <2>2. ASSUME NEW r \in ledger PROVE \E n \in Nat : Its(r, n, log')
    <3>1. PICK n \in Nat : Its(r, n, log)
      BY <1>0
    <3>2. n >= 1
      BY <1>0, <3>1
    <3>3. n \in r.file.to .. Len(log') /\ log'[n].of = r.file.seq
      BY <1>0, <1>2, <3>1, <3>2
    <3>4. \A k \in 1 .. Len(log') : log'[k].of = r.file.seq => k = n
      BY <1>0, <2>1, <3>1
    <3>5. QED
      BY <3>1, <3>3, <3>4
  <2>3. QED
    BY <1>0, <1>2, <2>1, <2>2 DEF ExportsRecorded
<1>3. CASE log' = log /\ SameSegments
  <2>1. ASSUME NEW n \in 1 .. Len(log), log[n].of # 0 PROVE \E s \in ledger' : s.file.seq = log[n].of
    BY <1>0, <1>3, <2>1 DEF SameSegments, SameRange
  <2>2. ASSUME NEW s \in ledger' PROVE \E n \in Nat : Its(s, n, log)
    <3>1. PICK r \in ledger : SameRange(s.file, r.file)
      BY <1>3 DEF SameSegments
    <3>2. PICK n \in Nat : Its(r, n, log)
      BY <1>0
    <3>3. QED
      BY <3>1, <3>2 DEF SameRange
  <2>3. QED
    BY <1>3, <2>1, <2>2 DEF ExportsRecorded
<1>4. QED
  BY <1>1, <1>2, <1>3, StepLog, StepKeeps

-----------------------------------------------------------------------------
(***************************************************************************)
(* The files.  Range and predecessor make the file of a segment, but for   *)
(* the format; as long as one build at a time has it in hand that is one   *)
(* file, and it is the one that the ledger names.                          *)
(***************************************************************************)
Working(x) == at[x] \in {"resuming", "putting", "put"}

Continues(f) ==
    IF f.seq = 1 THEN f.after = 0
    ELSE \E p \in Landed : p.file.seq + 1 = f.seq /\ f.after = p.file.format

FilesInv ==
    /\ \A r, s \in ledger : r.file.from = s.file.from => r = s
    /\ \A r \in ledger : Continues(r.file)
    /\ \A x \in Exporters : at[x] = "cutting" \/ Working(x) => Continues(hand[x])
    /\ \A x \in Exporters : at[x] \in {"cutting", "putting", "put"} => hand[x].format = format[x]

LEMMA ContinuesStay ==
    ASSUME NEW f, Continues(f), Landed \subseteq Landed'
    PROVE  Continues(f)'
  BY DEF Continues

\* A file is determined by its range and its format.
LEMMA SameFile ==
    ASSUME TypeOK, CutsFollowLanded, NEW f \in Files, NEW g \in Files,
           SameRange(f, g), Continues(f), Continues(g), f.format = g.format
    PROVE  f = g
<1>1. f.after = g.after
  <2>1. \A p, q \in Landed : p.file.seq + 1 = q.file.seq + 1 => p = q
    BY SMTT(60) DEF CutsFollowLanded, Landed, TypeOK, Rows, Files
  <2>2. QED
    BY <2>1 DEF Continues, SameRange
<1>2. QED
  BY <1>1 DEF SameRange, Files

\* Rebuilding changes the format of a file at most.
LEMMA RewrittenContinues ==
    ASSUME TypeOK, CutsFollowLanded, HandInv, FilesInv, NEW x \in Exporters, at[x] = "resuming"
    PROVE  Continues(Rewritten(x)) /\ Rewritten(x).format = format[x]
<1> DEFINE h == hand[x]
<1>1. h \in Files /\ h.seq \in Nat /\ Continues(h) /\ format[x] \in Formats
  BY DEF TypeOK, PassOK, FilesInv, Working, Files
<1>2. h.seq >= 1
  BY DEF HandInv, SameRange
<1>3. Rewritten(x).seq = h.seq
  BY <1>1, RewrittenType
<1>4. Rewritten(x).format = format[x]
      /\ Rewritten(x).after = IF Before(h) = {} THEN 0 ELSE (CHOOSE r \in Before(h) : TRUE).file.format
  BY <1>1 DEF Rewritten, Files
<1>5. CASE h.seq = 1
  <2>1. Before(h) = {}
    BY <1>5 DEF Before, HandInv, TypeOK, Rows, Files
  <2>2. QED
    BY <1>3, <1>4, <1>5, <2>1 DEF Continues
<1>6. CASE h.seq # 1
  <2>1. PICK p \in Landed : p.file.seq + 1 = h.seq
    BY <1>1, <1>6 DEF Continues
  <2>2. p \in Before(h) /\ p.file.seq \in Nat
    BY <1>1, <2>1 DEF Before, Landed, TypeOK, Rows, Files
  <2>3. \A r \in Before(h) : r = p
    BY <2>2 DEF Before, CutsFollowLanded
  <2>4. (CHOOSE r \in Before(h) : TRUE) = p
    BY <2>2, <2>3
  <2>5. QED
    BY <1>3, <1>4, <1>6, <2>1, <2>2, <2>4 DEF Continues
<1>7. QED
  BY <1>5, <1>6

\* What landed stays landed, whatever happens.
LEMMA LandedStay ==
    ASSUME TypeOK, CutsFollowLanded, HandInv, [Next]_vars
    PROVE  Landed \subseteq Landed'
<1>1. CASE \E x \in Exporters : CutCommits(x)
  BY <1>1 DEF CutCommits, Landed
<1>2. QED
  BY <1>1, StepKeeps

\* The files the ledger names after a step.
LEMMA StepFiles ==
    ASSUME TypeOK, CutsFollowLanded, HandInv, [Next]_vars, NEW s \in ledger'
    PROVE  \/ \E r \in ledger : s.file = r.file
           \/ \E x \in Exporters : CutCommits(x) /\ s = [file |-> hand[x], status |-> "pending"]
           \/ \E x \in Exporters : Rebuild(x) /\ s.file = Rewritten(x)
<1>1. ASSUME NEW x \in Exporters, Confirm(x) PROVE \E r \in ledger : s.file = r.file
  <2>1. \A r \in Row(hand[x]) : r \in ledger /\ [r EXCEPT !.status = "uploaded"].file = r.file
    BY DEF Row, TypeOK, Rows
  <2>2. QED
    BY <1>1, <2>1 DEF Confirm
<1>2. ASSUME NEW x \in Exporters, Rebuild(x), s \notin ledger PROVE s.file = Rewritten(x)
  BY <1>2 DEF Rebuild, Restated
<1>3. QED
  BY <1>1, <1>2
  DEF Next, Step, EndDomain, Record, CommitDomain, RollBackDomain, StartPass, Look, BudgetSpent,
      CutReads, CutCommits, CutConflicts, Put, Fails, Restart, vars, chainVars, passVars

\* What a step leaves in the hand of whoever takes it.
LEMMA MoverHand ==
    ASSUME TypeOK, NEW x \in Exporters,
           Step(x) \/ Fails(x) \/ \E v \in Formats : Restart(x, v),
           at'[x] = "cutting" \/ Working(x)'
    PROVE  /\ format' = format
           /\ \/ at'[x] = "resuming" /\ \E r \in Pending : hand'[x] = r.file
              \/ at'[x] = "cutting" /\ \E p \in Cursor : ChainHead > p.to /\ hand'[x] = Following(p, x)
              \/ CutCommits(x) /\ at[x] = "cutting" /\ at'[x] = "putting" /\ hand'[x] = hand[x]
              \/ Rebuild(x) /\ at[x] = "resuming" /\ at'[x] = "putting" /\ hand'[x] = Rewritten(x)
              \/ Put(x) /\ at[x] = "putting" /\ at'[x] = "put" /\ hand'[x] = hand[x]
<1> USE DEF Goes, EndPass, EmptyHanded, Holding, Working
<1>0. at \in [Exporters -> {"idle", "looking", "waiting", "cutting", "resuming", "putting", "put"}]
      /\ hand \in [Exporters -> Files \cup {NoFile}]
  BY DEF TypeOK, PassOK
<1>1. CASE StartPass(x) \/ BudgetSpent(x)
  BY <1>0, <1>1 DEF StartPass, BudgetSpent
<1>2. CASE Look(x)
  BY <1>0, <1>2 DEF Look
<1>3. CASE CutReads(x)
  BY <1>0, <1>3 DEF CutReads
<1>4. CASE CutCommits(x) \/ CutConflicts(x)
  BY <1>0, <1>4 DEF CutCommits, CutConflicts
<1>5. CASE Rebuild(x) \/ Put(x) \/ Confirm(x)
  BY <1>0, <1>5 DEF Rebuild, Put, Confirm
<1>6. CASE Fails(x) \/ \E v \in Formats : Restart(x, v)
  BY <1>0, <1>6 DEF Fails, Restart
<1>7. QED
  BY <1>1, <1>2, <1>3, <1>4, <1>5, <1>6 DEF Step

LEMMA NextFiles ==
    ASSUME TypeOK, TypeOK', CutsFollowLanded, HandInv, FilesInv, [Next]_vars
    PROVE  FilesInv'
<1>1. Landed \subseteq Landed'
  BY LandedStay
<1>2. ASSUME NEW s \in ledger', NEW t \in ledger', s.file.from = t.file.from PROVE s = t
  <2>1. CASE \E x \in Exporters : CutCommits(x)
    BY <1>2, <2>1 DEF CutCommits, Claimable, FilesInv
  <2>2. CASE SameSegments
    <3>1. PICK r \in ledger, q \in ledger : SameRange(s.file, r.file) /\ SameRange(t.file, q.file)
      BY <2>2 DEF SameSegments
    <3>2. r = q
      BY <1>2, <3>1 DEF FilesInv, SameRange
    <3>3. QED
      BY <2>2, <3>1, <3>2 DEF SameSegments, SameRange
  <2>3. QED
    BY <2>1, <2>2, StepKeeps
<1>3. ASSUME NEW s \in ledger' PROVE Continues(s.file)'
  <2>1. PICK f : f = s.file
    OBVIOUS
  <2>2. Continues(f)
    <3>1. CASE \E r \in ledger : s.file = r.file
      BY <2>1, <3>1 DEF FilesInv
    <3>2. ASSUME NEW x \in Exporters, CutCommits(x), s = [file |-> hand[x], status |-> "pending"]
          PROVE  Continues(f)
      BY <2>1, <3>2 DEF FilesInv, CutCommits
    <3>3. ASSUME NEW x \in Exporters, Rebuild(x), s.file = Rewritten(x) PROVE Continues(f)
      BY <2>1, <3>3, RewrittenContinues DEF Rebuild
    <3>4. QED
      BY <3>1, <3>2, <3>3, StepFiles
  <2>3. Continues(f)'
    BY <1>1, <2>2, ContinuesStay
  <2>4. QED
    BY <2>1, <2>3 DEF Continues
<1>4. ASSUME NEW x \in Exporters, at'[x] = "cutting" \/ Working(x)'
      PROVE  /\ Continues(hand[x])'
             /\ at'[x] \in {"cutting", "putting", "put"} => hand'[x].format = format'[x]
  <2> DEFINE Good(f) == Continues(f) /\ (at'[x] \in {"cutting", "putting", "put"} => f.format = format[x])
  <2>1. CASE at'[x] = at[x] /\ hand'[x] = hand[x] /\ format'[x] = format[x]
    <3>1. Good(hand[x])
      BY <1>4, <2>1 DEF FilesInv, Working
    <3>2. QED
      BY <2>1, <3>1, <1>1 DEF Continues
  <2>2. CASE Step(x) \/ Fails(x) \/ \E v \in Formats : Restart(x, v)
    <3>1. format'[x] = format[x] /\ Good(hand'[x])
      <4>1. ASSUME NEW r \in Pending, at'[x] = "resuming", hand'[x] = r.file PROVE Good(hand'[x])
        BY <4>1 DEF FilesInv, Pending
      <4>2. ASSUME NEW p \in Cursor, at'[x] = "cutting", hand'[x] = Following(p, x) PROVE Good(hand'[x])
        <5>1. /\ hand'[x].seq = p.seq + 1 /\ hand'[x].after = p.format /\ hand'[x].format = format[x]
          BY <4>2 DEF Following
        <5>2. CASE p = Genesis
          BY <4>2, <5>1, <5>2 DEF Genesis, Continues
        <5>3. CASE p # Genesis
          <6>1. PICK r \in Landed : p = r.file
            BY <5>3 DEF Cursor, LastLanded
          <6>2. p.seq \in Nat /\ p.seq >= 1
            BY <6>1 DEF HandInv, Landed, TypeOK, Rows, Files
          <6>3. QED
            BY <4>2, <5>1, <6>1, <6>2 DEF Continues
        <5>4. QED
          BY <5>2, <5>3
      <4>3. ASSUME at[x] \in {"cutting", "putting"}, hand'[x] = hand[x] PROVE Good(hand'[x])
        BY <4>3 DEF FilesInv, Working
      <4>4. ASSUME at[x] = "resuming", hand'[x] = Rewritten(x) PROVE Good(hand'[x])
        BY <4>4, RewrittenContinues
      <4>5. QED
        BY <1>4, <2>2, <4>1, <4>2, <4>3, <4>4, MoverHand
    <3>2. PICK f : f = hand'[x]
      OBVIOUS
    <3>3. Continues(f)'
      BY <1>1, <3>1, <3>2, ContinuesStay
    <3>4. QED
      BY <3>1, <3>2, <3>3 DEF Continues
  <2>3. QED
    BY <2>1, <2>2, OneMoves
    DEF Next, EndDomain, Record, CommitDomain, RollBackDomain, vars, passVars
<1>5. QED
  BY <1>2, <1>3, <1>4 DEF FilesInv, Working

\* Segments that no two formats had in hand: one build, one file, and it is stored.
FitsRow(x, r) ==
    \/ r.file.format = format[x]
    \/ at[x] = "resuming" /\ r.status = "pending" /\ r.file.format = hand[x].format

OneBuild ==
    \A x, y \in Exporters :
        hand[x].seq = hand[y].seq /\ hand[x].seq # 0 /\ hand[x].seq \notin mixed => format[x] = format[y]
RowsFit ==
    \A x \in Exporters : Working(x) /\ hand[x].seq \notin mixed => \A r \in Row(hand[x]) : FitsRow(x, r)
PutThere ==
    \A x \in Exporters : at[x] = "put" /\ hand[x].seq \notin mixed => hand[x] \in store

FitInv == OneBuild /\ RowsFit /\ PutThere /\ SeriesVerifies

LEMMA TheRange ==
    ASSUME TypeOK, CutsFollowLanded, HandInv, NEW x \in Exporters, Working(x)
    PROVE  /\ hand[x] \in Files /\ hand[x].seq # 0
           /\ \E r \in ledger : SameRange(r.file, hand[x])
           /\ \A r \in Row(hand[x]) : SameRange(r.file, hand[x])
<1>1. hand[x] \in Files
  BY DEF Working, TypeOK, PassOK
<1>2. PICK r \in ledger : SameRange(r.file, hand[x])
  BY DEF Working, HandInv
<1>3. hand[x].seq # 0
  BY <1>2 DEF HandInv, SameRange
<1>4. QED
  BY <1>1, <1>2, <1>3 DEF Row, CutsFollowLanded, SameRange

LEMMA TheFile ==
    ASSUME TypeOK, CutsFollowLanded, HandInv, FilesInv, NEW x \in Exporters, Working(x),
           NEW r \in Row(hand[x]), r.file.format = hand[x].format
    PROVE  r.file = hand[x]
<1>1. hand[x] \in Files /\ SameRange(r.file, hand[x]) /\ Continues(hand[x])
  BY TheRange DEF FilesInv
<1>2. r \in ledger /\ r.file \in Files /\ Continues(r.file)
  BY DEF Row, TypeOK, Rows, FilesInv
<1>3. QED
  BY <1>1, <1>2, SameFile

\* Whoever takes a file in hand is one with the builds that have it, or marks it.
LEMMA HoldingOne ==
    ASSUME TypeOK, OneBuild, NEW x \in Exporters, NEW f \in Files, Holding(x, f), format' = format
    PROVE  OneBuild' /\ mixed \subseteq mixed'
<1>1. hand'[x] = f /\ \A y \in Exporters \ {x} : hand'[y] = hand[y]
  BY DEF Holding, TypeOK, PassOK
<1>2. /\ mixed \subseteq mixed'
      /\ f.seq \notin mixed' => \A y \in Exporters : hand[y].seq = f.seq => format[y] = format[x]
  BY DEF Holding
<1>3. QED
  BY <1>1, <1>2 DEF OneBuild

\* A step that lets go of the segment in hand, or only moves on.
LEMMA LetsGo ==
    ASSUME TypeOK, FitInv, NEW x \in Exporters, UNCHANGED <<ledger, store>>, mixed \subseteq mixed',
           OneBuild', ~Working(x)',
           \A y \in Exporters \ {x} : at'[y] = at[y] /\ hand'[y] = hand[y] /\ format'[y] = format[y]
    PROVE  FitInv'
<1>1. RowsFit' /\ PutThere'
  BY DEF FitInv, RowsFit, PutThere, Working, Row, FitsRow
<1>2. SeriesVerifies'
  BY DEF FitInv, SeriesVerifies, Landed
<1>3. QED
  BY <1>1, <1>2 DEF FitInv

LEMMA FitLook ==
    ASSUME TypeOK, CutsFollowLanded, HandInv, FilesInv, FitInv, NEW x \in Exporters, Look(x)
    PROVE  FitInv'
<1>1. UNCHANGED <<ledger, store, format>> /\ (\A y \in Exporters \ {x} : at'[y] = at[y] /\ hand'[y] = hand[y])
  BY DEF Look, Goes, Holding, TypeOK, PassOK
<1>2. CASE Goes(x, "waiting") /\ UNCHANGED <<hand, mixed>>
  <2>1. OneBuild' /\ ~Working(x)'
    BY <1>1, <1>2 DEF FitInv, OneBuild, Goes, Working, TypeOK, PassOK
  <2>2. QED
    BY <1>1, <1>2, <2>1, LetsGo
<1>3. ASSUME NEW r \in Pending, Goes(x, "resuming"), Holding(x, r.file)
      PROVE  FitInv'
  <2>1. r \in ledger /\ r.status = "pending" /\ r.file \in Files
    BY DEF Pending, TypeOK, Rows
  <2>2. OneBuild' /\ mixed \subseteq mixed'
    BY <1>1, <1>3, <2>1, HoldingOne DEF FitInv
  <2>3. at'[x] = "resuming" /\ hand'[x] = r.file
    BY <1>3 DEF Goes, Holding, TypeOK, PassOK
  <2>4. \A s \in ledger : s.file.seq = r.file.seq => s = r
    BY <2>1 DEF CutsFollowLanded
  <2>5. RowsFit'
    BY <1>1, <2>1, <2>2, <2>3, <2>4 DEF FitInv, RowsFit, Working, Row, FitsRow
  <2>6. PutThere' /\ SeriesVerifies'
    BY <1>1, <2>2, <2>3 DEF FitInv, PutThere, SeriesVerifies, Landed
  <2>7. QED
    BY <2>2, <2>5, <2>6 DEF FitInv
<1>4. QED
  BY <1>2, <1>3 DEF Look

LEMMA FitRest ==
    ASSUME TypeOK, FitInv, NEW x \in Exporters,
           StartPass(x) \/ BudgetSpent(x) \/ CutConflicts(x) \/ CutReads(x) \/ Fails(x)
             \/ \E v \in Formats : Restart(x, v)
    PROVE  FitInv'
<1> USE DEF Goes, EndPass, EmptyHanded
<1>0. at \in [Exporters -> {"idle", "looking", "waiting", "cutting", "resuming", "putting", "put"}]
      /\ hand \in [Exporters -> Files \cup {NoFile}] /\ format \in [Exporters -> Formats]
  BY DEF TypeOK, PassOK
<1>1. /\ UNCHANGED <<ledger, store>> /\ at'[x] \in {"idle", "looking", "cutting"}
      /\ \A y \in Exporters \ {x} : at'[y] = at[y] /\ hand'[y] = hand[y] /\ format'[y] = format[y]
  BY <1>0 DEF StartPass, BudgetSpent, CutConflicts, CutReads, Fails, Restart, Holding
<1>2. OneBuild' /\ mixed \subseteq mixed'
  <2>1. CASE mixed' = mixed /\ (hand'[x] = NoFile \/ (hand'[x] = hand[x] /\ format'[x] = format[x]))
    BY <1>1, <2>1 DEF OneBuild, FitInv, NoFile
  <2>2. ASSUME NEW p \in Cursor, ChainHead > p.to, Holding(x, Following(p, x)), format' = format
        PROVE  OneBuild' /\ mixed \subseteq mixed'
    <3>1. PICK f \in Files : f = Following(p, x)
      BY <2>2, FollowingType
    <3>2. QED
      BY <2>2, <3>1, HoldingOne DEF FitInv
  <2>3. QED
    BY <1>0, <2>1, <2>2 DEF StartPass, BudgetSpent, CutConflicts, CutReads, Fails, Restart
<1>3. QED
  BY <1>1, <1>2, LetsGo DEF Working

LEMMA FitCommits ==
    ASSUME TypeOK, CutsFollowLanded, HandInv, FilesInv, FitInv, NEW x \in Exporters, CutCommits(x)
    PROVE  FitInv'
<1> DEFINE new == [file |-> hand[x], status |-> "pending"]
<1>1. /\ UNCHANGED <<store, hand, format, mixed>> /\ ledger' = ledger \cup {new}
      /\ at[x] = "cutting" /\ at'[x] = "putting" /\ \A y \in Exporters \ {x} : at'[y] = at[y]
      /\ \A r \in ledger : r.file.seq # hand[x].seq
  BY DEF CutCommits, Goes, TypeOK, PassOK, Claimable
<1>2. new.file = hand[x] /\ new.status = "pending" /\ hand[x].format = format[x]
  BY <1>1 DEF FilesInv
<1> HIDE DEF new
<1>3. ASSUME NEW y \in Exporters, Working(y)', hand[y].seq \notin mixed,
             NEW r \in ledger', r.file.seq = hand[y].seq
      PROVE  FitsRow(y, r)'
  <2>1. CASE y = x
    BY <1>1, <1>2, <1>3, <2>1 DEF FitsRow
  <2>2. CASE y # x
    <3>1. Working(y)
      BY <1>1, <1>3, <2>2 DEF Working
    <3>2. \E s \in ledger : s.file.seq = hand[y].seq
      BY <3>1, TheRange DEF SameRange
    <3>3. r \in Row(hand[y])
      BY <1>1, <1>2, <1>3, <3>2 DEF Row
    <3>4. FitsRow(y, r)
      BY <1>3, <3>1, <3>3 DEF FitInv, RowsFit
    <3>5. QED
      BY <1>1, <2>2, <3>4 DEF FitsRow
  <2>3. QED
    BY <2>1, <2>2
<1>4. RowsFit'
  BY <1>1, <1>3 DEF RowsFit, Row
<1>5. OneBuild' /\ PutThere' /\ SeriesVerifies'
  BY <1>1, <1>2 DEF FitInv, OneBuild, PutThere, SeriesVerifies, Landed
<1>6. QED
  BY <1>4, <1>5 DEF FitInv

LEMMA FitRebuild ==
    ASSUME TypeOK, CutsFollowLanded, HandInv, FilesInv, FitInv, NEW x \in Exporters, Rebuild(x)
    PROVE  FitInv'
<1> DEFINE f == Rewritten(x)
<1>1. /\ UNCHANGED <<store, format, mixed>> /\ hand'[x] = f /\ at[x] = "resuming" /\ at'[x] = "putting"
      /\ \A y \in Exporters \ {x} : at'[y] = at[y] /\ hand'[y] = hand[y]
      /\ ledger' = IF hand[x].format # format[x] THEN Restated(f) ELSE ledger
  BY DEF Rebuild, Goes, TypeOK, PassOK
<1>2. /\ hand[x] \in Files /\ hand[x].seq # 0 /\ f.seq = hand[x].seq /\ f.format = format[x]
      /\ Working(x)
  BY <1>1, TheRange, RewrittenType, RewrittenContinues DEF Working
<1> HIDE DEF f
<1>3. ASSUME NEW s \in ledger'
      PROVE  \/ s \in ledger /\ (s \in Row(f) => s.status # "pending" \/ hand[x].format = format[x])
             \/ s.file = f /\ s.status = "pending"
  BY <1>1 DEF Restated, Row
<1>4. OneBuild'
  BY <1>1, <1>2 DEF FitInv, OneBuild
<1>5. ASSUME NEW y \in Exporters, Working(y)', hand'[y].seq \notin mixed,
             NEW r \in ledger', r.file.seq = hand'[y].seq
      PROVE  FitsRow(y, r)'
  <2>1. hand'[y].seq = hand[y].seq /\ Working(y)
    BY <1>1, <1>2, <1>5 DEF Working
  <2>2. r \in ledger => FitsRow(y, r)
    BY <1>5, <2>1 DEF FitInv, RowsFit, Row
  <2>3. CASE r.file = f
    <3>1. hand[y].seq = hand[x].seq
      BY <1>2, <1>5, <2>1, <2>3
    <3>2. format[y] = format[x]
      BY <1>2, <1>5, <2>1, <3>1 DEF FitInv, OneBuild
    <3>3. QED
      BY <1>1, <1>2, <2>3, <3>2 DEF FitsRow
  <2>4. CASE r.file # f /\ y = x
    <3>1. r \in ledger /\ (r.status # "pending" \/ hand[x].format = format[x])
      BY <1>1, <1>2, <1>3, <1>5, <2>1, <2>4 DEF Row
    <3>2. QED
      BY <1>1, <2>2, <2>4, <3>1 DEF FitsRow
  <2>5. CASE r.file # f /\ y # x
    BY <1>1, <1>3, <2>2, <2>5 DEF FitsRow
  <2>6. QED
    BY <2>3, <2>4, <2>5
<1>6. RowsFit'
  BY <1>1, <1>5 DEF RowsFit, Row
<1>7. PutThere'
  BY <1>1 DEF FitInv, PutThere
<1>8. SeriesVerifies'
  BY <1>1, <1>3 DEF FitInv, SeriesVerifies, Landed
<1>9. QED
  BY <1>4, <1>6, <1>7, <1>8 DEF FitInv

LEMMA FitPut ==
    ASSUME TypeOK, CutsFollowLanded, HandInv, FilesInv, FitInv, NEW x \in Exporters, Put(x)
    PROVE  FitInv'
<1> DEFINE h == hand[x]
<1>1. /\ UNCHANGED <<ledger, hand, format, mixed>> /\ at[x] = "putting" /\ at'[x] = "put"
      /\ \A y \in Exporters \ {x} : at'[y] = at[y]
      /\ store' = {f \in store : f.from # h.from \/ f.to # h.to} \cup {h}
  BY DEF Put, Goes, TypeOK, PassOK
<1>2. /\ Working(x) /\ h.format = format[x] /\ h \in Files /\ h.seq # 0
  BY <1>1, TheRange DEF Working, FilesInv
<1>3. PICK own \in ledger : SameRange(own.file, h)
  BY <1>2, TheRange
<1>4. ASSUME NEW r \in ledger, r.file.from = h.from, r.file.seq \notin mixed, r.status = "uploaded" \/ r.file.format = h.format
      PROVE  r.file = h
  <2>1. r = own
    BY <1>3, <1>4 DEF FilesInv, SameRange
  <2>2. r \in Row(h)
    BY <1>3, <2>1 DEF Row, SameRange
  <2>3. FitsRow(x, r)
    BY <1>2, <1>4, <2>2 DEF FitInv, RowsFit, Row
  <2>4. QED
    BY <1>1, <1>2, <2>2, <2>3, TheFile DEF FitsRow
<1>5. OneBuild' /\ RowsFit'
  BY <1>1 DEF FitInv, OneBuild, RowsFit, Working, Row, FitsRow
<1>6. SeriesVerifies'
  BY <1>1, <1>4 DEF FitInv, SeriesVerifies, Landed
<1>7. ASSUME NEW y \in Exporters \ {x}, at[y] = "put", hand[y].seq \notin mixed
      PROVE  hand[y] \in store'
  <2>1. Working(y) /\ hand[y].format = format[y] /\ hand[y] \in store
    BY <1>7 DEF Working, FitInv, PutThere, FilesInv
  <2>2. PICK r \in Row(hand[y]) : SameRange(r.file, hand[y])
    BY <2>1, TheRange DEF Row, SameRange
  <2>3. r.file = hand[y]
    <3>1. FitsRow(y, r)
      BY <1>7, <2>1, <2>2 DEF FitInv, RowsFit
    <3>2. QED
      BY <1>7, <2>1, <2>2, <3>1, TheFile DEF FitsRow
  <2>4. CASE hand[y].from # h.from
    BY <1>1, <2>1, <2>4
  <2>5. CASE hand[y].from = h.from
    <3>1. r = own /\ r \in ledger
      BY <1>3, <2>2, <2>3, <2>5 DEF FilesInv, SameRange, Row
    <3>2. hand[y].seq = h.seq
      BY <1>3, <2>3, <3>1 DEF SameRange
    <3>3. format[y] = format[x]
      BY <1>2, <1>7, <3>2 DEF FitInv, OneBuild
    <3>4. r.file = h
      BY <1>2, <1>4, <1>7, <2>1, <2>3, <2>5, <3>1, <3>3
    <3>5. QED
      BY <1>1, <2>3, <3>4
  <2>6. QED
    BY <2>4, <2>5
<1>8. PutThere'
  BY <1>1, <1>7 DEF PutThere
<1>9. QED
  BY <1>5, <1>6, <1>8 DEF FitInv

LEMMA FitConfirm ==
    ASSUME TypeOK, CutsFollowLanded, HandInv, FilesInv, FitInv, NEW x \in Exporters, Confirm(x)
    PROVE  FitInv'
<1> DEFINE h == hand[x]
<1>1. /\ UNCHANGED <<store, format, mixed>> /\ at[x] = "put" /\ at'[x] = "looking" /\ hand'[x] = NoFile
      /\ \A y \in Exporters \ {x} : at'[y] = at[y] /\ hand'[y] = hand[y]
  BY DEF Confirm, Goes, EmptyHanded, TypeOK, PassOK
<1>2. ASSUME NEW s \in ledger'
      PROVE  \/ s \in ledger
             \/ \E r \in Row(h) : s.file = r.file /\ s.status = "uploaded"
  <2>1. \A r \in Row(h) : /\ [r EXCEPT !.status = "uploaded"].file = r.file
                          /\ [r EXCEPT !.status = "uploaded"].status = "uploaded"
    BY DEF Row, TypeOK, Rows
  <2>2. QED
    BY <2>1 DEF Confirm
<1>3. /\ Working(x) /\ h.format = format[x] /\ h.seq # 0
  BY <1>1, TheRange DEF Working, FilesInv
<1>4. ASSUME NEW r \in Row(h), h.seq \notin mixed PROVE r.file = h /\ h \in store
  <2>1. FitsRow(x, r)
    BY <1>3, <1>4 DEF FitInv, RowsFit
  <2>2. QED
    BY <1>1, <1>3, <1>4, <2>1, TheFile DEF FitsRow, FitInv, PutThere
<1>5. OneBuild'
  BY <1>1 DEF FitInv, OneBuild, NoFile
<1>6. PutThere'
  BY <1>1 DEF FitInv, PutThere
<1>7. SeriesVerifies'
  BY <1>1, <1>2, <1>4 DEF FitInv, SeriesVerifies, Landed, Row
<1>8. ASSUME NEW y \in Exporters, Working(y)', hand'[y].seq \notin mixed,
             NEW s \in ledger', s.file.seq = hand'[y].seq
      PROVE  FitsRow(y, s)'
  <2>1. y # x /\ Working(y) /\ hand'[y] = hand[y]
    BY <1>1, <1>8 DEF Working
  <2>2. CASE s \in ledger
    BY <1>1, <1>8, <2>1, <2>2 DEF FitInv, RowsFit, Row, FitsRow
  <2>3. ASSUME NEW r \in Row(h), s.file = r.file PROVE FitsRow(y, s)'
    <3>1. hand[y].seq = h.seq
      BY <1>8, <2>1, <2>3 DEF Row
    <3>2. format[y] = format[x]
      BY <1>3, <1>8, <2>1, <3>1 DEF FitInv, OneBuild
    <3>3. QED
      BY <1>1, <1>3, <1>4, <1>8, <2>1, <2>3, <3>1, <3>2 DEF FitsRow
  <2>4. QED
    BY <1>2, <2>2, <2>3
<1>9. RowsFit'
  BY <1>1, <1>8 DEF RowsFit, Row
<1>10. QED
  BY <1>5, <1>6, <1>7, <1>9 DEF FitInv

LEMMA NextFit ==
    ASSUME TypeOK, CutsFollowLanded, HandInv, FilesInv, FitInv, [Next]_vars
    PROVE  FitInv'
<1>1. CASE UNCHANGED <<ledger, store, at, hand, format, mixed>>
  BY <1>1 DEF FitInv, OneBuild, RowsFit, PutThere, SeriesVerifies, Working, Row, FitsRow, Landed
<1>2. ASSUME NEW x \in Exporters, Step(x) \/ Fails(x) \/ \E v \in Formats : Restart(x, v)
      PROVE  FitInv'
  BY <1>2, FitRest, FitLook, FitCommits, FitRebuild, FitPut, FitConfirm DEF Step
<1>3. QED
  BY <1>1, <1>2
  DEF Next, EndDomain, Record, CommitDomain, RollBackDomain, vars, passVars, chainVars

\* Ledger, trail and store tell one story (Claim, Confirm, VerifySeries): every
\* claimed range has one entry of the trail and every such entry its range, at
\* the end of the range unless its cap came first; and the file of a landed
\* segment is in the store, byte for byte as the ledger has it, unless builds of
\* two formats were at work on it at once.
THEOREM ExportsAlwaysAgree == Spec => []ExportsAgree
<1>1. Init => CutsFollowLanded /\ HandInv /\ CuttingFits /\ ExportsRecorded /\ FilesInv /\ FitInv
  BY DEF Init, CutsFollowLanded, HandInv, CuttingFits, ExportsRecorded, FilesInv, FitInv, OneBuild,
         RowsFit, PutThere, SeriesVerifies, Working, Landed, NoFile
<1>2. ExportsRecorded /\ FitInv => ExportsAgree
  BY DEF ExportsAgree, FitInv
<1>3. QED
  BY <1>1, <1>2, InitTypeOK, NextTypeOK, InitLockInv, NextLockInv, NextFollows, NextFits, NextRecorded,
     NextFiles, NextFit, PTL DEF Spec

HIDE AuditExportAssumption

-----------------------------------------------------------------------------
\* Numbers, and sets of them.

\* Numbers of which there is one have a first.
LEMMA FirstOf == ASSUME NEW S, NEW n \in S \cap Nat PROVE \E m \in S \cap Nat : \A k \in S \cap Nat : m <= k
<1>1. IsWellFoundedOn(OpToRel(<, Nat), Nat)
  BY NatLessThanWellFounded
<1>2. S \cap Nat \subseteq Nat /\ S \cap Nat # {}
  OBVIOUS
<1>3. PICK m \in S \cap Nat : \A k \in S \cap Nat : ~(<<k, m>> \in OpToRel(<, Nat))
  BY <1>1, <1>2, WFMin
<1>4. \A k \in S \cap Nat : ~(k < m)
  BY <1>3 DEF OpToRel
<1>5. QED
  BY <1>4

\* Numbers of which there is one and all are below a bound have a last.
LEMMA LastOf ==
    ASSUME NEW b \in Nat, NEW S \in SUBSET (0 .. b), S # {}
    PROVE  \E m \in S : \A k \in S : k <= m
<1> DEFINE D == {b - k : k \in S}
<1>1. PICK k0 \in S : TRUE
  OBVIOUS
<1>2. b - k0 \in D \cap Nat
  OBVIOUS
<1>3. PICK d \in D \cap Nat : \A e \in D \cap Nat : d <= e
  BY <1>2, FirstOf
<1>4. PICK m \in S : d = b - m
  BY <1>3
<1>5. ASSUME NEW k \in S PROVE k <= m
  <2>1. b - k \in D \cap Nat
    OBVIOUS
  <2>2. d <= b - k /\ d = b - m /\ k \in 0 .. b /\ m \in 0 .. b
    BY <2>1, <1>3, <1>4
  <2>3. QED
    BY <2>2
<1>6. QED
  BY <1>4, <1>5

LEMMA AllNumbers ==
    ASSUME NEW S, 0 \in S, \A n \in S \cap Nat : n + 1 \in S
    PROVE  \A n \in Nat : n \in S
<1> SUFFICES ASSUME Nat \ S # {} PROVE FALSE
  OBVIOUS
<1>1. PICK k \in Nat \ S : \A j \in Nat \ S : k <= j
  <2>1. PICK i \in Nat \ S : TRUE
    OBVIOUS
  <2>2. i \in (Nat \ S) \cap Nat
    BY <2>1
  <2>3. QED
    BY <2>2, FirstOf
<1>2. k # 0 /\ k - 1 \in Nat /\ k - 1 \in S
  BY <1>1
<1>3. QED
  BY <1>1, <1>2

\* A set of numbers that has with each those before it is as long as its last.
LEMMA Leading ==
    ASSUME NEW b \in Nat, NEW S \in SUBSET (1 .. b), \A n \in S : 1 .. n \subseteq S
    PROVE  Cardinality(S) \in 0 .. b /\ S = 1 .. Cardinality(S)
<1>1. CASE S = {}
  BY <1>1, FS_EmptySet
<1>2. CASE S # {}
  <2>1. S \in SUBSET (0 .. b)
    OBVIOUS
  <2>2. PICK m \in S : \A k \in S : k <= m
    BY <1>2, <2>1, LastOf
  <2>3. m \in 1 .. b /\ 1 .. m \subseteq S
    OBVIOUS
  <2>4. ASSUME NEW k \in S PROVE k \in 1 .. m
    BY <2>2, <2>3
  <2>5. S = 1 .. m
    BY <2>3, <2>4
  <2>6. Cardinality(1 .. m) = m
    BY <2>3, FS_Interval
  <2>7. QED
    BY <2>3, <2>5, <2>6
<1>3. QED
  BY <1>1, <1>2

\* The last of the numbers from a to b.
LEMMA LastIs ==
    ASSUME NEW S \in SUBSET Int, NEW m \in S, \A k \in S : k <= m
    PROVE  (CHOOSE n \in S : \A k \in S : k <= n) = m
<1>1. \E n \in S : \A k \in S : k <= n
  OBVIOUS
<1>2. PICK n \in S : n = CHOOSE x \in S : \A k \in S : k <= x
  BY <1>1
<1>3. \A k \in S : k <= n
  BY <1>1, <1>2
<1>4. n <= m /\ m <= n
  BY <1>3
<1>5. QED
  BY <1>2, <1>4

-----------------------------------------------------------------------------
\* Texts and hashes.

\* No two texts have one hash, and none that of the beginning of a chain: there are as many
\* texts as numbers.
CollisionFree ==
    \A s \in Seq(Int) : /\ Sha(s) \in Nat \ {0}
                        /\ \A t \in Seq(Int) : Sha(s) = Sha(t) => s = t

Pieces(d) == [i \in DOMAIN SealedFields |->
                 IF SealedFields[i] \in DOMAIN d.header THEN d.header[SealedFields[i]] ELSE -1]

StatedHeaders == [segmentId : Int, exportedAt : Int, previousDigest : Int, preCutoverThroughSeq : Int]
Details == [segmentSeq : Int, from : Int, to : Int, entries : Int, header : {<<>>} \cup StatedHeaders]
Entries == [seq : Int, tenant : Int, action : Int, at : Int, details : Details, credential : Int,
            prevHash : Int, version : Int, hash : Int]
Pointers == [segmentId : Int, segmentSeq : Int, toSeq : Int, endHash : Int, digest : Int]
Docs == [formatVersion : Int, segmentId : Int, segmentSeq : Int, tenant : Int, exportedAt : Int,
         from : Int, to : Int, count : Int, firstAt : Int, lastAt : Int, startPrevHash : Int,
         endHash : Int, genesis : BOOLEAN, previous : {NoSegment} \cup Pointers, entries : Seq(Entries)]

LEMMA Joined ==
    ASSUME NEW s \in Seq(Int), NEW t \in Seq(Int)
    PROVE  /\ s \o t \in Seq(Int) /\ Len(s \o t) = Len(s) + Len(t)
           /\ \A i \in 1 .. Len(s) : (s \o t)[i] = s[i]
           /\ \A i \in 1 .. Len(t) : (s \o t)[Len(s) + i] = t[i]
<1>1. s \o t \in Seq(Int)
  OBVIOUS
<1>2. QED
  BY <1>1, ConcatProperties

LEMMA HeaderKeys ==
    ASSUME NEW h \in {<<>>} \cup StatedHeaders
    PROVE  /\ h = <<>> <=> DOMAIN h = {}
           /\ h # <<>> => DOMAIN h = SealedAll
           /\ SealedAll = {"segmentId", "exportedAt", "previousDigest", "preCutoverThroughSeq"}
<1>1. DOMAIN SealedFields = 1 .. 4
  BY DEF SealedFields
<1>2. SealedAll = {SealedFields[1], SealedFields[2], SealedFields[3], SealedFields[4]}
  BY <1>1 DEF SealedAll
<1>3. SealedAll = {"segmentId", "exportedAt", "previousDigest", "preCutoverThroughSeq"}
  BY <1>2 DEF SealedFields
<1>4. h \in StatedHeaders => DOMAIN h = {"segmentId", "exportedAt", "previousDigest", "preCutoverThroughSeq"}
  BY DEF StatedHeaders
<1>5. DOMAIN <<>> = {}
  OBVIOUS
<1>6. QED
  BY <1>3, <1>4, <1>5

LEMMA PiecesForm == ASSUME NEW d \in Details PROVE Pieces(d) \in Seq(Int) /\ Len(Pieces(d)) = 4
<1>1. DOMAIN SealedFields = 1 .. 4
  BY DEF SealedFields
<1>2. ASSUME NEW i \in 1 .. 4 PROVE Pieces(d)[i] \in Int
  <2>1. Pieces(d)[i] = IF SealedFields[i] \in DOMAIN d.header THEN d.header[SealedFields[i]] ELSE -1
    BY <1>1 DEF Pieces
  <2>2. d.header \in {<<>>} \cup StatedHeaders
    BY DEF Details
  <2>3. ASSUME NEW f \in DOMAIN d.header PROVE d.header[f] \in Int
    BY <2>2 DEF StatedHeaders
  <2>4. QED
    BY <2>1, <2>3
<1>3. Pieces(d) = [i \in 1 .. 4 |-> Pieces(d)[i]]
  BY <1>1 DEF Pieces
<1>4. QED
  BY <1>2, <1>3

\* The text of an entry has its fields at fixed places.
LEMMA DetailsForm ==
    ASSUME NEW d \in Details
    PROVE  /\ DetailsText(d) \in Seq(Int) /\ Len(DetailsText(d)) = 8
           /\ DetailsText(d)[3] = d.to
<1> DEFINE s == <<d.segmentSeq, d.from, d.to, d.entries>>
<1>1. s \in Seq(Int) /\ Len(s) = 4 /\ s[3] = d.to
  BY DEF Details
<1>2. DetailsText(d) = s \o Pieces(d)
  BY DEF DetailsText, Pieces
<1>3. Pieces(d) \in Seq(Int) /\ Len(Pieces(d)) = 4
  BY PiecesForm
<1> HIDE DEF s
<1>4. /\ s \o Pieces(d) \in Seq(Int) /\ Len(s \o Pieces(d)) = Len(s) + Len(Pieces(d))
      /\ \A i \in 1 .. Len(s) : (s \o Pieces(d))[i] = s[i]
  BY <1>1, <1>3, Joined
<1>5. Len(s) = 4 /\ 3 \in 1 .. Len(s) /\ Len(s) + Len(Pieces(d)) = 8
  BY <1>1, <1>3
<1>6. QED
  BY <1>1, <1>2, <1>4, <1>5

LEMMA HashedForm ==
    ASSUME NEW e \in Entries, NEW v
    PROVE  LET t == HashedFields(e, v) IN
           /\ t \in Seq(Int) /\ Len(t) = IF HashesCredential(v) THEN 14 ELSE 13
           /\ t[1] = e.prevHash /\ t[2] = e.tenant /\ t[3] = e.seq /\ t[4] = e.action /\ t[5] = e.at
           /\ t[8] = e.details.to
           /\ HashesCredential(v) => t[14] = e.credential
<1> DEFINE s == <<e.prevHash, e.tenant, e.seq, e.action, e.at>>
           d == DetailsText(e.details)
           c == IF HashesCredential(v) THEN <<e.credential>> ELSE <<>>
<1>1. s \in Seq(Int) /\ Len(s) = 5 /\ s[1] = e.prevHash /\ s[2] = e.tenant /\ s[3] = e.seq
      /\ s[4] = e.action /\ s[5] = e.at
  BY DEF Entries
<1>2. d \in Seq(Int) /\ Len(d) = 8 /\ d[3] = e.details.to
  BY DetailsForm DEF Entries
<1>3. c \in Seq(Int) /\ Len(c) = (IF HashesCredential(v) THEN 1 ELSE 0)
      /\ (HashesCredential(v) => c[1] = e.credential)
  BY DEF Entries
<1>4. HashedFields(e, v) = (s \o d) \o c
  BY DEF HashedFields
<1> HIDE DEF s, d, c
<1>5. /\ s \o d \in Seq(Int) /\ Len(s \o d) = 13
      /\ (s \o d)[1] = s[1] /\ (s \o d)[2] = s[2] /\ (s \o d)[3] = s[3] /\ (s \o d)[4] = s[4]
      /\ (s \o d)[5] = s[5] /\ (s \o d)[8] = d[3]
  <2>1. /\ s \o d \in Seq(Int) /\ Len(s \o d) = Len(s) + Len(d)
        /\ \A i \in 1 .. Len(s) : (s \o d)[i] = s[i]
        /\ \A i \in 1 .. Len(d) : (s \o d)[Len(s) + i] = d[i]
    BY <1>1, <1>2, Joined
  <2>2. Len(s) = 5 /\ Len(d) = 8 /\ 3 \in 1 .. Len(d)
    BY <1>1, <1>2
  <2>4. PICK w : w = s \o d
    OBVIOUS
  <2>3. /\ w \in Seq(Int) /\ Len(w) = Len(s) + Len(d)
        /\ \A i \in 1 .. Len(s) : w[i] = s[i]
        /\ \A i \in 1 .. Len(d) : w[Len(s) + i] = d[i]
    BY <2>1, <2>4
  <2>5. w \in Seq(Int) /\ Len(w) = 13 /\ w[8] = d[3] /\ \A i \in 1 .. 5 : w[i] = s[i]
    BY <2>2, <2>3
  <2>6. w[1] = s[1] /\ w[2] = s[2] /\ w[3] = s[3] /\ w[4] = s[4] /\ w[5] = s[5]
    BY <2>5
  <2>7. QED
    BY <2>4, <2>5, <2>6
<1> DEFINE sd == s \o d
<1> HIDE DEF sd
<1>6. sd \in Seq(Int) /\ Len(sd) = 13 /\ sd[1] = s[1] /\ sd[2] = s[2] /\ sd[3] = s[3] /\ sd[4] = s[4]
      /\ sd[5] = s[5] /\ sd[8] = d[3]
  BY <1>5 DEF sd
<1>7. /\ sd \o c \in Seq(Int) /\ Len(sd \o c) = 13 + Len(c)
      /\ \A i \in 1 .. 13 : (sd \o c)[i] = sd[i]
      /\ \A i \in 1 .. Len(c) : (sd \o c)[13 + i] = c[i]
  <2>1. /\ sd \o c \in Seq(Int) /\ Len(sd \o c) = Len(sd) + Len(c)
        /\ \A i \in 1 .. Len(sd) : (sd \o c)[i] = sd[i]
        /\ \A i \in 1 .. Len(c) : (sd \o c)[Len(sd) + i] = c[i]
    BY <1>3, <1>6, Joined
  <2>2. Len(sd) = 13
    BY <1>6
  <2>3. QED
    BY <2>1, <2>2
<1>8. HashesCredential(v) => (sd \o c)[14] = c[1]
  <2>1. HashesCredential(v) => 1 \in 1 .. Len(c) /\ 13 + 1 = 14
    BY <1>3
  <2>2. QED
    BY <1>7, <2>1
<1>9. HashedFields(e, v) = sd \o c
  BY <1>4 DEF sd
<1> DEFINE t == sd \o c
<1> HIDE DEF t
<1>10. /\ t \in Seq(Int) /\ Len(t) = 13 + Len(c) /\ HashedFields(e, v) = t
       /\ t[1] = sd[1] /\ t[2] = sd[2] /\ t[3] = sd[3] /\ t[4] = sd[4] /\ t[5] = sd[5] /\ t[8] = sd[8]
       /\ HashesCredential(v) => t[14] = c[1]
  <2>1. t \in Seq(Int) /\ Len(t) = 13 + Len(c) /\ \A i \in 1 .. 13 : t[i] = sd[i]
    BY <1>7 DEF t
  <2>2. HashedFields(e, v) = t /\ (HashesCredential(v) => t[14] = c[1])
    BY <1>8, <1>9 DEF t
  <2>3. {1, 2, 3, 4, 5, 8} \subseteq 1 .. 13
    OBVIOUS
  <2>4. QED
    BY <2>1, <2>2, <2>3
<1>11. QED
  BY <1>1, <1>2, <1>3, <1>6, <1>10

\* What was hashed when an entry was written.
WrittenText(e) ==
    IF IsPreCutover(e.version) THEN HashedFields(e, e.version) \o <<500>> ELSE HashedFields(e, e.version)

LEMMA OneMore ==
    ASSUME NEW s \in Seq(Int), NEW n \in Int, NEW t, t = s \o <<n>>
    PROVE  /\ t \in Seq(Int) /\ Len(t) = Len(s) + 1 /\ t[Len(t)] = n
           /\ \A i \in 1 .. Len(s) : t[i] = s[i]
<1>1. PICK u : u = <<n>>
  OBVIOUS
<1>2. u \in Seq(Int) /\ Len(u) = 1 /\ u[1] = n
  BY <1>1
<1>3. /\ s \o u \in Seq(Int) /\ Len(s \o u) = Len(s) + Len(u)
      /\ \A i \in 1 .. Len(s) : (s \o u)[i] = s[i]
      /\ \A i \in 1 .. Len(u) : (s \o u)[Len(s) + i] = u[i]
  BY <1>2, Joined
<1>4. t = s \o u
  BY <1>1
<1>5. /\ t \in Seq(Int) /\ Len(t) = Len(s) + 1 /\ t[Len(s) + 1] = n
      /\ \A i \in 1 .. Len(s) : t[i] = s[i]
  BY <1>2, <1>3, <1>4
<1>6. QED
  BY <1>1, <1>5

LEMMA WrittenForm ==
    ASSUME NEW e \in Entries
    PROVE  /\ WrittenText(e) \in Seq(Int) /\ WrittenHash(e) = Sha(WrittenText(e))
           /\ WrittenText(e)[1] = e.prevHash /\ WrittenText(e)[3] = e.seq /\ WrittenText(e)[4] = e.action
           /\ IsPreCutover(e.version) => /\ Len(WrittenText(e)) = 14 /\ WrittenText(e)[14] = 500
<1>1. PICK t : t = HashedFields(e, e.version)
  OBVIOUS
<1>2. /\ t \in Seq(Int) /\ Len(t) = (IF HashesCredential(e.version) THEN 14 ELSE 13)
      /\ t[1] = e.prevHash /\ t[3] = e.seq /\ t[4] = e.action
  BY <1>1, HashedForm
<1>3. CASE IsPreCutover(e.version)
  <2>1. e.version \in Int /\ ~HashesCredential(e.version)
    BY <1>3 DEF Entries, IsPreCutover, HashesCredential, HashVersionMicrosecond, HashVersionCredential
  <2>2. PICK u : u = t \o <<500>>
    OBVIOUS
  <2>3. /\ u \in Seq(Int) /\ Len(u) = 14 /\ u[14] = 500 /\ \A i \in 1 .. 13 : u[i] = t[i]
    <3>0. PICK n \in Int : n = 500
      OBVIOUS
    <3>1. PICK s \in Seq(Int) : s = t /\ Len(s) = 13
      BY <1>2, <2>1
    <3>2. u \in Seq(Int) /\ Len(u) = Len(s) + 1 /\ u[Len(u)] = n /\ \A i \in 1 .. Len(s) : u[i] = s[i]
      <4>1. u = s \o <<n>>
        BY <2>2, <3>0, <3>1
      <4>2. QED
        BY <4>1, OneMore
    <3>3. Len(u) = 14
      BY <3>1, <3>2
    <3>4. \A i \in 1 .. 13 : u[i] = t[i]
      BY <3>1, <3>2
    <3>5. QED
      BY <3>0, <3>2, <3>3, <3>4, ZenonT(60)
  <2>4. u[1] = t[1] /\ u[3] = t[3] /\ u[4] = t[4]
    BY <2>3
  <2>5. WrittenText(e) = u /\ WrittenHash(e) = Sha(u)
    BY <1>1, <1>3, <2>2 DEF WrittenText, WrittenHash
  <2>6. QED
    BY <1>2, <2>3, <2>4, <2>5
<1>4. CASE ~IsPreCutover(e.version)
  BY <1>1, <1>2, <1>4 DEF WrittenText, WrittenHash, ComputeHash
<1>5. QED
  BY <1>3, <1>4

LEMMA HashIsNumber ==
    ASSUME CollisionFree, NEW s \in Seq(Int)
    PROVE  Sha(s) \in Nat \ {0} /\ Sha(s) \in Int /\ \A t \in Seq(Int) : Sha(s) = Sha(t) => s = t
  BY DEF CollisionFree

\* The text of an entry in a file has all its fields.
LEMMA EntryTextForm ==
    ASSUME NEW e \in Entries
    PROVE  LET t == EntryText(e) IN
           /\ t \in Seq(Int)
           /\ t[1] = e.prevHash /\ t[2] = e.tenant /\ t[3] = e.seq /\ t[4] = e.action /\ t[5] = e.at
           /\ t[8] = e.details.to /\ t[14] = e.credential /\ t[15] = e.hash /\ t[16] = e.version
<1>1. PICK s, u, t : s = HashedFields(e, CurrentHashVersion) /\ u = <<e.hash, e.version>> /\ t = EntryText(e)
  OBVIOUS
<1>2. HashesCredential(CurrentHashVersion)
  BY DEF HashesCredential, CurrentHashVersion, HashVersionCredential
<1>3. /\ s \in Seq(Int) /\ Len(s) = 14
      /\ s[1] = e.prevHash /\ s[2] = e.tenant /\ s[3] = e.seq /\ s[4] = e.action /\ s[5] = e.at
      /\ s[8] = e.details.to /\ s[14] = e.credential
  BY <1>1, <1>2, HashedForm
<1>4. u \in Seq(Int) /\ Len(u) = 2 /\ u[1] = e.hash /\ u[2] = e.version
  BY <1>1 DEF Entries
<1>5. /\ s \o u \in Seq(Int)
      /\ \A i \in 1 .. Len(s) : (s \o u)[i] = s[i]
      /\ \A i \in 1 .. Len(u) : (s \o u)[Len(s) + i] = u[i]
  BY <1>3, <1>4, Joined
<1>6. t = s \o u
  BY <1>1 DEF EntryText
<1>7. t \in Seq(Int) /\ (\A i \in 1 .. 14 : t[i] = s[i]) /\ t[15] = u[1] /\ t[16] = u[2]
  <2>1. t \in Seq(Int) /\ (\A i \in 1 .. 14 : t[i] = s[i]) /\ \A i \in 1 .. 2 : t[14 + i] = u[i]
    BY <1>3, <1>4, <1>5, <1>6
  <2>2. t[14 + 1] = u[1] /\ t[14 + 2] = u[2]
    BY <2>1
  <2>3. QED
    BY <2>1, <2>2
<1>8. t[1] = s[1] /\ t[2] = s[2] /\ t[3] = s[3] /\ t[4] = s[4] /\ t[5] = s[5] /\ t[8] = s[8] /\ t[14] = s[14]
  BY <1>7
<1>9. QED
  BY <1>1, <1>3, <1>4, <1>7, <1>8

LEMMA EntrySays ==
    ASSUME NEW e \in Entries, NEW f \in Entries, EntryText(e) = EntryText(f)
    PROVE  /\ e.prevHash = f.prevHash /\ e.tenant = f.tenant /\ e.seq = f.seq /\ e.action = f.action
           /\ e.at = f.at /\ e.details.to = f.details.to /\ e.credential = f.credential
           /\ e.hash = f.hash /\ e.version = f.version
  BY EntryTextForm, SMTT(60)

-----------------------------------------------------------------------------
\* The text of a file.
Claimed(doc) ==
    <<doc.formatVersion, doc.segmentId, doc.segmentSeq, doc.tenant, doc.exportedAt, doc.from,
      doc.to, doc.count, doc.firstAt, doc.lastAt, doc.startPrevHash, doc.endHash,
      IF doc.genesis THEN 1 ELSE 0>>
Listed(doc) == [i \in DOMAIN doc.entries |-> Sha(EntryText(doc.entries[i]))]
DigestText(doc) == Claimed(doc) \o PreviousText(doc.previous) \o Listed(doc)

LEMMA ClaimedForm ==
    ASSUME NEW doc \in Docs
    PROVE  /\ Claimed(doc) \in Seq(Int) /\ Len(Claimed(doc)) = 13
<1>1. (IF doc.genesis THEN 1 ELSE 0) \in Int
  OBVIOUS
<1>2. /\ doc.formatVersion \in Int /\ doc.segmentId \in Int /\ doc.segmentSeq \in Int /\ doc.tenant \in Int
      /\ doc.exportedAt \in Int /\ doc.from \in Int /\ doc.to \in Int /\ doc.count \in Int
      /\ doc.firstAt \in Int /\ doc.lastAt \in Int /\ doc.startPrevHash \in Int /\ doc.endHash \in Int
  BY DEF Docs
<1>3. QED
  BY <1>1, <1>2 DEF Claimed

LEMMA PreviousForm ==
    ASSUME NEW p \in {NoSegment} \cup Pointers
    PROVE  /\ PreviousText(p) \in Seq(Int) /\ Len(PreviousText(p)) = IF p = NoSegment THEN 0 ELSE 5
           /\ p # NoSegment => PreviousText(p) = <<p.segmentId, p.segmentSeq, p.toSeq, p.endHash, p.digest>>
<1>1. CASE p = NoSegment
  BY <1>1 DEF PreviousText
<1>2. CASE p # NoSegment
  BY <1>2 DEF PreviousText, Pointers
<1>3. QED
  BY <1>1, <1>2

LEMMA ListedForm ==
    ASSUME CollisionFree, NEW doc \in Docs
    PROVE  /\ Listed(doc) \in Seq(Int) /\ Len(Listed(doc)) = Len(doc.entries)
           /\ \A i \in DOMAIN doc.entries : Listed(doc)[i] = Sha(EntryText(doc.entries[i]))
<1>1. doc.entries \in Seq(Entries) /\ DOMAIN doc.entries = 1 .. Len(doc.entries) /\ Len(doc.entries) \in Nat
  BY DEF Docs
<1>2. ASSUME NEW i \in 1 .. Len(doc.entries) PROVE Sha(EntryText(doc.entries[i])) \in Int
  <2>1. doc.entries[i] \in Entries
    BY <1>1
  <2>2. EntryText(doc.entries[i]) \in Seq(Int)
    BY <2>1, EntryTextForm
  <2>3. QED
    BY <2>2, HashIsNumber
<1>3. Listed(doc) = [i \in 1 .. Len(doc.entries) |-> Sha(EntryText(doc.entries[i]))]
  BY <1>1 DEF Listed
<1>4. QED
  BY <1>1, <1>2, <1>3

LEMMA DigestForm ==
    ASSUME CollisionFree, NEW doc \in Docs
    PROVE  LET t == DigestText(doc)
               p == PreviousText(doc.previous)
           IN  /\ t \in Seq(Int) /\ Digest(doc) = Sha(t)
               /\ Len(t) = 13 + Len(p) + Len(doc.entries)
               /\ \A i \in 1 .. 13 : t[i] = Claimed(doc)[i]
               /\ \A i \in 1 .. Len(p) : t[13 + i] = p[i]
               /\ \A i \in 1 .. Len(doc.entries) : t[13 + Len(p) + i] = Sha(EntryText(doc.entries[i]))
<1>1. PICK c, p, l, t : /\ c = Claimed(doc) /\ p = PreviousText(doc.previous) /\ l = Listed(doc)
                        /\ t = DigestText(doc)
  OBVIOUS
<1>2. c \in Seq(Int) /\ Len(c) = 13
  BY <1>1, ClaimedForm
<1>3. p \in Seq(Int) /\ Len(p) \in Nat
  <2>1. doc.previous \in {NoSegment} \cup Pointers
    BY DEF Docs
  <2>2. QED
    BY <1>1, <2>1, PreviousForm
<1>4. /\ l \in Seq(Int) /\ Len(l) = Len(doc.entries) /\ DOMAIN doc.entries = 1 .. Len(doc.entries)
      /\ \A i \in DOMAIN doc.entries : l[i] = Sha(EntryText(doc.entries[i]))
  BY <1>1, ListedForm DEF Docs
<1>5. PICK h : h = c \o p
  OBVIOUS
<1>6. /\ h \in Seq(Int) /\ Len(h) = 13 + Len(p)
      /\ \A i \in 1 .. 13 : h[i] = c[i]
      /\ \A i \in 1 .. Len(p) : h[13 + i] = p[i]
  <2>1. /\ c \o p \in Seq(Int) /\ Len(c \o p) = Len(c) + Len(p)
        /\ \A i \in 1 .. Len(c) : (c \o p)[i] = c[i]
        /\ \A i \in 1 .. Len(p) : (c \o p)[Len(c) + i] = p[i]
    BY <1>2, <1>3, Joined
  <2>2. QED
    BY <1>2, <1>5, <2>1
<1>7. t = h \o l /\ Digest(doc) = Sha(t)
  BY <1>1, <1>5 DEF DigestText, Digest, Claimed, Listed
<1>8. /\ t \in Seq(Int) /\ Len(t) = Len(h) + Len(l)
      /\ \A i \in 1 .. Len(h) : t[i] = h[i]
      /\ \A i \in 1 .. Len(l) : t[Len(h) + i] = l[i]
  BY <1>4, <1>6, <1>7, Joined
<1>9. \A i \in 1 .. 13 : t[i] = c[i]
  <2>1. Len(p) \in Nat /\ Len(h) = 13 + Len(p)
    BY <1>3, <1>6
  <2>2. \A i \in 1 .. 13 : i \in 1 .. Len(h)
    BY <2>1
  <2>3. QED
    BY <1>6, <1>8, <2>2
<1>10. \A i \in 1 .. Len(p) : t[13 + i] = p[i]
  <2>1. \A i \in 1 .. Len(p) : 13 + i \in 1 .. Len(h)
    BY <1>3, <1>6
  <2>2. QED
    BY <1>6, <1>8, <2>1
<1>11. \A i \in 1 .. Len(doc.entries) : t[13 + Len(p) + i] = Sha(EntryText(doc.entries[i]))
  BY <1>4, <1>6, <1>8
<1>12. QED
  BY <1>1, <1>4, <1>6, <1>7, <1>8, <1>9, <1>10, <1>11

\* A digest determines what the file says.
LEMMA DigestSays ==
    ASSUME CollisionFree, NEW x \in Docs, NEW y \in Docs, Digest(x) = Digest(y)
    PROVE  /\ Claimed(x) = Claimed(y)
           /\ Len(PreviousText(x.previous)) + Len(x.entries) = Len(PreviousText(y.previous)) + Len(y.entries)
           /\ Len(x.entries) = Len(y.entries) =>
                 /\ PreviousText(x.previous) = PreviousText(y.previous)
                 /\ \A i \in 1 .. Len(x.entries) : EntryText(x.entries[i]) = EntryText(y.entries[i])
<1>1. PICK t, p, q : /\ t = DigestText(x) /\ p = PreviousText(x.previous) /\ q = PreviousText(y.previous)
  OBVIOUS
<1>2. DigestText(y) = t
  BY <1>1, DigestForm, HashIsNumber, ZenonT(120)
<1>3. p \in Seq(Int) /\ q \in Seq(Int)
  <2>1. x.previous \in {NoSegment} \cup Pointers /\ y.previous \in {NoSegment} \cup Pointers
    BY DEF Docs
  <2>2. QED
    BY <1>1, <2>1, PreviousForm
<1>4. Len(x.entries) \in Nat /\ Len(y.entries) \in Nat /\ x.entries \in Seq(Entries) /\ y.entries \in Seq(Entries)
  <2>1. x.entries \in Seq(Entries) /\ y.entries \in Seq(Entries)
    BY DEF Docs
  <2>2. QED
    BY <2>1, LenProperties
<1>5. /\ Len(t) = 13 + Len(p) + Len(x.entries)
      /\ \A i \in 1 .. 13 : t[i] = Claimed(x)[i]
      /\ \A i \in 1 .. Len(p) : t[13 + i] = p[i]
      /\ \A i \in 1 .. Len(x.entries) : t[13 + Len(p) + i] = Sha(EntryText(x.entries[i]))
  BY <1>1, DigestForm
<1>6. /\ Len(t) = 13 + Len(q) + Len(y.entries)
      /\ \A i \in 1 .. 13 : t[i] = Claimed(y)[i]
      /\ \A i \in 1 .. Len(q) : t[13 + i] = q[i]
      /\ \A i \in 1 .. Len(y.entries) : t[13 + Len(q) + i] = Sha(EntryText(y.entries[i]))
  BY <1>1, <1>2, DigestForm, ZenonT(120)
<1>7. Claimed(x) = Claimed(y)
  <2>1. /\ Claimed(x) \in Seq(Int) /\ Len(Claimed(x)) = 13
        /\ Claimed(y) \in Seq(Int) /\ Len(Claimed(y)) = 13
    BY ClaimedForm
  <2>2. \A i \in 1 .. 13 : Claimed(x)[i] = Claimed(y)[i]
    BY <1>5, <1>6
  <2>3. QED
    BY <2>1, <2>2, SeqEqual
<1>8. Len(p) + Len(x.entries) = Len(q) + Len(y.entries) /\ Len(p) \in Nat /\ Len(q) \in Nat
  <2>1. Len(p) \in Nat /\ Len(q) \in Nat /\ Len(x.entries) \in Nat /\ Len(y.entries) \in Nat
    BY <1>3, <1>4
  <2>2. 13 + Len(p) + Len(x.entries) = 13 + Len(q) + Len(y.entries)
    BY <1>5, <1>6
  <2>3. PICK a \in Nat, b \in Nat, c \in Nat, d \in Nat :
            a = Len(p) /\ b = Len(x.entries) /\ c = Len(q) /\ d = Len(y.entries)
    BY <2>1
  <2>4. 13 + a + b = 13 + c + d
    BY <2>2, <2>3
  <2>5. a + b = c + d
    BY <2>4
  <2>6. QED
    BY <2>1, <2>3, <2>5
<1>9. ASSUME Len(x.entries) = Len(y.entries)
      PROVE  p = q /\ \A i \in 1 .. Len(x.entries) : EntryText(x.entries[i]) = EntryText(y.entries[i])
  <2>1. Len(p) = Len(q)
    BY <1>4, <1>8, <1>9
  <2>2. p = q
    BY <1>3, <1>5, <1>6, <2>1, SeqEqual
  <2>3. ASSUME NEW i \in 1 .. Len(x.entries) PROVE EntryText(x.entries[i]) = EntryText(y.entries[i])
    <3>1. Sha(EntryText(x.entries[i])) = Sha(EntryText(y.entries[i]))
      BY <1>5, <1>6, <1>9, <2>1
    <3>2. x.entries[i] \in Entries /\ y.entries[i] \in Entries
      BY <1>4, <1>9
    <3>3. EntryText(x.entries[i]) \in Seq(Int) /\ EntryText(y.entries[i]) \in Seq(Int)
      BY <3>2, EntryTextForm
    <3>4. QED
      BY <3>1, <3>3, HashIsNumber
  <2>4. QED
    BY <2>2, <2>3
<1>10. QED
  BY <1>1, <1>7, <1>8, <1>9

-----------------------------------------------------------------------------
\* Archives as builds leave them.

StandsAt(chain, action, i) ==
    LET e == chain[i] IN
    /\ e.seq = i /\ e.tenant = Tenant /\ e.version \in 1 .. 3 /\ e.credential \in {0, 7}
    /\ e.action \in {action, Exported}
    /\ e.prevHash = IF i = 1 THEN GenesisHash ELSE chain[i - 1].hash
    /\ e.hash = WrittenHash(e)

WellWritten(chain, action) ==
    /\ chain \in Seq(Entries)
    /\ \A i \in 1 .. Len(chain) : StandsAt(chain, action, i)
    /\ Len(chain) > 0 => chain[1].action = action

PreOf(d) == {i \in DOMAIN d.entries : IsPreCutover(d.entries[i].version)}
Through(d) == IF Cardinality(PreOf(d)) = 0 THEN 0 ELSE d.from + Cardinality(PreOf(d)) - 1
OwnRecords(d) == RecordOf(ExportRecords(d), d.segmentSeq)

LEMMA WrittenAlike ==
    ASSUME NEW e \in Entries, NEW h \in Int
    PROVE  WrittenHash([e EXCEPT !.hash = h]) = WrittenHash(e)
<1> DEFINE f == [e EXCEPT !.hash = h]
<1>1. /\ f.prevHash = e.prevHash /\ f.tenant = e.tenant /\ f.seq = e.seq /\ f.action = e.action /\ f.at = e.at
      /\ f.details = e.details /\ f.credential = e.credential /\ f.version = e.version
  BY DEF Entries
<1>2. \A v : HashedFields(f, v) = HashedFields(e, v)
  BY <1>1 DEF HashedFields
<1>3. QED
  BY <1>1, <1>2 DEF WrittenHash, ComputeHash

\* One entry has been written behind those of a chain.
Longer(c, chain, act, details) ==
    /\ Len(c) = Len(chain) + 1
    /\ \A i \in 1 .. Len(chain) : c[i] = chain[i]
    /\ c[Len(c)].action = act /\ c[Len(c)].details = details

LEMMA RecordedStands ==
    ASSUME CollisionFree, NEW action \in Nat, NEW chain, WellWritten(chain, action),
           NEW version \in 1 .. 3, NEW act \in {action, Exported}, NEW credential \in {0, 7},
           NEW details \in Details, chain = <<>> => act = action
    PROVE  /\ WellWritten(Recorded(chain, Tenant, version, act, credential, details), action)
           /\ Longer(Recorded(chain, Tenant, version, act, credential, details), chain, act, details)
<1>1. PICK n, c : n = Len(chain) /\ c = Recorded(chain, Tenant, version, act, credential, details)
  OBVIOUS
<1>2. n \in Nat /\ chain \in Seq(Entries)
  BY <1>1 DEF WellWritten
<1> DEFINE e == [seq |-> n + 1, tenant |-> Tenant, action |-> act,
                 at |-> 10 * (n + 1), details |-> details,
                 credential |-> IF HashesCredential(version) THEN credential ELSE 0,
                 prevHash |-> IF chain = <<>> THEN GenesisHash ELSE chain[n].hash,
                 version |-> version, hash |-> 0]
           f == [e EXCEPT !.hash = WrittenHash(e)]
<1>3. e.prevHash = (IF n = 0 THEN GenesisHash ELSE chain[n].hash) /\ e.prevHash \in Int
  <2>1. n = 0 <=> chain = <<>>
    BY <1>1, <1>2
  <2>2. n # 0 => chain[n] \in Entries
    BY <1>1, <1>2
  <2>3. QED
    BY <2>1, <2>2 DEF Entries, GenesisHash
<1>4. e \in Entries
  <2>1. act \in Int /\ version \in Int
    BY DEF Exported
  <2>2. e.credential \in {0, 7}
    OBVIOUS
  <2>3. QED
    BY <1>2, <1>3, <2>1, <2>2 DEF Entries, Tenant
<1>5. /\ e.seq = n + 1 /\ e.tenant = Tenant /\ e.action = act /\ e.details = details /\ e.version = version
      /\ e.credential \in {0, 7}
  OBVIOUS
<1>6. c = Append(chain, f)
  BY <1>1 DEF Recorded
<1> HIDE DEF e
<1>7. WrittenHash(e) \in Int
  BY <1>4, WrittenForm, HashIsNumber
<1>8. f \in Entries /\ f.hash = WrittenHash(e) /\ WrittenHash(f) = WrittenHash(e)
  <2>1. f \in Entries /\ f.hash = WrittenHash(e)
    BY <1>4, <1>7 DEF Entries
  <2>2. QED
    BY <1>4, <1>7, <2>1, WrittenAlike
<1>9. /\ f.seq = n + 1 /\ f.tenant = Tenant /\ f.action = act /\ f.details = details /\ f.version = version
      /\ f.credential \in {0, 7} /\ f.prevHash = IF n = 0 THEN GenesisHash ELSE chain[n].hash
  BY <1>3, <1>4, <1>5 DEF Entries
<1> HIDE DEF f
<1>10. /\ c \in Seq(Entries) /\ Len(c) = n + 1 /\ c[n + 1] = f
       /\ \A i \in 1 .. n : c[i] = chain[i]
  BY <1>1, <1>2, <1>6, <1>8
<1>11. ASSUME NEW i \in 1 .. Len(c) PROVE StandsAt(c, action, i)
  <2>1. CASE i = n + 1
    <3>1. c[i] = f
      BY <1>10, <2>1
    <3>2. n # 0 => c[i - 1] = chain[n]
      BY <1>2, <1>10, <2>1
    <3>3. f.prevHash = IF i = 1 THEN GenesisHash ELSE c[i - 1].hash
      BY <1>2, <1>9, <2>1, <3>2
    <3>4. QED
      BY <1>8, <1>9, <2>1, <3>1, <3>3 DEF StandsAt
  <2>2. CASE i # n + 1
    <3>1. i \in 1 .. n /\ c[i] = chain[i]
      BY <1>2, <1>10, <2>2
    <3>2. StandsAt(chain, action, i)
      BY <1>1, <3>1 DEF WellWritten
    <3>3. i # 1 => c[i - 1] = chain[i - 1]
      BY <1>2, <1>10, <3>1
    <3>4. QED
      BY <3>1, <3>2, <3>3 DEF StandsAt
  <2>3. QED
    BY <2>1, <2>2
<1>12. c[1].action = action
  <2>1. CASE n = 0
    <3>1. n = 0 <=> chain = <<>>
      BY <1>1, <1>2
    <3>2. QED
      BY <1>9, <1>10, <2>1, <3>1
  <2>2. CASE n # 0
    <3>1. n > 0 /\ c[1] = chain[1]
      BY <1>2, <1>10, <2>2
    <3>2. QED
      BY <1>1, <3>1 DEF WellWritten
  <2>3. QED
    BY <2>1, <2>2
<1>13. QED
  BY <1>1, <1>9, <1>10, <1>11, <1>12 DEF WellWritten, Longer

-----------------------------------------------------------------------------
\* What passes.

LEMMA LeadsOf ==
    ASSUME NEW d \in Docs, EntriesFit(d)
    PROVE  /\ Cardinality(PreOf(d)) \in 0 .. Len(d.entries)
           /\ PreOf(d) = 1 .. Cardinality(PreOf(d))
<1>1. DOMAIN d.entries = 1 .. Len(d.entries) /\ Len(d.entries) \in Nat
  BY DEF Docs
<1>2. PreOf(d) \in SUBSET (1 .. Len(d.entries))
  BY <1>1 DEF PreOf
<1>3. ASSUME NEW n \in PreOf(d) PROVE 1 .. n \subseteq PreOf(d)
  BY <1>1, <1>3 DEF PreOf, EntriesFit
<1>4. QED
  BY <1>1, <1>2, <1>3, Leading

Fits(d) == ClaimsFit(d) /\ EntriesFit(d) /\ EndsFit(d) /\ PositionFits(d)

LEMMA PassForm ==
    ASSUME NEW d
    PROVE  /\ VerifyDocument(d).passes
                <=> /\ Fits(d) /\ NoConflict(ExportRecords(d))
                    /\ HeaderOf(d, Through(d), OwnRecords(d)) # "refused"
           /\ VerifyDocument(d).passes \in BOOLEAN
           /\ VerifyDocument(d).passes =>
                 VerifyDocument(d) = [passes |-> TRUE, doc |-> d, digest |-> 0,
                     pre |-> Cardinality(PreOf(d)), through |-> Through(d),
                     header |-> HeaderOf(d, Through(d), OwnRecords(d)),
                     proven |-> Cardinality(PreOf(d)) = 0 \/ d.genesis]
           /\ ~VerifyDocument(d).passes => VerifyDocument(d) = Refused
<1>1. Refused.passes = FALSE
  BY DEF Refused
<1>2. CASE ~Fits(d)
  BY <1>1, <1>2 DEF Fits, VerifyDocument
<1>3. CASE Fits(d)
  <2>1. VerifyDocument(d) = Reported(d, Cardinality(PreOf(d)), ExportRecords(d))
    BY <1>3 DEF Fits, VerifyDocument, PreOf
  <2>2. VerifyDocument(d) =
           IF ~NoConflict(ExportRecords(d)) \/ HeaderOf(d, Through(d), OwnRecords(d)) = "refused" THEN Refused
           ELSE [passes |-> TRUE, doc |-> d, digest |-> 0, pre |-> Cardinality(PreOf(d)),
                 through |-> Through(d), header |-> HeaderOf(d, Through(d), OwnRecords(d)),
                 proven |-> Cardinality(PreOf(d)) = 0 \/ d.genesis]
    BY <2>1 DEF Reported, Through, OwnRecords
  <2>3. CASE ~NoConflict(ExportRecords(d)) \/ HeaderOf(d, Through(d), OwnRecords(d)) = "refused"
    <3>1. VerifyDocument(d) = Refused
      BY <2>2, <2>3
    <3>2. QED
      BY <1>1, <2>3, <3>1
  <2>4. CASE NoConflict(ExportRecords(d)) /\ HeaderOf(d, Through(d), OwnRecords(d)) # "refused"
    <3> DEFINE rep == [passes |-> TRUE, doc |-> d, digest |-> 0, pre |-> Cardinality(PreOf(d)),
                       through |-> Through(d), header |-> HeaderOf(d, Through(d), OwnRecords(d)),
                       proven |-> Cardinality(PreOf(d)) = 0 \/ d.genesis]
    <3>1. VerifyDocument(d) = rep
      BY <2>2, <2>4
    <3>2. rep.passes = TRUE
      OBVIOUS
    <3>3. VerifyDocument(d).passes = TRUE
      BY <3>1, <3>2
    <3>4. QED
      BY <1>3, <2>4, <3>1, <3>3
  <2>5. QED
    BY <2>3, <2>4
<1>4. QED
  BY <1>2, <1>3

\* The report of a file.
LEMMA FileForm ==
    ASSUME NEW d
    PROVE  LET v == VerifyFile(Sealed(d)) IN
           /\ v.passes <=> VerifyDocument(d).passes
           /\ v.passes \in BOOLEAN
           /\ ~v.passes => v = Refused
           /\ v.passes => /\ v.doc = d /\ v.digest = Digest(d) /\ v.pre = Cardinality(PreOf(d))
                          /\ v.through = Through(d)
                          /\ v.header = HeaderOf(d, Through(d), OwnRecords(d))
                          /\ v.proven = (v.pre = 0 \/ d.genesis)
<1>1. Sealed(d).segment = d /\ Sealed(d).digest = Digest(d)
  BY DEF Sealed
<1>2. Refused.passes = FALSE
  BY DEF Refused
<1>3. VerifyFile(Sealed(d)) = IF ~VerifyDocument(d).passes THEN Refused
                              ELSE [VerifyDocument(d) EXCEPT !.digest = Digest(d)]
  BY <1>1 DEF VerifyFile
<1>4. CASE ~VerifyDocument(d).passes
  BY <1>2, <1>3, <1>4
<1>5. CASE VerifyDocument(d).passes
  <2>1. VerifyDocument(d) = [passes |-> TRUE, doc |-> d, digest |-> 0,
                     pre |-> Cardinality(PreOf(d)), through |-> Through(d),
                     header |-> HeaderOf(d, Through(d), OwnRecords(d)),
                     proven |-> Cardinality(PreOf(d)) = 0 \/ d.genesis]
    BY <1>5, PassForm
  <2>2. LET v == VerifyFile(Sealed(d)) IN
        /\ v.passes = TRUE /\ v.doc = d /\ v.digest = Digest(d)
        /\ v.pre = Cardinality(PreOf(d)) /\ v.through = Through(d)
        /\ v.header = HeaderOf(d, Through(d), OwnRecords(d))
        /\ v.proven = (Cardinality(PreOf(d)) = 0 \/ d.genesis)
    <3>1. VerifyFile(Sealed(d)) = [VerifyDocument(d) EXCEPT !.digest = Digest(d)]
      BY <1>3, <1>5
    <3>2. PICK pre, through, header, proven :
              /\ pre = Cardinality(PreOf(d)) /\ through = Through(d)
              /\ header = HeaderOf(d, Through(d), OwnRecords(d))
              /\ proven = (Cardinality(PreOf(d)) = 0 \/ d.genesis)
      OBVIOUS
    <3>3. VerifyDocument(d) = [passes |-> TRUE, doc |-> d, digest |-> 0, pre |-> pre,
                               through |-> through, header |-> header, proven |-> proven]
      BY <2>1, <3>2
    <3>4. PICK v : v = [VerifyDocument(d) EXCEPT !.digest = Digest(d)] /\ v = VerifyFile(Sealed(d))
      BY <3>1
    <3>5. /\ v.passes = TRUE /\ v.doc = d /\ v.digest = Digest(d) /\ v.pre = pre
          /\ v.through = through /\ v.header = header
      BY <3>3, <3>4
    <3>6. v.proven = proven
      BY <3>3, <3>4
    <3>7. QED
      BY <3>2, <3>4, <3>5, <3>6
  <2>3. QED
    BY <1>5, <2>2
<1>6. QED
  BY <1>4, <1>5

\* A header that agrees.
LEMMA HeaderSays ==
    ASSUME NEW d, NEW through, NEW r \in Details
    PROVE  /\ CheckHeader(d, through, r) \in {"refused", "preSeal", "sealed"}
           /\ CheckHeader(d, through, r) = "preSeal" <=> RangeAgrees(d, r) /\ r.header = <<>>
           /\ CheckHeader(d, through, r) = "sealed"
                 <=> RangeAgrees(d, r) /\ r.header # <<>> /\ HeaderAgrees(d, through, r.header)
<1>1. r.header \in {<<>>} \cup StatedHeaders
  BY DEF Details
<1>2. /\ r.header = <<>> <=> DOMAIN r.header = {}
      /\ r.header # <<>> => DOMAIN r.header = SealedAll
      /\ SealedAll # {}
  BY <1>1, HeaderKeys
<1>3. CASE ~RangeAgrees(d, r)
  <2>1. CheckHeader(d, through, r) = "refused"
    BY <1>3 DEF CheckHeader
  <2>2. QED
    BY <1>3, <2>1
<1>4. CASE RangeAgrees(d, r) /\ r.header = <<>>
  <2>1. CheckHeader(d, through, r) = "preSeal"
    BY <1>2, <1>4 DEF CheckHeader
  <2>2. QED
    BY <1>4, <2>1
<1>5. CASE RangeAgrees(d, r) /\ r.header # <<>>
  <2>1. CheckHeader(d, through, r) = IF HeaderAgrees(d, through, r.header) THEN "sealed" ELSE "refused"
    BY <1>2, <1>5 DEF CheckHeader
  <2>2. QED
    BY <1>5, <2>1
<1>6. QED
  BY <1>3, <1>4, <1>5

FileRecords == [segment : Docs, digest : Int]
HeaderRecords == [id : Int, seq : Int, exportedAt : Int, start : Int, previous : {NoSegment} \cup Pointers]

\* File k has the entries it claims to have, and follows the one before it.
CutAt(chain, files, k) ==
    LET d == files[k].segment IN
    /\ files[k] = Sealed(d) /\ d \in Docs /\ VerifyDocument(d).passes
    /\ d.segmentSeq = k /\ d.tenant = Tenant
    /\ d.from \in 1 .. d.to /\ d.to \in 1 .. Len(chain)
    /\ d.count = d.to - d.from + 1 /\ Len(d.entries) = d.count
    /\ \A i \in 1 .. d.count : d.entries[i] = chain[d.from + i - 1]
    /\ d.startPrevHash = IF d.from = 1 THEN GenesisHash ELSE chain[d.from - 1].hash
    /\ d.from = IF k = 1 THEN 1 ELSE files[k - 1].segment.to + 1
    /\ d.previous = IF k = 1 THEN NoSegment ELSE PreviousOf(files[k - 1])

\* The record of a cut agrees with its file.
RecordFits(d, r) ==
    /\ RangeAgrees(d, r)
    /\ r.header = <<>> \/ HeaderAgrees(d, Through(d), r.header)

\* Every file has one record, behind its entries and those of earlier files.
RecordsKept(chain, files) ==
    /\ \A n \in 1 .. Len(chain) :
          chain[n].action = Exported => chain[n].details.segmentSeq \in 1 .. Len(files)
    /\ \A m, n \in 1 .. Len(chain) :
          chain[m].action = Exported /\ chain[n].action = Exported /\ m < n
             => chain[m].details.segmentSeq < chain[n].details.segmentSeq
    /\ \A k \in 1 .. Len(files) : \E n \in 1 .. Len(chain) :
          /\ chain[n].action = Exported /\ chain[n].details.segmentSeq = k
          /\ files[k].segment.to <= n /\ RecordFits(files[k].segment, chain[n].details)

Standing(a, action) ==
    /\ a \in [chain : Seq(Entries), files : Seq(FileRecords)]
    /\ WellWritten(a.chain, action)
    /\ \A k \in 1 .. Len(a.files) : CutAt(a.chain, a.files, k)
    /\ RecordsKept(a.chain, a.files)

\* A document of the entries of a chain from one number to another.
Shows(d, header, c, from, to) ==
    /\ d \in Docs
    /\ d.segmentId = header.id /\ d.segmentSeq = header.seq /\ d.tenant = Tenant
    /\ d.exportedAt = header.exportedAt /\ d.from = from /\ d.to = to /\ d.count = to - from + 1
    /\ Len(d.entries) = to - from + 1
    /\ \A i \in 1 .. to - from + 1 : d.entries[i] = c[from + i - 1]
    /\ d.startPrevHash = header.start /\ d.previous = header.previous

LEMMA DocumentForm ==
    ASSUME NEW c \in Seq(Entries), NEW from \in 1 .. Len(c), NEW to \in from .. Len(c),
           NEW action, WellWritten(c, action), NEW header \in HeaderRecords
    PROVE  Shows(Document(header, Tenant, SubSeq(c, from, to)), header, c, from, to)
<1>1. PICK s, n, d : /\ s = SubSeq(c, from, to) /\ n = to - from + 1
                     /\ d = Document(header, Tenant, SubSeq(c, from, to))
  OBVIOUS
<1>2. n \in Nat \ {0}
  BY <1>1
<1>3. s \in Seq(Entries) /\ Len(s) = n /\ \A i \in 1 .. n : s[i] = c[from + i - 1]
  BY <1>1, <1>2
<1>4. s[1] = c[from] /\ s[Len(s)] = c[to]
  BY <1>1, <1>2, <1>3
<1>5. c[from] \in Entries /\ c[to] \in Entries /\ c[from].seq = from /\ c[to].seq = to
  <2>1. from \in 1 .. Len(c) /\ to \in 1 .. Len(c)
    OBVIOUS
  <2>2. StandsAt(c, action, from) /\ StandsAt(c, action, to)
    BY <2>1 DEF WellWritten
  <2>3. QED
    BY <2>1, <2>2 DEF StandsAt
<1>6. d = [formatVersion |-> FormatVersion, segmentId |-> header.id, segmentSeq |-> header.seq,
           tenant |-> Tenant, exportedAt |-> header.exportedAt,
           from |-> c[from].seq, to |-> c[to].seq, count |-> n,
           firstAt |-> c[from].at, lastAt |-> c[to].at,
           startPrevHash |-> header.start, endHash |-> c[to].hash,
           genesis |-> header.start = GenesisHash,
           previous |-> header.previous, entries |-> s]
  BY <1>1, <1>3, <1>4 DEF Document
<1>7. /\ c[from].at \in Int /\ c[to].at \in Int /\ c[to].hash \in Int /\ FormatVersion \in Int /\ Tenant \in Int
  <2>1. \A e \in Entries : e.at \in Int /\ e.hash \in Int
    BY DEF Entries
  <2>2. FormatVersion \in Int /\ Tenant \in Int
    BY DEF FormatVersion, Tenant
  <2>3. QED
    BY <1>5, <2>1, <2>2
<1>7a. /\ header.id \in Int /\ header.seq \in Int /\ header.exportedAt \in Int /\ header.start \in Int
       /\ header.previous \in {NoSegment} \cup Pointers
  BY DEF HeaderRecords
<1>7b. (header.start = GenesisHash) \in BOOLEAN
  OBVIOUS
<1>8. d \in Docs
  BY <1>2, <1>3, <1>5, <1>6, <1>7, <1>7a, <1>7b DEF Docs
<1>9. QED
  BY <1>1, <1>3, <1>5, <1>6, <1>8 DEF Shows

\* What PreCutoverThrough finds in the chain is what the file shows.
LEMMA ThroughForm ==
    ASSUME NEW chain \in Seq(Entries), NEW d \in Docs, EntriesFit(d),
           d.from \in 1 .. d.to, d.to \in 1 .. Len(chain), Len(d.entries) = d.to - d.from + 1,
           \A i \in 1 .. Len(d.entries) : d.entries[i] = chain[d.from + i - 1]
    PROVE  PreCutoverThrough(chain, d.from, d.to) = Through(d)
<1>1. PICK p, n : p = Cardinality(PreOf(d)) /\ n = Len(d.entries)
  OBVIOUS
<1>2. p \in 0 .. n /\ PreOf(d) = 1 .. p /\ n = d.to - d.from + 1 /\ n \in Nat
  BY <1>1, LeadsOf
<1>3. DOMAIN d.entries = 1 .. n
  BY <1>1 DEF Docs
<1> DEFINE S == {m \in DOMAIN chain \cap (d.from .. d.to) : IsPreCutover(chain[m].version)}
<1>4. ASSUME NEW m \in d.from .. d.to PROVE m \in S <=> m <= d.from + p - 1
  <2>1. m \in DOMAIN chain /\ m - d.from + 1 \in 1 .. n /\ m \in Int
    BY <1>2, SMTT(60)
  <2>2. chain[m] = d.entries[m - d.from + 1]
    BY <1>1, <2>1
  <2>3. IsPreCutover(chain[m].version) <=> m - d.from + 1 \in PreOf(d)
    BY <1>3, <2>1, <2>2 DEF PreOf
  <2>4. m - d.from + 1 \in PreOf(d) <=> m - d.from + 1 <= p
    BY <1>2, <2>1, SMTT(60)
  <2>5. QED
    BY <1>2, <2>1, <2>3, <2>4
<1>5. PreCutoverThrough(chain, d.from, d.to) =
         IF S = {} THEN 0 ELSE CHOOSE x \in S : \A m \in S : m <= x
  BY DEF PreCutoverThrough
<1>6. S \subseteq d.from .. d.to
  OBVIOUS
<1> HIDE DEF S
<1>7. CASE p = 0
  <2>1. S = {}
    BY <1>4, <1>6, <1>7
  <2>2. QED
    BY <1>1, <1>5, <1>7, <2>1 DEF Through
<1>8. CASE p # 0
  <2>1. d.from + p - 1 \in d.from .. d.to
    BY <1>2, <1>8
  <2>2. d.from + p - 1 \in S
    BY <1>4, <2>1
  <2>3. S \in SUBSET Int /\ \A m \in S : m <= d.from + p - 1
    BY <1>4, <1>6
  <2>4. (CHOOSE x \in S : \A m \in S : m <= x) = d.from + p - 1
    BY <2>2, <2>3, LastIs
  <2>5. QED
    BY <1>1, <1>5, <1>8, <2>2, <2>4 DEF Through
<1>9. QED
  BY <1>7, <1>8

LEMMA ThroughIsNumber ==
    ASSUME NEW chain \in Seq(Entries), NEW from \in Nat, NEW to \in Nat
    PROVE  PreCutoverThrough(chain, from, to) \in Int
<1> DEFINE S == {m \in DOMAIN chain \cap (from .. to) : IsPreCutover(chain[m].version)}
<1>1. S \in SUBSET (0 .. to)
  OBVIOUS
<1>2. PreCutoverThrough(chain, from, to) = IF S = {} THEN 0 ELSE CHOOSE x \in S : \A m \in S : m <= x
  BY DEF PreCutoverThrough
<1> HIDE DEF S
<1>3. CASE S # {}
  <2>1. \E m \in S : \A k \in S : k <= m
    BY <1>1, <1>3, LastOf
  <2>2. (CHOOSE x \in S : \A m \in S : m <= x) \in S
    BY <2>1
  <2>3. S \subseteq Int
    BY <1>1
  <2>4. QED
    BY <1>2, <1>3, <2>2, <2>3
<1>4. QED
  BY <1>2, <1>3

LEMMA CutStays ==
    ASSUME NEW chain \in Seq(Entries), NEW c \in Seq(Entries), Len(chain) <= Len(c),
           \A i \in 1 .. Len(chain) : c[i] = chain[i],
           NEW files \in Seq(FileRecords), NEW fs \in Seq(FileRecords), Len(files) <= Len(fs),
           \A k \in 1 .. Len(files) : fs[k] = files[k],
           NEW k \in 1 .. Len(files), CutAt(chain, files, k)
    PROVE  CutAt(c, fs, k)
<1>1. PICK d : d = files[k].segment
  OBVIOUS
<1>2. /\ d.from \in 1 .. d.to /\ d.to \in 1 .. Len(chain) /\ d.count = d.to - d.from + 1
      /\ \A i \in 1 .. d.count : d.entries[i] = chain[d.from + i - 1]
      /\ d.startPrevHash = IF d.from = 1 THEN GenesisHash ELSE chain[d.from - 1].hash
  BY <1>1 DEF CutAt
<1>3. fs[k] = files[k] /\ (k # 1 => fs[k - 1] = files[k - 1])
  <2>1. k # 1 => k - 1 \in 1 .. Len(files)
    OBVIOUS
  <2>2. QED
    BY <2>1
<1>4. d.to \in 1 .. Len(c)
  <2>1. Len(chain) \in Nat /\ Len(c) \in Nat
    OBVIOUS
  <2>2. QED
    BY <1>2, <2>1
<1>5. \A i \in 1 .. d.count : d.entries[i] = c[d.from + i - 1]
  <2>1. ASSUME NEW i \in 1 .. d.count PROVE d.from + i - 1 \in 1 .. Len(chain)
    <3>1. PICK n \in Nat : n = Len(chain)
      OBVIOUS
    <3>2. PICK x \in Int, y \in Int : x = d.from /\ y = d.to /\ 1 <= x /\ x <= y /\ y <= n
      BY <1>2, <3>1
    <3>3. x + i - 1 \in 1 .. n
      <4>1. i \in Int /\ 1 <= i /\ i <= y - x + 1 /\ n \in Int
        BY <1>2, <3>2
      <4>2. QED
        BY <3>2, <4>1, SMTT(40)
    <3>4. QED
      BY <3>1, <3>2, <3>3
  <2>2. QED
    BY <1>2, <2>1
<1>6. d.from # 1 => c[d.from - 1] = chain[d.from - 1]
  <2>1. d.from # 1 => d.from - 1 \in 1 .. Len(chain)
    <3>1. PICK n \in Nat : n = Len(chain)
      OBVIOUS
    <3>2. PICK x \in Int, y \in Int : x = d.from /\ y = d.to /\ 1 <= x /\ x <= y /\ y <= n
      BY <1>2, <3>1
    <3>3. x # 1 => x - 1 \in 1 .. n
      BY <3>2, SMTT(60)
    <3>4. QED
      BY <3>1, <3>2, <3>3
  <2>2. QED
    BY <2>1
<1>7. d.startPrevHash = IF d.from = 1 THEN GenesisHash ELSE c[d.from - 1].hash
  BY <1>2, <1>6
<1>8. QED
  BY <1>1, <1>3, <1>4, <1>5, <1>7, ZenonT(120) DEF CutAt

LEMMA NothingStands ==
    ASSUME NEW action PROVE Standing([chain |-> <<>>, files |-> <<>>], action)
<1>1. Len(<<>>) = 0 /\ 1 .. 0 = {} /\ <<>> \in Seq(Entries) /\ <<>> \in Seq(FileRecords)
  OBVIOUS
<1>2. WellWritten(<<>>, action)
  BY <1>1 DEF WellWritten
<1>3. RecordsKept(<<>>, <<>>)
  BY <1>1 DEF RecordsKept
<1>4. PICK a : a = [chain |-> <<>>, files |-> <<>>]
  OBVIOUS
<1>5. a.chain = <<>> /\ a.files = <<>>
  BY <1>4
<1>6. a \in [chain : Seq(Entries), files : Seq(FileRecords)]
  BY <1>1, <1>4
<1>7. QED
  BY <1>1, <1>2, <1>3, <1>4, <1>5, <1>6 DEF Standing

\* A write leaves what was exported.
LEMMA WriteStands ==
    ASSUME CollisionFree, NEW action \in Nat \ {0, 1}, NEW a, Standing(a, action), NEW version \in 1 .. 3,
           NEW b, b = [a EXCEPT !.chain = Recorded(@, Tenant, version, action, 7, Plain)]
    PROVE  Standing(b, action)
<1>1. PICK chain, files : chain = a.chain /\ files = a.files
  OBVIOUS
<1>2. /\ chain \in Seq(Entries) /\ files \in Seq(FileRecords) /\ WellWritten(chain, action)
      /\ (\A k \in 1 .. Len(files) : CutAt(chain, files, k)) /\ RecordsKept(chain, files)
  BY <1>1 DEF Standing
<1>3. PICK c : c = Recorded(chain, Tenant, version, action, 7, Plain)
  OBVIOUS
<1>4. b.chain = c /\ b.files = files
  BY <1>1, <1>3 DEF Standing
<1>5. Plain \in Details
  BY DEF Plain, Details
<1>6. /\ WellWritten(c, action) /\ Len(c) = Len(chain) + 1
      /\ \A i \in 1 .. Len(chain) : c[i] = chain[i]
      /\ c[Len(c)].action = action
  <2>1. PICK act \in {action, Exported}, credential \in {0, 7}, details \in Details :
            act = action /\ credential = 7 /\ details = Plain
    BY <1>5
  <2>2. c = Recorded(chain, Tenant, version, act, credential, details)
    BY <1>3, <2>1
  <2>3. action \in Nat /\ WellWritten(chain, action)
    BY <1>2
  <2>4. WellWritten(c, action) /\ Longer(c, chain, act, details)
    BY <2>1, <2>2, <2>3, RecordedStands
  <2>5. QED
    BY <2>1, <2>4 DEF Longer
<1>7. c \in Seq(Entries) /\ Len(chain) \in Nat
  BY <1>2, <1>6 DEF WellWritten
<1>8. b \in [chain : Seq(Entries), files : Seq(FileRecords)]
  BY <1>1, <1>2, <1>3, <1>7 DEF Standing
<1>9. \A k \in 1 .. Len(files) : CutAt(c, files, k)
  <2>1. Len(chain) <= Len(c)
    BY <1>6, <1>7
  <2>2. QED
    BY <1>2, <1>6, <1>7, <2>1, CutStays, SMTT(60)
<1>10. ASSUME NEW n \in 1 .. Len(c), c[n].action = Exported PROVE n \in 1 .. Len(chain) /\ c[n] = chain[n]
  <2>1. c[Len(c)].action # Exported
    BY <1>6 DEF Exported
  <2>2. n # Len(c)
    BY <1>10, <2>1
  <2>3. QED
    BY <1>6, <1>7, <2>2
<1>11. RecordsKept(c, files)
  <2>1. \A n \in 1 .. Len(c) :
          c[n].action = Exported => c[n].details.segmentSeq \in 1 .. Len(files)
    BY <1>2, <1>10 DEF RecordsKept
  <2>2. \A m, n \in 1 .. Len(c) :
          c[m].action = Exported /\ c[n].action = Exported /\ m < n
             => c[m].details.segmentSeq < c[n].details.segmentSeq
    <3>1. SUFFICES ASSUME NEW m \in 1 .. Len(c), NEW n \in 1 .. Len(c), c[m].action = Exported,
                          c[n].action = Exported, m < n
                   PROVE  c[m].details.segmentSeq < c[n].details.segmentSeq
      OBVIOUS
    <3>2. m \in 1 .. Len(chain) /\ c[m] = chain[m] /\ n \in 1 .. Len(chain) /\ c[n] = chain[n]
      BY <1>10, <3>1
    <3>3. QED
      BY <1>2, <3>1, <3>2 DEF RecordsKept
  <2>3. \A k \in 1 .. Len(files) : \E n \in 1 .. Len(c) :
          /\ c[n].action = Exported /\ c[n].details.segmentSeq = k
          /\ files[k].segment.to <= n /\ RecordFits(files[k].segment, c[n].details)
    <3>1. SUFFICES ASSUME NEW k \in 1 .. Len(files)
                   PROVE \E n \in 1 .. Len(c) :
          /\ c[n].action = Exported /\ c[n].details.segmentSeq = k
          /\ files[k].segment.to <= n /\ RecordFits(files[k].segment, c[n].details)
      OBVIOUS
    <3>2. PICK n \in 1 .. Len(chain) :
          /\ chain[n].action = Exported /\ chain[n].details.segmentSeq = k
          /\ files[k].segment.to <= n /\ RecordFits(files[k].segment, chain[n].details)
      BY <1>2 DEF RecordsKept
    <3>3. n \in 1 .. Len(c) /\ c[n] = chain[n]
      BY <1>6, <1>7, <3>2
    <3>4. QED
      BY <3>2, <3>3
  <2>4. QED
    BY <2>1, <2>2, <2>3 DEF RecordsKept
<1>12. QED
  BY <1>4, <1>6, <1>8, <1>9, <1>11 DEF Standing

\* What the next cut of an archive starts from.
NextHeader(files, header, from) ==
    LET done == Len(files) IN
    /\ header \in HeaderRecords /\ header.seq = done + 1
    /\ from = IF done = 0 THEN 1 ELSE files[done].segment.to + 1
    /\ header.start = IF done = 0 THEN GenesisHash ELSE files[done].segment.endHash
    /\ header.previous = IF done = 0 THEN NoSegment ELSE PreviousOf(files[done])

\* The file ends with the hash of its last entry.
LEMMA EndOfFile ==
    ASSUME NEW chain \in Seq(Entries), NEW files, NEW k, CutAt(chain, files, k)
    PROVE  files[k].segment.endHash = chain[files[k].segment.to].hash
<1>1. PICK d : d = files[k].segment
  OBVIOUS
<1>2. /\ d \in Docs /\ d.from \in 1 .. d.to /\ d.to \in 1 .. Len(chain) /\ d.count = d.to - d.from + 1
      /\ Len(d.entries) = d.count
      /\ \A i \in 1 .. d.count : d.entries[i] = chain[d.from + i - 1]
      /\ VerifyDocument(d).passes
  BY <1>1 DEF CutAt
<1>3. d.endHash = d.entries[Len(d.entries)].hash
  BY <1>2, PassForm DEF Fits, EndsFit
<1>4. PICK x \in Int, y \in Int : x = d.from /\ y = d.to /\ 1 <= x /\ x <= y
  BY <1>2
<1>5. d.count \in 1 .. d.count /\ d.from + d.count - 1 = d.to
  BY <1>2, <1>4
<1>6. d.entries[d.count] = chain[d.to]
  BY <1>2, <1>5
<1>7. QED
  BY <1>1, <1>2, <1>3, <1>6

\* One file has been added, of a document.
Adds(fs, files, d) ==
    /\ fs \in Seq(FileRecords) /\ Len(fs) = Len(files) + 1
    /\ \A k \in 1 .. Len(files) : fs[k] = files[k]
    /\ fs[Len(files) + 1].segment = d

LEMMA CutFile ==
    ASSUME CollisionFree, NEW chain \in Seq(Entries), NEW action, NEW c, WellWritten(c, action), Len(c) = Len(chain) + 1,
           \A i \in 1 .. Len(chain) : c[i] = chain[i],
           NEW files \in Seq(FileRecords), \A k \in 1 .. Len(files) : CutAt(chain, files, k),
           NEW header, NEW from \in 1 .. Len(chain), NEW to \in from .. Len(chain) + 1,
           NextHeader(files, header, from),
           NEW d, Shows(d, header, c, from, to), VerifyDocument(d).passes
    PROVE  /\ Adds(Append(files, Sealed(d)), files, d)
           /\ CutAt(c, Append(files, Sealed(d)), Len(files) + 1)
<1>0. PICK n \in Nat, done \in Nat : n = Len(chain) /\ done = Len(files)
  OBVIOUS
<1>1. PICK fs : n = Len(chain) /\ done = Len(files) /\ fs = Append(files, Sealed(d))
  BY <1>0
<1>2. c \in Seq(Entries) /\ Len(c) = n + 1
  BY <1>1 DEF WellWritten
<1>3. from \in 1 .. Len(c) /\ to \in from .. Len(c) /\ header \in HeaderRecords
  BY <1>1, <1>2 DEF NextHeader
<1>4. /\ d \in Docs
      /\ d.segmentId = header.id /\ d.segmentSeq = header.seq /\ d.tenant = Tenant
      /\ d.exportedAt = header.exportedAt /\ d.from = from /\ d.to = to /\ d.count = to - from + 1
      /\ Len(d.entries) = to - from + 1
      /\ \A i \in 1 .. to - from + 1 : d.entries[i] = c[from + i - 1]
      /\ d.startPrevHash = header.start /\ d.previous = header.previous
  BY DEF Shows
<1>5. Sealed(d) \in FileRecords /\ Sealed(d).segment = d
  <2>1. DigestText(d) \in Seq(Int) /\ Digest(d) = Sha(DigestText(d))
    BY <1>4, DigestForm
  <2>2. Digest(d) \in Int
    BY <2>1, HashIsNumber
  <2>3. QED
    BY <1>4, <2>2 DEF Sealed, FileRecords
<1>6. /\ fs \in Seq(FileRecords) /\ Len(fs) = done + 1 /\ fs[done + 1] = Sealed(d)
      /\ \A k \in 1 .. done : fs[k] = files[k]
  BY <1>1, <1>5
<1>7. done # 0 => /\ done \in 1 .. Len(files) /\ CutAt(chain, files, done)
                  /\ files[done].segment.to \in 1 .. n /\ fs[done] = files[done]
  <2>1. done # 0 => done \in 1 .. Len(files)
    BY <1>1
  <2>2. QED
    BY <1>1, <1>6, <2>1, ZenonT(120) DEF CutAt
<1>8. from = 1 <=> done = 0
  BY <1>1, <1>7 DEF NextHeader
<1>9. header.start = IF from = 1 THEN GenesisHash ELSE c[from - 1].hash
  <2>1. CASE done = 0
    BY <1>1, <1>8, <2>1 DEF NextHeader
  <2>2. CASE done # 0
    <3>1. files[done].segment.endHash = chain[files[done].segment.to].hash
      BY <1>7, <2>2, EndOfFile
    <3>2. from - 1 = files[done].segment.to
      BY <1>1, <1>7, <2>2, SMTT(60) DEF NextHeader
    <3>3. c[from - 1] = chain[from - 1]
      BY <1>1, <1>7, <2>2, <3>2
    <3>4. header.start = files[done].segment.endHash
      BY <1>1, <2>2 DEF NextHeader
    <3>5. QED
      BY <1>8, <2>2, <3>1, <3>2, <3>3, <3>4
  <2>3. QED
    BY <2>1, <2>2
<1>10. /\ from = IF done + 1 = 1 THEN 1 ELSE fs[(done + 1) - 1].segment.to + 1
       /\ header.previous = IF done + 1 = 1 THEN NoSegment ELSE PreviousOf(fs[(done + 1) - 1])
  <2>1. (done + 1) - 1 = done /\ (done + 1 = 1 <=> done = 0)
    OBVIOUS
  <2>2. QED
    BY <1>1, <1>7, <2>1 DEF NextHeader
<1>11. d.from \in 1 .. d.to /\ d.to \in 1 .. Len(c)
  BY <1>2, <1>3, <1>4
<1>12. header.seq = done + 1
  BY <1>1 DEF NextHeader
<1>12a. /\ fs[done + 1] = Sealed(d) /\ fs[done + 1].segment = d /\ d.segmentSeq = done + 1
        /\ Len(d.entries) = d.count
        /\ d.count = d.to - d.from + 1
        /\ \A i \in 1 .. d.count : d.entries[i] = c[d.from + i - 1]
  BY <1>4, <1>5, <1>6, <1>12
<1>12b. /\ d.startPrevHash = IF d.from = 1 THEN GenesisHash ELSE c[d.from - 1].hash
        /\ d.from = IF done + 1 = 1 THEN 1 ELSE fs[(done + 1) - 1].segment.to + 1
        /\ d.previous = IF done + 1 = 1 THEN NoSegment ELSE PreviousOf(fs[(done + 1) - 1])
  BY <1>4, <1>9, <1>10
<1>12c. d \in Docs /\ d.tenant = Tenant
  BY <1>4
<1>12d. VerifyDocument(d).passes
  OBVIOUS
<1>13. CutAt(c, fs, done + 1)
  BY ONLY <1>11, <1>12a, <1>12b, <1>12c, <1>12d, SMTT(60) DEF CutAt
<1>14. Adds(fs, files, d)
  BY <1>1, <1>5, <1>6 DEF Adds
<1>15. QED
  BY <1>1, <1>13, <1>14

\* What a record states.
Records(r, header, from, to, through) ==
    /\ r \in Details /\ r.segmentSeq = header.seq /\ r.from = from /\ r.to = to /\ r.entries = to - from + 1
    /\ r.header # <<>> =>
          /\ r.header.segmentId = header.id /\ r.header.exportedAt = header.exportedAt
          /\ r.header.previousDigest = IF header.previous = NoSegment THEN 0 ELSE header.previous.digest
          /\ r.header.preCutoverThroughSeq = through

LEMMA RecordForm ==
    ASSUME NEW header \in HeaderRecords, NEW from \in Int, NEW to \in Int, NEW through \in Int, NEW seals \in BOOLEAN
    PROVE  Records(RecordDetails(header, from, to, through, seals), header, from, to, through)
<1>1. PICK pd : pd = IF header.previous = NoSegment THEN 0 ELSE header.previous.digest
  OBVIOUS
<1>2. PICK id, instant : id = header.id /\ instant = header.exportedAt
  OBVIOUS
<1>3. pd \in Int /\ id \in Int /\ instant \in Int /\ header.seq \in Int
  BY <1>1, <1>2 DEF HeaderRecords, Pointers
<1>4. PICK h : h = [segmentId |-> id, exportedAt |-> instant, previousDigest |-> pd, preCutoverThroughSeq |-> through]
  OBVIOUS
<1>5. h \in StatedHeaders /\ h.segmentId = id /\ h.exportedAt = instant /\ h.previousDigest = pd
      /\ h.preCutoverThroughSeq = through
  BY <1>3, <1>4 DEF StatedHeaders
<1>6. PICK g : g = IF ~seals THEN <<>> ELSE h
  OBVIOUS
<1>7. PICK r : r = RecordDetails(header, from, to, through, seals)
  OBVIOUS
<1>8. r = [segmentSeq |-> header.seq, from |-> from, to |-> to, entries |-> to - from + 1, header |-> g]
  BY <1>1, <1>2, <1>4, <1>6, <1>7 DEF RecordDetails
<1>9. /\ r.segmentSeq = header.seq /\ r.from = from /\ r.to = to /\ r.entries = to - from + 1 /\ r.header = g
  BY <1>8
<1>10. g \in {<<>>} \cup StatedHeaders /\ (g # <<>> => g = h)
  BY <1>5, <1>6
<1>11. r \in Details
  BY <1>3, <1>8, <1>10 DEF Details
<1>12. g # <<>> => /\ g.segmentId = header.id /\ g.exportedAt = header.exportedAt /\ g.previousDigest = pd
                   /\ g.preCutoverThroughSeq = through
  BY <1>2, <1>5, <1>10
<1>13. Records(r, header, from, to, through)
  BY <1>1, <1>9, <1>11, <1>12 DEF Records
<1>14. QED
  BY <1>7, <1>13

\* The record of a cut agrees with the file, which need not have it.
LEMMA RecordAgrees ==
    ASSUME NEW chain \in Seq(Entries), NEW files, RecordsKept(chain, files), Len(files) \in Nat,
           NEW action, NEW c, WellWritten(c, action), NEW r, Longer(c, chain, Exported, r),
           NEW header, NEW from \in 1 .. Len(chain), NEW to \in from .. Len(chain) + 1,
           header.seq = Len(files) + 1,
           Records(r, header, from, to, PreCutoverThrough(chain, from, to)),
           NEW d, Shows(d, header, c, from, to), VerifyDocument(d).passes
    PROVE  RecordFits(d, r)
<1>0. PICK n \in Nat : n = Len(chain)
  OBVIOUS
<1>1. /\ d \in Docs /\ d.segmentId = header.id /\ d.segmentSeq = header.seq /\ d.exportedAt = header.exportedAt
      /\ d.from = from /\ d.to = to /\ d.count = to - from + 1 /\ Len(d.entries) = to - from + 1
      /\ \A i \in 1 .. to - from + 1 : d.entries[i] = c[from + i - 1]
      /\ d.previous = header.previous
  BY DEF Shows
<1>2. Fits(d) /\ HeaderOf(d, Through(d), OwnRecords(d)) # "refused"
  BY PassForm
<1>3. /\ c \in Seq(Entries) /\ Len(c) = n + 1 /\ c[n + 1].action = Exported /\ c[n + 1].details = r
      /\ \A i \in 1 .. n : c[i] = chain[i]
  BY <1>0 DEF Longer, WellWritten
<1>4. /\ r \in Details /\ r.segmentSeq = header.seq /\ r.from = from /\ r.to = to /\ r.entries = to - from + 1
      /\ r.header # <<>> =>
          /\ r.header.segmentId = header.id /\ r.header.exportedAt = header.exportedAt
          /\ r.header.previousDigest = IF header.previous = NoSegment THEN 0 ELSE header.previous.digest
          /\ r.header.preCutoverThroughSeq = PreCutoverThrough(chain, from, to)
  BY DEF Records
<1>5. RangeAgrees(d, r)
  BY <1>1, <1>4 DEF RangeAgrees
<1>6. CASE to <= n
  <2>1. PreCutoverThrough(chain, d.from, d.to) = Through(d)
    <3>1. d.from \in 1 .. d.to /\ d.to \in 1 .. Len(chain)
      BY <1>0, <1>1, <1>6
    <3>2. ASSUME NEW i \in 1 .. Len(d.entries) PROVE d.entries[i] = chain[d.from + i - 1]
      <4>1. i \in 1 .. to - from + 1 /\ from + i - 1 \in 1 .. n
        BY <1>0, <1>1, <1>6, SMTT(60)
      <4>2. QED
        BY <1>1, <1>3, <4>1
    <3>3. Len(d.entries) = d.to - d.from + 1 /\ EntriesFit(d)
      BY <1>1, <1>2 DEF Fits
    <3>4. QED
      BY <1>1, <3>1, <3>2, <3>3, ThroughForm
  <2>2. r.header # <<>> => HeaderAgrees(d, Through(d), r.header)
    BY <1>1, <1>4, <2>1 DEF HeaderAgrees
  <2>3. QED
    BY <1>5, <2>2 DEF RecordFits
<1>7. CASE to = n + 1
  <2>1. DOMAIN d.entries = 1 .. Len(d.entries) /\ Len(d.entries) = n + 1 - from + 1
    BY <1>1, <1>7 DEF Docs
  <2>2. ASSUME NEW s \in OwnRecords(d) PROVE s = r
    <3>1. PICK i \in DOMAIN d.entries : d.entries[i].action = Exported /\ s = d.entries[i].details
      BY DEF OwnRecords, RecordOf, ExportRecords
    <3>2. s.segmentSeq = header.seq
      BY <1>1 DEF OwnRecords, RecordOf
    <3>3. PICK m \in Int : m = from + i - 1
      BY <2>1
    <3>4. m \in 1 .. n + 1 /\ d.entries[i] = c[m]
      BY <1>0, <1>1, <1>7, <2>1, <3>3, SMTT(40)
    <3>5. ASSUME m # n + 1 PROVE FALSE
      <4>1. m \in 1 .. n /\ c[m] = chain[m]
        BY <1>3, <3>4, <3>5
      <4>2. chain[m].details.segmentSeq \in 1 .. Len(files)
        BY <1>0, <3>1, <3>4, <4>1 DEF RecordsKept
      <4>3. QED
        BY <3>1, <3>2, <3>4, <4>1, <4>2
    <3>6. QED
      BY <1>3, <3>1, <3>4, <3>5
  <2>3. r \in OwnRecords(d)
    <3>1. n + 1 - from + 1 \in DOMAIN d.entries /\ d.entries[n + 1 - from + 1] = c[n + 1]
      <4>1. PICK i \in Int : i = n + 1 - from + 1
        OBVIOUS
      <4>2. i \in 1 .. to - from + 1 /\ from + i - 1 = n + 1 /\ i \in 1 .. Len(d.entries)
        BY <1>0, <1>7, <2>1, <4>1
      <4>3. QED
        BY <1>1, <2>1, <4>1, <4>2
    <3>2. r \in ExportRecords(d)
      BY <1>3, <3>1 DEF ExportRecords
    <3>3. QED
      BY <1>1, <1>4, <3>2 DEF OwnRecords, RecordOf
  <2>4. HeaderOf(d, Through(d), OwnRecords(d)) = CheckHeader(d, Through(d), r)
    <3>1. OwnRecords(d) = {r}
      BY <2>2, <2>3
    <3>2. OwnRecords(d) # {} /\ (CHOOSE s \in OwnRecords(d) : TRUE) = r
      BY <3>1
    <3>3. QED
      BY <3>2 DEF HeaderOf
  <2>5. CheckHeader(d, Through(d), r) \in {"preSeal", "sealed"}
    BY <1>2, <1>4, <2>4, HeaderSays
  <2>6. r.header = <<>> \/ HeaderAgrees(d, Through(d), r.header)
    BY <1>4, <2>5, HeaderSays
  <2>7. QED
    BY <1>5, <2>6 DEF RecordFits
<1>8. QED
  BY <1>0, <1>6, <1>7

Builders == [do : {"write", "cut"}, version : 1 .. 3, seals : BOOLEAN]

\* What a cut that is not refused keeps: one record more, and one file.
LEMMA RecordsGrow ==
    ASSUME NEW chain \in Seq(Entries), NEW files \in Seq(FileRecords), RecordsKept(chain, files),
           NEW c \in Seq(Entries), NEW r, Longer(c, chain, Exported, r), r.segmentSeq = Len(files) + 1,
           NEW fs, NEW d, Adds(fs, files, d), d.to \in Int, d.to <= Len(chain) + 1, RecordFits(d, r)
    PROVE  RecordsKept(c, fs)
<1>0. PICK n \in Nat, done \in Nat : n = Len(chain) /\ done = Len(files)
  OBVIOUS
<1>1. /\ Len(c) = n + 1 /\ c[n + 1].action = Exported /\ c[n + 1].details = r /\ r.segmentSeq = done + 1
      /\ \A i \in 1 .. n : c[i] = chain[i]
  BY <1>0 DEF Longer
<1>2. Len(fs) = done + 1 /\ fs[done + 1].segment = d /\ \A k \in 1 .. done : fs[k] = files[k]
  BY <1>0 DEF Adds
<1>3. /\ \A m \in 1 .. n : chain[m].action = Exported => chain[m].details.segmentSeq \in 1 .. done
      /\ \A l, m \in 1 .. n : chain[l].action = Exported /\ chain[m].action = Exported /\ l < m
             => chain[l].details.segmentSeq < chain[m].details.segmentSeq
      /\ \A k \in 1 .. done : \E m \in 1 .. n :
          /\ chain[m].action = Exported /\ chain[m].details.segmentSeq = k
          /\ files[k].segment.to <= m /\ RecordFits(files[k].segment, chain[m].details)
  BY <1>0 DEF RecordsKept
<1>4. \A m \in 1 .. n + 1 : m \in 1 .. n \/ m = n + 1
  OBVIOUS
<1>5. \A m \in 1 .. Len(c) : c[m].action = Exported => c[m].details.segmentSeq \in 1 .. Len(fs)
  <2>1. SUFFICES ASSUME NEW m \in 1 .. n + 1, c[m].action = Exported
                 PROVE  c[m].details.segmentSeq \in 1 .. done + 1
    BY <1>1, <1>2
  <2>2. CASE m = n + 1
    BY <1>1, <2>2
  <2>3. CASE m \in 1 .. n
    <3>1. c[m].details.segmentSeq \in 1 .. done
      BY <1>1, <1>3, <2>1, <2>3
    <3>2. QED
      BY <3>1, SMTT(60)
  <2>4. QED
    BY <1>4, <2>2, <2>3
<1>6. \A l, m \in 1 .. Len(c) : c[l].action = Exported /\ c[m].action = Exported /\ l < m
             => c[l].details.segmentSeq < c[m].details.segmentSeq
  <2>1. SUFFICES ASSUME NEW l \in 1 .. n + 1, NEW m \in 1 .. n + 1, c[l].action = Exported,
                        c[m].action = Exported, l < m
                 PROVE  c[l].details.segmentSeq < c[m].details.segmentSeq
    BY <1>1
  <2>2. l \in 1 .. n /\ c[l] = chain[l]
    BY <1>1, <2>1
  <2>3. CASE m = n + 1
    <3>1. c[l].details.segmentSeq \in 1 .. done
      BY <1>3, <2>1, <2>2
    <3>2. c[m].details.segmentSeq = done + 1
      BY <1>1, <2>3
    <3>3. QED
      BY <3>1, <3>2, SMTT(40)
  <2>4. CASE m \in 1 .. n
    BY <1>1, <1>3, <2>1, <2>2, <2>4
  <2>5. QED
    BY <1>4, <2>3, <2>4
<1>7. \A k \in 1 .. Len(fs) : \E m \in 1 .. Len(c) :
          /\ c[m].action = Exported /\ c[m].details.segmentSeq = k
          /\ fs[k].segment.to <= m /\ RecordFits(fs[k].segment, c[m].details)
  <2>1. SUFFICES ASSUME NEW k \in 1 .. done + 1
                 PROVE  \E m \in 1 .. n + 1 :
          /\ c[m].action = Exported /\ c[m].details.segmentSeq = k
          /\ fs[k].segment.to <= m /\ RecordFits(fs[k].segment, c[m].details)
    BY <1>1, <1>2
  <2>2. CASE k = done + 1
    <3>1. d.to <= n + 1
      BY <1>0
    <3>2. QED
      BY <1>1, <1>2, <2>2, <3>1
  <2>3. CASE k # done + 1
    <3>1. k \in 1 .. done /\ fs[k] = files[k]
      BY <1>2, <2>3
    <3>2. PICK m \in 1 .. n :
          /\ chain[m].action = Exported /\ chain[m].details.segmentSeq = k
          /\ files[k].segment.to <= m /\ RecordFits(files[k].segment, chain[m].details)
      BY <1>3, <3>1
    <3>3. m \in 1 .. n + 1 /\ c[m] = chain[m]
      BY <1>1, <3>2
    <3>4. QED
      BY <3>1, <3>2, <3>3
  <2>4. QED
    BY <2>2, <2>3
<1>8. QED
  BY <1>5, <1>6, <1>7 DEF RecordsKept

LEMMA CutRangeStands ==
    ASSUME CollisionFree, NEW action \in Nat \ {0, 1}, NEW a, Standing(a, action), NEW build \in Builders,
           NEW header, NEW from \in 1 .. Len(a.chain), NEW to \in from .. Len(a.chain) + 1,
           NextHeader(a.files, header, from)
    PROVE  Standing(CutRange(a, Tenant, build, header, from, to), action)
<1>1. PICK chain, files : chain = a.chain /\ files = a.files
  OBVIOUS
<1>2. /\ chain \in Seq(Entries) /\ files \in Seq(FileRecords) /\ WellWritten(chain, action)
      /\ (\A k \in 1 .. Len(files) : CutAt(chain, files, k)) /\ RecordsKept(chain, files)
      /\ Len(chain) \in Nat /\ Len(files) \in Nat
  BY <1>1 DEF Standing
<1>3. from \in 1 .. Len(chain) /\ to \in from .. Len(chain) + 1 /\ NextHeader(files, header, from)
  BY <1>1
<1>4. header \in HeaderRecords /\ header.seq = Len(files) + 1
  BY <1>3 DEF NextHeader
<1>5. PICK r : r = RecordDetails(header, from, to, PreCutoverThrough(chain, from, to), build.seals)
  OBVIOUS
<1>6. Records(r, header, from, to, PreCutoverThrough(chain, from, to))
  <2>1. from \in Nat /\ to \in Nat
    BY <1>2, <1>3
  <2>2. PreCutoverThrough(chain, from, to) \in Int
    BY <1>2, <2>1, ThroughIsNumber
  <2>3. from \in Int /\ to \in Int /\ build.seals \in BOOLEAN
    BY <2>1 DEF Builders
  <2>4. QED
    BY <1>4, <1>5, <2>2, <2>3, RecordForm
<1>7. PICK c : c = Recorded(chain, Tenant, build.version, Exported, 0, r)
  OBVIOUS
<1>8. WellWritten(c, action) /\ Longer(c, chain, Exported, r)
  <2>1. PICK version \in 1 .. 3, act \in {action, Exported}, credential \in {0, 7}, details \in Details :
            version = build.version /\ act = Exported /\ credential = 0 /\ details = r
    BY <1>6 DEF Builders, Records
  <2>2. c = Recorded(chain, Tenant, version, act, credential, details)
    BY <1>7, <2>1
  <2>3. action \in Nat /\ WellWritten(chain, action)
    BY <1>2
  <2>4. chain # <<>>
    BY <1>3
  <2>5. WellWritten(c, action) /\ Longer(c, chain, act, details)
    BY <2>1, <2>2, <2>3, <2>4, RecordedStands
  <2>6. QED
    BY <2>1, <2>5
<1>9. /\ c \in Seq(Entries) /\ Len(c) = Len(chain) + 1 /\ \A i \in 1 .. Len(chain) : c[i] = chain[i]
  BY <1>8 DEF WellWritten, Longer
<1>10. PICK d : d = Document(header, Tenant, SubSeq(c, from, to))
  OBVIOUS
<1>11. Shows(d, header, c, from, to)
  <2>1. from \in 1 .. Len(c) /\ to \in from .. Len(c)
    BY <1>2, <1>3, <1>9
  <2>2. QED
    BY <1>4, <1>8, <1>9, <1>10, <2>1, DocumentForm
<1>12. PICK built, b : /\ built = Build(header, Tenant, SubSeq(c, from, to), build)
                       /\ b = CutRange(a, Tenant, build, header, from, to)
  OBVIOUS
<1>13. b = IF built = <<>> THEN a ELSE [chain |-> c, files |-> files \o built]
  BY <1>1, <1>5, <1>7, <1>12 DEF CutRange
<1>14. CASE built = <<>>
  BY <1>12, <1>13, <1>14
<1>15. CASE built # <<>>
  <2>1. built = <<Sealed(d)>> /\ VerifyDocument(d).passes
    BY <1>10, <1>12, <1>15 DEF Build
  <2>2. PICK fs : fs = Append(files, Sealed(d))
    OBVIOUS
  <2>3. Adds(fs, files, d) /\ CutAt(c, fs, Len(files) + 1)
    BY <1>2, <1>3, <1>8, <1>9, <1>11, <2>1, <2>2, CutFile
  <2>4. b.chain = c /\ b.files = fs /\ b = [chain |-> c, files |-> fs]
    <3>1. files \o built = fs
      BY <1>2, <2>1, <2>2
    <3>2. QED
      BY <1>13, <1>15, <3>1
  <2>5. fs \in Seq(FileRecords) /\ Len(fs) = Len(files) + 1 /\ \A k \in 1 .. Len(files) : fs[k] = files[k]
    BY <2>3 DEF Adds
  <2>6. ASSUME NEW k \in 1 .. Len(fs) PROVE CutAt(c, fs, k)
    <3>1. CASE k = Len(files) + 1
      BY <2>3, <3>1
    <3>2. CASE k # Len(files) + 1
      <4>1. k \in 1 .. Len(files) /\ Len(chain) <= Len(c) /\ Len(files) <= Len(fs)
        BY <1>2, <1>9, <2>5, <3>2
      <4>2. CutAt(chain, files, k)
        BY <1>2, <4>1
      <4>3. QED
        BY <1>2, <1>9, <2>5, <4>1, <4>2, CutStays
    <3>3. QED
      BY <3>1, <3>2
  <2>7. RecordFits(d, r)
    BY <1>2, <1>3, <1>4, <1>6, <1>8, <1>11, <2>1, RecordAgrees
  <2>8. RecordsKept(c, fs)
    <3>1. r.segmentSeq = Len(files) + 1
      BY <1>4, <1>6 DEF Records
    <3>2. d.to \in Int /\ d.to <= Len(chain) + 1
      BY <1>2, <1>3, <1>11 DEF Shows
    <3>3. QED
      BY <1>2, <1>8, <1>9, <2>3, <2>7, <3>1, <3>2, RecordsGrow
  <2>9. b \in [chain : Seq(Entries), files : Seq(FileRecords)]
    BY <1>9, <2>4, <2>5
  <2>10. Standing(b, action)
    BY <1>8, <2>4, <2>6, <2>8, <2>9 DEF Standing
  <2>11. QED
    BY <1>12, <2>10
<1>16. QED
  BY <1>14, <1>15

LEMMA CutStands ==
    ASSUME CollisionFree, NEW action \in Nat \ {0, 1}, NEW a, Standing(a, action), NEW build \in Builders,
           NEW cap \in Nat \ {0, 1}
    PROVE  Standing(Cut(a, cap, Tenant, build), action)
<1>1. PICK head \in Nat, done \in Nat : head = Len(a.chain) /\ done = Len(a.files)
  BY DEF Standing
<1>2. PICK last : last = IF done = 0 THEN NoSegment ELSE PreviousOf(a.files[done])
  OBVIOUS
<1>3. PICK from : from = IF done = 0 THEN 1 ELSE last.toSeq + 1
  OBVIOUS
<1>4. PICK to : to = IF head + 1 > from + cap - 1 THEN from + cap - 1 ELSE head + 1
  OBVIOUS
<1>5. PICK header : header = [id |-> 10 * done + 11, seq |-> done + 1, exportedAt |-> 10 * head + 12,
                   start |-> IF done = 0 THEN GenesisHash ELSE last.endHash, previous |-> last]
  OBVIOUS
<1>6. Cut(a, cap, Tenant, build) = IF head < from THEN a ELSE CutRange(a, Tenant, build, header, from, to)
  BY <1>1, <1>2, <1>3, <1>4, <1>5 DEF Cut
<1>7. /\ done # 0 => /\ a.files[done] \in FileRecords /\ a.files[done].segment \in Docs
                     /\ a.files[done].segment.to \in 1 .. head
  <2>1. done # 0 => done \in 1 .. Len(a.files) /\ a.files \in Seq(FileRecords)
    BY <1>1 DEF Standing
  <2>2. done # 0 => a.files[done] \in FileRecords /\ CutAt(a.chain, a.files, done)
    BY <2>1 DEF Standing
  <2>3. QED
    BY <1>1, <2>2 DEF CutAt
<1>8. done # 0 => /\ last \in Pointers /\ last.toSeq = a.files[done].segment.to
                  /\ last.endHash = a.files[done].segment.endHash
  <2>1. ASSUME done # 0 PROVE /\ last \in Pointers /\ last.toSeq = a.files[done].segment.to
                  /\ last.endHash = a.files[done].segment.endHash
    <3>1. PICK f \in FileRecords : f = a.files[done]
      BY <1>7, <2>1
    <3>2. PICK s \in Docs : s = f.segment
      BY DEF FileRecords
    <3>3. /\ s.segmentId \in Int /\ s.segmentSeq \in Int /\ s.to \in Int /\ s.endHash \in Int /\ f.digest \in Int
      BY DEF Docs, FileRecords
    <3>4. last = [segmentId |-> s.segmentId, segmentSeq |-> s.segmentSeq, toSeq |-> s.to,
                  endHash |-> s.endHash, digest |-> f.digest]
      BY <1>2, <2>1, <3>1, <3>2 DEF PreviousOf
    <3>5. QED
      BY <3>1, <3>2, <3>3, <3>4 DEF Pointers
  <2>2. QED
    BY <2>1
<1>9. from \in 1 .. head + 1
  BY <1>3, <1>7, <1>8
<1>10. CASE head < from
  BY <1>6, <1>10
<1>11. CASE ~(head < from)
  <2>1. from \in 1 .. Len(a.chain) /\ to \in from .. Len(a.chain) + 1
    BY <1>1, <1>4, <1>9, <1>11
  <2>2. NextHeader(a.files, header, from)
    <3>1. /\ header.seq = done + 1 /\ header.previous = last
          /\ header.start = IF done = 0 THEN GenesisHash ELSE last.endHash
      BY <1>5
    <3>2. last \in {NoSegment} \cup Pointers
      BY <1>2, <1>8
    <3>3. (IF done = 0 THEN GenesisHash ELSE last.endHash) \in Int
      BY <1>8 DEF GenesisHash, Pointers
    <3>4. header \in HeaderRecords
      BY <1>5, <3>2, <3>3 DEF HeaderRecords
    <3>5. QED
      BY <1>1, <1>2, <1>3, <1>8, <3>1, <3>4 DEF NextHeader
  <2>3. QED
    BY <1>6, <1>11, <2>1, <2>2, CutRangeStands
<1>12. QED
  BY <1>10, <1>11

LEMMA DidStands ==
    ASSUME CollisionFree, NEW action \in Nat \ {0, 1}, NEW a, Standing(a, action), NEW event \in Builders,
           NEW cap \in Nat \ {0, 1}
    PROVE  Standing(Did(a, cap, action, event), action)
<1>1. CASE event.do = "cut"
  BY <1>1, CutStands DEF Did
<1>2. CASE event.do # "cut"
  <2>1. Did(a, cap, action, event) = [a EXCEPT !.chain = Recorded(@, Tenant, event.version, action, 7, Plain)]
    BY <1>2 DEF Did
  <2>2. event.version \in 1 .. 3
    BY DEF Builders
  <2>3. QED
    BY <2>1, <2>2, WriteStands
<1>3. QED
  BY <1>1, <1>2

\* What became of the first events of a history.
After(f, history, cap, action, l) ==
    f = [n \in 0 .. l |-> IF n = 0 THEN [chain |-> <<>>, files |-> <<>>]
                          ELSE Did(f[n - 1], cap, action, history[n])]

LEMMA AfterOne ==
    ASSUME NEW history, NEW cap, NEW action, NEW l \in Nat, NEW f, After(f, history, cap, action, l)
    PROVE  \E g : After(g, history, cap, action, l + 1)
<1>1. PICK g : g = [n \in 0 .. l + 1 |-> IF n \in 0 .. l THEN f[n] ELSE Did(f[l], cap, action, history[n])]
  OBVIOUS
<1>2. ASSUME NEW n \in 0 .. l + 1
      PROVE  g[n] = IF n = 0 THEN [chain |-> <<>>, files |-> <<>>] ELSE Did(g[n - 1], cap, action, history[n])
  <2>1. CASE n = 0
    BY <1>1, <2>1 DEF After
  <2>2. CASE n # 0 /\ n \in 0 .. l
    <3>1. n - 1 \in 0 .. l /\ n - 1 \in 0 .. l + 1
      BY <2>2
    <3>2. g[n] = f[n] /\ g[n - 1] = f[n - 1]
      BY <1>1, <2>2, <3>1
    <3>3. f[n] = Did(f[n - 1], cap, action, history[n])
      BY <2>2 DEF After
    <3>4. QED
      BY <2>2, <3>2, <3>3
  <2>3. CASE n = l + 1
    <3>1. n # 0 /\ n \notin 0 .. l /\ n - 1 = l /\ l \in 0 .. l /\ l \in 0 .. l + 1
      BY <2>3
    <3>2. g[n] = Did(f[l], cap, action, history[n]) /\ g[l] = f[l]
      BY <1>1, <3>1
    <3>3. QED
      BY <3>1, <3>2
  <2>4. QED
    BY <2>1, <2>2, <2>3
<1>3. g = [n \in 0 .. l + 1 |-> g[n]]
  BY <1>1
<1>4. After(g, history, cap, action, l + 1)
  BY <1>2, <1>3 DEF After
<1>5. QED
  BY <1>4

LEMMA AfterAny ==
    ASSUME NEW history, NEW cap, NEW action, NEW l \in Nat
    PROVE  \E f : After(f, history, cap, action, l)
<1> DEFINE S == {n \in Nat : \E f : After(f, history, cap, action, n)}
<1>1. 0 \in S
  <2>1. PICK f : f = [n \in 0 .. 0 |-> [chain |-> <<>>, files |-> <<>>]]
    OBVIOUS
  <2>2. [n \in 0 .. 0 |-> IF n = 0 THEN [chain |-> <<>>, files |-> <<>>]
                          ELSE Did(f[n - 1], cap, action, history[n])] = f
    BY <2>1
  <2>3. After(f, history, cap, action, 0)
    BY <2>2 DEF After
  <2>4. QED
    BY <2>3
<1>2. \A n \in S \cap Nat : n + 1 \in S
  BY AfterOne
<1>3. \A n \in Nat : n \in S
  <2> HIDE DEF S
  <2>1. QED
    BY <1>1, <1>2, AllNumbers
<1>4. QED
  BY <1>3

\* Whatever builds do, an archive stands.
LEMMA ArchiveStands ==
    ASSUME CollisionFree, NEW history \in Seq(Builders), NEW cap \in Nat \ {0, 1}, NEW action \in Nat \ {0, 1}
    PROVE  Standing(Archive(history, cap, action), action)
<1>1. PICK l \in Nat : l = Len(history)
  OBVIOUS
<1>2. Archive(history, cap, action) = (CHOOSE f : After(f, history, cap, action, l))[l]
  BY <1>1 DEF Archive, After
<1>3. PICK f : After(f, history, cap, action, l) /\ f = CHOOSE g : After(g, history, cap, action, l)
  BY AfterAny
<1> DEFINE S == {n \in Nat : n <= l => Standing(f[n], action)}
<1>4. 0 \in S
  <2>1. f[0] = [chain |-> <<>>, files |-> <<>>]
    BY <1>3 DEF After
  <2>2. QED
    BY <2>1, NothingStands
<1>5. \A n \in S \cap Nat : n + 1 \in S
  <2>1. SUFFICES ASSUME NEW n \in Nat, n + 1 <= l, Standing(f[n], action) PROVE Standing(f[n + 1], action)
    OBVIOUS
  <2>2. n + 1 \in 0 .. l /\ n + 1 # 0 /\ (n + 1) - 1 = n /\ n + 1 \in 1 .. Len(history)
    BY <1>1, <2>1
  <2>3. f[n + 1] = Did(f[n], cap, action, history[n + 1])
    BY <1>3, <2>2 DEF After
  <2>4. history[n + 1] \in Builders
    BY <2>2
  <2>5. QED
    BY <2>1, <2>3, <2>4, DidStands
<1>6. \A n \in Nat : n \in S
  <2> HIDE DEF S
  <2>1. QED
    BY <1>4, <1>5, AllNumbers
<1>7. Standing(f[l], action)
  BY <1>6
<1>8. QED
  BY <1>2, <1>3, <1>7

-----------------------------------------------------------------------------
\* What a standing archive has.
Kept(c, fs, action) ==
    /\ c \in Seq(Entries) /\ fs \in Seq(FileRecords) /\ WellWritten(c, action)
    /\ \A k \in 1 .. Len(fs) : CutAt(c, fs, k)
    /\ RecordsKept(c, fs)

\* File k, by the numbers of its entries.
FileOf(c, fs, k, d) ==
    /\ d \in Docs /\ fs[k] = Sealed(d) /\ VerifyDocument(d).passes /\ Fits(d)
    /\ d.segmentSeq = k /\ d.tenant = Tenant
    /\ d.from \in Nat \ {0} /\ d.to \in Nat /\ d.from <= d.to /\ d.to <= Len(c)
    /\ d.count = d.to - d.from + 1 /\ Len(d.entries) = d.count /\ DOMAIN d.entries = 1 .. d.count
    /\ \A i \in 1 .. d.count : d.entries[i] = c[d.from + i - 1]
    /\ \A n \in d.from .. d.to : d.entries[n - d.from + 1] = c[n]
    /\ d.startPrevHash = IF d.from = 1 THEN GenesisHash ELSE c[d.from - 1].hash
    /\ d.endHash = c[d.to].hash
    /\ d.from = IF k = 1 THEN 1 ELSE fs[k - 1].segment.to + 1
    /\ d.previous = IF k = 1 THEN NoSegment ELSE PreviousOf(fs[k - 1])
    /\ d.genesis <=> k = 1
FileIs(c, fs, k) == FileOf(c, fs, k, fs[k].segment)

LEMMA FileFacts ==
    ASSUME CollisionFree, NEW c, NEW fs, NEW action, Kept(c, fs, action), NEW k \in 1 .. Len(fs)
    PROVE  FileIs(c, fs, k)
<1>0. c \in Seq(Entries) /\ Len(c) \in Nat /\ CutAt(c, fs, k) /\ Len(fs) \in Nat
  BY DEF Kept
<1>1. PICK d : d = fs[k].segment
  OBVIOUS
<1>2. /\ d \in Docs /\ fs[k] = Sealed(d) /\ VerifyDocument(d).passes
      /\ d.segmentSeq = k /\ d.tenant = Tenant
      /\ d.from \in 1 .. d.to /\ d.to \in 1 .. Len(c)
      /\ d.count = d.to - d.from + 1 /\ Len(d.entries) = d.count
      /\ \A i \in 1 .. d.count : d.entries[i] = c[d.from + i - 1]
      /\ d.startPrevHash = IF d.from = 1 THEN GenesisHash ELSE c[d.from - 1].hash
      /\ d.from = IF k = 1 THEN 1 ELSE fs[k - 1].segment.to + 1
      /\ d.previous = IF k = 1 THEN NoSegment ELSE PreviousOf(fs[k - 1])
  BY <1>0, <1>1 DEF CutAt
<1>3. PICK x \in Nat, y \in Nat : x = d.from /\ y = d.to /\ 1 <= x /\ x <= y /\ y <= Len(c)
  BY <1>0, <1>2
<1>4. /\ d.from \in Nat \ {0} /\ d.to \in Nat /\ d.from <= d.to /\ d.to <= Len(c)
  BY <1>3
<1>5. DOMAIN d.entries = 1 .. d.count
  BY <1>2, SMTT(60) DEF Docs
<1>6. ASSUME NEW n \in d.from .. d.to PROVE d.entries[n - d.from + 1] = c[n]
  <2>1. n - x + 1 \in 1 .. y - x + 1 /\ x + (n - x + 1) - 1 = n
    BY <1>3, SMTT(40)
  <2>2. n - d.from + 1 \in 1 .. d.count /\ d.from + (n - d.from + 1) - 1 = n
    BY <1>2, <1>3, <2>1
  <2>3. QED
    BY <1>2, <2>2
<1>7. Fits(d)
  BY <1>2, PassForm
<1>8. d.endHash = c[d.to].hash
  BY <1>0, <1>1, EndOfFile
<1>9. d.from = 1 <=> k = 1
  <2>1. k # 1 => k - 1 \in 1 .. Len(fs)
    BY <1>0
  <2>2. k # 1 => fs[k - 1].segment.to \in 1 .. Len(c)
    BY <2>1 DEF Kept, CutAt
  <2>3. QED
    BY <1>0, <1>2, <2>2
<1>10. d.genesis <=> k = 1
  <2>1. d.genesis <=> d.startPrevHash = GenesisHash
    BY <1>7 DEF Fits, ClaimsFit
  <2>2. d.from # 1 => c[d.from - 1].hash # GenesisHash
    <3>1. ASSUME d.from # 1 PROVE c[d.from - 1].hash # GenesisHash
      <4>1. PICK m \in 1 .. Len(c) : m = d.from - 1
        BY <1>3, <3>1
      <4>2. c[m] \in Entries /\ c[m].hash = WrittenHash(c[m])
        BY <1>0, <4>1 DEF Kept, WellWritten, StandsAt
      <4>3. WrittenHash(c[m]) \in Nat \ {0}
        BY <4>2, WrittenForm, HashIsNumber
      <4>4. QED
        BY <4>1, <4>2, <4>3 DEF GenesisHash
    <3>2. QED
      BY <3>1
  <2>3. QED
    BY <1>2, <1>9, <2>1, <2>2
<1>11a. /\ d \in Docs /\ fs[k] = Sealed(d) /\ VerifyDocument(d).passes /\ Fits(d)
        /\ d.segmentSeq = k /\ d.tenant = Tenant
        /\ d.from \in Nat \ {0} /\ d.to \in Nat /\ d.from <= d.to /\ d.to <= Len(c)
        /\ d.count = d.to - d.from + 1 /\ Len(d.entries) = d.count /\ DOMAIN d.entries = 1 .. d.count
  BY <1>2, <1>4, <1>5, <1>7
<1>11b. /\ \A i \in 1 .. d.count : d.entries[i] = c[d.from + i - 1]
        /\ \A n \in d.from .. d.to : d.entries[n - d.from + 1] = c[n]
        /\ d.startPrevHash = IF d.from = 1 THEN GenesisHash ELSE c[d.from - 1].hash
        /\ d.endHash = c[d.to].hash
  BY <1>2, <1>6, <1>8
<1>11c. /\ d.from = IF k = 1 THEN 1 ELSE fs[k - 1].segment.to + 1
        /\ d.previous = IF k = 1 THEN NoSegment ELSE PreviousOf(fs[k - 1])
        /\ d.genesis <=> k = 1
  BY <1>2, <1>10
<1>11. FileOf(c, fs, k, d)
  BY <1>11a, <1>11b, <1>11c DEF FileOf
<1>12. QED
  BY <1>1, <1>11 DEF FileIs

-----------------------------------------------------------------------------
\* The files are of entries that follow one another.
LEMMA FilesRise ==
    ASSUME CollisionFree, NEW c, NEW fs, NEW action, Kept(c, fs, action), NEW i \in 1 .. Len(fs), NEW k \in i .. Len(fs)
    PROVE  /\ fs[i].segment.from <= fs[k].segment.from /\ fs[i].segment.to <= fs[k].segment.to
           /\ i # k => fs[i].segment.to < fs[k].segment.from
           /\ \A n \in fs[i].segment.from .. fs[k].segment.to :
                \E j \in i .. k : n \in fs[j].segment.from .. fs[j].segment.to
<1>0. PICK len \in Nat : len = Len(fs)
  BY DEF Kept
<1> DEFINE Good(m) ==
        /\ fs[i].segment.from <= fs[m].segment.from /\ fs[i].segment.to <= fs[m].segment.to
        /\ i # m => fs[i].segment.to < fs[m].segment.from
        /\ \A n \in fs[i].segment.from .. fs[m].segment.to :
             \E j \in i .. m : n \in fs[j].segment.from .. fs[j].segment.to
    S == {n \in Nat : i + n <= len => Good(i + n)}
<1>1. \A m \in 1 .. len : /\ fs[m].segment.from \in Nat /\ fs[m].segment.to \in Nat
                          /\ fs[m].segment.from <= fs[m].segment.to
                          /\ m # 1 => fs[m].segment.from = fs[m - 1].segment.to + 1
  <2>1. \A m \in 1 .. Len(fs) : FileIs(c, fs, m)
    BY FileFacts
  <2>2. QED
    BY <1>0, <2>1 DEF FileIs, FileOf
<1>2. 0 \in S
  <2>1. i \in 1 .. len /\ i + 0 = i /\ i \in i .. i
    BY <1>0
  <2>2. Good(i)
    BY <1>1, <2>1
  <2>3. QED
    BY <2>1, <2>2
<1>3. \A n \in S \cap Nat : n + 1 \in S
  <2>1. SUFFICES ASSUME NEW n \in Nat, i + (n + 1) <= len, Good(i + n) PROVE Good(i + (n + 1))
    BY <1>0
  <2>2. PICK m \in 1 .. len : m = i + n /\ m + 1 = i + (n + 1) /\ m + 1 \in 1 .. len /\ i <= m
    BY <1>0, <2>1
  <2>3. PICK fi \in Nat, ti \in Nat, fm \in Nat, tm \in Nat, fn \in Nat, tn \in Nat :
            /\ fi = fs[i].segment.from /\ ti = fs[i].segment.to /\ fm = fs[m].segment.from
            /\ tm = fs[m].segment.to /\ fn = fs[m + 1].segment.from /\ tn = fs[m + 1].segment.to
    BY <1>0, <1>1, <2>2
  <2>4. fn = tm + 1 /\ fm <= tm /\ fn <= tn /\ fi <= fm /\ ti <= tm
    <3>1. m + 1 # 1 /\ (m + 1) - 1 = m
      BY <2>2
    <3>2. fn = tm + 1
      BY <1>1, <2>2, <2>3, <3>1
    <3>3. fm <= tm /\ fn <= tn
      BY <1>1, <2>2, <2>3
    <3>4. fi <= fm /\ ti <= tm
      BY <2>1, <2>2, <2>3
    <3>5. QED
      BY <3>2, <3>3, <3>4
  <2>5. fi <= fn /\ ti <= tn /\ ti < fn
    BY <2>4
  <2>6. ASSUME NEW x \in fi .. tn
        PROVE  \E j \in i .. m + 1 : x \in fs[j].segment.from .. fs[j].segment.to
    <3>1. CASE x <= tm
      <4>1. x \in fs[i].segment.from .. fs[m].segment.to
        BY <2>3, <3>1
      <4>2. PICK j \in i .. m : x \in fs[j].segment.from .. fs[j].segment.to
        BY <2>1, <2>2, <4>1
      <4>3. j \in i .. m + 1
        BY <2>2
      <4>4. QED
        BY <4>2, <4>3
    <3>2. CASE x > tm
      <4>1. x \in fs[m + 1].segment.from .. fs[m + 1].segment.to
        BY <2>3, <2>4, <3>2, SMTT(60)
      <4>2. m + 1 \in i .. m + 1
        BY <2>2
      <4>3. QED
        BY <4>1, <4>2
    <3>3. x \in Int /\ tm \in Int
      BY <2>3
    <3>4. QED
      BY <3>1, <3>2, <3>3
  <2>7. Good(m + 1)
    BY <2>2, <2>3, <2>5, <2>6
  <2>8. QED
    BY <2>2, <2>7
<1>4. \A n \in Nat : n \in S
  <2> HIDE DEF S
  <2>1. QED
    BY <1>2, <1>3, AllNumbers
<1>5. k - i \in Nat /\ i + (k - i) = k /\ k <= len
  BY <1>0
<1>6. Good(k)
  BY <1>4, <1>5
<1>7. QED
  BY <1>6

-----------------------------------------------------------------------------
\* The records of a chain.

RecordIs(c, fs, k, n) ==
    /\ n \in 1 .. Len(c) /\ c[n].action = Exported /\ c[n].details.segmentSeq = k
    /\ fs[k].segment.to <= n /\ RecordFits(fs[k].segment, c[n].details) /\ c[n].details \in Details
    /\ \A m \in 1 .. Len(c) : c[m].action = Exported /\ c[m].details.segmentSeq = k => m = n

LEMMA RecordFacts ==
    ASSUME NEW c, NEW fs, NEW action, Kept(c, fs, action), NEW k \in 1 .. Len(fs)
    PROVE  RecordIs(c, fs, k, RecordAt(c, k)) /\ RecordAt(c, k) \in Nat
<1>1. c \in Seq(Entries) /\ DOMAIN c = 1 .. Len(c) /\ Len(c) \in Nat /\ RecordsKept(c, fs)
  BY DEF Kept
<1>2. PICK n \in 1 .. Len(c) :
          /\ c[n].action = Exported /\ c[n].details.segmentSeq = k
          /\ fs[k].segment.to <= n /\ RecordFits(fs[k].segment, c[n].details)
  BY <1>1 DEF RecordsKept
<1>3. c[n].details \in Details
  <2>1. c[n] \in Entries
    BY <1>1
  <2>2. QED
    BY <2>1 DEF Entries
<1>4. ASSUME NEW m \in 1 .. Len(c), c[m].action = Exported, c[m].details.segmentSeq = k PROVE m = n
  <2>1. /\ m < n => c[m].details.segmentSeq < c[n].details.segmentSeq
        /\ n < m => c[n].details.segmentSeq < c[m].details.segmentSeq
    BY <1>1, <1>2, <1>4 DEF RecordsKept
  <2>2. ~(m < n) /\ ~(n < m)
    BY <1>2, <1>4, <2>1
  <2>3. m \in Int /\ n \in Int
    BY <1>1
  <2>4. QED
    BY <2>2, <2>3
<1>5. RecordAt(c, k) = CHOOSE m \in 1 .. Len(c) : c[m].action = Exported /\ c[m].details.segmentSeq = k
  BY <1>1 DEF RecordAt
<1>6. RecordAt(c, k) = n
  BY <1>2, <1>4, <1>5
<1>7. RecordIs(c, fs, k, n) /\ n \in Nat
  BY <1>1, <1>2, <1>3, <1>4 DEF RecordIs
<1>8. QED
  BY <1>6, <1>7

LEMMA RecordsRise ==
    ASSUME NEW c, NEW fs, NEW action, Kept(c, fs, action), NEW i \in 1 .. Len(fs), NEW k \in 1 .. Len(fs), i < k
    PROVE  RecordAt(c, i) < RecordAt(c, k)
<1>1. PICK m, n : m = RecordAt(c, i) /\ n = RecordAt(c, k)
  OBVIOUS
<1>2. /\ m \in 1 .. Len(c) /\ c[m].action = Exported /\ c[m].details.segmentSeq = i
      /\ n \in 1 .. Len(c) /\ c[n].action = Exported /\ c[n].details.segmentSeq = k
      /\ m \in Nat /\ n \in Nat
  BY <1>1, RecordFacts DEF RecordIs
<1>3. n < m => c[n].details.segmentSeq < c[m].details.segmentSeq
  BY <1>2 DEF Kept, RecordsKept
<1>4. Len(fs) \in Nat
  BY DEF Kept
<1>5. m # n /\ ~(n < m)
  BY <1>2, <1>3, <1>4
<1>6. QED
  BY <1>1, <1>2, <1>5

\* The records among some entries.
RecordsIn(c, from, to) == {c[n].details : n \in {m \in from .. to : c[m].action = Exported}}

LEMMA FileShows ==
    ASSUME CollisionFree, NEW c, NEW fs, NEW action, Kept(c, fs, action), NEW k \in 1 .. Len(fs)
    PROVE  ExportRecords(fs[k].segment) = RecordsIn(c, fs[k].segment.from, fs[k].segment.to)
<1>1. PICK d : d = fs[k].segment
  OBVIOUS
<1>2. FileOf(c, fs, k, d)
  BY <1>1, FileFacts DEF FileIs
<1>3. PICK x \in Nat, y \in Nat : x = d.from /\ y = d.to /\ d.count = y - x + 1
  BY <1>2 DEF FileOf
<1>4. /\ DOMAIN d.entries = 1 .. y - x + 1
      /\ \A i \in 1 .. y - x + 1 : d.entries[i] = c[x + i - 1]
      /\ \A n \in x .. y : d.entries[n - x + 1] = c[n]
  BY <1>2, <1>3 DEF FileOf
<1>5. ASSUME NEW r \in ExportRecords(d) PROVE r \in RecordsIn(c, x, y)
  <2>1. PICK i \in 1 .. y - x + 1 : d.entries[i].action = Exported /\ r = d.entries[i].details
    BY <1>4, <1>5 DEF ExportRecords
  <2>2. x + i - 1 \in x .. y /\ d.entries[i] = c[x + i - 1]
    BY <1>4
  <2>3. QED
    BY <2>1, <2>2 DEF RecordsIn
<1>6. ASSUME NEW r \in RecordsIn(c, x, y) PROVE r \in ExportRecords(d)
  <2>1. PICK n \in x .. y : c[n].action = Exported /\ r = c[n].details
    BY <1>6 DEF RecordsIn
  <2>2. n - x + 1 \in 1 .. y - x + 1 /\ d.entries[n - x + 1] = c[n]
    BY <1>4
  <2>3. QED
    BY <1>4, <2>1, <2>2 DEF ExportRecords
<1>7. QED
  BY <1>1, <1>3, <1>5, <1>6

LEMMA WindowShows ==
    ASSUME CollisionFree, NEW c, NEW fs, NEW action, Kept(c, fs, action), NEW i \in 1 .. Len(fs), NEW k \in i .. Len(fs)
    PROVE  UNION {ExportRecords(fs[j].segment) : j \in i .. k}
             = RecordsIn(c, fs[i].segment.from, fs[k].segment.to)
<1>0. Len(fs) \in Nat
  BY DEF Kept
<1>1. ASSUME NEW j \in i .. k
      PROVE  /\ ExportRecords(fs[j].segment) = RecordsIn(c, fs[j].segment.from, fs[j].segment.to)
             /\ fs[j].segment.from .. fs[j].segment.to \subseteq fs[i].segment.from .. fs[k].segment.to
  <2>1. j \in 1 .. Len(fs) /\ j \in i .. Len(fs) /\ k \in j .. Len(fs) /\ i \in 1 .. Len(fs) /\ k \in 1 .. Len(fs)
    BY <1>0
  <2>2. fs[i].segment.from <= fs[j].segment.from /\ fs[j].segment.to <= fs[k].segment.to
    BY <2>1, FilesRise
  <2>3. FileIs(c, fs, i) /\ FileIs(c, fs, j) /\ FileIs(c, fs, k)
    BY <2>1, FileFacts
  <2>4. /\ fs[i].segment.from \in Nat /\ fs[j].segment.from \in Nat /\ fs[j].segment.to \in Nat
        /\ fs[k].segment.to \in Nat
    BY <2>3 DEF FileIs, FileOf
  <2>5. ExportRecords(fs[j].segment) = RecordsIn(c, fs[j].segment.from, fs[j].segment.to)
    BY <2>1, FileShows
  <2>6. QED
    BY <2>2, <2>4, <2>5, SMTT(60)
<1>2. ASSUME NEW r \in UNION {ExportRecords(fs[j].segment) : j \in i .. k}
      PROVE  r \in RecordsIn(c, fs[i].segment.from, fs[k].segment.to)
  <2>1. PICK j \in i .. k : r \in ExportRecords(fs[j].segment)
    BY <1>2
  <2>2. PICK n \in fs[j].segment.from .. fs[j].segment.to : c[n].action = Exported /\ r = c[n].details
    BY <1>1, <2>1 DEF RecordsIn
  <2>3. QED
    BY <1>1, <2>2 DEF RecordsIn
<1>3. ASSUME NEW r \in RecordsIn(c, fs[i].segment.from, fs[k].segment.to)
      PROVE  r \in UNION {ExportRecords(fs[j].segment) : j \in i .. k}
  <2>1. PICK n \in fs[i].segment.from .. fs[k].segment.to : c[n].action = Exported /\ r = c[n].details
    BY <1>3 DEF RecordsIn
  <2>2. PICK j \in i .. k : n \in fs[j].segment.from .. fs[j].segment.to
    BY FilesRise
  <2>3. r \in ExportRecords(fs[j].segment)
    BY <1>1, <2>1, <2>2 DEF RecordsIn
  <2>4. QED
    BY <2>3
<1>4. QED
  BY <1>2, <1>3

LEMMA RecordsIf ==
    ASSUME NEW c, NEW fs, NEW action, Kept(c, fs, action), NEW from \in Nat \ {0}, NEW to \in Nat, to <= Len(c)
    PROVE  /\ NoConflict(RecordsIn(c, from, to))
           /\ \A k \in 1 .. Len(fs) : RecordOf(RecordsIn(c, from, to), k) =
                 IF RecordAt(c, k) \in from .. to THEN {c[RecordAt(c, k)].details} ELSE {}
<1>0. Len(c) \in Nat
  BY DEF Kept
<1>1. ASSUME NEW r \in RecordsIn(c, from, to)
      PROVE  \E n \in from .. to : n \in 1 .. Len(c) /\ c[n].action = Exported /\ r = c[n].details
  <2>1. PICK n \in from .. to : c[n].action = Exported /\ r = c[n].details
    BY <1>1 DEF RecordsIn
  <2>2. n \in 1 .. Len(c)
    BY <1>0
  <2>3. QED
    BY <2>1, <2>2
<1>2. ASSUME NEW r \in RecordsIn(c, from, to), NEW s \in RecordsIn(c, from, to), r.segmentSeq = s.segmentSeq
      PROVE  r = s
  <2>1. PICK m \in from .. to : m \in 1 .. Len(c) /\ c[m].action = Exported /\ r = c[m].details
    BY <1>1
  <2>2. PICK n \in from .. to : n \in 1 .. Len(c) /\ c[n].action = Exported /\ s = c[n].details
    BY <1>1
  <2>3. PICK k \in 1 .. Len(fs) : k = c[m].details.segmentSeq
    BY <2>1 DEF Kept, RecordsKept
  <2>4. m = RecordAt(c, k) /\ n = RecordAt(c, k)
    BY <1>2, <2>1, <2>2, <2>3, RecordFacts DEF RecordIs
  <2>5. QED
    BY <2>1, <2>2, <2>4
<1>3. ASSUME NEW k \in 1 .. Len(fs)
      PROVE  RecordOf(RecordsIn(c, from, to), k) =
                 IF RecordAt(c, k) \in from .. to THEN {c[RecordAt(c, k)].details} ELSE {}
  <2>1. RecordIs(c, fs, k, RecordAt(c, k))
    BY RecordFacts
  <2>2. PICK n : n = RecordAt(c, k)
    OBVIOUS
  <2>3. /\ n \in 1 .. Len(c) /\ c[n].action = Exported /\ c[n].details.segmentSeq = k
        /\ \A m \in 1 .. Len(c) : c[m].action = Exported /\ c[m].details.segmentSeq = k => m = n
    BY <2>1, <2>2 DEF RecordIs
  <2>4. ASSUME NEW r \in RecordOf(RecordsIn(c, from, to), k) PROVE n \in from .. to /\ r = c[n].details
    <3>1. r \in RecordsIn(c, from, to) /\ r.segmentSeq = k
      BY <2>4 DEF RecordOf
    <3>2. PICK m \in from .. to : m \in 1 .. Len(c) /\ c[m].action = Exported /\ r = c[m].details
      BY <1>1, <3>1
    <3>3. QED
      BY <2>3, <3>1, <3>2
  <2>5. n \in from .. to => c[n].details \in RecordOf(RecordsIn(c, from, to), k)
    BY <2>3 DEF RecordOf, RecordsIn
  <2>6. CASE n \in from .. to
    <3>1. RecordOf(RecordsIn(c, from, to), k) = {c[n].details}
      BY <2>4, <2>5, <2>6
    <3>2. QED
      BY <2>2, <2>6, <3>1
  <2>7. CASE n \notin from .. to
    <3>1. RecordOf(RecordsIn(c, from, to), k) = {}
      BY <2>4, <2>7
    <3>2. QED
      BY <2>2, <2>7, <3>1
  <2>8. QED
    BY <2>6, <2>7
<1>4. QED
  BY <1>2, <1>3 DEF NoConflict

\* How the header of file k is sealed, for one who reads the chain to a number.
Sealing(c, k, to) ==
    IF RecordAt(c, k) > to THEN "none"
    ELSE IF c[RecordAt(c, k)].details.header = <<>> THEN "preSeal" ELSE "sealed"

LEMMA HeaderIs ==
    ASSUME CollisionFree, NEW c, NEW fs, NEW action, Kept(c, fs, action), NEW k \in 1 .. Len(fs),
           NEW from \in Nat \ {0}, NEW to \in Nat, to <= Len(c), from <= fs[k].segment.to
    PROVE  HeaderOf(fs[k].segment, Through(fs[k].segment), RecordOf(RecordsIn(c, from, to), k)) = Sealing(c, k, to)
<1>1. PICK d, n, own : d = fs[k].segment /\ n = RecordAt(c, k) /\ own = RecordOf(RecordsIn(c, from, to), k)
  OBVIOUS
<1>2. n \in Nat /\ d.to <= n /\ RecordFits(d, c[n].details) /\ c[n].details \in Details
  BY <1>1, RecordFacts DEF RecordIs
<1>3. own = IF n \in from .. to THEN {c[n].details} ELSE {}
  BY <1>1, RecordsIf
<1>4. d.to \in Nat
  <2>1. FileIs(c, fs, k)
    BY FileFacts
  <2>2. QED
    BY <1>1, <2>1 DEF FileIs, FileOf
<1>5. n \in from .. to <=> ~(n > to)
  BY <1>1, <1>2, <1>4
<1>6. CASE n > to
  <2>1. own = {}
    BY <1>3, <1>5, <1>6
  <2>2. HeaderOf(d, Through(d), own) = "none" /\ Sealing(c, k, to) = "none"
    BY <1>1, <1>6, <2>1 DEF HeaderOf, Sealing
  <2>3. QED
    BY <1>1, <2>2
<1>7. CASE ~(n > to)
  <2>1. own = {c[n].details}
    BY <1>3, <1>5, <1>7
  <2>2. own # {} /\ (CHOOSE r \in own : TRUE) = c[n].details
    BY <2>1
  <2>3. HeaderOf(d, Through(d), own) = CheckHeader(d, Through(d), c[n].details)
    BY <2>2 DEF HeaderOf
  <2>4. /\ RangeAgrees(d, c[n].details)
        /\ c[n].details.header = <<>> \/ HeaderAgrees(d, Through(d), c[n].details.header)
    BY <1>2 DEF RecordFits
  <2>5. CheckHeader(d, Through(d), c[n].details) = IF c[n].details.header = <<>> THEN "preSeal" ELSE "sealed"
    BY <1>2, <2>4, HeaderSays
  <2>6. QED
    BY <1>1, <1>7, <2>3, <2>5 DEF Sealing
<1>8. QED
  BY <1>6, <1>7

-----------------------------------------------------------------------------
\* Reports, and the entries of a chain that only could be link-checked.

IsReport(v, d) ==
    /\ v.passes = TRUE /\ v.doc = d /\ v.digest = Digest(d) /\ v.pre = Cardinality(PreOf(d))
    /\ v.through = Through(d) /\ v.header = HeaderOf(d, Through(d), OwnRecords(d))
    /\ v.proven = (Cardinality(PreOf(d)) = 0 \/ d.genesis)

LEMMA ReportIs == ASSUME NEW d, VerifyDocument(d).passes PROVE IsReport(VerifyFile(Sealed(d)), d)
<1>1. PICK v : v = VerifyFile(Sealed(d))
  OBVIOUS
<1>2. v.passes \in BOOLEAN /\ v.passes
  BY <1>1, FileForm
<1>3. /\ v.doc = d /\ v.digest = Digest(d) /\ v.pre = Cardinality(PreOf(d))
      /\ v.through = Through(d) /\ v.header = HeaderOf(d, Through(d), OwnRecords(d))
      /\ v.proven = (v.pre = 0 \/ d.genesis)
  BY <1>1, <1>2, FileForm
<1>4. QED
  BY <1>1, <1>2, <1>3 DEF IsReport

\* How many entries lead a file that could only be link-checked.
Led(fs, k) == Cardinality(PreOf(fs[k].segment))

LEMMA FilePre ==
    ASSUME CollisionFree, NEW c, NEW fs, NEW action, Kept(c, fs, action), NEW k \in 1 .. Len(fs)
    PROVE  /\ Led(fs, k) \in Nat /\ Led(fs, k) <= fs[k].segment.count
           /\ \A n \in fs[k].segment.from .. fs[k].segment.to :
                IsPreCutover(c[n].version) <=> n < fs[k].segment.from + Led(fs, k)
           /\ Through(fs[k].segment) = IF Led(fs, k) = 0 THEN 0 ELSE fs[k].segment.from + Led(fs, k) - 1
<1>1. PICK d : d = fs[k].segment
  OBVIOUS
<1>2. FileOf(c, fs, k, d)
  BY <1>1, FileFacts DEF FileIs
<1>0. PICK p : p = Cardinality(PreOf(d))
  OBVIOUS
<1>3. PICK x \in Nat, y \in Nat : x = d.from /\ y = d.to /\ d.count = y - x + 1 /\ x <= y
  BY <1>2 DEF FileOf
<1>4. /\ DOMAIN d.entries = 1 .. y - x + 1 /\ Len(d.entries) = y - x + 1
      /\ \A n \in x .. y : d.entries[n - x + 1] = c[n]
      /\ d \in Docs /\ EntriesFit(d)
  BY <1>2, <1>3 DEF FileOf, Fits
<1>5. p \in 0 .. y - x + 1 /\ PreOf(d) = 1 .. p
  BY <1>0, <1>3, <1>4, LeadsOf
<1>6. ASSUME NEW n \in x .. y PROVE IsPreCutover(c[n].version) <=> n < x + p
  <2>0. n \in Int /\ x <= n /\ n <= y
    OBVIOUS
  <2>1. n - x + 1 \in 1 .. y - x + 1 /\ d.entries[n - x + 1] = c[n]
    BY <1>4, <2>0
  <2>2. IsPreCutover(c[n].version) <=> n - x + 1 \in PreOf(d)
    BY <1>4, <2>1 DEF PreOf
  <2>3. n - x + 1 \in 1 .. p <=> n < x + p
    BY <1>5, <2>1
  <2>4. QED
    BY <1>5, <2>2, <2>3
<1>7. p \in Nat /\ p <= d.count
  BY <1>0, <1>3, <1>5
<1>8. Through(d) = IF p = 0 THEN 0 ELSE d.from + p - 1
  BY <1>0, <1>3 DEF Through
<1>9. Led(fs, k) = p
  BY <1>1, <1>0, <1>3 DEF Led
<1>10. QED
  BY <1>1, <1>3, <1>6, <1>7, <1>8, <1>9

\* What leads the files of a window is one run, from the beginning of the chain.
Anchored(fs, i, k) ==
    \A j \in i .. k : Led(fs, j) > 0 => i = 1 /\ \A l \in i .. j - 1 : Led(fs, l) = fs[l].segment.count

RunOf(fs, i, k, U) ==
    /\ Anchored(fs, i, k) <=> InOrderFrom(U)
    /\ InOrderFrom(U) =>
          /\ Cardinality(U) \in Nat
          /\ U # {} => U = 1 .. Cardinality(U) /\ Cardinality(U) # 0 /\ i = 1
          /\ (CHOOSE n \in {Through(fs[j].segment) : j \in i .. k} :
                 \A j \in i .. k : Through(fs[j].segment) <= n) = Cardinality(U)

LEMMA AnchoredIs ==
    ASSUME CollisionFree, NEW c, NEW fs, NEW action, Kept(c, fs, action), NEW i \in 1 .. Len(fs), NEW k \in i .. Len(fs)
    PROVE  RunOf(fs, i, k, Unrecomputable(c, fs[i].segment.from, fs[k].segment.to))
<1>u. PICK U : U = Unrecomputable(c, fs[i].segment.from, fs[k].segment.to)
  OBVIOUS
<1>0. Len(fs) \in Nat /\ Len(c) \in Nat
  BY DEF Kept
<1>1. \A j \in i .. k : j \in 1 .. Len(fs) /\ j \in i .. Len(fs) /\ k \in j .. Len(fs)
  BY <1>0
<1> DEFINE F(j) == fs[j].segment.from
           T(j) == fs[j].segment.to
           P(j) == Led(fs, j)
           Full(j) == P(j) = fs[j].segment.count
<1>2. ASSUME NEW j \in i .. k
      PROVE  /\ F(j) \in Nat \ {0} /\ T(j) \in Nat /\ F(j) <= T(j) /\ P(j) \in Nat /\ F(j) + P(j) <= T(j) + 1
             /\ F(i) <= F(j) /\ T(j) <= T(k) /\ (j # i => T(i) < F(j))
             /\ Full(j) <=> F(j) + P(j) = T(j) + 1
             /\ \A n \in F(j) .. T(j) : IsPreCutover(c[n].version) <=> n < F(j) + P(j)
             /\ Through(fs[j].segment) = IF P(j) = 0 THEN 0 ELSE F(j) + P(j) - 1
  <2>1. j \in 1 .. Len(fs) /\ FileIs(c, fs, j)
    BY <1>1, FileFacts
  <2>2. F(j) \in Nat \ {0} /\ T(j) \in Nat /\ F(j) <= T(j) /\ fs[j].segment.count = T(j) - F(j) + 1
    BY <2>1 DEF FileIs, FileOf
  <2>3. /\ P(j) \in Nat /\ P(j) <= fs[j].segment.count
        /\ \A n \in F(j) .. T(j) : IsPreCutover(c[n].version) <=> n < F(j) + P(j)
        /\ Through(fs[j].segment) = IF P(j) = 0 THEN 0 ELSE F(j) + P(j) - 1
    BY <2>1, FilePre
  <2>4. F(i) <= F(j) /\ T(j) <= T(k) /\ (j # i => T(i) < F(j))
    BY <1>1, FilesRise
  <2>5. F(j) + P(j) <= T(j) + 1 /\ (Full(j) <=> F(j) + P(j) = T(j) + 1)
    <3>1. PICK f \in Nat, t \in Nat, p \in Nat, n \in Int :
              f = F(j) /\ t = T(j) /\ p = P(j) /\ n = fs[j].segment.count
      BY <2>2, <2>3, SMTT(60)
    <3>2. n = t - f + 1 /\ p <= n
      BY <2>2, <2>3, <3>1
    <3>3. f + p <= t + 1 /\ (p = n <=> f + p = t + 1)
      BY <3>2
    <3>4. QED
      BY <3>1, <3>3
  <2>6. QED
    BY <2>2, <2>3, <2>4, <2>5
<1>3. \A j, l \in i .. k : l < j => T(l) < F(j)
  BY <1>0, <1>1, FilesRise
<1>4. \A n \in F(i) .. T(k) : \E j \in i .. k : n \in F(j) .. T(j)
  BY FilesRise
<1>5. F(i) = 1 <=> i = 1
  <2>1. FileIs(c, fs, i) /\ (i # 1 => i - 1 \in 1 .. Len(fs) /\ FileIs(c, fs, i - 1))
    <3>1. i # 1 => i - 1 \in 1 .. Len(fs)
      BY <1>0
    <3>2. QED
      BY <3>1, FileFacts
  <2>2. F(i) = IF i = 1 THEN 1 ELSE fs[i - 1].segment.to + 1
    BY <2>1 DEF FileIs, FileOf
  <2>3. i # 1 => fs[i - 1].segment.to \in Nat \ {0}
    <3>1. ASSUME i # 1 PROVE fs[i - 1].segment.to \in Nat \ {0}
      <4>1. FileOf(c, fs, i - 1, fs[i - 1].segment)
        BY <2>1, <3>1 DEF FileIs
      <4>2. PICK f \in Nat, t \in Nat : f = fs[i - 1].segment.from /\ t = fs[i - 1].segment.to /\ f # 0 /\ f <= t
        BY <4>1 DEF FileOf
      <4>3. QED
        BY <4>2
    <3>2. QED
      BY <3>1
  <2>4. QED
    BY <2>2, <2>3
<1>6. i \in i .. k /\ k \in i .. k
  BY <1>0
<1>7. U = {n \in F(i) .. T(k) : IsPreCutover(c[n].version)}
  BY <1>u DEF Unrecomputable
<1>7a. PICK fi \in Nat, tk \in Nat : fi = F(i) /\ tk = T(k)
  BY <1>2, <1>6
<1> HIDE DEF F, T, P, Full
<1>7b. ASSUME NEW j \in i .. k
       PROVE  \E f \in Nat, t \in Nat, p \in Nat :
                 /\ f = F(j) /\ t = T(j) /\ p = P(j)
                 /\ 1 <= f /\ f <= t /\ f + p <= t + 1 /\ fi <= f /\ t <= tk
                 /\ Full(j) <=> f + p = t + 1
                 /\ Through(fs[j].segment) = IF p = 0 THEN 0 ELSE f + p - 1
  <2>1. PICK f \in Nat, t \in Nat, p \in Nat : f = F(j) /\ t = T(j) /\ p = P(j)
    BY <1>2
  <2>2. /\ f \in Nat \ {0} /\ f <= t /\ f + p <= t + 1 /\ fi <= f /\ t <= tk
        /\ Full(j) <=> f + p = t + 1
        /\ Through(fs[j].segment) = IF p = 0 THEN 0 ELSE f + p - 1
    BY <1>2, <1>7a, <2>1
  <2>3. 1 <= f
    BY <2>2
  <2>4. QED
    BY <2>1, <2>2, <2>3
<1>8. U \in SUBSET (1 .. T(k))
  BY <1>2, <1>6, <1>7
<1>9. ASSUME NEW j \in i .. k, NEW n \in F(j) .. T(j) PROVE n \in U <=> n < F(j) + P(j)
  <2>1. n \in F(i) .. T(k)
    <3>1. PICK f \in Nat, t \in Nat : f = F(j) /\ t = T(j) /\ fi <= f /\ t <= tk
      BY <1>7b
    <3>2. n \in f .. t
      BY <3>1
    <3>3. n \in fi .. tk
      BY <3>1, <3>2
    <3>4. QED
      BY <1>7a, <3>3
  <2>2. QED
    BY <1>2, <1>7, <2>1
<1>10. ASSUME Anchored(fs, i, k) PROVE InOrderFrom(U)
  <2>1. ASSUME NEW n \in U PROVE 1 .. n \subseteq U
    <3>1. PICK j \in i .. k : n \in F(j) .. T(j)
      BY <1>4, <1>7
    <3>2. n < F(j) + P(j) /\ n \in Int
      BY <1>9, <3>1
    <3>3. P(j) > 0
      BY <1>2, <3>1, <3>2, SMTT(40)
    <3>4. i = 1 /\ \A l \in i .. j - 1 : Full(l)
      BY <1>10, <3>3 DEF Anchored, P, Full
    <3>5. ASSUME NEW m \in 1 .. n PROVE m \in U
      <4>1. m \in F(i) .. T(k)
        <5>1. PICK f \in Nat, t \in Nat : f = F(j) /\ t = T(j) /\ fi <= f /\ t <= tk
          BY <1>7b
        <5>2. n \in f .. t /\ fi = 1
          BY <1>5, <1>7a, <3>1, <3>4, <5>1
        <5>3. m \in fi .. tk
          BY <5>1, <5>2
        <5>4. QED
          BY <1>7a, <5>3
      <4>2. PICK l \in i .. k : m \in F(l) .. T(l)
        BY <1>4, <4>1
      <4>3. ~(j < l)
        <5>1. j < l => T(j) < F(l)
          BY <1>3
        <5>2. m <= n /\ n <= T(j) /\ F(l) <= m
          BY <3>1, <4>2
        <5>3. T(j) \in Nat /\ F(l) \in Nat
          BY <1>2
        <5>4. QED
          BY <3>2, <4>2, <5>1, <5>2, <5>3
      <4>4. CASE l = j
        <5>1. PICK f \in Nat, p \in Nat : f = F(j) /\ p = P(j)
          BY <1>7b
        <5>2. m < f + p
          BY <3>2, <5>1
        <5>3. QED
          BY <1>9, <4>2, <4>4, <5>1, <5>2
      <4>5. CASE l # j
        <5>1. l \in i .. j - 1
          BY <1>0, <4>3, <4>5
        <5>2. F(l) + P(l) = T(l) + 1
          BY <1>2, <3>4, <5>1
        <5>3. m < F(l) + P(l)
          BY <1>2, <4>2, <5>2
        <5>4. QED
          BY <1>9, <4>2, <5>3
      <4>6. QED
        BY <4>4, <4>5
    <3>6. QED
      BY <3>5
  <2>2. T(k) \in Nat
    BY <1>2, <1>6
  <2>3. QED
    BY <1>8, <2>1, <2>2, Leading DEF InOrderFrom
<1>11. ASSUME InOrderFrom(U), U = {} PROVE \A j \in i .. k : P(j) = 0
  <2>1. SUFFICES ASSUME NEW j \in i .. k, P(j) # 0 PROVE FALSE
    OBVIOUS
  <2>2. F(j) \in F(j) .. T(j) /\ F(j) < F(j) + P(j)
    <3>1. PICK f \in Nat, t \in Nat, p \in Nat : f = F(j) /\ t = T(j) /\ p = P(j) /\ f <= t
      BY <1>7b
    <3>2. f \in f .. t /\ f < f + p
      BY <2>1, <3>1
    <3>3. QED
      BY <3>1, <3>2
  <2>3. QED
    BY <1>9, <1>11, <2>2
<1>12. ASSUME InOrderFrom(U), U # {}
       PROVE  /\ Cardinality(U) \in Nat \ {0} /\ Cardinality(U) <= T(k) /\ U = 1 .. Cardinality(U) /\ i = 1
  <2>1. T(k) \in Nat /\ IsFiniteSet(U)
    <3>1. T(k) \in Nat
      BY <1>2, <1>6
    <3>2. IsFiniteSet(1 .. T(k))
      BY <3>1, FS_Interval
    <3>3. QED
      BY <1>8, <3>1, <3>2, FS_Subset
  <2>2. Cardinality(U) \in Nat
    BY <2>1, FS_CardinalityType
  <2>3. U = 1 .. Cardinality(U)
    BY <1>12 DEF InOrderFrom
  <2>4. Cardinality(U) # 0 /\ 1 \in U /\ Cardinality(U) \in U
    <3>1. PICK q \in Nat : q = Cardinality(U)
      BY <2>2
    <3>2. U = 1 .. q
      BY <2>3, <3>1
    <3>3. q # 0
      BY <1>12, <3>2
    <3>4. 1 \in 1 .. q /\ q \in 1 .. q
      BY <3>3
    <3>5. QED
      BY <3>1, <3>2, <3>3, <3>4
  <2>5. Cardinality(U) \in 1 .. T(k) /\ 1 \in F(i) .. T(k)
    BY <1>7, <1>8, <2>4
  <2>6. i = 1
    <3>1. F(i) \in Nat \ {0}
      BY <1>2, <1>6
    <3>2. 1 \in fi .. tk /\ fi # 0
      BY <1>7a, <2>5, <3>1
    <3>3. fi = 1
      BY <3>2
    <3>4. QED
      BY <1>5, <1>7a, <3>3
  <2>7. QED
    BY <2>2, <2>3, <2>4, <2>5, <2>6
<1>13. ASSUME InOrderFrom(U) PROVE Anchored(fs, i, k)
  <2>1. SUFFICES ASSUME NEW j \in i .. k, P(j) > 0 PROVE i = 1 /\ \A l \in i .. j - 1 : Full(l)
    BY DEF Anchored, P, Full
  <2>2. U # {}
    BY <1>2, <1>11, <1>13, <2>1, SMTT(40)
  <2>3. PICK q \in Nat : q = Cardinality(U) /\ U = 1 .. q /\ i = 1
    BY <1>12, <1>13, <2>2
  <2>4. F(j) \in U
    <3>1. F(j) \in F(j) .. T(j) /\ F(j) < F(j) + P(j)
      <4>1. PICK f \in Nat, t \in Nat, p \in Nat : f = F(j) /\ t = T(j) /\ p = P(j) /\ f <= t
        BY <1>7b
      <4>2. f \in f .. t /\ f < f + p
        BY <2>1, <4>1
      <4>3. QED
        BY <4>1, <4>2
    <3>2. QED
      BY <1>9, <3>1
  <2>5. ASSUME NEW l \in i .. j - 1 PROVE Full(l)
    <3>1. l \in i .. k /\ l < j
      BY <1>0
    <3>2. T(l) < F(j) /\ F(l) \in Nat \ {0} /\ F(l) <= T(l) /\ T(l) \in Nat
      BY <1>2, <1>3, <3>1
    <3>3. T(l) \in U
      <4>1. PICK f \in Nat, t \in Nat, g \in Nat : f = F(l) /\ t = T(l) /\ g = F(j) /\ 1 <= f /\ f <= t
        BY <1>7b, <3>1
      <4>2. t < g /\ g \in 1 .. q
        BY <2>3, <2>4, <3>2, <4>1
      <4>3. t \in 1 .. q
        BY <4>1, <4>2
      <4>4. QED
        BY <2>3, <4>1, <4>3
    <3>4. T(l) \in F(l) .. T(l)
      BY <3>2
    <3>5. T(l) < F(l) + P(l)
      BY <1>9, <3>1, <3>3, <3>4
    <3>6. QED
      BY <1>2, <3>1, <3>5, SMTT(40)
  <2>6. QED
    BY <2>3, <2>5
<1>14. ASSUME InOrderFrom(U)
       PROVE /\ Cardinality(U) \in Nat
             /\ (CHOOSE n \in {Through(fs[j].segment) : j \in i .. k} :
                    \A j \in i .. k : Through(fs[j].segment) <= n) = Cardinality(U)
  <2> DEFINE H == {Through(fs[j].segment) : j \in i .. k}
  <2>1. PICK q : q = Cardinality(U)
    OBVIOUS
  <2>2. q \in Nat /\ q \in H /\ \A n \in H : n \in Int /\ n <= q
    <3>1. CASE U = {}
      <4>1. q = 0
        BY <2>1, <3>1, FS_EmptySet
      <4>2. \A j \in i .. k : Through(fs[j].segment) = 0
        BY <1>2, <1>11, <1>14, <3>1
      <4>3. QED
        BY <1>6, <4>1, <4>2
    <3>2. CASE U # {}
      <4>1. q \in Nat \ {0} /\ q <= T(k) /\ U = 1 .. q /\ i = 1
        BY <1>12, <1>14, <2>1, <3>2
      <4>2. ASSUME NEW j \in i .. k PROVE Through(fs[j].segment) \in Int /\ Through(fs[j].segment) <= q
        <5>1. CASE P(j) = 0
          BY <1>2, <4>1, <5>1
        <5>2. CASE P(j) # 0
          <6>1. PICK f \in Nat, t \in Nat, p \in Nat :
                    /\ f = F(j) /\ t = T(j) /\ p = P(j) /\ f <= t /\ f + p <= t + 1
                    /\ Through(fs[j].segment) = IF p = 0 THEN 0 ELSE f + p - 1
            BY <1>7b
          <6>2. f + p - 1 \in f .. t /\ f + p - 1 < f + p /\ f + p - 1 \in Int /\ p # 0
            <7>1. p # 0 /\ f <= t /\ f + p <= t + 1
              BY <5>2, <6>1
            <7>2. 1 <= p
              BY <7>1
            <7>3. f <= f + p - 1 /\ f + p - 1 <= t /\ f + p - 1 \in Int
              BY <7>1, <7>2
            <7>4. QED
              BY <7>1, <7>3
          <6>3. f + p - 1 \in U
            BY <1>9, <6>1, <6>2
          <6>4. QED
            BY <4>1, <6>1, <6>2, <6>3
        <5>3. QED
          BY <5>1, <5>2
      <4>3. q \in U /\ q \in F(i) .. T(k)
        <5>1. q \in 1 .. q
          BY <4>1
        <5>2. QED
          BY <1>7, <4>1, <5>1
      <4>4. PICK j \in i .. k : q \in F(j) .. T(j)
        BY <1>4, <4>3
      <4>5. q < F(j) + P(j)
        BY <1>9, <4>3, <4>4
      <4>6a. PICK f \in Nat, t \in Nat, p \in Nat :
                    /\ f = F(j) /\ t = T(j) /\ p = P(j) /\ f <= t /\ f + p <= t + 1
                    /\ Through(fs[j].segment) = IF p = 0 THEN 0 ELSE f + p - 1
        BY <1>7b
      <4>6b. PICK u \in Nat : u = q
        BY <4>1
      <4>6c. u < f + p /\ u \in f .. t
        BY <4>4, <4>5, <4>6a, <4>6b
      <4>6. ASSUME u # f + p - 1 PROVE FALSE
        <5>1. u + 1 \in f .. t /\ u + 1 < f + p
          <6>1. f + p <= t + 1 /\ u < f + p /\ f <= u /\ u # f + p - 1
            BY <4>6, <4>6a, <4>6c
          <6>2. u + 1 < f + p
            BY <6>1
          <6>3. f <= u + 1 /\ u + 1 <= t
            BY <6>1, <6>2
          <6>4. QED
            BY <6>2, <6>3
        <5>2. u + 1 \in U
          BY <1>9, <4>6a, <5>1
        <5>3. u + 1 \notin 1 .. u
          OBVIOUS
        <5>4. QED
          BY <4>1, <4>6b, <5>2, <5>3
      <4>7. Through(fs[j].segment) = q
        <5>1. p # 0
          BY <4>6c
        <5>2. QED
          BY <4>6, <4>6a, <4>6b, <5>1
      <4>8. QED
        BY <4>1, <4>2, <4>7
    <3>3. QED
      BY <3>1, <3>2
  <2>3. (CHOOSE n \in H : \A m \in H : m <= n) = q
    BY <2>2, LastIs
  <2>4. (CHOOSE n \in H : \A m \in H : m <= n) = CHOOSE n \in H : \A j \in i .. k : Through(fs[j].segment) <= n
    OBVIOUS
  <2>5. QED
    BY <2>1, <2>2, <2>3, <2>4
<1>15. RunOf(fs, i, k, U)
  BY <1>10, <1>12, <1>13, <1>14 DEF RunOf
<1>16. QED
  BY <1>u, <1>15

-----------------------------------------------------------------------------
\* A series of files.

LEMMA Linked ==
    ASSUME CollisionFree, NEW c, NEW fs, NEW action, Kept(c, fs, action), NEW m \in 2 .. Len(fs)
    PROVE  /\ m - 1 \in 1 .. Len(fs)
           /\ Joins(fs[m - 1].segment, fs[m].segment)
           /\ Meets(fs[m - 1].segment, Digest(fs[m - 1].segment), fs[m].segment.previous)
           /\ fs[m].segment.previous # NoSegment
           /\ fs[m].segment.previous.digest = Digest(fs[m - 1].segment)
<1>0. Len(fs) \in Nat /\ m \in 1 .. Len(fs) /\ m - 1 \in 1 .. Len(fs) /\ m # 1
  BY DEF Kept
<1>1. PICK A, B : A = fs[m - 1].segment /\ B = fs[m].segment
  OBVIOUS
<1>2. FileOf(c, fs, m - 1, A) /\ FileOf(c, fs, m, B)
  BY <1>0, <1>1, FileFacts DEF FileIs
<1>3. /\ A.tenant = Tenant /\ B.tenant = Tenant /\ A.segmentSeq = m - 1 /\ B.segmentSeq = m
      /\ A.to \in Nat /\ A.from \in Nat \ {0} /\ A.from <= A.to /\ B.from = A.to + 1
      /\ A.endHash = c[A.to].hash /\ fs[m - 1] = Sealed(A) /\ B.previous = PreviousOf(fs[m - 1])
      /\ B.startPrevHash = IF B.from = 1 THEN GenesisHash ELSE c[B.from - 1].hash
  BY <1>0, <1>1, <1>2 DEF FileOf
<1>4. PICK x \in Nat : x = A.to /\ x # 0
  BY <1>3
<1>5. B.from # 1 /\ B.from - 1 = A.to
  BY <1>3, <1>4
<1>6. Joins(A, B)
  BY <1>0, <1>3, <1>5 DEF Joins
<1>7. fs[m - 1].digest = Digest(A)
  BY <1>3 DEF Sealed
<1>8. B.previous = [segmentId |-> A.segmentId, segmentSeq |-> A.segmentSeq,
                    toSeq |-> A.to, endHash |-> A.endHash, digest |-> Digest(A)]
  BY <1>1, <1>3, <1>7 DEF PreviousOf
<1>9. B.previous # NoSegment
  <2>1. DOMAIN B.previous # {} /\ DOMAIN NoSegment = {}
    BY <1>8 DEF NoSegment
  <2>2. QED
    BY <2>1
<1>10. Meets(A, Digest(A), B.previous) /\ B.previous.digest = Digest(A)
  BY <1>8, <1>9 DEF Meets
<1>11. QED
  BY <1>0, <1>1, <1>6, <1>9, <1>10

WindowIs(W, fs, i, k) ==
    /\ DOMAIN W = 1 .. k - i + 1 /\ Len(W) = k - i + 1
    /\ \A j \in 1 .. k - i + 1 : IsReport(W[j], fs[i + j - 1].segment)

\* What a series says that passes.
SeriesSays(series, c, fs, i, k) ==
    LET U == Unrecomputable(c, fs[i].segment.from, fs[k].segment.to) IN
    /\ series.passes = TRUE /\ series.through = Cardinality(U)
    /\ series.unsealed = {j \in 1 .. k - i + 1 : Sealing(c, i + j - 1, fs[k].segment.to) = "none"}
    /\ series.preSeal = {j \in 1 .. k - i + 1 : Sealing(c, i + j - 1, fs[k].segment.to) = "preSeal"}

\* What records say of the headers of a window.
HeadersAre(W, R, c, fs, i, k) ==
    /\ UNION {ExportRecords(W[j].doc) : j \in DOMAIN W} = R
    /\ NoConflict(R)
    /\ SealHeaders(W, R) = [j \in 1 .. k - i + 1 |-> Sealing(c, i + j - 1, fs[k].segment.to)]
    /\ HeadersFit([j \in 1 .. k - i + 1 |-> Sealing(c, i + j - 1, fs[k].segment.to)])

LEMMA WindowHeaders ==
    ASSUME CollisionFree, NEW c, NEW fs, NEW action, Kept(c, fs, action), NEW i \in 1 .. Len(fs), NEW k \in i .. Len(fs),
           NEW W, WindowIs(W, fs, i, k)
    PROVE  HeadersAre(W, RecordsIn(c, fs[i].segment.from, fs[k].segment.to), c, fs, i, k)
<1>0. Len(fs) \in Nat /\ k \in 1 .. Len(fs) /\ i \in i .. k /\ k \in i .. k
  BY DEF Kept
<1>1. PICK from, to : from = fs[i].segment.from /\ to = fs[k].segment.to
  OBVIOUS
<1>2. from \in Nat \ {0} /\ to \in Nat /\ to <= Len(c)
  <2>1. FileIs(c, fs, i) /\ FileIs(c, fs, k)
    BY <1>0, FileFacts
  <2>2. QED
    BY <1>1, <2>1 DEF FileIs, FileOf
<1>3. ASSUME NEW j \in 1 .. k - i + 1
      PROVE  /\ i + j - 1 \in i .. k /\ i + j - 1 \in 1 .. Len(fs) /\ i + j - 1 \in i .. Len(fs)
             /\ W[j].doc = fs[i + j - 1].segment /\ W[j].through = Through(fs[i + j - 1].segment)
             /\ W[j].doc.segmentSeq = i + j - 1
             /\ from <= fs[i + j - 1].segment.to
  <2>1. i + j - 1 \in i .. k /\ i + j - 1 \in 1 .. Len(fs) /\ i + j - 1 \in i .. Len(fs)
    BY <1>0
  <2>2. W[j].doc = fs[i + j - 1].segment /\ W[j].through = Through(fs[i + j - 1].segment)
    BY DEF WindowIs, IsReport
  <2>3. FileIs(c, fs, i + j - 1)
    BY <2>1, FileFacts
  <2>4. PICK m \in 1 .. Len(fs) : m = i + j - 1 /\ m \in i .. Len(fs)
    BY <2>1
  <2>5. fs[m].segment.segmentSeq = m /\ fs[m].segment.from \in Nat /\ fs[m].segment.to \in Nat
        /\ fs[m].segment.from <= fs[m].segment.to
    BY <2>3, <2>4 DEF FileIs, FileOf
  <2>6. from <= fs[m].segment.from
    BY <1>1, <2>4, FilesRise
  <2>7. from <= fs[m].segment.to
    BY <1>2, <2>5, <2>6
  <2>8. QED
    BY <2>1, <2>2, <2>4, <2>5, <2>7
<1>4. UNION {ExportRecords(W[j].doc) : j \in DOMAIN W} = RecordsIn(c, from, to)
  <2>1. DOMAIN W = 1 .. k - i + 1
    BY DEF WindowIs
  <2>2. ASSUME NEW r \in UNION {ExportRecords(W[j].doc) : j \in DOMAIN W}
        PROVE  r \in UNION {ExportRecords(fs[l].segment) : l \in i .. k}
    <3>1. PICK j \in 1 .. k - i + 1 : r \in ExportRecords(W[j].doc)
      BY <2>1, <2>2
    <3>2. i + j - 1 \in i .. k /\ r \in ExportRecords(fs[i + j - 1].segment)
      BY <1>3, <3>1
    <3>3. QED
      BY <3>2
  <2>3. ASSUME NEW r \in UNION {ExportRecords(fs[l].segment) : l \in i .. k}
        PROVE  r \in UNION {ExportRecords(W[j].doc) : j \in DOMAIN W}
    <3>1. PICK l \in i .. k : r \in ExportRecords(fs[l].segment)
      BY <2>3
    <3>2. l - i + 1 \in 1 .. k - i + 1 /\ i + (l - i + 1) - 1 = l
      BY <1>0
    <3>3. r \in ExportRecords(W[l - i + 1].doc)
      BY <1>3, <3>1, <3>2
    <3>4. QED
      BY <2>1, <3>2, <3>3
  <2>4. UNION {ExportRecords(fs[l].segment) : l \in i .. k} = RecordsIn(c, fs[i].segment.from, fs[k].segment.to)
    BY WindowShows
  <2>5. UNION {ExportRecords(W[j].doc) : j \in DOMAIN W} = UNION {ExportRecords(fs[l].segment) : l \in i .. k}
    BY <2>2, <2>3
  <2>6. QED
    BY <1>1, <2>4, <2>5
<1>5. NoConflict(RecordsIn(c, from, to))
  BY <1>2, RecordsIf
<1>6. SealHeaders(W, RecordsIn(c, from, to)) = [j \in 1 .. k - i + 1 |-> Sealing(c, i + j - 1, to)]
  <2>1. DOMAIN W = 1 .. k - i + 1
    BY DEF WindowIs
  <2>2. ASSUME NEW j \in 1 .. k - i + 1
        PROVE  HeaderOf(W[j].doc, W[j].through, RecordOf(RecordsIn(c, from, to), W[j].doc.segmentSeq))
                 = Sealing(c, i + j - 1, to)
    <3>1. PICK m \in 1 .. Len(fs) : /\ m = i + j - 1 /\ W[j].doc = fs[m].segment /\ W[j].through = Through(fs[m].segment)
                                    /\ W[j].doc.segmentSeq = m /\ from <= fs[m].segment.to
      BY <1>3
    <3>2. HeaderOf(fs[m].segment, Through(fs[m].segment), RecordOf(RecordsIn(c, from, to), m)) = Sealing(c, m, to)
      BY <1>2, <3>1, HeaderIs
    <3>3. QED
      BY <3>1, <3>2
  <2>3. QED
    BY <2>1, <2>2 DEF SealHeaders
<1>7. HeadersFit([j \in 1 .. k - i + 1 |-> Sealing(c, i + j - 1, to)])
  <2>1. PICK H : H = [j \in 1 .. k - i + 1 |-> Sealing(c, i + j - 1, to)]
    OBVIOUS
  <2>2. \A j \in 1 .. k - i + 1 : H[j] = Sealing(c, i + j - 1, to)
    BY <2>1
  <2>3. ASSUME NEW j \in 1 .. k - i + 1 PROVE H[j] # "refused"
    BY <2>2 DEF Sealing
  <2>4. ASSUME NEW j \in 1 .. k - i + 1, H[j] # "none", NEW l \in 1 .. j - 1 PROVE H[l] # "none"
    <3>1. PICK m \in 1 .. Len(fs), n \in 1 .. Len(fs) : m = i + l - 1 /\ n = i + j - 1 /\ m < n /\ l \in 1 .. k - i + 1
      BY <1>0, <1>3
    <3>2. RecordAt(c, m) < RecordAt(c, n) /\ RecordAt(c, m) \in Nat /\ RecordAt(c, n) \in Nat
      BY <3>1, RecordsRise, RecordFacts
    <3>3. ~(RecordAt(c, n) > to)
      BY <2>2, <2>4, <3>1 DEF Sealing
    <3>4. ~(RecordAt(c, m) > to)
      BY <1>2, <3>2, <3>3
    <3>5. QED
      BY <2>2, <3>1, <3>4 DEF Sealing
  <2>5. DOMAIN H = 1 .. k - i + 1
    BY <2>1
  <2>6. HeadersFit(H)
    BY <2>3, <2>4, <2>5 DEF HeadersFit
  <2>7. QED
    BY <2>1, <2>6
<1>8. HeadersAre(W, RecordsIn(c, from, to), c, fs, i, k)
  BY <1>1, <1>4, <1>5, <1>6, <1>7 DEF HeadersAre
<1>9. QED
  BY <1>1, <1>8

LEMMA SeriesIs ==
    ASSUME CollisionFree, NEW c, NEW fs, NEW action, Kept(c, fs, action), NEW i \in 1 .. Len(fs), NEW k \in i .. Len(fs),
           NEW W, WindowIs(W, fs, i, k)
    PROVE  LET U == Unrecomputable(c, fs[i].segment.from, fs[k].segment.to) IN
           /\ InOrderFrom(U) => SeriesSays(VerifySeries(W), c, fs, i, k)
           /\ ~InOrderFrom(U) => VerifySeries(W) = Refused
<1>0. Len(fs) \in Nat /\ k \in 1 .. Len(fs) /\ i \in i .. k /\ k \in i .. k
  BY DEF Kept
<1>1. PICK U, R : /\ U = Unrecomputable(c, fs[i].segment.from, fs[k].segment.to)
                  /\ R = RecordsIn(c, fs[i].segment.from, fs[k].segment.to)
  OBVIOUS
<1>2. /\ DOMAIN W = 1 .. k - i + 1 /\ Len(W) = k - i + 1
      /\ \A j \in 1 .. k - i + 1 : IsReport(W[j], fs[i + j - 1].segment)
  BY DEF WindowIs
<1>3. \A j \in 2 .. Len(W) : /\ Joins(W[j - 1].doc, W[j].doc)
                             /\ Meets(W[j - 1].doc, W[j - 1].digest, W[j].doc.previous)
  <2>1. SUFFICES ASSUME NEW j \in 2 .. k - i + 1
                 PROVE  /\ Joins(W[j - 1].doc, W[j].doc)
                        /\ Meets(W[j - 1].doc, W[j - 1].digest, W[j].doc.previous)
    BY <1>2
  <2>2. PICK m \in 2 .. Len(fs) : m = i + j - 1
    BY <1>0
  <2>3. j - 1 \in 1 .. k - i + 1 /\ j \in 1 .. k - i + 1 /\ i + (j - 1) - 1 = m - 1
    BY <2>2
  <2>4. IsReport(W[j], fs[m].segment) /\ IsReport(W[j - 1], fs[m - 1].segment)
    BY <1>2, <2>2, <2>3
  <2>5. W[j].doc = fs[m].segment /\ W[j - 1].doc = fs[m - 1].segment /\ W[j - 1].digest = Digest(fs[m - 1].segment)
    BY <2>4 DEF IsReport
  <2>6. QED
    BY <2>5, Linked
<1>4. AnchorsPreCutover(W) <=> Anchored(fs, i, k)
  <2>1. \A j \in 1 .. k - i + 1 : W[j].pre = Led(fs, i + j - 1) /\ W[j].doc = fs[i + j - 1].segment
    BY <1>2 DEF IsReport, Led
  <2>2. W[1].doc.genesis <=> i = 1
    <3>1. 1 \in 1 .. k - i + 1 /\ i + 1 - 1 = i
      BY <1>0
    <3>2. W[1].doc = fs[i].segment
      BY <2>1, <3>1
    <3>3. FileIs(c, fs, i)
      BY FileFacts
    <3>4. QED
      BY <3>2, <3>3 DEF FileIs, FileOf
  <2>3. ASSUME AnchorsPreCutover(W) PROVE Anchored(fs, i, k)
    <3>1. SUFFICES ASSUME NEW j \in i .. k, Led(fs, j) > 0
                   PROVE  i = 1 /\ \A l \in i .. j - 1 : Led(fs, l) = fs[l].segment.count
      BY DEF Anchored
    <3>2. PICK h \in 1 .. k - i + 1 : h = j - i + 1 /\ i + h - 1 = j
      BY <1>0
    <3>3. W[h].pre > 0
      BY <2>1, <3>1, <3>2
    <3>4. i = 1 /\ \A l \in 1 .. h - 1 : W[l].pre = W[l].doc.count
      BY <1>2, <2>2, <2>3, <3>3 DEF AnchorsPreCutover
    <3>5. ASSUME NEW l \in i .. j - 1 PROVE Led(fs, l) = fs[l].segment.count
      <4>1. PICK g \in 1 .. h - 1 : g = l - i + 1 /\ i + g - 1 = l /\ g \in 1 .. k - i + 1
        BY <1>0, <3>2
      <4>2. QED
        BY <2>1, <3>4, <4>1
    <3>6. QED
      BY <3>4, <3>5
  <2>4. ASSUME Anchored(fs, i, k) PROVE AnchorsPreCutover(W)
    <3>1. SUFFICES ASSUME NEW h \in 1 .. k - i + 1, W[h].pre > 0
                   PROVE  W[1].doc.genesis /\ \A l \in 1 .. h - 1 : W[l].pre = W[l].doc.count
      BY <1>2 DEF AnchorsPreCutover
    <3>2. PICK j \in i .. k : j = i + h - 1
      BY <1>0
    <3>3. i = 1 /\ \A l \in i .. j - 1 : Led(fs, l) = fs[l].segment.count
      BY <2>1, <2>4, <3>1, <3>2 DEF Anchored
    <3>4. ASSUME NEW l \in 1 .. h - 1 PROVE W[l].pre = W[l].doc.count
      <4>1. l \in 1 .. k - i + 1 /\ i + l - 1 \in i .. j - 1
        BY <1>0, <3>2
      <4>2. QED
        BY <2>1, <3>3, <4>1
    <3>5. QED
      BY <2>2, <3>3, <3>4
  <2>5. QED
    BY <2>3, <2>4
<1>5. Anchored(fs, i, k) <=> InOrderFrom(U)
  <2>1. RunOf(fs, i, k, Unrecomputable(c, fs[i].segment.from, fs[k].segment.to))
    BY AnchoredIs
  <2>2. QED
    BY <1>1, <2>1 DEF RunOf
<1>5a. HeadersAre(W, R, c, fs, i, k)
  BY <1>1, WindowHeaders
<1>6. UNION {ExportRecords(W[j].doc) : j \in DOMAIN W} = R
  BY <1>5a DEF HeadersAre
<1>7. PICK H : H = SealHeaders(W, R)
  OBVIOUS
<1>8. NoConflict(R) /\ HeadersFit(H) /\ H = [j \in 1 .. k - i + 1 |-> Sealing(c, i + j - 1, fs[k].segment.to)]
  BY <1>5a, <1>7 DEF HeadersAre
<1>9. CASE ~InOrderFrom(U)
  <2>1. ~AnchorsPreCutover(W)
    BY <1>4, <1>5, <1>9
  <2>2. VerifySeries(W) = Refused
    BY <2>1 DEF VerifySeries
  <2>3. QED
    BY <1>1, <1>9, <2>2
<1>10. CASE InOrderFrom(U)
  <2>1. AnchorsPreCutover(W)
    BY <1>4, <1>5, <1>10
  <2>2. VerifySeries(W) = SeriesReport(W, R, H)
    BY <1>3, <1>6, <1>7, <2>1 DEF VerifySeries
  <2>3. PICK from, to, genesis, through :
            /\ from = W[1].doc.from /\ to = W[Len(W)].doc.to /\ genesis = W[1].doc.genesis
            /\ through = CHOOSE n \in {W[j].through : j \in DOMAIN W} : \A j \in DOMAIN W : W[j].through <= n
    OBVIOUS
  <2>4. VerifySeries(W) = [passes |-> TRUE, from |-> from, to |-> to, genesis |-> genesis, through |-> through,
                           unsealed |-> {j \in DOMAIN H : H[j] = "none"},
                           preSeal |-> {j \in DOMAIN H : H[j] = "preSeal"}]
    BY <1>8, <2>2, <2>3 DEF SeriesReport
  <2>5. through = Cardinality(U)
    <3>1. \A j \in 1 .. k - i + 1 : W[j].through = Through(fs[i + j - 1].segment)
      BY <1>2 DEF IsReport
    <3>2. {W[j].through : j \in DOMAIN W} = {Through(fs[j].segment) : j \in i .. k}
      <4>1. ASSUME NEW j \in 1 .. k - i + 1 PROVE \E l \in i .. k : W[j].through = Through(fs[l].segment)
        <5>1. i + j - 1 \in i .. k
          BY <1>0
        <5>2. QED
          BY <3>1, <5>1
      <4>2. ASSUME NEW l \in i .. k PROVE \E j \in 1 .. k - i + 1 : W[j].through = Through(fs[l].segment)
        <5>1. PICK j \in 1 .. k - i + 1 : i + j - 1 = l
          <6>1. l - i + 1 \in 1 .. k - i + 1 /\ i + (l - i + 1) - 1 = l
            BY <1>0
          <6>2. QED
            BY <6>1
        <5>2. QED
          BY <3>1, <5>1
      <4>3. QED
        BY <1>2, <4>1, <4>2
    <3>3. \A n : (\A j \in DOMAIN W : W[j].through <= n) <=> \A l \in i .. k : Through(fs[l].segment) <= n
      <4>1. ASSUME NEW n, \A j \in DOMAIN W : W[j].through <= n, NEW l \in i .. k PROVE Through(fs[l].segment) <= n
        <5>1. PICK j \in DOMAIN W : W[j].through = Through(fs[l].segment)
          BY <3>2
        <5>2. QED
          BY <4>1, <5>1
      <4>2. ASSUME NEW n, \A l \in i .. k : Through(fs[l].segment) <= n, NEW j \in DOMAIN W PROVE W[j].through <= n
        <5>1. PICK l \in i .. k : W[j].through = Through(fs[l].segment)
          BY <3>2
        <5>2. QED
          BY <4>2, <5>1
      <4>3. QED
        BY <4>1, <4>2
    <3>4. through = CHOOSE n \in {Through(fs[l].segment) : l \in i .. k} : \A l \in i .. k : Through(fs[l].segment) <= n
      BY <2>3, <3>2, <3>3
    <3>5. RunOf(fs, i, k, Unrecomputable(c, fs[i].segment.from, fs[k].segment.to))
      BY AnchoredIs
    <3>6. QED
      BY <1>1, <1>10, <3>4, <3>5 DEF RunOf
  <2>6. PICK S, p, un, ps : /\ S = VerifySeries(W) /\ p = TRUE /\ un = {j \in DOMAIN H : H[j] = "none"}
                            /\ ps = {j \in DOMAIN H : H[j] = "preSeal"}
    OBVIOUS
  <2>7. S = [passes |-> p, from |-> from, to |-> to, genesis |-> genesis, through |-> through,
             unsealed |-> un, preSeal |-> ps]
    BY <2>4, <2>6
  <2>8. S.passes = p /\ S.through = through /\ S.unsealed = un /\ S.preSeal = ps
    BY <2>7
  <2>9. /\ un = {j \in 1 .. k - i + 1 : Sealing(c, i + j - 1, fs[k].segment.to) = "none"}
        /\ ps = {j \in 1 .. k - i + 1 : Sealing(c, i + j - 1, fs[k].segment.to) = "preSeal"}
    BY <1>8, <2>6
  <2>10. SeriesSays(S, c, fs, i, k)
    BY <1>1, <2>5, <2>6, <2>8, <2>9 DEF SeriesSays
  <2>11. QED
    BY <1>1, <1>10, <2>6, <2>10
<1>11. QED
  BY <1>9, <1>10

ReportsOf(fs) == [k \in DOMAIN fs |-> VerifyFile(fs[k])]
Seen == {VerifyFile(f) : f \in FileRecords}

LEMMA ReportsAre ==
    ASSUME CollisionFree, NEW c, NEW fs, NEW action, Kept(c, fs, action)
    PROVE  /\ ReportsOf(fs) \in Seq(Seen) /\ Len(ReportsOf(fs)) = Len(fs) /\ DOMAIN ReportsOf(fs) = 1 .. Len(fs)
           /\ Len(fs) \in Nat
           /\ \A k \in 1 .. Len(fs) : ReportsOf(fs)[k] = VerifyFile(fs[k]) /\ IsReport(ReportsOf(fs)[k], fs[k].segment)
<1>1. fs \in Seq(FileRecords) /\ DOMAIN fs = 1 .. Len(fs) /\ Len(fs) \in Nat
  BY DEF Kept
<1>2. ReportsOf(fs) = [k \in 1 .. Len(fs) |-> VerifyFile(fs[k])]
  BY <1>1 DEF ReportsOf
<1>3. \A k \in 1 .. Len(fs) : VerifyFile(fs[k]) \in Seen
  BY <1>1 DEF Seen
<1>4. ASSUME NEW k \in 1 .. Len(fs) PROVE IsReport(VerifyFile(fs[k]), fs[k].segment)
  <2>1. FileOf(c, fs, k, fs[k].segment)
    BY FileFacts DEF FileIs
  <2>2. fs[k] = Sealed(fs[k].segment) /\ VerifyDocument(fs[k].segment).passes
    BY <2>1 DEF FileOf
  <2>3. QED
    BY <2>2, ReportIs
<1>5. QED
  BY <1>1, <1>2, <1>3, <1>4

LEMMA WindowOf ==
    ASSUME CollisionFree, NEW c, NEW fs, NEW action, Kept(c, fs, action), NEW i \in 1 .. Len(fs), NEW k \in i .. Len(fs)
    PROVE  WindowIs(SubSeq(ReportsOf(fs), i, k), fs, i, k)
<1>1. PICK R \in Seq(Seen) : R = ReportsOf(fs)
  BY ReportsAre
<1>2. Len(R) = Len(fs) /\ Len(R) \in Nat /\ \A m \in 1 .. Len(fs) : IsReport(R[m], fs[m].segment)
  BY <1>1, ReportsAre
<1>3. PICK n \in Nat : n = k - i + 1 /\ n # 0
  BY <1>2
<1>4. PICK W : W = SubSeq(R, i, k)
  OBVIOUS
<1>5. i \in 1 .. Len(R) /\ k \in i .. Len(R)
  BY <1>2
<1>6. W \in Seq(Seen) /\ Len(W) = n /\ \A j \in 1 .. n : W[j] = R[i + j - 1]
  BY <1>3, <1>4, <1>5
<1>7. ASSUME NEW j \in 1 .. n PROVE IsReport(W[j], fs[i + j - 1].segment)
  <2>1. i + j - 1 \in 1 .. Len(fs)
    BY <1>2, <1>3
  <2>2. QED
    BY <1>2, <1>6, <2>1
<1>8. DOMAIN W = 1 .. n
  BY <1>6
<1>9. WindowIs(W, fs, i, k)
  BY <1>3, <1>6, <1>7, <1>8 DEF WindowIs
<1>10. QED
  BY <1>1, <1>4, <1>9

LEMMA WindowsTell ==
    ASSUME CollisionFree, NEW c, NEW fs, NEW action, Kept(c, fs, action), NEW i \in 1 .. Len(fs), NEW k \in i .. Len(fs),
           NEW W, WindowIs(W, fs, i, k)
    PROVE  WindowTold(c, W, VerifySeries(W))
<1>0. Len(fs) \in Nat /\ k \in 1 .. Len(fs)
  BY DEF Kept
<1>1. PICK n \in Nat : n = k - i + 1 /\ n # 0
  BY <1>0
<1>2. /\ DOMAIN W = 1 .. n /\ Len(W) = n
      /\ \A j \in 1 .. n : i + j - 1 \in 1 .. Len(fs) /\ W[j].doc = fs[i + j - 1].segment
  BY <1>0, <1>1 DEF WindowIs, IsReport
<1>3. W[1].doc.from = fs[i].segment.from /\ W[Len(W)].doc.to = fs[k].segment.to
  <2>1. 1 \in 1 .. n /\ i + 1 - 1 = i /\ n \in 1 .. n /\ i + n - 1 = k
    BY <1>0, <1>1
  <2>2. QED
    BY <1>2, <2>1
<1>4. PICK to, U, S : /\ to = fs[k].segment.to /\ U = Unrecomputable(c, fs[i].segment.from, fs[k].segment.to)
                      /\ S = VerifySeries(W)
  OBVIOUS
<1>5. ASSUME NEW j \in 1 .. n PROVE W[j].doc.segmentSeq = i + j - 1 /\ i + j - 1 \in Nat
  <2>1. PICK m \in 1 .. Len(fs) : m = i + j - 1
    BY <1>2
  <2>2. FileOf(c, fs, m, fs[m].segment)
    BY FileFacts DEF FileIs
  <2>3. fs[m].segment.segmentSeq = m
    BY <2>2 DEF FileOf
  <2>4. W[j].doc = fs[m].segment /\ m \in Nat
    BY <1>0, <1>2, <2>1
  <2>5. QED
    BY <2>1, <2>3, <2>4
<1>6. to \in Nat
  <2>1. FileOf(c, fs, k, fs[k].segment)
    BY <1>0, FileFacts DEF FileIs
  <2>2. QED
    BY <1>4, <2>1 DEF FileOf
<1>7. /\ InOrderFrom(U) => SeriesSays(S, c, fs, i, k)
      /\ ~InOrderFrom(U) => S = Refused
  BY <1>4, SeriesIs
<1>8. S.passes <=> InOrderFrom(U)
  BY <1>7 DEF SeriesSays, Refused
<1> DEFINE recordAt(j) == RecordAt(c, W[j].doc.segmentSeq)
           seen == {j \in DOMAIN W : recordAt(j) <= to}
<1>9. ASSUME InOrderFrom(U)
      PROVE  /\ S.through = Cardinality(U)
             /\ S.unsealed = DOMAIN W \ seen
             /\ S.preSeal = {j \in seen : c[recordAt(j)].details.header = <<>>}
  <2>1. /\ S.through = Cardinality(U)
        /\ S.unsealed = {j \in 1 .. n : Sealing(c, i + j - 1, to) = "none"}
        /\ S.preSeal = {j \in 1 .. n : Sealing(c, i + j - 1, to) = "preSeal"}
    BY <1>1, <1>4, <1>7, <1>9 DEF SeriesSays
  <2>2. ASSUME NEW j \in 1 .. n
        PROVE  /\ Sealing(c, i + j - 1, to) = "none" <=> j \notin seen
               /\ Sealing(c, i + j - 1, to) = "preSeal" <=> j \in seen /\ c[recordAt(j)].details.header = <<>>
    <3>1. recordAt(j) = RecordAt(c, i + j - 1) /\ recordAt(j) \in Nat
      BY <1>2, <1>5, RecordFacts
    <3>2. recordAt(j) <= to <=> ~(recordAt(j) > to)
      BY <1>6, <3>1
    <3>3. j \in seen <=> recordAt(j) <= to
      BY <1>2
    <3>4. QED
      BY <3>1, <3>2, <3>3 DEF Sealing
  <2>3. S.unsealed = DOMAIN W \ seen
    BY <1>2, <2>1, <2>2
  <2>4. S.preSeal = {j \in seen : c[recordAt(j)].details.header = <<>>}
    BY <1>2, <2>1, <2>2
  <2>5. QED
    BY <2>1, <2>3, <2>4
<1>10. WindowTold(c, W, S)
  BY <1>3, <1>4, <1>8, <1>9 DEF WindowTold
<1>11. QED
  BY <1>4, <1>10

-----------------------------------------------------------------------------
\* The chain itself.
LEMMA ChainTells ==
    ASSUME NEW c, NEW action, WellWritten(c, action)
    PROVE  LET pre == Unrecomputable(c, 1, Len(c)) IN
           /\ VerifyAudit(c) = IF InOrderFrom(pre) THEN Cardinality(pre) ELSE -1
           /\ VerifyChain(c) <=> pre = {}
<1>1. PICK n \in Nat : n = Len(c) /\ DOMAIN c = 1 .. n
  BY DEF WellWritten
<1>2. PICK pre : pre = Unrecomputable(c, 1, Len(c))
  OBVIOUS
<1>3. pre = {i \in 1 .. n : IsPreCutover(c[i].version)} /\ pre \in SUBSET (1 .. n)
  BY <1>1, <1>2 DEF Unrecomputable
<1>4. ASSUME NEW i \in 1 .. n
      PROVE  /\ c[i].seq = i
             /\ c[i].prevHash = IF i = 1 THEN GenesisHash ELSE c[i - 1].hash
             /\ c[i].version <= CurrentHashVersion
             /\ i \notin pre => ComputeHash(c[i]) = c[i].hash
  <2>1. StandsAt(c, action, i)
    BY <1>1 DEF WellWritten
  <2>2. c[i].version \in 1 .. 3 /\ c[i].hash = WrittenHash(c[i])
    BY <2>1 DEF StandsAt
  <2>3. i \notin pre => ~IsPreCutover(c[i].version)
    BY <1>3
  <2>4. QED
    BY <2>1, <2>2, <2>3 DEF StandsAt, WrittenHash, CurrentHashVersion, HashVersionCredential
<1>5. (\A i \in pre : 1 .. i \subseteq pre) <=> InOrderFrom(pre)
  <2>1. (\A i \in pre : 1 .. i \subseteq pre) => InOrderFrom(pre)
    BY <1>3, Leading DEF InOrderFrom
  <2>2. ASSUME InOrderFrom(pre), NEW i \in pre PROVE 1 .. i \subseteq pre
    <3>1. IsFiniteSet(1 .. n)
      BY FS_Interval
    <3>2. IsFiniteSet(pre)
      BY <1>3, <3>1, FS_Subset
    <3>3. PICK q \in Nat : q = Cardinality(pre)
      BY <3>2, FS_CardinalityType
    <3>4. pre = 1 .. q
      BY <2>2, <3>3 DEF InOrderFrom
    <3>5. QED
      BY <2>2, <3>4
  <2>3. QED
    BY <2>1, <2>2
<1>6. VerifyAudit(c) = IF \A i \in pre : 1 .. i \subseteq pre THEN Cardinality(pre) ELSE -1
  <2>1. VerifyAudit(c) =
           IF \A i \in 1 .. n :
                 /\ c[i].seq = i
                 /\ c[i].prevHash = IF i = 1 THEN GenesisHash ELSE c[i - 1].hash
                 /\ c[i].version <= CurrentHashVersion
                 /\ IF i \in pre THEN 1 .. i \subseteq pre ELSE ComputeHash(c[i]) = c[i].hash
           THEN Cardinality(pre) ELSE -1
    BY <1>1, <1>3 DEF VerifyAudit
  <2>2. (\A i \in 1 .. n :
                 /\ c[i].seq = i
                 /\ c[i].prevHash = IF i = 1 THEN GenesisHash ELSE c[i - 1].hash
                 /\ c[i].version <= CurrentHashVersion
                 /\ IF i \in pre THEN 1 .. i \subseteq pre ELSE ComputeHash(c[i]) = c[i].hash)
          <=> \A i \in pre : 1 .. i \subseteq pre
    BY <1>3, <1>4
  <2>3. QED
    BY <2>1, <2>2
<1>7. VerifyAudit(c) = IF InOrderFrom(pre) THEN Cardinality(pre) ELSE -1
  BY <1>5, <1>6
<1>8. VerifyChain(c) <=> pre = {}
  <2>1. ASSUME pre = {} PROVE VerifyAudit(c) = 0
    <3>1. Cardinality(pre) = 0 /\ \A i \in pre : 1 .. i \subseteq pre
      BY <2>1, FS_EmptySet
    <3>2. QED
      BY <1>6, <3>1
  <2>2. ASSUME VerifyAudit(c) = 0 PROVE pre = {}
    <3>1. InOrderFrom(pre) /\ Cardinality(pre) = 0
      BY <1>7, <2>2
    <3>2. QED
      BY <3>1 DEF InOrderFrom
  <2>3. QED
    BY <2>1, <2>2 DEF VerifyChain
<1>9. QED
  BY <1>2, <1>7, <1>8

-----------------------------------------------------------------------------
\* Files in another order.

Precedes(rs, i, k) ==
    \/ rs[i].doc.segmentSeq < rs[k].doc.segmentSeq
    \/ rs[i].doc.segmentSeq = rs[k].doc.segmentSeq /\ i < k

LEMMA CardUpTo == ASSUME NEW m \in Nat PROVE Cardinality(1 .. m) = m /\ IsFiniteSet(1 .. m)
<1>1. Cardinality(1 .. m) = (IF 1 > m THEN 0 ELSE m - 1 + 1) /\ IsFiniteSet(1 .. m)
  BY FS_Interval
<1>2. (IF 1 > m THEN 0 ELSE m - 1 + 1) = m
  OBVIOUS
<1>3. QED
  BY <1>1, <1>2

\* Where each report goes.
Placed(rs, n, p) ==
    /\ DOMAIN rs = 1 .. n
    /\ \A k \in 1 .. n : p[k] \in 1 .. n /\ Cardinality({i \in 1 .. n : Precedes(rs, i, k)}) + 1 = p[k]
    /\ \A j, k \in 1 .. n : p[j] = p[k] => j = k

LEMMA OrderIs ==
    ASSUME NEW rs, NEW n \in Nat, NEW p, Placed(rs, n, p)
    PROVE  /\ DOMAIN InOrder(rs) = 1 .. n
           /\ \A k \in 1 .. n : InOrder(rs)[p[k]] = rs[k]
           /\ InOrder(rs) = [k \in 1 .. n |-> InOrder(rs)[k]]
<1> DEFINE place(k) == Cardinality({i \in 1 .. n : Precedes(rs, i, k)}) + 1
<1>1. InOrder(rs) = [m \in 1 .. n |-> rs[CHOOSE k \in 1 .. n : place(k) = m]]
  BY DEF InOrder, Precedes, Placed
<1>2. \A k \in 1 .. n : place(k) = p[k] /\ p[k] \in 1 .. n
  BY DEF Placed
<1> HIDE DEF place
<1>3. ASSUME NEW k \in 1 .. n PROVE InOrder(rs)[p[k]] = rs[k]
  <2>1. \A j \in 1 .. n : place(j) = p[k] <=> j = k
    BY <1>2 DEF Placed
  <2>2. (CHOOSE j \in 1 .. n : place(j) = p[k]) = k
    BY <2>1
  <2>3. QED
    BY <1>1, <1>2, <2>2, SMTT(60)
<1>4. QED
  BY <1>1, <1>3

\* Files that are in order stay in it.
LEMMA StaysInOrder ==
    ASSUME NEW n \in Nat, NEW rs, rs = [k \in 1 .. n |-> rs[k]],
           \A k \in 1 .. n : rs[k].doc.segmentSeq \in Int,
           \A j, k \in 1 .. n : j < k => rs[j].doc.segmentSeq <= rs[k].doc.segmentSeq
    PROVE  InOrder(rs) = rs
<1>1. PICK p : p = [k \in 1 .. n |-> k]
  OBVIOUS
<1>2. ASSUME NEW k \in 1 .. n PROVE Cardinality({i \in 1 .. n : Precedes(rs, i, k)}) + 1 = k
  <2>1. ASSUME NEW i \in 1 .. n PROVE Precedes(rs, i, k) <=> i < k
    <3>1. PICK a \in Int, b \in Int : a = rs[i].doc.segmentSeq /\ b = rs[k].doc.segmentSeq
      OBVIOUS
    <3>2. (i < k => a <= b) /\ (k < i => b <= a) /\ (i = k => a = b)
      BY <3>1
    <3>3. i \in Int /\ k \in Int
      OBVIOUS
    <3>4. (a < b \/ (a = b /\ i < k)) <=> i < k
      BY <3>2, <3>3
    <3>5. QED
      BY <3>1, <3>4 DEF Precedes
  <2>2. {i \in 1 .. n : Precedes(rs, i, k)} = 1 .. k - 1
    <3>1. \A i : i \in 1 .. n /\ i < k <=> i \in 1 .. k - 1
      OBVIOUS
    <3>2. QED
      BY <2>1, <3>1
  <2>3. k - 1 \in Nat /\ Cardinality(1 .. k - 1) = k - 1
    <3>1. PICK m \in Nat : m = k - 1
      OBVIOUS
    <3>2. Cardinality(1 .. m) = m
      BY CardUpTo
    <3>3. QED
      BY <3>1, <3>2
  <2>4. Cardinality({i \in 1 .. n : Precedes(rs, i, k)}) = k - 1
    BY <2>2, <2>3
  <2>5. k - 1 + 1 = k
    OBVIOUS
  <2>6. QED
    BY <2>4, <2>5
<1>3. DOMAIN rs = 1 .. n
  OBVIOUS
<1>4. Placed(rs, n, p)
  BY <1>1, <1>2, <1>3 DEF Placed
<1>5. /\ \A k \in 1 .. n : InOrder(rs)[k] = rs[k]
      /\ InOrder(rs) = [k \in 1 .. n |-> InOrder(rs)[k]]
  <2>1. /\ \A k \in 1 .. n : InOrder(rs)[p[k]] = rs[k]
        /\ InOrder(rs) = [k \in 1 .. n |-> InOrder(rs)[k]]
    BY ONLY <1>4, n \in Nat, OrderIs
  <2>2. \A k \in 1 .. n : p[k] = k
    BY <1>1
  <2>3. QED
    BY ONLY <2>1, <2>2
<1>6. [k \in 1 .. n |-> InOrder(rs)[k]] = [k \in 1 .. n |-> rs[k]]
  BY <1>5
<1>7. QED
  BY <1>5, <1>6

\* Files in the opposite order are put right.
LEMMA Reordered ==
    ASSUME NEW n \in Nat, NEW rs, rs = [k \in 1 .. n |-> rs[k]], \A k \in 1 .. n : rs[k].doc.segmentSeq = k
    PROVE  InOrder([k \in 1 .. n |-> rs[n + 1 - k]]) = rs
<1>1. PICK rev : rev = [k \in 1 .. n |-> rs[n + 1 - k]]
  OBVIOUS
<1>2. PICK p : p = [k \in 1 .. n |-> n + 1 - k]
  OBVIOUS
<1>3. \A k \in 1 .. n : n + 1 - k \in 1 .. n
  OBVIOUS
<1>4. \A k \in 1 .. n : rev[k] = rs[n + 1 - k] /\ rev[k].doc.segmentSeq = n + 1 - k
  BY <1>1, <1>3
<1>5. ASSUME NEW k \in 1 .. n PROVE Cardinality({i \in 1 .. n : Precedes(rev, i, k)}) + 1 = n + 1 - k
  <2>1. ASSUME NEW i \in 1 .. n PROVE Precedes(rev, i, k) <=> k < i
    <3>1. (n + 1 - i < n + 1 - k \/ (n + 1 - i = n + 1 - k /\ i < k)) <=> k < i
      OBVIOUS
    <3>2. QED
      BY <1>4, <3>1 DEF Precedes
  <2>2. {i \in 1 .. n : Precedes(rev, i, k)} = k + 1 .. n
    <3>1. \A i : i \in 1 .. n /\ k < i <=> i \in k + 1 .. n
      OBVIOUS
    <3>2. QED
      BY <2>1, <3>1
  <2>3. Cardinality(k + 1 .. n) = n - k
    <3>1. PICK m \in Int : m = k + 1
      OBVIOUS
    <3>2. Cardinality(m .. n) = IF m > n THEN 0 ELSE n - m + 1
      BY FS_Interval
    <3>3. (IF m > n THEN 0 ELSE n - m + 1) = n - k
      BY <3>1
    <3>4. QED
      BY <3>1, <3>2, <3>3
  <2>4. Cardinality({i \in 1 .. n : Precedes(rev, i, k)}) = n - k
    BY <2>2, <2>3
  <2>5. n - k + 1 = n + 1 - k
    OBVIOUS
  <2>6. QED
    BY <2>4, <2>5
<1>6. Placed(rev, n, p)
  <2>1. DOMAIN rev = 1 .. n
    BY <1>1
  <2>2. \A k \in 1 .. n : p[k] = n + 1 - k /\ p[k] \in 1 .. n
    BY <1>2, <1>3
  <2>3. \A j, k \in 1 .. n : n + 1 - j = n + 1 - k => j = k
    OBVIOUS
  <2>4. QED
    BY <1>5, <2>1, <2>2, <2>3 DEF Placed
<1>7. /\ \A k \in 1 .. n : InOrder(rev)[p[k]] = rev[k]
      /\ InOrder(rev) = [k \in 1 .. n |-> InOrder(rev)[k]]
  BY <1>6, OrderIs
<1>8. ASSUME NEW k \in 1 .. n PROVE InOrder(rev)[k] = rs[k]
  <2>1. PICK m \in 1 .. n : m = n + 1 - k /\ n + 1 - m = k
    BY <1>3
  <2>2. InOrder(rev)[p[m]] = rev[m] /\ p[m] = k /\ rev[m] = rs[k]
    BY <1>2, <1>4, <1>7, <2>1
  <2>3. QED
    BY <2>2
<1>9. QED
  BY <1>1, <1>7, <1>8

\* A file that is there twice comes behind itself.
LEMMA Doubled ==
    ASSUME NEW n \in Nat, NEW rs, DOMAIN rs = 1 .. n + 1, NEW i \in 1 .. n,
           \A k \in 1 .. n : rs[k].doc.segmentSeq = k, rs[n + 1] = rs[i]
    PROVE  /\ DOMAIN InOrder(rs) = 1 .. n + 1 /\ InOrder(rs) = [k \in 1 .. n + 1 |-> InOrder(rs)[k]]
           /\ InOrder(rs)[i] = rs[i] /\ InOrder(rs)[i + 1] = rs[i]
<1>1. PICK p : p = [k \in 1 .. n + 1 |-> IF k <= i THEN k ELSE IF k <= n THEN k + 1 ELSE i + 1]
  OBVIOUS
<1>2. PICK q \in Nat : q = n + 1
  OBVIOUS
<1>3. rs[q].doc.segmentSeq = i
  BY <1>2
<1>4. ASSUME NEW k \in 1 .. q PROVE Cardinality({j \in 1 .. q : Precedes(rs, j, k)}) + 1 = p[k]
  <2>1. CASE k <= i
    <3>1. ASSUME NEW j \in 1 .. q PROVE Precedes(rs, j, k) <=> j < k
      <4>1. k \in 1 .. n /\ rs[k].doc.segmentSeq = k
        BY <2>1
      <4>2. CASE j = q
        <5>1. ~Precedes(rs, j, k)
          <6>1. ~(i < k) /\ ~(q < k)
            BY <1>2, <2>1
          <6>2. QED
            BY <1>3, <4>1, <4>2, <6>1 DEF Precedes
        <5>2. ~(j < k)
          BY <1>2, <2>1, <4>2
        <5>3. QED
          BY <5>1, <5>2
      <4>3. CASE j # q
        <5>1. j \in 1 .. n /\ rs[j].doc.segmentSeq = j
          BY <1>2, <4>3
        <5>2. QED
          BY <4>1, <5>1 DEF Precedes
      <4>4. QED
        BY <4>2, <4>3
    <3>2. {j \in 1 .. q : Precedes(rs, j, k)} = 1 .. k - 1
      <4>1. \A j : j \in 1 .. q /\ j < k <=> j \in 1 .. k - 1
        OBVIOUS
      <4>2. QED
        BY <3>1, <4>1
    <3>3. PICK m \in Nat : m = k - 1
      BY <1>2
    <3>4. Cardinality({j \in 1 .. q : Precedes(rs, j, k)}) = m
      BY <3>2, <3>3, CardUpTo
    <3>5. p[k] = k
      BY <1>1, <1>2, <2>1
    <3>6. QED
      BY <3>3, <3>4, <3>5
  <2>2. CASE ~(k <= i) /\ k <= n
    <3>1. ASSUME NEW j \in 1 .. q PROVE Precedes(rs, j, k) <=> j \in 1 .. k - 1 \/ j = q
      <4>1. k \in 1 .. n /\ rs[k].doc.segmentSeq = k
        BY <2>2
      <4>2. CASE j = q
        <5>1. i < k
          BY <2>2
        <5>2. QED
          BY <1>3, <4>1, <4>2, <5>1 DEF Precedes
      <4>3. CASE j # q
        <5>1. j \in 1 .. n /\ rs[j].doc.segmentSeq = j
          BY <1>2, <4>3
        <5>2. j < k <=> j \in 1 .. k - 1
          BY <5>1
        <5>3. QED
          BY <4>1, <4>3, <5>1, <5>2 DEF Precedes
      <4>4. QED
        BY <4>2, <4>3
    <3>2. {j \in 1 .. q : Precedes(rs, j, k)} = (1 .. k - 1) \cup {q}
      <4>1. \A j : j \in 1 .. k - 1 \/ j = q => j \in 1 .. q
        BY <1>2
      <4>2. QED
        BY <3>1, <4>1
    <3>3. PICK m \in Nat : m = k - 1 /\ Cardinality(1 .. m) = m /\ IsFiniteSet(1 .. m)
      <4>1. PICK m \in Nat : m = k - 1
        BY <1>2
      <4>2. QED
        BY <4>1, CardUpTo
    <3>4. q \notin 1 .. m
      BY <1>2, <2>2, <3>3
    <3>5. Cardinality((1 .. m) \cup {q}) = m + 1
      BY <3>3, <3>4, FS_AddElement, ZenonT(60)
    <3>6. p[k] = k + 1
      BY <1>1, <1>2, <2>2
    <3>7. Cardinality({j \in 1 .. q : Precedes(rs, j, k)}) = m + 1
      BY <3>2, <3>3, <3>5
    <3>8. QED
      BY <3>3, <3>6, <3>7
  <2>3. CASE k = q
    <3>1. ASSUME NEW j \in 1 .. q PROVE Precedes(rs, j, k) <=> j \in 1 .. i
      <4>1. CASE j = q
        <5>1. ~(i < i) /\ ~(q < q) /\ q \notin 1 .. i
          BY <1>2
        <5>2. QED
          BY <1>3, <2>3, <4>1, <5>1 DEF Precedes
      <4>2. CASE j # q
        <5>1. j \in 1 .. n /\ rs[j].doc.segmentSeq = j /\ j < q
          BY <1>2, <4>2
        <5>2. (j < i \/ j = i) <=> j \in 1 .. i
          BY <5>1
        <5>3. QED
          BY <1>3, <2>3, <5>1, <5>2 DEF Precedes
      <4>3. QED
        BY <4>1, <4>2
    <3>2. {j \in 1 .. q : Precedes(rs, j, k)} = 1 .. i
      <4>1. \A j \in 1 .. i : j \in 1 .. q
        BY <1>2
      <4>2. QED
        BY <3>1, <4>1
    <3>3. Cardinality(1 .. i) = i
      BY CardUpTo
    <3>4. p[k] = i + 1
      BY <1>1, <1>2, <2>3
    <3>5. Cardinality({j \in 1 .. q : Precedes(rs, j, k)}) = i
      BY <3>2, <3>3
    <3>6. QED
      BY <3>4, <3>5
  <2>4. QED
    BY <1>2, <2>1, <2>2, <2>3
<1>5. \A k \in 1 .. q : p[k] \in 1 .. q
  BY <1>1, <1>2
<1>6. \A j, k \in 1 .. q : p[j] = p[k] => j = k
  BY <1>1, <1>2
<1>7. Placed(rs, q, p)
  BY <1>2, <1>4, <1>5, <1>6 DEF Placed
<1>8. /\ DOMAIN InOrder(rs) = 1 .. q /\ InOrder(rs) = [k \in 1 .. q |-> InOrder(rs)[k]]
      /\ \A k \in 1 .. q : InOrder(rs)[p[k]] = rs[k]
  BY <1>7, OrderIs
<1>9. i \in 1 .. q /\ q \in 1 .. q /\ p[i] = i /\ p[q] = i + 1
  BY <1>1, <1>2
<1>10. QED
  BY <1>2, <1>8, <1>9

-----------------------------------------------------------------------------
\* The verdict of the command on the files of an archive.

\* What one file says of its own header.
LEMMA OwnHeader ==
    ASSUME CollisionFree, NEW c, NEW fs, NEW action, Kept(c, fs, action), NEW k \in 1 .. Len(fs)
    PROVE  HeaderOf(fs[k].segment, Through(fs[k].segment), OwnRecords(fs[k].segment))
             = Sealing(c, k, fs[k].segment.to)
<1>1. FileIs(c, fs, k)
  BY FileFacts
<1>2. FileOf(c, fs, k, fs[k].segment)
  BY <1>1 DEF FileIs
<1>2a. PICK d : d = fs[k].segment
  OBVIOUS
<1>3. PICK f \in Nat \ {0}, t \in Nat : f = d.from /\ t = d.to /\ f <= t /\ t <= Len(c) /\ d.segmentSeq = k
  BY <1>2, <1>2a DEF FileOf
<1>4. OwnRecords(d) = RecordOf(RecordsIn(c, f, t), k)
  BY <1>2a, <1>3, FileShows DEF OwnRecords
<1>5. HeaderOf(fs[k].segment, Through(fs[k].segment), RecordOf(RecordsIn(c, f, t), k)) = Sealing(c, k, t)
  BY <1>2a, <1>3, HeaderIs
<1>6. QED
  BY <1>2a, <1>3, <1>4, <1>5

\* No entry of an archive, or none behind its first file, could only be link-checked.
LEMMA LedIs ==
    ASSUME CollisionFree, NEW c, NEW fs, NEW action, Kept(c, fs, action), Len(fs) \in Nat \ {0}
    PROVE  LET U == Unrecomputable(c, 1, fs[Len(fs)].segment.to) IN
           /\ (\A k \in 1 .. Len(fs) : Led(fs, k) = 0) <=> U = {}
           /\ (\A k \in 1 .. Len(fs) : Led(fs, k) = 0 \/ fs[k].segment.genesis) <=> U \subseteq 1 .. fs[1].segment.to
<1> DEFINE F(k) == fs[k].segment.from
           T(k) == fs[k].segment.to
<1>1. PICK n \in Nat \ {0} : n = Len(fs)
  OBVIOUS
<1>2. PICK U : U = Unrecomputable(c, 1, T(n))
  OBVIOUS
<1>3. ASSUME NEW k \in 1 .. n
      PROVE  /\ F(k) \in Nat \ {0} /\ T(k) \in Nat /\ F(k) <= T(k)
             /\ (fs[k].segment.genesis <=> k = 1)
             /\ fs[k].segment.count = T(k) - F(k) + 1
  <2>1. FileIs(c, fs, k)
    BY <1>1, FileFacts
  <2>2. FileOf(c, fs, k, fs[k].segment)
    BY <2>1 DEF FileIs
  <2>3. QED
    BY <2>2 DEF FileOf
<1>4. ASSUME NEW k \in 1 .. n
      PROVE  /\ Led(fs, k) \in Nat
             /\ \A m \in F(k) .. T(k) : IsPreCutover(c[m].version) <=> m < F(k) + Led(fs, k)
  BY <1>1, FilePre
<1>5. ASSUME NEW k \in 1 .. n PROVE T(k) <= T(n) /\ T(1) <= T(k) /\ (k # 1 => T(1) < F(k))
  <2>1. T(k) <= T(n)
    BY <1>1, FilesRise
  <2>2. 1 \in 1 .. n /\ k \in 1 .. n
    BY <1>1
  <2>3. T(1) <= T(k) /\ (k # 1 => T(1) < F(k))
    BY <1>1, <2>2, FilesRise
  <2>4. QED
    BY <2>1, <2>3
<1>6. F(1) = 1
  <2>1. FileIs(c, fs, 1)
    BY <1>1, FileFacts
  <2>2. FileOf(c, fs, 1, fs[1].segment)
    BY <2>1 DEF FileIs
  <2>3. QED
    BY <2>2 DEF FileOf
<1>7. ASSUME NEW m \in 1 .. T(n) PROVE \E k \in 1 .. n : m \in F(k) .. T(k)
  <2>1. 1 \in 1 .. n /\ n \in 1 .. n
    BY <1>1
  <2>2. \A x \in F(1) .. T(n) : \E j \in 1 .. n : x \in F(j) .. T(j)
    BY <1>1, <2>1, FilesRise
  <2>3. QED
    BY <1>6, <2>2
<1>8. ASSUME NEW k \in 1 .. n, Led(fs, k) # 0 PROVE F(k) \in U
  <2>0. n \in 1 .. n
    OBVIOUS
  <2>1. PICK f \in Nat \ {0}, t \in Nat, q \in Nat, w \in Nat : f = F(k) /\ t = T(k) /\ q = Led(fs, k) /\ w = T(n)
    BY <1>3, <1>4, <2>0
  <2>2. f <= t /\ t <= w /\ q # 0
    BY <1>3, <1>5, <1>8, <2>1
  <2>3. f \in f .. t /\ f < f + q /\ f \in 1 .. w
    BY <2>2
  <2>4. IsPreCutover(c[f].version)
    BY <1>4, <2>1, <2>3
  <2>5. QED
    BY <1>2, <2>1, <2>3, <2>4 DEF Unrecomputable
<1>9. ASSUME NEW m \in U PROVE \E k \in 1 .. n : m \in F(k) .. T(k) /\ Led(fs, k) # 0
  <2>1. m \in 1 .. T(n) /\ IsPreCutover(c[m].version)
    BY <1>2 DEF Unrecomputable
  <2>2. PICK k \in 1 .. n : m \in F(k) .. T(k)
    BY <1>7, <2>1
  <2>3. PICK f \in Nat \ {0}, q \in Nat, t \in Nat : f = F(k) /\ q = Led(fs, k) /\ t = T(k)
    BY <1>3, <1>4
  <2>4. m \in f .. t
    BY <2>2, <2>3
  <2>5. m < f + q
    BY <1>4, <2>1, <2>2, <2>3
  <2>6. q # 0
    BY <2>4, <2>5
  <2>7. QED
    BY <2>2, <2>3, <2>6
<1>10. (\A k \in 1 .. n : Led(fs, k) = 0) <=> U = {}
  BY <1>8, <1>9
<1>11. (\A k \in 1 .. n : Led(fs, k) = 0 \/ fs[k].segment.genesis) <=> U \subseteq 1 .. T(1)
  <2>1. ASSUME \A k \in 1 .. n : Led(fs, k) = 0 \/ fs[k].segment.genesis, NEW m \in U PROVE m \in 1 .. T(1)
    <3>1. PICK k \in 1 .. n : m \in F(k) .. T(k) /\ Led(fs, k) # 0
      BY <1>9
    <3>2. k = 1
      BY <1>3, <2>1, <3>1
    <3>3. QED
      BY <1>6, <3>1, <3>2
  <2>2. ASSUME U \subseteq 1 .. T(1), NEW k \in 1 .. n, Led(fs, k) # 0 PROVE fs[k].segment.genesis
    <3>1. F(k) \in U
      BY <1>8, <2>2
    <3>1a. 1 \in 1 .. n
      OBVIOUS
    <3>2. PICK f \in Nat \ {0}, t \in Nat : f = F(k) /\ t = T(1)
      BY <1>3, <3>1a
    <3>3. f <= t
      BY <2>2, <3>1, <3>2
    <3>4. k = 1
      BY <1>5, <3>2, <3>3
    <3>5. QED
      BY <1>3, <3>4
  <2>3. QED
    BY <2>1, <2>2
<1>12. QED
  BY <1>1, <1>2, <1>10, <1>11

\* What reports that pass say each, in any order.
LEMMA EachIs ==
    ASSUME CollisionFree, NEW c, NEW fs, NEW action, Kept(c, fs, action), Len(fs) \in Nat \ {0},
           NEW rs, DOMAIN rs = 1 .. Len(fs),
           \A k \in 1 .. Len(fs) : \E j \in 1 .. Len(fs) : IsReport(rs[j], fs[k].segment),
           \A j \in 1 .. Len(fs) : \E k \in 1 .. Len(fs) : IsReport(rs[j], fs[k].segment),
           NEW flags
    PROVE  /\ \A j \in DOMAIN rs : rs[j].passes
           /\ (\A j \in DOMAIN rs : rs[j].pre = 0) <=> Unrecomputable(c, 1, fs[Len(fs)].segment.to) = {}
           /\ EachHolds(rs, flags) <=>
                 /\ Unrecomputable(c, 1, fs[Len(fs)].segment.to) \subseteq 1 .. fs[1].segment.to
                 /\ "sealed" \in flags =>
                       \A k \in 1 .. Len(fs) : Sealing(c, k, fs[k].segment.to) = "sealed"
<1>1. ASSUME NEW v, NEW k \in 1 .. Len(fs), IsReport(v, fs[k].segment)
      PROVE  /\ v.passes = TRUE /\ v.pre = Led(fs, k)
             /\ v.proven = (Led(fs, k) = 0 \/ fs[k].segment.genesis)
             /\ v.header = Sealing(c, k, fs[k].segment.to)
  BY <1>1, OwnHeader DEF IsReport, Led
<1>1a. \A j \in DOMAIN rs : \E k \in 1 .. Len(fs) : IsReport(rs[j], fs[k].segment)
  OBVIOUS
<1>1b. \A k \in 1 .. Len(fs) : \E j \in DOMAIN rs : IsReport(rs[j], fs[k].segment)
  OBVIOUS
<1>2. \A j \in DOMAIN rs : rs[j].passes
  BY <1>1, <1>1a
<1>3. (\A j \in DOMAIN rs : rs[j].pre = 0) <=> \A k \in 1 .. Len(fs) : Led(fs, k) = 0
  <2>1. ASSUME NEW k \in 1 .. Len(fs), \A j \in DOMAIN rs : rs[j].pre = 0 PROVE Led(fs, k) = 0
    <3>1. PICK j \in DOMAIN rs : IsReport(rs[j], fs[k].segment)
      BY <1>1b
    <3>2. rs[j].pre = Led(fs, k) /\ rs[j].header = Sealing(c, k, fs[k].segment.to)
      BY <1>1, <3>1
    <3>3. QED
      BY <2>1, <3>2
  <2>2. ASSUME NEW j \in DOMAIN rs, \A k \in 1 .. Len(fs) : Led(fs, k) = 0 PROVE rs[j].pre = 0
    <3>1. PICK k \in 1 .. Len(fs) : IsReport(rs[j], fs[k].segment)
      BY <1>1a
    <3>2. rs[j].pre = Led(fs, k) /\ rs[j].header = Sealing(c, k, fs[k].segment.to)
      BY <1>1, <3>1
    <3>3. QED
      BY <2>2, <3>2
  <2>3. QED
    BY <2>1, <2>2
<1>4. (\A j \in DOMAIN rs : rs[j].proven) <=> \A k \in 1 .. Len(fs) : Led(fs, k) = 0 \/ fs[k].segment.genesis
  <2>1. ASSUME NEW k \in 1 .. Len(fs), \A j \in DOMAIN rs : rs[j].proven
        PROVE  Led(fs, k) = 0 \/ fs[k].segment.genesis
    <3>1. PICK j \in 1 .. Len(fs) : IsReport(rs[j], fs[k].segment)
      OBVIOUS
    <3>2. rs[j].proven = (Led(fs, k) = 0 \/ fs[k].segment.genesis) /\ rs[j].proven
      BY <1>1, <2>1, <3>1
    <3>3. QED
      BY <3>2
  <2>2. ASSUME NEW j \in DOMAIN rs, \A k \in 1 .. Len(fs) : Led(fs, k) = 0 \/ fs[k].segment.genesis
        PROVE  rs[j].proven
    <3>1. PICK k \in 1 .. Len(fs) : IsReport(rs[j], fs[k].segment)
      OBVIOUS
    <3>2. rs[j].proven = (Led(fs, k) = 0 \/ fs[k].segment.genesis)
      BY <1>1, <3>1
    <3>3. QED
      BY <2>2, <3>2
  <2>3. QED
    BY <2>1, <2>2
<1>5. (\A j \in DOMAIN rs : rs[j].header = "sealed") <=> \A k \in 1 .. Len(fs) : Sealing(c, k, fs[k].segment.to) = "sealed"
  <2>1. ASSUME NEW k \in 1 .. Len(fs), \A j \in DOMAIN rs : rs[j].header = "sealed" PROVE Sealing(c, k, fs[k].segment.to) = "sealed"
    <3>1. PICK j \in DOMAIN rs : IsReport(rs[j], fs[k].segment)
      BY <1>1b
    <3>2. rs[j].pre = Led(fs, k) /\ rs[j].header = Sealing(c, k, fs[k].segment.to)
      BY <1>1, <3>1
    <3>3. QED
      BY <2>1, <3>2
  <2>2. ASSUME NEW j \in DOMAIN rs, \A k \in 1 .. Len(fs) : Sealing(c, k, fs[k].segment.to) = "sealed" PROVE rs[j].header = "sealed"
    <3>1. PICK k \in 1 .. Len(fs) : IsReport(rs[j], fs[k].segment)
      BY <1>1a
    <3>2. rs[j].pre = Led(fs, k) /\ rs[j].header = Sealing(c, k, fs[k].segment.to)
      BY <1>1, <3>1
    <3>3. QED
      BY <2>2, <3>2
  <2>3. QED
    BY <2>1, <2>2
<1>6. EachHolds(rs, flags) <=>
         /\ \A j \in DOMAIN rs : rs[j].proven
         /\ "sealed" \in flags => \A j \in DOMAIN rs : rs[j].header = "sealed"
  BY DEF EachHolds
<1>7. QED
  BY <1>2, <1>3, <1>4, <1>5, <1>6, LedIs

\* The headers a whole series seals.
LEMMA AllHeaders ==
    ASSUME CollisionFree, NEW c, NEW fs, NEW action, Kept(c, fs, action), Len(fs) \in Nat \ {0}
    PROVE  SealHeaders(ReportsOf(fs), UNION {ExportRecords(ReportsOf(fs)[i].doc) : i \in DOMAIN ReportsOf(fs)})
             = [k \in 1 .. Len(fs) |-> Sealing(c, k, fs[Len(fs)].segment.to)]
<1>1. PICK n \in Nat \ {0} : n = Len(fs)
  OBVIOUS
<1>2. PICK R : R = ReportsOf(fs)
  OBVIOUS
<1>3. 1 \in 1 .. n /\ n \in 1 .. n /\ n - 1 + 1 = n
  BY <1>1
<1>4. WindowIs(R, fs, 1, n)
  <2>1. \A k \in 1 .. n : IsReport(R[k], fs[k].segment)
    BY <1>1, <1>2, ReportsAre
  <2>2. DOMAIN R = 1 .. n /\ Len(R) = n
    BY <1>1, <1>2, ReportsAre
  <2>3. \A j \in 1 .. n : 1 + j - 1 = j
    OBVIOUS
  <2>4. QED
    BY <1>3, <2>1, <2>2, <2>3 DEF WindowIs
<1>5. HeadersAre(R, RecordsIn(c, fs[1].segment.from, fs[n].segment.to), c, fs, 1, n)
  BY <1>1, <1>3, <1>4, WindowHeaders
<1>6. SealHeaders(R, UNION {ExportRecords(R[j].doc) : j \in DOMAIN R})
        = [j \in 1 .. n - 1 + 1 |-> Sealing(c, 1 + j - 1, fs[n].segment.to)]
  BY <1>5 DEF HeadersAre
<1>7. [j \in 1 .. n - 1 + 1 |-> Sealing(c, 1 + j - 1, fs[n].segment.to)] = [k \in 1 .. n |-> Sealing(c, k, fs[n].segment.to)]
  <2>1. \A j \in 1 .. n : 1 + j - 1 = j
    OBVIOUS
  <2>2. QED
    BY <1>3, <2>1
<1>8. QED
  BY <1>1, <1>2, <1>6, <1>7

\* The whole series says what its chain says.
LEMMA AllSays ==
    ASSUME CollisionFree, NEW c, NEW fs, NEW action, Kept(c, fs, action), Len(fs) \in Nat \ {0},
           VerifySeries(ReportsOf(fs)).passes
    PROVE  /\ InOrderFrom(Unrecomputable(c, 1, fs[Len(fs)].segment.to))
           /\ VerifySeries(ReportsOf(fs)).passes = TRUE
           /\ VerifySeries(ReportsOf(fs)).unsealed = {k \in 1 .. Len(fs) : Sealing(c, k, fs[Len(fs)].segment.to) = "none"}
           /\ VerifySeries(ReportsOf(fs)).preSeal = {k \in 1 .. Len(fs) : Sealing(c, k, fs[Len(fs)].segment.to) = "preSeal"}
<1>1. PICK n \in Nat \ {0} : n = Len(fs)
  OBVIOUS
<1>2. PICK R : R = ReportsOf(fs)
  OBVIOUS
<1>3. 1 \in 1 .. n /\ n \in 1 .. n /\ n - 1 + 1 = n
  BY <1>1
<1>4. WindowIs(R, fs, 1, n)
  <2>1. \A k \in 1 .. n : IsReport(R[k], fs[k].segment)
    BY <1>1, <1>2, ReportsAre
  <2>2. DOMAIN R = 1 .. n /\ Len(R) = n
    BY <1>1, <1>2, ReportsAre
  <2>3. \A j \in 1 .. n : 1 + j - 1 = j
    OBVIOUS
  <2>4. QED
    BY <1>3, <2>1, <2>2, <2>3 DEF WindowIs
<1>5. fs[1].segment.from = 1
  <2>1. FileIs(c, fs, 1)
    BY <1>1, <1>3, FileFacts
  <2>2. FileOf(c, fs, 1, fs[1].segment)
    BY <2>1 DEF FileIs
  <2>3. QED
    BY <2>2 DEF FileOf
<1>6. PICK U : U = Unrecomputable(c, fs[1].segment.from, fs[n].segment.to)
  OBVIOUS
<1>7. /\ InOrderFrom(U) => SeriesSays(VerifySeries(R), c, fs, 1, n)
      /\ ~InOrderFrom(U) => VerifySeries(R) = Refused
  BY <1>1, <1>3, <1>4, <1>6, SeriesIs
<1>8. InOrderFrom(U)
  BY <1>2, <1>7 DEF Refused
<1>9. SeriesSays(VerifySeries(R), c, fs, 1, n)
  BY <1>7, <1>8
<1>10. /\ VerifySeries(R).passes = TRUE
       /\ VerifySeries(R).unsealed = {j \in 1 .. n - 1 + 1 : Sealing(c, 1 + j - 1, fs[n].segment.to) = "none"}
       /\ VerifySeries(R).preSeal = {j \in 1 .. n - 1 + 1 : Sealing(c, 1 + j - 1, fs[n].segment.to) = "preSeal"}
  BY <1>9 DEF SeriesSays
<1>11. \A j \in 1 .. n : 1 + j - 1 = j
  OBVIOUS
<1>12. /\ VerifySeries(R).unsealed = {j \in 1 .. n : Sealing(c, j, fs[n].segment.to) = "none"}
       /\ VerifySeries(R).preSeal = {j \in 1 .. n : Sealing(c, j, fs[n].segment.to) = "preSeal"}
  BY <1>3, <1>10, <1>11
<1>13. QED
  BY <1>1, <1>2, <1>5, <1>6, <1>8, <1>10, <1>12

LEMMA VerdictTells ==
    ASSUME CollisionFree, NEW c, NEW fs, NEW action, Kept(c, fs, action), Len(fs) \in Nat \ {0},
           VerifySeries(ReportsOf(fs)).passes
    PROVE  VerdictTold(c, ReportsOf(fs), [k \in 1 .. Len(fs) |-> Sealing(c, k, fs[Len(fs)].segment.to)])
<1>1. PICK n \in Nat \ {0} : n = Len(fs)
  OBVIOUS
<1>2. PICK R : R = ReportsOf(fs)
  OBVIOUS
<1>3. PICK H : H = [k \in 1 .. Len(fs) |-> Sealing(c, k, fs[Len(fs)].segment.to)]
  OBVIOUS
<1>4. PICK U : U = Unrecomputable(c, 1, fs[n].segment.to)
  OBVIOUS
<1>5. PICK V : V = [i \in 1 .. n |-> R[n + 1 - i]]
  OBVIOUS
<1>6. /\ R \in Seq(Seen) /\ DOMAIN R = 1 .. n /\ Len(R) = n
      /\ \A k \in 1 .. n : IsReport(R[k], fs[k].segment) /\ R[k].doc = fs[k].segment
  BY <1>1, <1>2, ReportsAre, ZenonT(120) DEF IsReport
<1>7. \A k \in 1 .. n : n + 1 - k \in 1 .. n /\ n + 1 - (n + 1 - k) = k
  OBVIOUS
<1>8. DOMAIN V = 1 .. n /\ \A k \in 1 .. n : V[k] = R[n + 1 - k]
  BY <1>5
<1>9. ASSUME NEW k \in 1 .. n PROVE fs[k].segment.segmentSeq = k /\ (fs[k].segment.genesis <=> k = 1)
  <2>1. FileIs(c, fs, k)
    BY <1>1, FileFacts
  <2>2. FileOf(c, fs, k, fs[k].segment)
    BY <2>1 DEF FileIs
  <2>3. QED
    BY <2>2 DEF FileOf
<1>10. InOrder(V) = R
  <2>1. R = [k \in 1 .. n |-> R[k]]
    BY <1>6
  <2>2. \A k \in 1 .. n : R[k].doc.segmentSeq = k
    BY <1>6, <1>9
  <2>3. QED
    BY <1>5, <2>1, <2>2, Reordered
<1>11. ASSUME NEW rs \in {R, V}, NEW flags
       PROVE  /\ \A j \in DOMAIN rs : rs[j].passes
              /\ (\A j \in DOMAIN rs : rs[j].pre = 0) <=> U = {}
              /\ EachHolds(rs, flags) <=>
                    /\ U \subseteq 1 .. fs[1].segment.to
                    /\ "sealed" \in flags => \A k \in 1 .. n : Sealing(c, k, fs[k].segment.to) = "sealed"
  <2>1. DOMAIN rs = 1 .. n
    BY <1>6, <1>8
  <2>2. ASSUME NEW k \in 1 .. n PROVE \E j \in 1 .. n : IsReport(rs[j], fs[k].segment)
    <3>1. IsReport(R[k], fs[k].segment) /\ V[n + 1 - k] = R[k]
      BY <1>6, <1>7, <1>8
    <3>2. QED
      BY <1>7, <3>1
  <2>3. ASSUME NEW j \in 1 .. n PROVE \E k \in 1 .. n : IsReport(rs[j], fs[k].segment)
    <3>1. IsReport(R[j], fs[j].segment) /\ V[j] = R[n + 1 - j] /\ IsReport(R[n + 1 - j], fs[n + 1 - j].segment)
      BY <1>6, <1>7, <1>8
    <3>2. QED
      BY <1>7, <3>1
  <2>4. QED
    BY <1>1, <1>4, <2>1, <2>2, <2>3, EachIs, ZenonT(60)
<1>12. V # <<>>
  <2>1. 1 \in DOMAIN V
    BY <1>8
  <2>2. QED
    BY <2>1
<1>13. ASSUME NEW k \in 1 .. n
       PROVE  (Sealing(c, k, fs[k].segment.to) = "sealed")
                <=> RecordAt(c, k) <= R[k].doc.to /\ H[k] = "sealed"
  <2>0. PICK t, w : t = fs[k].segment.to /\ w = fs[n].segment.to
    OBVIOUS
  <2>1. PICK r \in Nat : r = RecordAt(c, k)
    BY <1>1, RecordFacts
  <2>2. t \in Nat /\ w \in Nat
    <3>1. FileIs(c, fs, k) /\ FileIs(c, fs, n)
      BY <1>1, FileFacts
    <3>2. FileOf(c, fs, k, fs[k].segment) /\ FileOf(c, fs, n, fs[n].segment)
      BY <3>1 DEF FileIs
    <3>3. QED
      BY <2>0, <3>2 DEF FileOf
  <2>3. t <= w
    BY <1>1, <2>0, FilesRise
  <2>4. H[k] = Sealing(c, k, w) /\ R[k].doc.to = t
    BY <1>1, <1>3, <1>6, <2>0
  <2>5. QED
    BY <2>0, <2>1, <2>2, <2>3, <2>4 DEF Sealing
<1>14. /\ VerifySeries(R).passes = TRUE
       /\ VerifySeries(R).unsealed = {k \in 1 .. n : H[k] = "none"}
       /\ VerifySeries(R).preSeal = {k \in 1 .. n : H[k] = "preSeal"}
  <2>1. \A k \in 1 .. n : H[k] = Sealing(c, k, fs[n].segment.to)
    BY <1>1, <1>3
  <2>2. /\ {k \in 1 .. n : Sealing(c, k, fs[n].segment.to) = "none"} = {k \in 1 .. n : H[k] = "none"}
        /\ {k \in 1 .. n : Sealing(c, k, fs[n].segment.to) = "preSeal"} = {k \in 1 .. n : H[k] = "preSeal"}
    BY <2>1
  <2>3. /\ VerifySeries(ReportsOf(fs)).passes = TRUE
        /\ VerifySeries(ReportsOf(fs)).unsealed = {k \in 1 .. Len(fs) : Sealing(c, k, fs[Len(fs)].segment.to) = "none"}
        /\ VerifySeries(ReportsOf(fs)).preSeal = {k \in 1 .. Len(fs) : Sealing(c, k, fs[Len(fs)].segment.to) = "preSeal"}
    BY AllSays
  <2>4. QED
    BY <1>1, <1>2, <2>2, <2>3
<1>15. \A k \in 1 .. n : H[k] \in {"none", "preSeal", "sealed"}
  BY <1>1, <1>3 DEF Sealing
<1>16. ASSUME NEW flags \in SUBSET Flags
       PROVE  Verdict(V, flags) =
                 IF /\ "strict" \in flags => U = {}
                    /\ "series" \notin flags => U \subseteq 1 .. R[1].doc.to
                    /\ "sealed" \in flags =>
                          IF "series" \in flags THEN \A i \in 1 .. n : H[i] = "sealed"
                          ELSE \A i \in 1 .. n : RecordAt(c, i) <= R[i].doc.to /\ H[i] = "sealed"
                 THEN 0 ELSE 1
  <2>1. PICK O : O = IF flags \cap {"series", "genesis"} # {} THEN R ELSE V
    OBVIOUS
  <2>2. (\A i \in DOMAIN V : V[i].passes /\ ("strict" \in flags => V[i].pre = 0)) <=> ("strict" \in flags => U = {})
    <3>1. /\ \A j \in DOMAIN V : V[j].passes
          /\ (\A j \in DOMAIN V : V[j].pre = 0) <=> U = {}
      BY <1>11
    <3>2. QED
      BY <3>1
  <2>3. Verdict(V, flags) = IF "strict" \in flags => U = {} THEN OrderedVerdict(O, flags) ELSE 1
    BY <1>10, <1>12, <2>1, <2>2 DEF Verdict
  <2>4. "genesis" \in flags => O[1].doc.genesis
    <3>1. R[1].doc.genesis
      BY <1>6, <1>9
    <3>2. QED
      BY <2>1, <3>1
  <2>5. CASE "series" \in flags
    <3>1. O = R
      BY <2>1, <2>5
    <3>2. SeriesHolds(VerifySeries(R), flags) <=> ("sealed" \in flags => \A i \in 1 .. n : H[i] = "sealed")
      <4>1. SeriesHolds(VerifySeries(R), flags)
              <=> ("sealed" \in flags => {k \in 1 .. n : H[k] = "none"} = {} /\ {k \in 1 .. n : H[k] = "preSeal"} = {})
        BY <1>14 DEF SeriesHolds
      <4>2. QED
        BY <1>15, <4>1
    <3>3. OrderedVerdict(O, flags) = IF SeriesHolds(VerifySeries(R), flags) THEN 0 ELSE 1
      BY <2>4, <2>5, <3>1 DEF OrderedVerdict
    <3>4. QED
      BY <2>3, <2>5, <3>2, <3>3
  <2>6. CASE "series" \notin flags
    <3>1. OrderedVerdict(O, flags) = IF EachHolds(O, flags) THEN 0 ELSE 1
      BY <2>4, <2>6 DEF OrderedVerdict
    <3>2. O \in {R, V}
      BY <2>1
    <3>3. EachHolds(O, flags) <=>
                    /\ U \subseteq 1 .. fs[1].segment.to
                    /\ "sealed" \in flags => \A k \in 1 .. n : Sealing(c, k, fs[k].segment.to) = "sealed"
      BY <1>11, <3>2
    <3>4. 1 \in 1 .. n
      OBVIOUS
    <3>5. R[1].doc.to = fs[1].segment.to
      BY <1>6, <3>4
    <3>6. EachHolds(O, flags) <=>
                    /\ U \subseteq 1 .. R[1].doc.to
                    /\ "sealed" \in flags => \A i \in 1 .. n : RecordAt(c, i) <= R[i].doc.to /\ H[i] = "sealed"
      BY <1>13, <3>3, <3>5
    <3>7. QED
      BY <2>3, <2>6, <3>1, <3>6
  <2>7. QED
    BY <2>5, <2>6
<1>17. R[n].doc.to = fs[n].segment.to
  <2>1. n \in 1 .. n
    OBVIOUS
  <2>2. QED
    BY <1>6, <2>1
<1>18. VerdictTold(c, R, H)
  <2>1. SUFFICES ASSUME NEW flags \in SUBSET Flags
                 PROVE  Verdict([i \in 1 .. Len(R) |-> R[Len(R) + 1 - i]], flags) =
                    IF /\ "strict" \in flags => Unrecomputable(c, 1, R[Len(R)].doc.to) = {}
                       /\ "series" \notin flags => Unrecomputable(c, 1, R[Len(R)].doc.to) \subseteq 1 .. R[1].doc.to
                       /\ "sealed" \in flags =>
                             IF "series" \in flags THEN \A i \in 1 .. Len(R) : H[i] = "sealed"
                             ELSE \A i \in 1 .. Len(R) : RecordAt(c, i) <= R[i].doc.to /\ H[i] = "sealed"
                    THEN 0 ELSE 1
    BY DEF VerdictTold
  <2>2. Len(R) = n /\ V = [i \in 1 .. Len(R) |-> R[Len(R) + 1 - i]] /\ U = Unrecomputable(c, 1, R[Len(R)].doc.to)
    BY <1>4, <1>5, <1>6, <1>17
  <2>3. QED
    BY <1>16, <2>2
<1>19. QED
  BY <1>2, <1>3, <1>18

-----------------------------------------------------------------------------
\* A file lost, doubled, or of a chain with another beginning.

LinkAt(rs, j) ==
    /\ Joins(rs[j - 1].doc, rs[j].doc)
    /\ Meets(rs[j - 1].doc, rs[j - 1].digest, rs[j].doc.previous)

LEMMA SeriesVerdict ==
    ASSUME NEW rs, rs # <<>>
    PROVE  Verdict(rs, {"series"}) = 0
             <=> (\A i \in DOMAIN rs : rs[i].passes) /\ VerifySeries(InOrder(rs)).passes
<1>1. "series" \in {"series"} /\ "genesis" \notin {"series"} /\ "strict" \notin {"series"} /\ "sealed" \notin {"series"}
  OBVIOUS
<1>2. {"series"} \cap {"series", "genesis"} # {}
  OBVIOUS
<1>3. Verdict(rs, {"series"}) = IF \A i \in DOMAIN rs : rs[i].passes THEN OrderedVerdict(InOrder(rs), {"series"}) ELSE 1
  BY <1>1, <1>2 DEF Verdict
<1>4. OrderedVerdict(InOrder(rs), {"series"}) = IF VerifySeries(InOrder(rs)).passes THEN 0 ELSE 1
  BY <1>1 DEF OrderedVerdict, SeriesHolds
<1>5. QED
  BY <1>3, <1>4

LEMMA BrokenSeries ==
    ASSUME NEW rs, NEW n \in Nat, Len(rs) = n, NEW j \in 2 .. n, ~LinkAt(rs, j)
    PROVE  ~VerifySeries(rs).passes
<1>1. VerifySeries(rs) = Refused
  BY DEF VerifySeries, LinkAt
<1>2. QED
  BY <1>1 DEF Refused

LEMMA LengthOf ==
    ASSUME NEW rs, NEW n \in Nat, rs = [k \in 1 .. n |-> rs[k]]
    PROVE  Len(rs) = n
<1>1. DOMAIN rs = 1 .. n
  OBVIOUS
<1>2. rs \in Seq({rs[k] : k \in 1 .. n})
  OBVIOUS
<1>3. QED
  BY <1>1, <1>2

\* Series that are missed by their digests have no entry in common.
LEMMA HashesDiffer ==
    ASSUME CollisionFree, NEW action, NEW other, action # other, NEW c, WellWritten(c, action),
           NEW g, WellWritten(g, other), NEW t \in Nat \ {0}, t <= Len(c), t <= Len(g)
    PROVE  c[t].hash # g[t].hash
<1>1. PICK p, q \in Nat : p = Len(c) /\ q = Len(g)
  BY DEF WellWritten
<1>2. c \in Seq(Entries) /\ g \in Seq(Entries)
  BY DEF WellWritten
<1>2a. p = Len(c) /\ p \in Nat
  BY <1>1
<1>3. ASSUME NEW m \in Nat \ {0}, m <= p, m <= q
      PROVE  /\ c[m] \in Entries /\ g[m] \in Entries
             /\ c[m].hash = Sha(WrittenText(c[m])) /\ g[m].hash = Sha(WrittenText(g[m]))
             /\ c[m].prevHash = (IF m = 1 THEN GenesisHash ELSE c[m - 1].hash)
             /\ g[m].prevHash = (IF m = 1 THEN GenesisHash ELSE g[m - 1].hash)
  <2>1. m \in 1 .. Len(c) /\ m \in 1 .. Len(g)
    BY <1>1, <1>3
  <2>2. StandsAt(c, action, m) /\ StandsAt(g, other, m)
    BY <2>1 DEF WellWritten
  <2>3. c[m] \in Entries /\ g[m] \in Entries
    BY <1>2, <2>1
  <2>4. QED
    BY <2>2, <2>3, WrittenForm DEF StandsAt
<1>4. DEFINE S == {m \in Nat \ {0} : m <= p /\ m <= q /\ c[m].hash = g[m].hash}
<1>5. ASSUME NEW m \in S PROVE m # 1 /\ m - 1 \in S
  <2>1. m \in Nat \ {0} /\ m <= p /\ m <= q /\ c[m].hash = g[m].hash
    OBVIOUS
  <2>2. PICK x \in Seq(Int), y \in Seq(Int) : x = WrittenText(c[m]) /\ y = WrittenText(g[m])
    BY <1>3, <2>1, WrittenForm
  <2>3. Sha(x) = Sha(y)
    BY <1>3, <2>1, <2>2
  <2>4. x = y
    BY <2>3, HashIsNumber
  <2>5. c[m].prevHash = g[m].prevHash /\ c[m].action = g[m].action
    <3>1. c[m] \in Entries /\ g[m] \in Entries
      BY <1>3, <2>1
    <3>2. x[1] = c[m].prevHash /\ x[4] = c[m].action
      BY <2>2, <3>1, WrittenForm
    <3>3. y[1] = g[m].prevHash /\ y[4] = g[m].action
      BY <2>2, <3>1, WrittenForm
    <3>4. QED
      BY <2>4, <3>2, <3>3
  <2>6. m # 1
    <3>1. SUFFICES ASSUME m = 1 PROVE FALSE
      OBVIOUS
    <3>2. Len(c) > 0 /\ Len(g) > 0
      BY <1>1, <2>1
    <3>3. c[1].action = action /\ g[1].action = other
      BY <3>2 DEF WellWritten
    <3>4. QED
      BY <2>5, <3>1, <3>3
  <2>7. c[m - 1].hash = g[m - 1].hash
    BY <1>3, <2>1, <2>5, <2>6
  <2>8. m - 1 \in Nat \ {0} /\ m - 1 <= p /\ m - 1 <= q
    BY <1>1, <2>1, <2>6
  <2>9. QED
    BY <2>6, <2>7, <2>8
<1>6. SUFFICES ASSUME c[t].hash = g[t].hash PROVE FALSE
  OBVIOUS
<1>7. t \in S \cap Nat
  BY <1>1, <1>6
<1>8. HIDE DEF S
<1>9. PICK m \in S \cap Nat : \A k \in S \cap Nat : m <= k
  BY <1>7, FirstOf
<1>10. m - 1 \in S /\ m # 1 /\ m # 0
  <2>1. m # 0
    BY <1>9 DEF S
  <2>2. QED
    BY <1>5, <1>9, <2>1
<1>11. m - 1 \in S \cap Nat
  BY <1>9, <1>10
<1>12. m <= m - 1
  BY <1>9, <1>11
<1>13. QED
  BY <1>9, <1>12

LEMMA TwinDiffers ==
    ASSUME CollisionFree, NEW action, NEW other, action # other, NEW c, NEW fs, Kept(c, fs, action),
           NEW g, NEW gs, Kept(g, gs, other), NEW k \in 1 .. Len(fs), k \in 1 .. Len(gs)
    PROVE  Digest(fs[k].segment) # Digest(gs[k].segment)
<1>1. FileIs(c, fs, k) /\ FileIs(g, gs, k)
  BY FileFacts
<1>2. FileOf(c, fs, k, fs[k].segment) /\ FileOf(g, gs, k, gs[k].segment)
  BY <1>1 DEF FileIs
<1>3. PICK x \in Docs, y \in Docs : x = fs[k].segment /\ y = gs[k].segment
  BY <1>2 DEF FileOf
<1>4. /\ x.endHash = c[x.to].hash /\ x.to \in Nat /\ x.from \in Nat \ {0} /\ x.from <= x.to /\ x.to <= Len(c)
  BY <1>2, <1>3 DEF FileOf
<1>5. /\ y.endHash = g[y.to].hash /\ y.to \in Nat /\ y.to <= Len(g)
  BY <1>2, <1>3 DEF FileOf
<1>6. SUFFICES ASSUME Digest(x) = Digest(y) PROVE FALSE
  BY <1>3
<1>7. Claimed(x) = Claimed(y)
  BY <1>6, DigestSays
<1>8. x.to = y.to /\ x.endHash = y.endHash
  <2>1. Claimed(x)[7] = x.to /\ Claimed(x)[12] = x.endHash
    BY DEF Claimed
  <2>2. Claimed(y)[7] = y.to /\ Claimed(y)[12] = y.endHash
    BY DEF Claimed
  <2>3. QED
    BY <1>7, <2>1, <2>2
<1>9. PICK t \in Nat \ {0} : t = x.to
  BY <1>4
<1>10. WellWritten(c, action) /\ WellWritten(g, other)
  BY DEF Kept
<1>11. t <= Len(c) /\ t <= Len(g)
  BY <1>4, <1>5, <1>8, <1>9
<1>12. c[t].hash # g[t].hash
  BY <1>10, <1>11, HashesDiffer
<1>13. QED
  BY <1>4, <1>5, <1>8, <1>9, <1>12

LEMMA LostTold ==
    ASSUME CollisionFree, NEW c, NEW fs, NEW action, Kept(c, fs, action), NEW n \in Nat \ {0}, n = Len(fs),
           NEW i \in 2 .. n - 1
    PROVE  Verdict(SubSeq(ReportsOf(fs), 1, i - 1) \o SubSeq(ReportsOf(fs), i + 1, n), {"series"}) # 0
<1>1. PICK R \in Seq(Seen) : R = ReportsOf(fs)
  BY ReportsAre
<1>2. Len(R) = n /\ \A k \in 1 .. n : R[k].doc = fs[k].segment
  BY <1>1, ReportsAre DEF IsReport
<1>3. ASSUME NEW k \in 1 .. n PROVE R[k].doc.segmentSeq = k
  <2>1. FileIs(c, fs, k)
    BY FileFacts
  <2>2. FileOf(c, fs, k, fs[k].segment)
    BY <2>1 DEF FileIs
  <2>3. QED
    BY <1>2, <2>2 DEF FileOf
<1>4. PICK w : w = SubSeq(R, 1, i - 1) \o SubSeq(R, i + 1, n)
  OBVIOUS
<1>5. /\ SubSeq(R, 1, i - 1) \in Seq(Seen) /\ Len(SubSeq(R, 1, i - 1)) = i - 1
      /\ \A k \in 1 .. i - 1 : SubSeq(R, 1, i - 1)[k] = R[k]
  BY <1>2
<1>6. /\ SubSeq(R, i + 1, n) \in Seq(Seen) /\ Len(SubSeq(R, i + 1, n)) = n - i
      /\ \A k \in 1 .. n - i : SubSeq(R, i + 1, n)[k] = R[i + k]
  <2>1. \A k \in 1 .. n - i : i + 1 + k - 1 = i + k
    OBVIOUS
  <2>2. SubSeq(R, i + 1, n) \in Seq(Seen) /\ Len(SubSeq(R, i + 1, n)) = n - (i + 1) + 1
    BY <1>2
  <2>3. \A k \in 1 .. n - i : SubSeq(R, i + 1, n)[k] = R[i + 1 + k - 1]
    BY <1>2
  <2>4. QED
    BY <2>1, <2>2, <2>3
<1>7. /\ w \in Seq(Seen) /\ Len(w) = n - 1
      /\ \A k \in 1 .. n - 1 : w[k] = R[IF k < i THEN k ELSE k + 1]
  <2>1. w \in Seq(Seen) /\ Len(w) = n - 1
    BY <1>4, <1>5, <1>6
  <2>2. ASSUME NEW k \in 1 .. n - 1 PROVE w[k] = R[IF k < i THEN k ELSE k + 1]
    <3>1. CASE k < i
      <4>1. w[k] = SubSeq(R, 1, i - 1)[k]
        BY <1>4, <1>5, <1>6, <3>1
      <4>2. QED
        BY <1>5, <3>1, <4>1
    <3>2. CASE ~(k < i)
      <4>1. PICK q \in 1 .. n - i : q = k - (i - 1)
        BY <3>2
      <4>2. w[k] = SubSeq(R, i + 1, n)[q]
        BY <1>4, <1>5, <1>6, <3>2, <4>1
      <4>3. i + q = k + 1
        BY <4>1
      <4>4. QED
        BY <1>6, <3>2, <4>1, <4>2, <4>3
    <3>3. QED
      BY <3>1, <3>2
  <2>3. QED
    BY <2>1, <2>2
<1>8. ASSUME NEW k \in 1 .. n - 1 PROVE w[k].doc.segmentSeq = IF k < i THEN k ELSE k + 1
  <2>1. (IF k < i THEN k ELSE k + 1) \in 1 .. n
    OBVIOUS
  <2>2. QED
    BY <1>3, <1>7, <2>1
<1>9. InOrder(w) = w
  <2>1. n - 1 \in Nat /\ w = [k \in 1 .. n - 1 |-> w[k]]
    BY <1>7
  <2>2. \A k \in 1 .. n - 1 : w[k].doc.segmentSeq \in Int
    BY <1>8
  <2>3. \A j, k \in 1 .. n - 1 : j < k => w[j].doc.segmentSeq <= w[k].doc.segmentSeq
    <3>1. SUFFICES ASSUME NEW j \in 1 .. n - 1, NEW k \in 1 .. n - 1, j < k
                   PROVE  w[j].doc.segmentSeq <= w[k].doc.segmentSeq
      OBVIOUS
    <3>2. (IF j < i THEN j ELSE j + 1) <= IF k < i THEN k ELSE k + 1
      BY <3>1
    <3>3. QED
      BY <1>8, <3>2
  <2>4. QED
    BY <2>1, <2>2, <2>3, StaysInOrder
<1>10. i \in 2 .. n - 1 /\ i - 1 \in 1 .. n - 1 /\ i \in 1 .. n - 1 /\ i - 1 < i
  OBVIOUS
<1>11. w[i - 1].doc.segmentSeq = i - 1 /\ w[i].doc.segmentSeq = i + 1
  BY <1>8, <1>10
<1>12. ~LinkAt(w, i)
  BY <1>11 DEF LinkAt, Joins
<1>13. ~VerifySeries(w).passes
  BY <1>7, <1>10, <1>12, BrokenSeries
<1>14. w # <<>>
  BY <1>7
<1>15. Verdict(w, {"series"}) # 0
  BY <1>9, <1>13, <1>14, SeriesVerdict
<1>16. QED
  BY <1>1, <1>4, <1>15

LEMMA DoubledTold ==
    ASSUME CollisionFree, NEW c, NEW fs, NEW action, Kept(c, fs, action), NEW n \in Nat \ {0}, n = Len(fs),
           NEW i \in 1 .. n
    PROVE  Verdict(Append(ReportsOf(fs), ReportsOf(fs)[i]), {"series"}) # 0
<1>1. PICK R \in Seq(Seen) : R = ReportsOf(fs)
  BY ReportsAre
<1>2. Len(R) = n /\ \A k \in 1 .. n : R[k].doc = fs[k].segment
  BY <1>1, ReportsAre DEF IsReport
<1>3. ASSUME NEW k \in 1 .. n PROVE R[k].doc.segmentSeq = k
  <2>1. FileIs(c, fs, k)
    BY FileFacts
  <2>2. FileOf(c, fs, k, fs[k].segment)
    BY <2>1 DEF FileIs
  <2>3. QED
    BY <1>2, <2>2 DEF FileOf
<1>4. PICK w : w = Append(R, R[i])
  OBVIOUS
<1>5. /\ Len(w) = n + 1 /\ DOMAIN w = 1 .. n + 1 /\ \A k \in 1 .. n : w[k] = R[k]
      /\ w[n + 1] = R[i]
  BY <1>2, <1>4
<1>6. w[n + 1] = w[i] /\ \A k \in 1 .. n : w[k].doc.segmentSeq = k
  BY <1>3, <1>5
<1>7. PICK o : o = InOrder(w)
  OBVIOUS
<1>8. DOMAIN o = 1 .. n + 1 /\ o = [k \in 1 .. n + 1 |-> o[k]] /\ o[i] = w[i] /\ o[i + 1] = w[i]
  BY <1>5, <1>6, <1>7, Doubled
<1>9. Len(o) = n + 1
  <2>1. n + 1 \in Nat
    OBVIOUS
  <2>2. QED
    BY <1>8, <2>1, LengthOf
<1>10. ~LinkAt(o, i + 1)
  <2>1. i + 1 - 1 = i /\ i # i + 1
    OBVIOUS
  <2>2. o[i + 1].doc.segmentSeq = i /\ o[i].doc.segmentSeq = i
    BY <1>6, <1>8
  <2>3. QED
    BY <2>1, <2>2 DEF LinkAt, Joins
<1>11. ~VerifySeries(o).passes
  <2>1. n + 1 \in Nat /\ i + 1 \in 2 .. n + 1
    OBVIOUS
  <2>2. QED
    BY <1>9, <1>10, <2>1, BrokenSeries
<1>12. w # <<>>
  BY <1>5
<1>13. Verdict(w, {"series"}) # 0
  BY <1>7, <1>11, <1>12, SeriesVerdict
<1>14. QED
  BY <1>1, <1>4, <1>13

LEMMA TwinTold ==
    ASSUME CollisionFree, NEW c, NEW fs, NEW action, Kept(c, fs, action), NEW n \in Nat \ {0, 1}, n = Len(fs),
           NEW g, NEW gs, NEW other, Kept(g, gs, other), action # other, NEW i \in 1 .. n, i \in 1 .. Len(gs)
    PROVE  Verdict([ReportsOf(fs) EXCEPT ![i] = ReportsOf(gs)[i]], {"series"}) # 0
<1>1. PICK R \in Seq(Seen) : R = ReportsOf(fs)
  BY ReportsAre
<1>2. PICK o : o = ReportsOf(gs)[i]
  OBVIOUS
<1>3. DOMAIN R = 1 .. n /\ \A k \in 1 .. n : R[k].doc = fs[k].segment /\ R[k].digest = Digest(fs[k].segment)
  BY <1>1, ReportsAre DEF IsReport
<1>4. o.doc = gs[i].segment /\ o.digest = Digest(gs[i].segment)
  <2>1. \A k \in 1 .. Len(gs) : IsReport(ReportsOf(gs)[k], gs[k].segment)
    BY ReportsAre
  <2>2. IsReport(o, gs[i].segment)
    BY <1>2, <2>1
  <2>3. QED
    BY <2>2 DEF IsReport
<1>5. ASSUME NEW k \in 1 .. n PROVE fs[k].segment.segmentSeq = k
  <2>1. FileIs(c, fs, k)
    BY FileFacts
  <2>2. FileOf(c, fs, k, fs[k].segment)
    BY <2>1 DEF FileIs
  <2>3. QED
    BY <2>2 DEF FileOf
<1>6. gs[i].segment.segmentSeq = i
  <2>1. FileIs(g, gs, i)
    BY FileFacts
  <2>2. FileOf(g, gs, i, gs[i].segment)
    BY <2>1 DEF FileIs
  <2>3. QED
    BY <2>2 DEF FileOf
<1>7. PICK w : w = [R EXCEPT ![i] = o]
  OBVIOUS
<1>8. DOMAIN w = 1 .. n /\ w = [k \in 1 .. n |-> w[k]] /\ w[i] = o /\ \A k \in 1 .. n : k # i => w[k] = R[k]
  BY <1>3, <1>7
<1>9. Len(w) = n
  BY <1>8, LengthOf
<1>10. InOrder(w) = w
  <2>1. \A k \in 1 .. n : w[k].doc.segmentSeq = k
    BY <1>3, <1>4, <1>5, <1>6, <1>8
  <2>2. \A k \in 1 .. n : w[k].doc.segmentSeq \in Int
    BY <2>1
  <2>3. \A j, k \in 1 .. n : j < k => w[j].doc.segmentSeq <= w[k].doc.segmentSeq
    BY <2>1
  <2>4. QED
    BY <1>8, <2>2, <2>3, StaysInOrder
<1>11. \E j \in 2 .. n : ~LinkAt(w, j)
  <2>1. CASE i # n
    <3>1. i + 1 \in 2 .. n /\ i + 1 \in 2 .. Len(fs) /\ i + 1 - 1 = i /\ i + 1 # i /\ i + 1 \in 1 .. n
      BY <2>1
    <3>2. fs[i + 1].segment.previous.digest = Digest(fs[i + 1 - 1].segment)
      BY <3>1, Linked
    <3>3. Digest(fs[i].segment) # Digest(gs[i].segment)
      BY TwinDiffers
    <3>4. w[i + 1].doc.previous.digest # w[i].digest
      BY <1>3, <1>4, <1>8, <3>1, <3>2, <3>3
    <3>5. ~LinkAt(w, i + 1)
      BY <3>1, <3>4 DEF LinkAt, Meets
    <3>6. QED
      BY <3>1, <3>5
  <2>2. CASE i = n
    <3>1. n \in 2 .. n /\ n - 1 # n /\ n - 1 \in 1 .. n /\ n \in 2 .. Len(gs) /\ n - 1 \in 1 .. Len(gs) /\ n - 1 \in 1 .. Len(fs)
      BY <2>2
    <3>2. gs[n].segment.previous.digest = Digest(gs[n - 1].segment)
      BY <3>1, Linked
    <3>3. Digest(fs[n - 1].segment) # Digest(gs[n - 1].segment)
      BY <3>1, TwinDiffers
    <3>4. w[n].doc.previous.digest # w[n - 1].digest
      BY <1>3, <1>4, <1>8, <2>2, <3>1, <3>2, <3>3
    <3>5. ~LinkAt(w, n)
      BY <3>4 DEF LinkAt, Meets
    <3>6. QED
      BY <3>1, <3>5
  <2>3. QED
    BY <2>1, <2>2
<1>12. ~VerifySeries(InOrder(w)).passes
  BY <1>9, <1>10, <1>11, BrokenSeries
<1>13. w # <<>>
  BY <1>8
<1>14. Verdict(w, {"series"}) # 0
  BY <1>12, <1>13, SeriesVerdict
<1>15. QED
  BY <1>1, <1>2, <1>7, <1>14

LEMMA FilesTell ==
    ASSUME CollisionFree, NEW c, NEW fs, NEW action, Kept(c, fs, action), Len(fs) \in Nat \ {0},
           NEW g, NEW gs, NEW other, Kept(g, gs, other), action # other
    PROVE  FilesTold(c, ReportsOf(fs), ReportsOf(gs))
<1>1. PICK n \in Nat \ {0} : n = Len(fs)
  OBVIOUS
<1>2. PICK R, O : R = ReportsOf(fs) /\ O = ReportsOf(gs)
  OBVIOUS
<1>3. Len(R) = n /\ DOMAIN O = 1 .. Len(gs)
  BY <1>1, <1>2, ReportsAre
<1>4. \A i \in 2 .. n - 1 : Verdict(SubSeq(R, 1, i - 1) \o SubSeq(R, i + 1, n), {"series"}) # 0
  BY <1>1, <1>2, LostTold
<1>5. \A i \in 1 .. n : Verdict(Append(R, R[i]), {"series"}) # 0
  BY <1>1, <1>2, DoubledTold
<1>6. ASSUME n > 1, NEW i \in DOMAIN O \cap (1 .. n) PROVE Verdict([R EXCEPT ![i] = O[i]], {"series"}) # 0
  <2>1. n \in Nat \ {0, 1} /\ i \in 1 .. n /\ i \in 1 .. Len(gs)
    BY <1>3, <1>6
  <2>2. QED
    BY <1>1, <1>2, <2>1, TwinTold
<1>7. FilesTold(c, R, O)
  BY <1>3, <1>4, <1>5, <1>6 DEF FilesTold
<1>8. QED
  BY <1>2, <1>7

-----------------------------------------------------------------------------
\* One thing of a document is not what was written.

Numbered == {"formatVersion", "segmentId", "segmentSeq", "tenant", "exportedAt", "from", "to",
             "count", "firstAt", "lastAt", "startPrevHash", "endHash"}
DocFields == Numbered \cup {"genesis", "previous", "entries"}

LEMMA DocChanged ==
    ASSUME NEW D \in Docs, NEW p \in DocFields, NEW v
    PROVE  /\ DOMAIN [D EXCEPT ![p] = v] = DocFields
           /\ [D EXCEPT ![p] = v][p] = v
           /\ \A q \in DocFields \ {p} : [D EXCEPT ![p] = v][q] = D[q]
<1>1. DOMAIN D = DocFields
  BY DEF Docs, DocFields, Numbered
<1>2. QED
  BY <1>1

LEMMA DocIs ==
    ASSUME NEW x, x = [q \in DocFields |-> x[q]], \A q \in Numbered : x[q] \in Int, x["genesis"] \in BOOLEAN,
           x["previous"] \in {NoSegment} \cup Pointers, x["entries"] \in Seq(Entries)
    PROVE  x \in Docs
<1>1. PICK a1, a2, a3, a4, a5, a6, a7, a8, a9, a10, a11, a12, a13, a14, a15 :
         /\ a1 = x["formatVersion"] /\ a2 = x["segmentId"] /\ a3 = x["segmentSeq"] /\ a4 = x["tenant"]
         /\ a5 = x["exportedAt"] /\ a6 = x["from"] /\ a7 = x["to"] /\ a8 = x["count"] /\ a9 = x["firstAt"]
         /\ a10 = x["lastAt"] /\ a11 = x["startPrevHash"] /\ a12 = x["endHash"] /\ a13 = x["genesis"]
         /\ a14 = x["previous"] /\ a15 = x["entries"]
  OBVIOUS
<1>2. /\ a1 \in Int /\ a2 \in Int /\ a3 \in Int /\ a4 \in Int /\ a5 \in Int /\ a6 \in Int /\ a7 \in Int
      /\ a8 \in Int /\ a9 \in Int /\ a10 \in Int /\ a11 \in Int /\ a12 \in Int /\ a13 \in BOOLEAN
      /\ a14 \in {NoSegment} \cup Pointers /\ a15 \in Seq(Entries)
  BY <1>1 DEF Numbered
<1>3. x = [formatVersion |-> a1, segmentId |-> a2, segmentSeq |-> a3, tenant |-> a4, exportedAt |-> a5,
           from |-> a6, to |-> a7, count |-> a8, firstAt |-> a9, lastAt |-> a10, startPrevHash |-> a11,
           endHash |-> a12, genesis |-> a13, previous |-> a14, entries |-> a15]
  BY <1>1 DEF DocFields, Numbered
<1>4. QED
  BY <1>2, <1>3 DEF Docs

\* A document with a field changed.
But(x, D, p) == x \in Docs /\ \A q \in DocFields \ {p} : x[q] = D[q]

LEMMA NumberChanged ==
    ASSUME NEW D \in Docs, NEW p \in Numbered
    PROVE  But([D EXCEPT ![p] = @ + 1], D, p) /\ [D EXCEPT ![p] = @ + 1][p] = D[p] + 1 /\ D[p] \in Int
<1>1. D[p] \in Int
  BY DEF Docs, Numbered
<1>2. PICK v \in Int : v = D[p] + 1
  BY <1>1
<1>3. PICK x : x = [D EXCEPT ![p] = v]
  OBVIOUS
<1>4. p \in DocFields
  BY DEF DocFields
<1>5. DOMAIN x = DocFields /\ x[p] = v /\ \A q \in DocFields \ {p} : x[q] = D[q]
  BY <1>3, <1>4, DocChanged
<1>6. x = [q \in DocFields |-> x[q]]
  BY <1>3, <1>5
<1>7. \A q \in Numbered : D[q] \in Int
  BY DEF Docs, Numbered
<1>8. /\ D["genesis"] \in BOOLEAN /\ D["previous"] \in {NoSegment} \cup Pointers /\ D["entries"] \in Seq(Entries)
      /\ "genesis" # p /\ "previous" # p /\ "entries" # p
  BY DEF Docs, Numbered
<1>9. x \in Docs
  BY <1>5, <1>6, <1>7, <1>8, DocIs DEF DocFields
<1>10. [D EXCEPT ![p] = @ + 1] = x
  BY <1>2, <1>3
<1>11. QED
  BY <1>1, <1>2, <1>5, <1>9, <1>10 DEF But

LEMMA FieldChanged ==
    ASSUME NEW D \in Docs, NEW p \in {"genesis", "previous", "entries"}, NEW v,
           p = "genesis" => v \in BOOLEAN, p = "previous" => v \in {NoSegment} \cup Pointers,
           p = "entries" => v \in Seq(Entries)
    PROVE  But([D EXCEPT ![p] = v], D, p) /\ [D EXCEPT ![p] = v][p] = v
<1>1. PICK x : x = [D EXCEPT ![p] = v]
  OBVIOUS
<1>2. p \in DocFields
  BY DEF DocFields
<1>3. DOMAIN x = DocFields /\ x[p] = v /\ \A q \in DocFields \ {p} : x[q] = D[q]
  BY <1>1, <1>2, DocChanged
<1>4. x = [q \in DocFields |-> x[q]]
  BY <1>1, <1>3
<1>5. \A q \in Numbered : D[q] \in Int /\ q # p
  BY DEF Docs, Numbered
<1>6. /\ D["genesis"] \in BOOLEAN /\ D["previous"] \in {NoSegment} \cup Pointers /\ D["entries"] \in Seq(Entries)
  BY DEF Docs
<1>7. \A q \in Numbered : x[q] \in Int
  BY <1>3, <1>5 DEF DocFields
<1>8. x["genesis"] \in BOOLEAN /\ x["previous"] \in {NoSegment} \cup Pointers /\ x["entries"] \in Seq(Entries)
  BY <1>3, <1>6 DEF DocFields
<1>9. x \in Docs
  BY <1>4, <1>7, <1>8, DocIs
<1>10. QED
  BY <1>1, <1>3, <1>9 DEF But

\* A claim of the file that changed shows in its digest.
LEMMA ClaimDiffers ==
    ASSUME CollisionFree, NEW D \in Docs, NEW x \in Docs, NEW p \in Numbered \cup {"genesis"}, x[p] # D[p]
    PROVE  Digest(x) # Digest(D)
<1>1. SUFFICES ASSUME Digest(x) = Digest(D) PROVE FALSE
  OBVIOUS
<1>2. Claimed(x) = Claimed(D)
  BY <1>1, DigestSays
<1>3. ASSUME NEW d \in Docs
      PROVE  /\ Claimed(d)[1] = d["formatVersion"] /\ Claimed(d)[2] = d["segmentId"]
             /\ Claimed(d)[3] = d["segmentSeq"] /\ Claimed(d)[4] = d["tenant"]
             /\ Claimed(d)[5] = d["exportedAt"] /\ Claimed(d)[6] = d["from"] /\ Claimed(d)[7] = d["to"]
             /\ Claimed(d)[8] = d["count"] /\ Claimed(d)[9] = d["firstAt"] /\ Claimed(d)[10] = d["lastAt"]
             /\ Claimed(d)[11] = d["startPrevHash"] /\ Claimed(d)[12] = d["endHash"]
             /\ Claimed(d)[13] = IF d["genesis"] THEN 1 ELSE 0
  BY DEF Claimed
<1>4. \A q \in Numbered : x[q] = D[q]
  <2>1. /\ x["formatVersion"] = D["formatVersion"] /\ x["segmentId"] = D["segmentId"]
        /\ x["segmentSeq"] = D["segmentSeq"] /\ x["tenant"] = D["tenant"] /\ x["exportedAt"] = D["exportedAt"]
        /\ x["from"] = D["from"] /\ x["to"] = D["to"] /\ x["count"] = D["count"]
        /\ x["firstAt"] = D["firstAt"] /\ x["lastAt"] = D["lastAt"]
        /\ x["startPrevHash"] = D["startPrevHash"] /\ x["endHash"] = D["endHash"]
    BY <1>2, <1>3
  <2>2. QED
    BY <2>1 DEF Numbered
<1>5. x["genesis"] = D["genesis"]
  <2>1. (IF x["genesis"] THEN 1 ELSE 0) = (IF D["genesis"] THEN 1 ELSE 0)
    BY <1>2, <1>3
  <2>2. x["genesis"] \in BOOLEAN /\ D["genesis"] \in BOOLEAN
    BY DEF Docs
  <2>3. QED
    BY <2>1, <2>2
<1>6. QED
  BY <1>4, <1>5

\* So does the pointer to the file before.
LEMMA PointerDiffers ==
    ASSUME CollisionFree, NEW D \in Docs, NEW x \in Docs, But(x, D, "previous"), x["previous"] # D["previous"]
    PROVE  Digest(x) # Digest(D)
<1>1. SUFFICES ASSUME Digest(x) = Digest(D) PROVE FALSE
  OBVIOUS
<1>2. x.entries = D.entries
  BY DEF But, DocFields
<1>3. Len(x.entries) = Len(D.entries)
  BY <1>2
<1>4. PreviousText(x.previous) = PreviousText(D.previous)
  BY <1>1, <1>3, DigestSays
<1>5. PICK p \in {NoSegment} \cup Pointers, q \in {NoSegment} \cup Pointers : p = x.previous /\ q = D.previous
  BY DEF Docs
<1>6. Len(PreviousText(p)) = Len(PreviousText(q))
  BY <1>4, <1>5
<1>7. (p = NoSegment <=> q = NoSegment)
  BY <1>6, PreviousForm, SMTT(60)
<1>8. CASE p # NoSegment
  <2>1. p \in Pointers /\ q \in Pointers
    BY <1>5, <1>7, <1>8
  <2>2. <<p.segmentId, p.segmentSeq, p.toSeq, p.endHash, p.digest>> = <<q.segmentId, q.segmentSeq, q.toSeq, q.endHash, q.digest>>
    BY <1>4, <1>5, <1>7, <1>8, PreviousForm
  <2>3. p.segmentId = q.segmentId /\ p.segmentSeq = q.segmentSeq /\ p.toSeq = q.toSeq /\ p.endHash = q.endHash /\ p.digest = q.digest
    BY <2>2
  <2>4. p = q
    BY <2>1, <2>3 DEF Pointers
  <2>5. QED
    BY <1>5, <2>4
<1>9. QED
  BY <1>5, <1>7, <1>8

\* And a field of an entry.
EntryFields == {"seq", "tenant", "action", "at", "details", "credential", "prevHash", "version", "hash"}

LEMMA EntriesDiffer ==
    ASSUME CollisionFree, NEW D \in Docs, NEW x \in Docs, Len(x.entries) = Len(D.entries),
           NEW j \in 1 .. Len(D.entries), EntryText(x.entries[j]) # EntryText(D.entries[j])
    PROVE  Digest(x) # Digest(D)
<1>1. Len(D.entries) \in Nat
  BY DEF Docs
<1>2. QED
  BY <1>1, DigestSays

LEMMA LengthDiffers ==
    ASSUME CollisionFree, NEW D \in Docs, NEW x \in Docs, But(x, D, "entries"), Len(x.entries) # Len(D.entries)
    PROVE  Digest(x) # Digest(D)
<1>1. PICK p \in {NoSegment} \cup Pointers : p = x.previous /\ p = D.previous
  BY DEF But, DocFields, Docs
<1>2a. x.entries \in Seq(Entries) /\ D.entries \in Seq(Entries)
  BY DEF Docs
<1>2b. Len(x.entries) \in Nat /\ Len(D.entries) \in Nat
  BY <1>2a
<1>2. PICK l \in Nat, m \in Nat : l = Len(x.entries) /\ m = Len(D.entries)
  BY <1>2b
<1>3. Len(PreviousText(p)) \in Nat
  BY PreviousForm
<1>4. SUFFICES ASSUME Digest(x) = Digest(D) PROVE FALSE
  OBVIOUS
<1>5. Len(PreviousText(x.previous)) + Len(x.entries) = Len(PreviousText(D.previous)) + Len(D.entries)
  BY <1>4, DigestSays
<1>6. Len(PreviousText(p)) + l = Len(PreviousText(p)) + m
  BY <1>1, <1>2, <1>5
<1>7. l = m
  BY <1>3, <1>6
<1>8. QED
  BY <1>2, <1>7

EntryNumbers == EntryFields \ {"details"}

LEMMA EntryIs ==
    ASSUME NEW f, f = [q \in EntryFields |-> f[q]], \A q \in EntryNumbers : f[q] \in Int, f["details"] \in Details
    PROVE  f \in Entries
<1>1. PICK a1, a2, a3, a4, a5, a6, a7, a8, a9 :
         /\ a1 = f["seq"] /\ a2 = f["tenant"] /\ a3 = f["action"] /\ a4 = f["at"] /\ a5 = f["details"]
         /\ a6 = f["credential"] /\ a7 = f["prevHash"] /\ a8 = f["version"] /\ a9 = f["hash"]
  OBVIOUS
<1>2. /\ a1 \in Int /\ a2 \in Int /\ a3 \in Int /\ a4 \in Int /\ a5 \in Details /\ a6 \in Int /\ a7 \in Int
      /\ a8 \in Int /\ a9 \in Int
  BY <1>1 DEF EntryNumbers, EntryFields
<1>3. f = [seq |-> a1, tenant |-> a2, action |-> a3, at |-> a4, details |-> a5, credential |-> a6,
           prevHash |-> a7, version |-> a8, hash |-> a9]
  BY <1>1 DEF EntryFields
<1>4. QED
  BY <1>2, <1>3 DEF Entries

\* An entry with a field changed.
ButEntry(f, e, p) == f \in Entries /\ \A q \in EntryFields \ {p} : f[q] = e[q]

LEMMA EntryFieldChanged ==
    ASSUME NEW e \in Entries, NEW p \in EntryFields, NEW v, p # "details" => v \in Int, p = "details" => v \in Details
    PROVE  ButEntry([e EXCEPT ![p] = v], e, p) /\ [e EXCEPT ![p] = v][p] = v
<1>1. PICK f : f = [e EXCEPT ![p] = v]
  OBVIOUS
<1>2. DOMAIN e = EntryFields
  BY DEF Entries, EntryFields
<1>3. DOMAIN f = EntryFields /\ f[p] = v /\ \A q \in EntryFields \ {p} : f[q] = e[q]
  BY <1>1, <1>2
<1>4. f = [q \in EntryFields |-> f[q]]
  BY <1>1, <1>3
<1>5. \A q \in EntryNumbers : e[q] \in Int
  BY DEF Entries, EntryNumbers, EntryFields
<1>6. e["details"] \in Details
  BY DEF Entries
<1>7. \A q \in EntryNumbers : f[q] \in Int
  BY <1>3, <1>5 DEF EntryNumbers
<1>8. f["details"] \in Details
  BY <1>3, <1>6 DEF EntryFields
<1>9. f \in Entries
  BY <1>4, <1>7, <1>8, EntryIs
<1>10. QED
  BY <1>1, <1>3, <1>9 DEF ButEntry

LEMMA ToChanged ==
    ASSUME NEW r \in Details
    PROVE  LET s == [r EXCEPT !.to = @ + 1] IN
           s \in Details /\ s.to = r.to + 1 /\ s.segmentSeq = r.segmentSeq
<1>1. PICK a, b, t, n, h : /\ a = r.segmentSeq /\ b = r.from /\ t = r.to /\ n = r.entries /\ h = r.header
  OBVIOUS
<1>2. a \in Int /\ b \in Int /\ t \in Int /\ n \in Int /\ h \in {<<>>} \cup StatedHeaders
  BY <1>1 DEF Details
<1>3. PICK s : s = [r EXCEPT !.to = @ + 1]
  OBVIOUS
<1>4. DOMAIN r = {"segmentSeq", "from", "to", "entries", "header"}
  BY DEF Details
<1>5. DOMAIN s = {"segmentSeq", "from", "to", "entries", "header"} /\ s = [q \in {"segmentSeq", "from", "to", "entries", "header"} |-> s[q]]
  BY <1>3, <1>4
<1>6. s.segmentSeq = a /\ s.from = b /\ s.to = t + 1 /\ s.entries = n /\ s.header = h
  BY <1>1, <1>3, <1>4
<1>7. s = [segmentSeq |-> a, from |-> b, to |-> t + 1, entries |-> n, header |-> h]
  BY <1>5, <1>6
<1>8. s \in Details
  BY <1>2, <1>7 DEF Details
<1>9. QED
  BY <1>1, <1>3, <1>6, <1>8

\* What may become of one entry.
Altered == {"seq", "tenant", "at", "credential", "prevHash", "hash"}
Damaged(part, e, f) ==
    /\ part \in EntryFields /\ ButEntry(f, e, part)
    /\ part \in Altered => f[part] = e[part] + 1
    /\ part = "version" => f.version \in (0 .. 4) \ {e.version}
    /\ part = "action" => f.action = e.action + 50
    /\ part = "details" => /\ f.details \in Details /\ f.details.to = e.details.to + 1
                           /\ f.details.segmentSeq = e.details.segmentSeq

LEMMA DamagedIs ==
    ASSUME NEW e \in Entries
    PROVE  /\ \A p \in Altered : Damaged(p, e, [e EXCEPT ![p] = @ + 1])
           /\ \A v \in (0 .. 4) \ {e.version} : Damaged("version", e, [e EXCEPT !.version = v])
           /\ Damaged("action", e, [e EXCEPT !.action = @ + 50])
           /\ Damaged("details", e, [e EXCEPT !.details.to = @ + 1])
<1>1. ASSUME NEW p \in Altered PROVE Damaged(p, e, [e EXCEPT ![p] = @ + 1])
  <2>1. p \in EntryFields /\ p \notin {"version", "action", "details"} /\ e[p] \in Int
    BY DEF Altered, EntryFields, Entries
  <2>2. PICK v \in Int : v = e[p] + 1
    BY <2>1
  <2>3. [e EXCEPT ![p] = @ + 1] = [e EXCEPT ![p] = v]
    BY <2>2
  <2>4. ButEntry([e EXCEPT ![p] = v], e, p) /\ [e EXCEPT ![p] = v][p] = v
    BY <2>1, EntryFieldChanged
  <2>5. PICK f : f = [e EXCEPT ![p] = @ + 1]
    OBVIOUS
  <2>6. ButEntry(f, e, p) /\ f[p] = e[p] + 1
    BY <2>2, <2>3, <2>4, <2>5
  <2>7. Damaged(p, e, f)
    BY <2>1, <2>6 DEF Damaged
  <2>8. QED
    BY <2>5, <2>7
<1>2. ASSUME NEW v \in (0 .. 4) \ {e.version} PROVE Damaged("version", e, [e EXCEPT !.version = v])
  <2>1. PICK f : f = [e EXCEPT !.version = v]
    OBVIOUS
  <2>2. "version" \in EntryFields /\ "version" \notin Altered
    BY DEF EntryFields, Altered
  <2>3. ButEntry(f, e, "version") /\ f["version"] = v
    BY <2>1, <2>2, EntryFieldChanged
  <2>4. Damaged("version", e, f)
    BY <2>2, <2>3 DEF Damaged
  <2>5. QED
    BY <2>1, <2>4
<1>3. Damaged("action", e, [e EXCEPT !.action = @ + 50])
  <2>1. "action" \in EntryFields /\ "action" \notin Altered /\ e.action \in Int
    BY DEF EntryFields, Altered, Entries
  <2>2. PICK v \in Int : v = e.action + 50
    BY <2>1
  <2>3. PICK f : f = [e EXCEPT !.action = v]
    OBVIOUS
  <2>4. ButEntry(f, e, "action") /\ f["action"] = v
    BY <2>1, <2>3, EntryFieldChanged
  <2>5. Damaged("action", e, f)
    BY <2>1, <2>2, <2>4 DEF Damaged
  <2>6. f = [e EXCEPT !.action = @ + 50]
    BY <2>2, <2>3
  <2>7. QED
    BY <2>5, <2>6
<1>4. Damaged("details", e, [e EXCEPT !.details.to = @ + 1])
  <2>1. "details" \in EntryFields /\ "details" \notin Altered /\ e.details \in Details
    BY DEF EntryFields, Altered, Entries
  <2>2. PICK v \in Details : v = [e.details EXCEPT !.to = @ + 1]
    BY <2>1, ToChanged
  <2>3. v.to = e.details.to + 1 /\ v.segmentSeq = e.details.segmentSeq
    BY <2>1, <2>2, ToChanged
  <2>4. PICK f : f = [e EXCEPT !.details = v]
    OBVIOUS
  <2>5. ButEntry(f, e, "details") /\ f["details"] = v
    BY <2>1, <2>4, EntryFieldChanged
  <2>6. Damaged("details", e, f)
    BY <2>1, <2>3, <2>5 DEF Damaged
  <2>7. f = [e EXCEPT !.details.to = @ + 1]
    BY <2>2, <2>4
  <2>8. QED
    BY <2>6, <2>7
<1>5. QED
  BY <1>1, <1>2, <1>3, <1>4

\* A document with an entry changed.
WithEntry(x, D, j, f) ==
    /\ But(x, D, "entries") /\ Len(x.entries) = Len(D.entries) /\ DOMAIN x.entries = 1 .. Len(D.entries)
    /\ x.entries[j] = f /\ \A k \in 1 .. Len(D.entries) : k # j => x.entries[k] = D.entries[k]

LEMMA EntryReplaced ==
    ASSUME NEW D \in Docs, NEW j \in DOMAIN D.entries, NEW f \in Entries
    PROVE  WithEntry([D EXCEPT !.entries[j] = f], D, j, f)
<1>1. PICK s \in Seq(Entries) : s = D.entries
  BY DEF Docs
<1>1a. j \in 1 .. Len(s)
  BY <1>1
<1>1b. [s EXCEPT ![j] = f] \in Seq(Entries)
  BY <1>1, <1>1a, ExceptSeq
<1>2. PICK t \in Seq(Entries) : t = [s EXCEPT ![j] = f]
  BY <1>1b
<1>3. Len(t) = Len(s) /\ DOMAIN t = 1 .. Len(s) /\ t[j] = f /\ \A k \in 1 .. Len(s) : k # j => t[k] = s[k]
  BY <1>1, <1>2
<1>4. PICK x : x = [D EXCEPT !.entries = t]
  OBVIOUS
<1>5. But(x, D, "entries") /\ x["entries"] = t
  BY <1>4, FieldChanged
<1>6. x = [D EXCEPT !.entries[j] = f]
  BY <1>1, <1>2, <1>4
<1>7. WithEntry(x, D, j, f)
  BY <1>1, <1>3, <1>5 DEF WithEntry
<1>8. QED
  BY <1>6, <1>7

PointerFields == {"segmentId", "segmentSeq", "toSeq", "endHash", "digest"}

Hurt(d, D) ==
    \/ \E p \in Numbered : d.part = p /\ But(d.doc, D, p) /\ d.doc[p] = D[p] + 1
    \/ d.part = "genesis" /\ But(d.doc, D, "genesis") /\ d.doc.genesis = ~D.genesis
    \/ d.part = "entries" /\ But(d.doc, D, "entries") /\ d.doc.entries = Tail(D.entries)
    \/ /\ d.part = "previous" /\ But(d.doc, D, "previous") /\ D.previous # NoSegment
       /\ d.doc.previous = NoSegment \/ \E f \in PointerFields : d.doc.previous[f] = D.previous[f] + 1
    \/ \E j \in DOMAIN D.entries, f \in Entries :
          d.entry = j /\ WithEntry(d.doc, D, j, f) /\ Damaged(d.part, D.entries[j], f)

LEMMA PointerChanged ==
    ASSUME NEW p \in Pointers, NEW f \in DOMAIN p
    PROVE  f \in PointerFields /\ [p EXCEPT ![f] = @ + 1] \in Pointers /\ [p EXCEPT ![f] = @ + 1][f] = p[f] + 1
<1>1. DOMAIN p = PointerFields
  BY DEF Pointers, PointerFields
<1>2. \A q \in PointerFields : p[q] \in Int
  BY DEF Pointers, PointerFields
<1>3. PICK v \in Int : v = p[f] + 1
  BY <1>1, <1>2
<1>4. PICK s : s = [p EXCEPT ![f] = v]
  OBVIOUS
<1>5. DOMAIN s = PointerFields /\ s[f] = v /\ \A q \in PointerFields \ {f} : s[q] = p[q]
  BY <1>1, <1>4
<1>6. s = [q \in PointerFields |-> s[q]] /\ \A q \in PointerFields : s[q] \in Int
  BY <1>2, <1>4, <1>5
<1>7. PICK a, b, t, h, g : a = s["segmentId"] /\ b = s["segmentSeq"] /\ t = s["toSeq"] /\ h = s["endHash"] /\ g = s["digest"]
  OBVIOUS
<1>8. a \in Int /\ b \in Int /\ t \in Int /\ h \in Int /\ g \in Int
  BY <1>6, <1>7 DEF PointerFields
<1>9. s = [segmentId |-> a, segmentSeq |-> b, toSeq |-> t, endHash |-> h, digest |-> g]
  BY <1>6, <1>7 DEF PointerFields
<1>10. s \in Pointers
  BY <1>8, <1>9 DEF Pointers
<1>11. s = [p EXCEPT ![f] = @ + 1]
  BY <1>3, <1>4
<1>12. QED
  BY <1>1, <1>3, <1>5, <1>10, <1>11

LEMMA DamageIs ==
    ASSUME NEW D \in Docs, D.entries # <<>>, NEW d \in Damages(D)
    PROVE  Hurt(d, D)
<1>1. CASE d \in HeaderDamages(D)
  <2>1. CASE \E p \in Numbered : d = [part |-> p, doc |-> [D EXCEPT ![p] = @ + 1]]
    <3>1. PICK p \in Numbered : d = [part |-> p, doc |-> [D EXCEPT ![p] = @ + 1]]
      BY <2>1
    <3>2. d.part = p /\ d.doc = [D EXCEPT ![p] = @ + 1]
      BY <3>1
    <3>3. But([D EXCEPT ![p] = @ + 1], D, p) /\ [D EXCEPT ![p] = @ + 1][p] = D[p] + 1
      BY NumberChanged
    <3>4. But(d.doc, D, p) /\ d.doc[p] = D[p] + 1
      BY <3>2, <3>3
    <3>5. QED
      BY <3>2, <3>4 DEF Hurt
  <2>2. CASE d = [part |-> "genesis", doc |-> [D EXCEPT !.genesis = ~@]]
    <3>1. PICK v \in BOOLEAN : v = ~D.genesis
      BY DEF Docs
    <3>2. d.part = "genesis" /\ d.doc = [D EXCEPT !.genesis = v]
      BY <2>2, <3>1
    <3>3. But(d.doc, D, "genesis") /\ d.doc["genesis"] = v
      BY <3>2, FieldChanged
    <3>4. QED
      BY <3>1, <3>2, <3>3 DEF Hurt
  <2>3. CASE d = [part |-> "entries", doc |-> [D EXCEPT !.entries = Tail(@)]]
    <3>1. D.entries \in Seq(Entries)
      BY DEF Docs
    <3>1a. Tail(D.entries) \in Seq(Entries)
      BY <3>1, HeadTailProperties
    <3>2. PICK v \in Seq(Entries) : v = Tail(D.entries)
      BY <3>1a
    <3>3. d.part = "entries" /\ d.doc = [D EXCEPT !.entries = v]
      BY <2>3, <3>2
    <3>4. But(d.doc, D, "entries") /\ d.doc["entries"] = v
      BY <3>3, FieldChanged
    <3>5. QED
      BY <3>2, <3>3, <3>4 DEF Hurt
  <2>4. QED
    BY <1>1, <2>1, <2>2, <2>3 DEF HeaderDamages, Numbered
<1>2. CASE d \in PreviousDamages(D)
  <2>1. D.previous # NoSegment /\ D.previous \in Pointers
    BY <1>2 DEF PreviousDamages, Docs
  <2>2. CASE \E f \in DOMAIN D.previous : d = [part |-> "previous", doc |-> [D EXCEPT !.previous[f] = @ + 1]]
    <3>1. PICK f \in DOMAIN D.previous : d = [part |-> "previous", doc |-> [D EXCEPT !.previous[f] = @ + 1]]
      BY <2>2
    <3>2. PICK p \in Pointers : p = D.previous
      BY <2>1
    <3>3. PICK v \in Pointers : v = [p EXCEPT ![f] = @ + 1] /\ v[f] = p[f] + 1 /\ f \in PointerFields
      BY <3>2, PointerChanged
    <3>4. d.part = "previous" /\ d.doc = [D EXCEPT !.previous = v]
      BY <3>1, <3>2, <3>3
    <3>5. But(d.doc, D, "previous") /\ d.doc["previous"] = v
      BY <3>4, FieldChanged
    <3>6. QED
      BY <2>1, <3>2, <3>3, <3>4, <3>5 DEF Hurt
  <2>3. CASE d = [part |-> "previous", doc |-> [D EXCEPT !.previous = NoSegment]]
    <3>1. d.part = "previous" /\ d.doc = [D EXCEPT !.previous = NoSegment]
      BY <2>3
    <3>2. But(d.doc, D, "previous") /\ d.doc["previous"] = NoSegment
      BY <3>1, FieldChanged
    <3>3. QED
      BY <2>1, <3>1, <3>2 DEF Hurt
  <2>4. QED
    BY <1>2, <2>1, <2>2, <2>3 DEF PreviousDamages
<1>3. CASE \E j \in DOMAIN D.entries : d \in EntryDamages(D, j)
  <2>1. PICK j \in DOMAIN D.entries : d \in EntryDamages(D, j)
    BY <1>3
  <2>2. PICK e \in Entries : e = D.entries[j]
    <3>1. D.entries \in Seq(Entries)
      BY DEF Docs
    <3>2. QED
      BY <3>1
  <2>3. \E p, f : d = [part |-> p, entry |-> j, doc |-> [D EXCEPT !.entries[j] = f]] /\ Damaged(p, e, f)
    <3>1. CASE \E p \in Altered : d = [part |-> p, entry |-> j, doc |-> [D EXCEPT !.entries[j] = [e EXCEPT ![p] = @ + 1]]]
      BY <3>1, DamagedIs
    <3>2. CASE \E v \in (0 .. 4) \ {e.version} : d = [part |-> "version", entry |-> j, doc |-> [D EXCEPT !.entries[j] = [e EXCEPT !.version = v]]]
      BY <3>2, DamagedIs
    <3>3. CASE d = [part |-> "action", entry |-> j, doc |-> [D EXCEPT !.entries[j] = [e EXCEPT !.action = @ + 50]]]
      BY <3>3, DamagedIs
    <3>4. CASE d = [part |-> "details", entry |-> j, doc |-> [D EXCEPT !.entries[j] = [e EXCEPT !.details.to = @ + 1]]]
      BY <3>4, DamagedIs
    <3>5. QED
      BY <2>1, <2>2, <3>1, <3>2, <3>3, <3>4 DEF EntryDamages, Altered
  <2>4. PICK p, f : d = [part |-> p, entry |-> j, doc |-> [D EXCEPT !.entries[j] = f]] /\ Damaged(p, e, f)
    BY <2>3
  <2>5. f \in Entries
    BY <2>4 DEF Damaged, ButEntry
  <2>6. d.part = p /\ d.entry = j /\ d.doc = [D EXCEPT !.entries[j] = f]
    BY <2>4
  <2>7. WithEntry(d.doc, D, j, f)
    BY <2>5, <2>6, EntryReplaced
  <2>8. QED
    BY <2>2, <2>4, <2>5, <2>6, <2>7 DEF Hurt
<1>4. QED
  BY <1>1, <1>2, <1>3 DEF Damages

\* A damage shows in the digest of its file.
LEMMA DamageShows ==
    ASSUME CollisionFree, NEW D \in Docs, D.entries # <<>>, NEW d, Hurt(d, D)
    PROVE  d.doc \in Docs /\ Digest(d.doc) # Digest(D)
<1>1. CASE \E p \in Numbered : d.part = p /\ But(d.doc, D, p) /\ d.doc[p] = D[p] + 1
  <2>1. PICK p \in Numbered : But(d.doc, D, p) /\ d.doc[p] = D[p] + 1
    BY <1>1
  <2>2. d.doc \in Docs /\ D[p] \in Int
    BY <2>1, NumberChanged DEF But
  <2>3. d.doc[p] # D[p]
    BY <2>1, <2>2
  <2>4. QED
    BY <2>2, <2>3, ClaimDiffers
<1>2. CASE But(d.doc, D, "genesis") /\ d.doc.genesis = ~D.genesis
  <2>1. d.doc \in Docs /\ d.doc["genesis"] # D["genesis"]
    BY <1>2 DEF But, Docs
  <2>2. QED
    BY <2>1, ClaimDiffers
<1>3. CASE But(d.doc, D, "entries") /\ d.doc.entries = Tail(D.entries)
  <2>1. d.doc \in Docs /\ D.entries \in Seq(Entries)
    BY <1>3 DEF But, Docs
  <2>2. Len(Tail(D.entries)) # Len(D.entries)
    BY <2>1
  <2>3. QED
    BY <1>3, <2>1, <2>2, LengthDiffers
<1>4. CASE /\ But(d.doc, D, "previous") /\ D.previous # NoSegment
           /\ d.doc.previous = NoSegment \/ \E f \in PointerFields : d.doc.previous[f] = D.previous[f] + 1
  <2>1. d.doc \in Docs /\ D.previous \in Pointers
    BY <1>4 DEF But, Docs
  <2>2. d.doc.previous # D.previous
    <3>1. \A f \in PointerFields : D.previous[f] \in Int
      BY <2>1 DEF Pointers, PointerFields
    <3>2. \A f \in PointerFields : D.previous[f] # D.previous[f] + 1
      BY <3>1
    <3>3. QED
      BY <1>4, <3>2
  <2>3. QED
    BY <1>4, <2>1, <2>2, PointerDiffers
<1>5. CASE \E j \in DOMAIN D.entries, f \in Entries : WithEntry(d.doc, D, j, f) /\ Damaged(d.part, D.entries[j], f)
  <2>1. PICK j \in DOMAIN D.entries, f \in Entries : WithEntry(d.doc, D, j, f) /\ Damaged(d.part, D.entries[j], f)
    BY <1>5
  <2>2. D.entries \in Seq(Entries)
    BY DEF Docs
  <2>3. PICK e \in Entries : e = D.entries[j] /\ j \in 1 .. Len(D.entries)
    BY <2>2
  <2>4. d.doc \in Docs /\ Len(d.doc.entries) = Len(D.entries) /\ d.doc.entries[j] = f
    BY <2>1 DEF WithEntry, But
  <2>5. SUFFICES ASSUME EntryText(f) = EntryText(e) PROVE FALSE
    BY <2>3, <2>4, EntriesDiffer
  <2>6. /\ f.prevHash = e.prevHash /\ f.tenant = e.tenant /\ f.seq = e.seq /\ f.action = e.action
        /\ f.at = e.at /\ f.details.to = e.details.to /\ f.credential = e.credential
        /\ f.hash = e.hash /\ f.version = e.version
    BY <2>5, EntrySays
  <2>7. /\ e.seq \in Int /\ e.tenant \in Int /\ e.at \in Int /\ e.credential \in Int /\ e.prevHash \in Int
        /\ e.hash \in Int /\ e.action \in Int /\ e.details.to \in Int
    BY DEF Entries, Details
  <2>8. Damaged(d.part, e, f)
    BY <2>1, <2>3
  <2>9. CASE d.part \in Altered
    <3>1. f[d.part] = e[d.part] + 1
      BY <2>8, <2>9 DEF Damaged
    <3>2. f[d.part] = e[d.part] /\ e[d.part] \in Int
      BY <2>6, <2>7, <2>9 DEF Altered
    <3>3. QED
      BY <3>1, <3>2
  <2>10. CASE d.part = "version"
    BY <2>6, <2>8, <2>10 DEF Damaged
  <2>11. CASE d.part = "action"
    BY <2>6, <2>7, <2>8, <2>11 DEF Damaged
  <2>12. CASE d.part = "details"
    BY <2>6, <2>7, <2>8, <2>12 DEF Damaged
  <2>13. d.part \in Altered \cup {"version", "action", "details"}
    BY <2>8 DEF Damaged, EntryFields, Altered
  <2>14. QED
    BY <2>9, <2>10, <2>11, <2>12, <2>13
<1>6. QED
  BY <1>1, <1>2, <1>3, <1>4, <1>5 DEF Hurt

\* The reports of an archive, that of a file replaced by what a document says.
With(fs, i, x) == [ReportsOf(fs) EXCEPT ![i] = VerifyFile(Sealed(x))]

Replaces(w, fs, i, x) ==
    /\ DOMAIN w = 1 .. Len(fs) /\ Len(w) = Len(fs) /\ w = [k \in 1 .. Len(fs) |-> w[k]] /\ w # <<>>
    /\ w[i] = VerifyFile(Sealed(x))
    /\ \A k \in 1 .. Len(fs) : k # i => IsReport(w[k], fs[k].segment)

LEMMA WithIs ==
    ASSUME CollisionFree, NEW c, NEW fs, NEW action, Kept(c, fs, action), NEW i \in 1 .. Len(fs), NEW x
    PROVE  Replaces(With(fs, i, x), fs, i, x)
<1>1. PICK R \in Seq(Seen) : R = ReportsOf(fs)
  BY ReportsAre
<1>2. PICK n \in Nat : n = Len(fs)
  BY ReportsAre
<1>3. DOMAIN R = 1 .. n
  BY <1>1, <1>2, ReportsAre
<1>3a. \A k \in 1 .. n : IsReport(R[k], fs[k].segment)
  <2>1. \A k \in 1 .. Len(fs) : IsReport(ReportsOf(fs)[k], fs[k].segment)
    BY ReportsAre
  <2>2. QED
    BY <1>1, <1>2, <2>1
<1>4. PICK w : w = [R EXCEPT ![i] = VerifyFile(Sealed(x))]
  OBVIOUS
<1>5. DOMAIN w = 1 .. n /\ w = [k \in 1 .. n |-> w[k]] /\ w[i] = VerifyFile(Sealed(x))
  BY <1>2, <1>3, <1>4
<1>6. \A k \in 1 .. n : k # i => w[k] = R[k]
  BY <1>2, <1>3, <1>4
<1>7. Len(w) = n
  BY <1>5, LengthOf
<1>8. w # <<>>
  BY <1>2, <1>5
<1>9. Replaces(w, fs, i, x)
  BY <1>2, <1>3a, <1>5, <1>6, <1>7, <1>8 DEF Replaces
<1>10. QED
  BY <1>1, <1>4, <1>9 DEF With

LEMMA ReplacedVerdict ==
    ASSUME CollisionFree, NEW c, NEW fs, NEW action, Kept(c, fs, action), NEW i \in 1 .. Len(fs), NEW x
    PROVE  /\ ~VerifyDocument(x).passes => Verdict(With(fs, i, x), {"series"}) # 0
           /\ VerifyDocument(x).passes /\ x.segmentSeq = i =>
                 (Verdict(With(fs, i, x), {"series"}) = 0 <=> VerifySeries(With(fs, i, x)).passes)
<1>1. PICK w : w = With(fs, i, x)
  OBVIOUS
<1>2. Replaces(w, fs, i, x)
  BY <1>1, WithIs
<1>3. PICK n \in Nat : n = Len(fs)
  BY ReportsAre
<1>4. ASSUME ~VerifyDocument(x).passes PROVE Verdict(w, {"series"}) # 0
  <2>1. ~w[i].passes /\ i \in DOMAIN w
    BY <1>2, <1>4, FileForm DEF Replaces
  <2>2. QED
    BY <1>2, <2>1, SeriesVerdict DEF Replaces
<1>5. ASSUME VerifyDocument(x).passes, x.segmentSeq = i
      PROVE  Verdict(w, {"series"}) = 0 <=> VerifySeries(w).passes
  <2>1. IsReport(w[i], x)
    BY <1>2, <1>5, ReportIs DEF Replaces
  <2>2. ASSUME NEW k \in 1 .. n PROVE w[k].passes /\ w[k].doc.segmentSeq = k
    <3>1. CASE k = i
      BY <1>5, <2>1, <3>1 DEF IsReport
    <3>2. CASE k # i
      <4>1. IsReport(w[k], fs[k].segment)
        BY <1>2, <1>3, <3>2 DEF Replaces
      <4>2. FileIs(c, fs, k)
        BY <1>3, FileFacts
      <4>3. FileOf(c, fs, k, fs[k].segment)
        BY <4>2 DEF FileIs
      <4>4. fs[k].segment.segmentSeq = k
        BY <4>3 DEF FileOf
      <4>5. QED
        BY <4>1, <4>4 DEF IsReport
    <3>3. QED
      BY <3>1, <3>2
  <2>3. InOrder(w) = w
    <3>1. w = [k \in 1 .. n |-> w[k]]
      BY <1>2, <1>3 DEF Replaces
    <3>2. \A k \in 1 .. n : w[k].doc.segmentSeq \in Int
      BY <2>2
    <3>3. \A j, k \in 1 .. n : j < k => w[j].doc.segmentSeq <= w[k].doc.segmentSeq
      BY <2>2
    <3>4. QED
      BY <3>1, <3>2, <3>3, StaysInOrder
  <2>4. \A k \in DOMAIN w : w[k].passes
    BY <1>2, <1>3, <2>2 DEF Replaces
  <2>5. w # <<>>
    BY <1>2 DEF Replaces
  <2>6. QED
    BY <2>3, <2>4, <2>5, SeriesVerdict
<1>6. QED
  BY <1>1, <1>4, <1>5

\* A damaged file is told by its digest.
LEMMA DamagedAlone ==
    ASSUME CollisionFree, NEW c, NEW fs, NEW action, Kept(c, fs, action), NEW i \in 1 .. Len(fs),
           NEW d \in Damages(fs[i].segment)
    PROVE  /\ Hurt(d, fs[i].segment) /\ d.doc \in Docs /\ Digest(d.doc) # Digest(fs[i].segment)
           /\ VerifyFile([segment |-> d.doc, digest |-> ReportsOf(fs)[i].digest]) = Refused
<1>1. FileIs(c, fs, i)
  BY FileFacts
<1>2. FileOf(c, fs, i, fs[i].segment)
  BY <1>1 DEF FileIs
<1>3. PICK D \in Docs : D = fs[i].segment
  BY <1>2 DEF FileOf
<1>4. D.entries # <<>>
  BY <1>2, <1>3 DEF FileOf, Fits, ClaimsFit
<1>5. Hurt(d, D)
  BY <1>3, <1>4, DamageIs
<1>6. d.doc \in Docs /\ Digest(d.doc) # Digest(D)
  BY <1>4, <1>5, DamageShows
<1>7. ReportsOf(fs)[i].digest = Digest(D)
  <2>1. IsReport(ReportsOf(fs)[i], fs[i].segment)
    BY ReportsAre
  <2>2. QED
    BY <1>3, <2>1 DEF IsReport
<1>8. PICK file : file = [segment |-> d.doc, digest |-> ReportsOf(fs)[i].digest]
  OBVIOUS
<1>9. file.segment = d.doc /\ file.digest = Digest(D)
  BY <1>7, <1>8
<1>10. VerifyFile(file) = Refused
  BY <1>6, <1>9 DEF VerifyFile
<1>11. QED
  BY <1>3, <1>5, <1>6, <1>8, <1>10

\* A damaged file that passes keeps its place.
LEMMA HurtKeepsPlace ==
    ASSUME NEW c, NEW fs, NEW i, NEW D \in Docs, FileOf(c, fs, i, D), NEW d, Hurt(d, D), Fits(d.doc)
    PROVE  d.doc.segmentSeq = i
<1>1. PICK x \in Docs : x = d.doc
  BY DEF Hurt, WithEntry, But
<1>2. D.segmentSeq = i /\ PositionFits(D) /\ PositionFits(x) /\ i \in Int
  BY <1>1 DEF FileOf, Fits, Docs
<1>3. CASE But(x, D, "segmentSeq")
  <2>1. x.genesis = D.genesis /\ x.previous = D.previous
    BY <1>3 DEF But, DocFields, Numbered
  <2>2. CASE D.genesis
    BY <1>1, <1>2, <2>1, <2>2 DEF PositionFits
  <2>3. CASE ~D.genesis
    <3>1. D.previous.segmentSeq + 1 = i /\ D.previous.segmentSeq + 1 = x.segmentSeq
      BY <1>2, <2>1, <2>3 DEF PositionFits
    <3>2. QED
      BY <1>1, <3>1
  <2>4. QED
    BY <2>2, <2>3
<1>4. CASE \E p \in DocFields \ {"segmentSeq"} : But(x, D, p)
  BY <1>1, <1>2, <1>4 DEF But, DocFields, Numbered
<1>5. \E p \in DocFields : But(x, D, p)
  BY <1>1 DEF Hurt, WithEntry, DocFields, Numbered
<1>6. QED
  BY <1>3, <1>4, <1>5

\* The file behind a damaged one does not meet it.
LEMMA InnerTold ==
    ASSUME CollisionFree, NEW c, NEW fs, NEW action, Kept(c, fs, action), NEW n \in Nat, n = Len(fs),
           NEW i \in 1 .. n - 1, NEW d \in Damages(fs[i].segment)
    PROVE  Verdict(With(fs, i, d.doc), {"series"}) # 0
<1>1. i \in 1 .. Len(fs) /\ i + 1 \in 2 .. Len(fs) /\ i + 1 # i /\ i + 1 - 1 = i /\ i + 1 \in 1 .. Len(fs) /\ i + 1 \in 2 .. n
  OBVIOUS
<1>2. PICK x : x = d.doc
  OBVIOUS
<1>3. /\ Hurt(d, fs[i].segment) /\ Digest(x) # Digest(fs[i].segment)
  BY <1>1, <1>2, DamagedAlone
<1>4. SUFFICES ASSUME VerifyDocument(x).passes PROVE Verdict(With(fs, i, x), {"series"}) # 0
  BY <1>1, <1>2, ReplacedVerdict
<1>5. x.segmentSeq = i
  <2>1. FileIs(c, fs, i)
    BY <1>1, FileFacts
  <2>2. FileOf(c, fs, i, fs[i].segment) /\ fs[i].segment \in Docs
    BY <2>1 DEF FileIs, FileOf
  <2>3. Fits(x)
    BY <1>4, PassForm
  <2>4. QED
    BY <1>2, <1>3, <2>2, <2>3, HurtKeepsPlace
<1>6. PICK w : w = With(fs, i, x)
  OBVIOUS
<1>7. Replaces(w, fs, i, x)
  BY <1>1, <1>6, WithIs
<1>8. IsReport(w[i], x)
  BY <1>4, <1>7, ReportIs DEF Replaces
<1>9. IsReport(w[i + 1], fs[i + 1].segment)
  BY <1>1, <1>7 DEF Replaces
<1>10. fs[i + 1].segment.previous.digest = Digest(fs[i + 1 - 1].segment)
  BY <1>1, Linked
<1>11. w[i + 1].doc.previous.digest # w[i].digest
  BY <1>1, <1>3, <1>8, <1>9, <1>10 DEF IsReport
<1>12. ~LinkAt(w, i + 1)
  BY <1>1, <1>11 DEF LinkAt, Meets
<1>13. Len(w) = n
  BY <1>7 DEF Replaces
<1>14. ~VerifySeries(w).passes
  BY <1>1, <1>12, <1>13, BrokenSeries
<1>15. QED
  BY <1>1, <1>4, <1>5, <1>6, <1>14, ReplacedVerdict

-----------------------------------------------------------------------------
\* The newest file.

\* The digest and the place of the file before are bound by the newest one.
LEMMA LastUnlinked ==
    ASSUME CollisionFree, NEW c, NEW fs, NEW action, Kept(c, fs, action), NEW n \in Nat \ {0, 1}, n = Len(fs),
           NEW x, x.segmentSeq = n,
           ~Meets(fs[n - 1].segment, Digest(fs[n - 1].segment), x.previous)
    PROVE  Verdict(With(fs, n, x), {"series"}) # 0
<1>1. n \in 1 .. Len(fs) /\ n \in 2 .. n /\ n - 1 \in 1 .. Len(fs) /\ n - 1 # n
  OBVIOUS
<1>2. SUFFICES ASSUME VerifyDocument(x).passes PROVE Verdict(With(fs, n, x), {"series"}) # 0
  BY <1>1, ReplacedVerdict
<1>3. PICK w : w = With(fs, n, x)
  OBVIOUS
<1>4. Replaces(w, fs, n, x)
  BY <1>1, <1>3, WithIs
<1>5. IsReport(w[n], x)
  BY <1>2, <1>4, ReportIs DEF Replaces
<1>6. IsReport(w[n - 1], fs[n - 1].segment)
  BY <1>1, <1>4 DEF Replaces
<1>7. ~LinkAt(w, n)
  BY <1>5, <1>6 DEF LinkAt, IsReport
<1>8. Len(w) = n
  BY <1>4 DEF Replaces
<1>9. ~VerifySeries(w).passes
  BY <1>1, <1>7, <1>8, BrokenSeries
<1>10. QED
  BY <1>1, <1>2, <1>3, <1>9, ReplacedVerdict

\* What a file claims is bound by the file itself.
LEMMA ClaimUnfit ==
    ASSUME NEW c, NEW fs, NEW k, NEW D \in Docs, FileOf(c, fs, k, D),
           NEW p \in Numbered \ {"segmentId", "exportedAt"}, NEW x, But(x, D, p), x[p] = D[p] + 1
    PROVE  ~Fits(x)
<1> DEFINE P == {"formatVersion", "segmentSeq", "tenant", "from", "to", "count", "firstAt", "lastAt",
                 "startPrevHash", "endHash"}
<1>1. x \in Docs /\ \A q \in DocFields \ {p} : x[q] = D[q]
  BY DEF But
<1>2. SUFFICES ASSUME Fits(x) PROVE FALSE
  OBVIOUS
<1>2a. PICK f \in Nat, t \in Nat : f = D.from /\ t = D.to /\ f <= t
  BY DEF FileOf
<1>2b. t - f + 1 \in Nat /\ t - f + 1 >= 1
  BY <1>2a
<1>2c. D.count = t - f + 1
  BY <1>2a DEF FileOf
<1>3. Fits(D) /\ D.count \in Nat /\ D.count >= 1 /\ DOMAIN D.entries = 1 .. D.count
  BY <1>2b, <1>2c DEF FileOf
<1>4. PICK E \in Seq(Entries) : E = D.entries /\ E = x.entries
  BY <1>1 DEF Docs, DocFields, Numbered
<1>5. 1 \in DOMAIN E /\ Len(E) = D.count
  BY <1>3, <1>4 DEF FileOf
<1>6. /\ D.formatVersion \in Int /\ D.segmentSeq \in Int /\ D.tenant \in Int /\ D.from \in Int /\ D.to \in Int
      /\ D.count \in Int /\ D.firstAt \in Int /\ D.lastAt \in Int /\ D.startPrevHash \in Int /\ D.endHash \in Int
  BY DEF Docs
<1>7. CASE p = "formatVersion"
  BY <1>2, <1>3, <1>6, <1>7 DEF Fits, ClaimsFit
<1>8. CASE p = "segmentSeq"
  <2>1. x.genesis = D.genesis /\ x.previous = D.previous
    BY <1>1, <1>8 DEF DocFields, Numbered
  <2>2. PositionFits(x) /\ PositionFits(D) /\ x.segmentSeq = D.segmentSeq + 1
    BY <1>2, <1>3, <1>8 DEF Fits
  <2>3. QED
    BY <1>6, <2>1, <2>2 DEF PositionFits
<1>9. CASE p = "tenant"
  <2>1. E[1].tenant = D.tenant /\ E[1].tenant = x.tenant
    BY <1>2, <1>3, <1>4, <1>5 DEF Fits, EntriesFit
  <2>2. QED
    <3>1. x.tenant = D.tenant + 1
      BY <1>9
    <3>2. QED
      BY <1>6, <2>1, <3>1
<1>10. CASE p = "from"
  <2>1. E[1].seq = D.from + 1 - 1 /\ E[1].seq = x.from + 1 - 1
    BY <1>2, <1>3, <1>4, <1>5 DEF Fits, EntriesFit
  <2>2. x.from = D.from + 1
    BY <1>10
  <2>3. QED
    BY <1>6, <2>1, <2>2
<1>11. CASE p \in {"to", "firstAt", "lastAt", "endHash"}
  <2>1. EndsFit(x) /\ EndsFit(D)
    BY <1>2, <1>3 DEF Fits
  <2>2. x.to = D.to /\ x.firstAt = D.firstAt /\ x.lastAt = D.lastAt /\ x.endHash = D.endHash
    BY <1>4, <2>1 DEF EndsFit
  <2>3. QED
    BY <1>6, <1>11, <2>2
<1>12. CASE p = "count"
  <2>1. x.count = Len(E) /\ D.count = Len(E)
    BY <1>2, <1>3, <1>4 DEF Fits, ClaimsFit
  <2>2. QED
    BY <1>6, <1>12, <2>1
<1>13. CASE p = "startPrevHash"
  <2>1. x.genesis = D.genesis /\ x.previous = D.previous
    BY <1>1, <1>13 DEF DocFields, Numbered
  <2>2. E[1].prevHash = x.startPrevHash /\ E[1].prevHash = D.startPrevHash
    BY <1>2, <1>3, <1>4, <1>5 DEF Fits, EntriesFit
  <2>3. QED
    <3>1. x.startPrevHash = D.startPrevHash + 1
      BY <1>13
    <3>2. PICK s \in Int : s = D.startPrevHash
      BY <1>6
    <3>3. s = s + 1
      BY <2>2, <3>1, <3>2
    <3>4. QED
      BY <3>3
<1>14. p \in P
  BY DEF Numbered
<1>15. QED
  BY <1>7, <1>8, <1>9, <1>10, <1>11, <1>12, <1>13, <1>14

LEMMA GenesisUnfit ==
    ASSUME NEW D \in Docs, Fits(D), NEW x, But(x, D, "genesis"), x.genesis = ~D.genesis
    PROVE  ~Fits(x)
<1>1. x.startPrevHash = D.startPrevHash /\ x.genesis \in BOOLEAN /\ D.genesis \in BOOLEAN
  BY DEF But, DocFields, Numbered, Docs
<1>2. SUFFICES ASSUME Fits(x) PROVE FALSE
  OBVIOUS
<1>3. (x.genesis <=> x.startPrevHash = GenesisHash) /\ (D.genesis <=> D.startPrevHash = GenesisHash)
  BY <1>2 DEF Fits, ClaimsFit
<1>4. QED
  BY <1>1, <1>3

LEMMA TailUnfit ==
    ASSUME NEW D \in Docs, Fits(D), NEW x, But(x, D, "entries"), x.entries = Tail(D.entries)
    PROVE  ~Fits(x)
<1>1. PICK E \in Seq(Entries) : E = D.entries
  BY DEF Docs
<1>2. E # <<>> /\ D.count = Len(E)
  BY <1>1 DEF Fits, ClaimsFit
<1>3. Len(Tail(E)) = Len(E) - 1
  BY <1>2, HeadTailProperties
<1>4. x.count = D.count
  BY DEF But, DocFields, Numbered
<1>5. SUFFICES ASSUME Fits(x) PROVE FALSE
  OBVIOUS
<1>6. x.count = Len(Tail(E))
  BY <1>1, <1>5 DEF Fits, ClaimsFit
<1>7. QED
  BY <1>1, <1>2, <1>3, <1>4, <1>6

\* What points back is bound by the file itself or by the file before.
LEMMA PointerUnfit ==
    ASSUME NEW D \in Docs, Fits(D), D.previous # NoSegment, NEW prev, NEW digest, Meets(prev, digest, D.previous),
           NEW x, But(x, D, "previous"),
           x.previous = NoSegment \/ \E f \in PointerFields : x.previous[f] = D.previous[f] + 1
    PROVE  ~Fits(x) \/ ~Meets(prev, digest, x.previous)
<1>1. SUFFICES ASSUME Fits(x), Meets(prev, digest, x.previous) PROVE FALSE
  OBVIOUS
<1>2. PICK p \in Pointers : p = D.previous
  BY DEF Docs
<1>3. x.previous # NoSegment
  BY <1>1 DEF Meets
<1>4. PICK q \in Pointers : q = x.previous
  BY <1>3 DEF But, Docs
<1>5. /\ q.segmentSeq = p.segmentSeq /\ q.segmentId = p.segmentId /\ q.toSeq = p.toSeq /\ q.endHash = p.endHash
      /\ q.digest = p.digest
  BY <1>1, <1>2, <1>4 DEF Meets
<1>6. PICK f \in PointerFields : q[f] = p[f] + 1
  BY <1>2, <1>3, <1>4
<1>7. q[f] = p[f] /\ p[f] \in Int
  BY <1>5 DEF PointerFields, Pointers
<1>8. QED
  BY <1>6, <1>7

\* And the place of an entry by those around it.
LEMMA EntryUnfit ==
    ASSUME NEW D \in Docs, Fits(D), NEW j \in DOMAIN D.entries, NEW f \in Entries, NEW x, WithEntry(x, D, j, f),
           NEW p \in {"seq", "tenant", "prevHash", "hash"}, Damaged(p, D.entries[j], f)
    PROVE  ~Fits(x)
<1>1. PICK E \in Seq(Entries), S \in Seq(Entries) : E = D.entries /\ S = x.entries
  BY DEF Docs, WithEntry, But
<1>2. PICK m \in Nat : m = Len(E) /\ DOMAIN E = 1 .. m /\ DOMAIN S = 1 .. m /\ Len(S) = m /\ j \in 1 .. m
  BY <1>1 DEF WithEntry
<1>3. S[j] = f /\ \A k \in 1 .. m : k # j => S[k] = E[k]
  BY <1>1, <1>2 DEF WithEntry
<1>4. PICK e \in Entries : e = E[j]
  BY <1>1, <1>2
<1>5. f[p] = e[p] + 1 /\ (\A q \in EntryFields \ {p} : f[q] = e[q])
  BY <1>1, <1>4 DEF Damaged, Altered, ButEntry
<1>6. e.seq \in Int /\ e.tenant \in Int /\ e.prevHash \in Int /\ e.hash \in Int
  BY DEF Entries
<1>7. x.from = D.from /\ x.tenant = D.tenant /\ x.startPrevHash = D.startPrevHash /\ x.endHash = D.endHash
  BY DEF WithEntry, But, DocFields, Numbered
<1>8. SUFFICES ASSUME Fits(x) PROVE FALSE
  OBVIOUS
<1>9. ASSUME NEW k \in 1 .. m
      PROVE  /\ E[k].seq = D.from + k - 1 /\ E[k].tenant = D.tenant
             /\ E[k].prevHash = IF k = 1 THEN D.startPrevHash ELSE E[k - 1].hash
             /\ S[k].seq = D.from + k - 1 /\ S[k].tenant = D.tenant
             /\ S[k].prevHash = IF k = 1 THEN D.startPrevHash ELSE S[k - 1].hash
  BY <1>1, <1>2, <1>7, <1>8 DEF Fits, EntriesFit
<1>10. CASE p = "seq"
  BY <1>2, <1>3, <1>4, <1>5, <1>6, <1>9, <1>10
<1>11. CASE p = "tenant"
  BY <1>2, <1>3, <1>4, <1>5, <1>6, <1>9, <1>11
<1>12. CASE p = "prevHash"
  <2>1. CASE j = 1
    BY <1>2, <1>3, <1>4, <1>5, <1>6, <1>9, <1>12, <2>1
  <2>2. CASE j # 1
    <3>1. j - 1 \in 1 .. m /\ j - 1 # j
      BY <1>2, <2>2
    <3>2. S[j - 1] = E[j - 1]
      BY <1>3, <3>1
    <3>3. S[j].prevHash = E[j - 1].hash /\ E[j].prevHash = E[j - 1].hash
      BY <1>2, <1>9, <2>2, <3>2
    <3>4. QED
      BY <1>3, <1>4, <1>5, <1>6, <1>12, <3>3
  <2>3. QED
    BY <2>1, <2>2
<1>13. CASE p = "hash"
  <2>1. CASE j = m
    <3>1. D.endHash = E[m].hash /\ D.endHash = S[m].hash
      BY <1>1, <1>2, <1>7, <1>8 DEF Fits, EndsFit
    <3>2. QED
      <4>1. f.hash = e.hash + 1 /\ S[m].hash = f.hash /\ E[m].hash = e.hash
        BY <1>3, <1>4, <1>5, <1>13, <2>1
      <4>2. PICK s \in Int : s = e.hash
        BY <1>6
      <4>3. s = s + 1
        BY <3>1, <4>1, <4>2
      <4>4. QED
        BY <4>3
  <2>2. CASE j # m
    <3>0. j \in 1 .. m /\ m \in Nat
      BY <1>2
    <3>1. j + 1 \in 1 .. m /\ j + 1 # j /\ j + 1 # 1 /\ j + 1 - 1 = j
      BY <2>2, <3>0
    <3>2. S[j + 1] = E[j + 1]
      BY <1>3, <3>1
    <3>3. S[j + 1].prevHash = S[j].hash /\ E[j + 1].prevHash = E[j].hash
      <4>1. PICK k \in 1 .. m : k = j + 1 /\ k # 1 /\ k - 1 = j
        BY <3>0, <3>1
      <4>2. S[k].prevHash = S[k - 1].hash /\ E[k].prevHash = E[k - 1].hash
        BY <1>9, <4>1
      <4>3. QED
        BY <4>1, <4>2
    <3>4. QED
      BY <1>3, <1>4, <1>5, <1>6, <1>13, <3>2, <3>3
  <2>3. QED
    BY <2>1, <2>2
<1>14. QED
  BY <1>10, <1>11, <1>12, <1>13

\* An entry that keeps its place and its hash.
InPlace(f, e) == f.seq = e.seq /\ f.tenant = e.tenant /\ f.prevHash = e.prevHash /\ f.hash = e.hash

LEMMA AlteredFits ==
    ASSUME NEW D \in Docs, Fits(D), NEW j \in DOMAIN D.entries, NEW f \in Entries, NEW x, WithEntry(x, D, j, f),
           InPlace(f, D.entries[j])
    PROVE  /\ Fits(x) <=>
                /\ f.version <= CurrentHashVersion
                /\ IF IsPreCutover(f.version) THEN \A k \in 1 .. j - 1 : k \in PreOf(D)
                   ELSE ComputeHash(f) = f.hash /\ \A k \in PreOf(D) : k <= j
                /\ j = 1 \/ j = Len(D.entries) => f.at = D.entries[j].at
           /\ PreOf(x) = (PreOf(D) \ {j}) \cup (IF IsPreCutover(f.version) THEN {j} ELSE {})
<1>1. PICK E \in Seq(Entries), S \in Seq(Entries) : E = D.entries /\ S = x.entries
  BY DEF Docs, WithEntry, But
<1>2. PICK m \in Nat : m = Len(E) /\ DOMAIN E = 1 .. m /\ DOMAIN S = 1 .. m /\ Len(S) = m /\ j \in 1 .. m
  BY <1>1 DEF WithEntry
<1>3. S[j] = f /\ \A k \in 1 .. m : k # j => S[k] = E[k]
  BY <1>1, <1>2 DEF WithEntry
<1>4. PICK e \in Entries : e = E[j] /\ InPlace(f, e)
  BY <1>1, <1>2
<1>5. /\ x.from = D.from /\ x.tenant = D.tenant /\ x.startPrevHash = D.startPrevHash /\ x.endHash = D.endHash
      /\ x.formatVersion = D.formatVersion /\ x.count = D.count /\ x.genesis = D.genesis /\ x.previous = D.previous
      /\ x.to = D.to /\ x.firstAt = D.firstAt /\ x.lastAt = D.lastAt /\ x.segmentSeq = D.segmentSeq
  BY DEF WithEntry, But, DocFields, Numbered
<1>6. PICK Pre, Prf : /\ Pre = {k \in 1 .. m : IsPreCutover(E[k].version)} /\ Prf = {k \in 1 .. m : IsPreCutover(S[k].version)}
  OBVIOUS
<1>7. PreOf(D) = Pre /\ PreOf(x) = Prf
  BY <1>1, <1>2, <1>6 DEF PreOf
<1>8. Prf = (Pre \ {j}) \cup (IF IsPreCutover(f.version) THEN {j} ELSE {})
  BY <1>2, <1>3, <1>6
<1>9. ASSUME NEW k \in 1 .. m
      PROVE  /\ E[k].seq = D.from + k - 1 /\ E[k].tenant = D.tenant
             /\ E[k].prevHash = IF k = 1 THEN D.startPrevHash ELSE E[k - 1].hash
             /\ E[k].version <= CurrentHashVersion
             /\ IF k \in Pre THEN \A l \in 1 .. k : l \in Pre ELSE ComputeHash(E[k]) = E[k].hash
  <2>1. /\ E[k].seq = D.from + k - 1 /\ E[k].tenant = D.tenant
        /\ E[k].prevHash = IF k = 1 THEN D.startPrevHash ELSE E[k - 1].hash
        /\ E[k].version <= CurrentHashVersion
        /\ IF IsPreCutover(E[k].version) THEN \A l \in 1 .. k : IsPreCutover(E[l].version) ELSE ComputeHash(E[k]) = E[k].hash
    BY <1>1, <1>2 DEF Fits, EntriesFit
  <2>2. \A l \in 1 .. k : l \in 1 .. m
    OBVIOUS
  <2>3. QED
    BY <1>6, <2>1, <2>2
<1>10. PICK Each : Each = {k \in 1 .. m :
             /\ S[k].seq = D.from + k - 1 /\ S[k].tenant = D.tenant
             /\ S[k].prevHash = IF k = 1 THEN D.startPrevHash ELSE S[k - 1].hash
             /\ S[k].version <= CurrentHashVersion
             /\ IF IsPreCutover(S[k].version) THEN \A l \in 1 .. k : IsPreCutover(S[l].version) ELSE ComputeHash(S[k]) = S[k].hash}
  OBVIOUS
<1>11. EntriesFit(x) <=> Each = 1 .. m
  BY <1>1, <1>2, <1>5, <1>10 DEF EntriesFit
<1>12. Each = 1 .. m <=>
         /\ f.version <= CurrentHashVersion
         /\ IF IsPreCutover(f.version) THEN \A k \in 1 .. j - 1 : k \in Pre
            ELSE ComputeHash(f) = f.hash /\ \A k \in Pre : k <= j
  <2>1. ASSUME Each = 1 .. m
        PROVE  /\ f.version <= CurrentHashVersion
               /\ IF IsPreCutover(f.version) THEN \A k \in 1 .. j - 1 : k \in Pre
                  ELSE ComputeHash(f) = f.hash /\ \A k \in Pre : k <= j
    <3>1. j \in Each
      BY <1>2, <2>1
    <3>2. /\ f.version <= CurrentHashVersion
          /\ IF IsPreCutover(f.version) THEN \A l \in 1 .. j : IsPreCutover(S[l].version) ELSE ComputeHash(f) = f.hash
      BY <1>3, <1>10, <3>1
    <3>3. ASSUME IsPreCutover(f.version), NEW k \in 1 .. j - 1 PROVE k \in Pre
      <4>1. k \in 1 .. j /\ k # j /\ k \in 1 .. m
        BY <1>2
      <4>2. IsPreCutover(S[k].version) /\ S[k] = E[k]
        BY <1>3, <3>2, <3>3, <4>1
      <4>3. QED
        BY <1>6, <4>1, <4>2
    <3>4. ASSUME ~IsPreCutover(f.version), NEW k \in Pre PROVE k <= j
      <4>1. k \in 1 .. m /\ IsPreCutover(E[k].version)
        BY <1>6
      <4>2. SUFFICES ASSUME ~(k <= j) PROVE FALSE
        OBVIOUS
      <4>3. k # j /\ j \in 1 .. k
        BY <1>2, <4>1, <4>2
      <4>4. k \in Each /\ IsPreCutover(S[k].version)
        BY <1>3, <2>1, <4>1, <4>3
      <4>5. IsPreCutover(S[j].version)
        BY <1>10, <4>3, <4>4
      <4>6. QED
        BY <1>3, <3>4, <4>5
    <3>5. QED
      BY <3>2, <3>3, <3>4
  <2>2. ASSUME f.version <= CurrentHashVersion,
               IF IsPreCutover(f.version) THEN \A k \in 1 .. j - 1 : k \in Pre
               ELSE ComputeHash(f) = f.hash /\ \A k \in Pre : k <= j,
               NEW k \in 1 .. m
        PROVE  k \in Each
    <3>1. S[k].seq = D.from + k - 1 /\ S[k].tenant = D.tenant /\ S[k].prevHash = E[k].prevHash /\ S[k].version <= CurrentHashVersion
      BY <1>3, <1>4, <1>9, <2>2 DEF InPlace
    <3>2. S[k].prevHash = IF k = 1 THEN D.startPrevHash ELSE S[k - 1].hash
      <4>1. CASE k = 1
        BY <1>9, <3>1, <4>1
      <4>2. CASE k # 1
        <5>1. k - 1 \in 1 .. m
          BY <4>2
        <5>2. S[k - 1].hash = E[k - 1].hash
          BY <1>3, <1>4, <5>1 DEF InPlace
        <5>3. QED
          BY <1>9, <3>1, <4>2, <5>2
      <4>3. QED
        BY <4>1, <4>2
    <3>3. ASSUME IsPreCutover(S[k].version), NEW l \in 1 .. k PROVE IsPreCutover(S[l].version)
      <4>1. l \in 1 .. m
        OBVIOUS
      <4>2. CASE l = j
        <5>1. SUFFICES ASSUME ~IsPreCutover(f.version) PROVE FALSE
          BY <1>3, <4>2
        <5>2. k # j
          BY <1>3, <3>3, <5>1
        <5>3. k \in Pre
          BY <1>3, <1>6, <3>3, <5>2
        <5>4. k <= j
          BY <2>2, <5>1, <5>3
        <5>5. QED
          BY <1>2, <4>2, <5>2, <5>4
      <4>3. CASE l # j
        <5>1. l \in Pre
          <6>1. CASE k = j
            <7>1. l \in 1 .. j - 1 /\ IsPreCutover(f.version)
              BY <1>2, <1>3, <3>3, <4>3, <6>1
            <7>2. QED
              BY <2>2, <7>1
          <6>2. CASE k # j
            BY <1>3, <1>6, <1>9, <3>3, <6>2
          <6>3. QED
            BY <6>1, <6>2
        <5>2. QED
          BY <1>3, <1>6, <4>1, <4>3, <5>1
      <4>4. QED
        BY <4>2, <4>3
    <3>4. ASSUME ~IsPreCutover(S[k].version) PROVE ComputeHash(S[k]) = S[k].hash
      BY <1>3, <1>6, <1>9, <2>2, <3>4
    <3>5. QED
      BY <1>10, <3>1, <3>2, <3>3, <3>4
  <2>3. Each \subseteq 1 .. m
    BY <1>10
  <2>4. QED
    BY <2>1, <2>2, <2>3
<1>13. E # <<>> /\ S # <<>> /\ 1 \in 1 .. m /\ m \in 1 .. m
  BY <1>2
<1>14. ClaimsFit(x) /\ PositionFits(x)
  <2>1. ClaimsFit(D) /\ PositionFits(D)
    BY DEF Fits
  <2>2. ClaimsFit(x)
    BY <1>1, <1>2, <1>5, <1>13, <2>1 DEF ClaimsFit
  <2>3. QED
    BY <1>5, <2>1, <2>2 DEF PositionFits
<1>15. EndsFit(x) <=> (j = 1 \/ j = m => f.at = e.at)
  <2>1. /\ D.to = E[m].seq /\ D.endHash = E[m].hash /\ D.firstAt = E[1].at /\ D.lastAt = E[m].at
    BY <1>1, <1>2 DEF Fits, EndsFit
  <2>2. S[m].seq = E[m].seq /\ S[m].hash = E[m].hash
    BY <1>3, <1>4, <1>13 DEF InPlace
  <2>3. EndsFit(x) <=> S[1].at = E[1].at /\ S[m].at = E[m].at
    BY <1>1, <1>2, <1>5, <2>1, <2>2 DEF EndsFit
  <2>4. (S[1].at = E[1].at) <=> (j = 1 => f.at = e.at)
    BY <1>3, <1>4, <1>13
  <2>5. (S[m].at = E[m].at) <=> (j = m => f.at = e.at)
    BY <1>3, <1>4, <1>13
  <2>6. QED
    BY <2>3, <2>4, <2>5
<1>16. Fits(x) <=> EntriesFit(x) /\ EndsFit(x)
  BY <1>14 DEF Fits
<1>17. QED
  BY <1>1, <1>2, <1>4, <1>7, <1>8, <1>11, <1>12, <1>15, <1>16

\* A document in the place of another.
SamePlace(x, D) ==
    /\ x \in Docs /\ x.segmentSeq = D.segmentSeq /\ x.tenant = D.tenant /\ x.from = D.from /\ x.to = D.to
    /\ x.count = D.count /\ x.startPrevHash = D.startPrevHash /\ x.previous = D.previous /\ x.genesis = D.genesis

\* All records, and the headers they seal, with a document for the newest file.
EarlierRecords(fs) == UNION {ExportRecords(fs[k].segment) : k \in 1 .. Len(fs) - 1}
AllRecords(fs, x) == EarlierRecords(fs) \cup ExportRecords(x)
LastHeaders(fs, x) ==
    [k \in 1 .. Len(fs) |->
        IF k = Len(fs) THEN HeaderOf(x, Through(x), RecordOf(AllRecords(fs, x), k))
        ELSE HeaderOf(fs[k].segment, Through(fs[k].segment), RecordOf(AllRecords(fs, x), k))]
FullBefore(fs) == \A k \in 1 .. Len(fs) - 1 : Led(fs, k) = fs[k].segment.count
Last(fs) == fs[Len(fs)].segment

LEMMA LastLinks ==
    ASSUME CollisionFree, NEW c, NEW fs, NEW action, Kept(c, fs, action), NEW n \in Nat \ {0}, n = Len(fs),
           NEW x, SamePlace(x, Last(fs)), NEW w, Replaces(w, fs, n, x), VerifyDocument(x).passes,
           NEW j \in 2 .. n
    PROVE  LinkAt(w, j)
<1>1. j \in 2 .. Len(fs) /\ j - 1 \in 1 .. Len(fs) /\ j - 1 # n /\ j \in 1 .. Len(fs)
  OBVIOUS
<1>2. /\ Joins(fs[j - 1].segment, fs[j].segment)
      /\ Meets(fs[j - 1].segment, Digest(fs[j - 1].segment), fs[j].segment.previous)
  BY <1>1, Linked
<1>3. IsReport(w[j - 1], fs[j - 1].segment)
  BY <1>1 DEF Replaces
<1>4. w[j - 1].doc = fs[j - 1].segment /\ w[j - 1].digest = Digest(fs[j - 1].segment)
  BY <1>3 DEF IsReport
<1>5. CASE j # n
  <2>1. w[j].doc = fs[j].segment
    BY <1>1, <1>5 DEF Replaces, IsReport
  <2>2. QED
    BY <1>2, <1>4, <2>1 DEF LinkAt
<1>6. CASE j = n
  <2>1. w[j].doc = x
    BY <1>6, ReportIs, ZenonT(60) DEF Replaces, IsReport
  <2>2. SamePlace(x, fs[j].segment)
    BY <1>6 DEF Last
  <2>3. QED
    BY <1>2, <1>4, <2>1, <2>2 DEF LinkAt, Joins, SamePlace
<1>7. QED
  BY <1>5, <1>6

LEMMA LastAnchors ==
    ASSUME CollisionFree, NEW c, NEW fs, NEW action, Kept(c, fs, action), NEW n \in Nat \ {0}, n = Len(fs),
           VerifySeries(ReportsOf(fs)).passes,
           NEW x, SamePlace(x, Last(fs)), NEW w, Replaces(w, fs, n, x), VerifyDocument(x).passes
    PROVE  AnchorsPreCutover(w) <=> (Cardinality(PreOf(x)) > 0 => FullBefore(fs))
<1>1. PICK R : R = ReportsOf(fs)
  OBVIOUS
<1>2. DOMAIN R = 1 .. n /\ \A k \in 1 .. n : R[k].pre = Led(fs, k) /\ R[k].doc = fs[k].segment
  BY <1>1, ReportsAre DEF IsReport, Led
<1>3. AnchorsPreCutover(R)
  BY <1>1 DEF VerifySeries, Refused
<1>4. n \in 1 .. n /\ 1 \in 1 .. n
  OBVIOUS
<1>5. w[n].pre = Cardinality(PreOf(x)) /\ w[n].doc = x
  BY ReportIs, ZenonT(60) DEF Replaces, IsReport
<1>6. \A k \in 1 .. n : k # n => w[k].pre = Led(fs, k) /\ w[k].doc = fs[k].segment
  BY DEF Replaces, IsReport, Led
<1>7. DOMAIN w = 1 .. n
  BY DEF Replaces
<1>8. w[1].doc.genesis
  <2>1. FileIs(c, fs, 1)
    BY <1>4, FileFacts
  <2>2. fs[1].segment.genesis
    BY <2>1 DEF FileIs, FileOf
  <2>3. CASE n = 1
    BY <1>5, <2>2, <2>3 DEF SamePlace, Last
  <2>4. CASE n # 1
    BY <1>4, <1>6, <2>2, <2>4
  <2>5. QED
    BY <2>3, <2>4
<1>9. AnchorsPreCutover(w) <=> \A k \in 1 .. n : w[k].pre > 0 => \A l \in 1 .. k - 1 : w[l].pre = w[l].doc.count
  BY <1>7, <1>8 DEF AnchorsPreCutover
<1>10. ASSUME NEW k \in 1 .. n, k # n, w[k].pre > 0, NEW l \in 1 .. k - 1 PROVE w[l].pre = w[l].doc.count
  <2>1. l \in 1 .. n /\ l # n
    BY <1>10
  <2>2. R[k].pre > 0
    BY <1>2, <1>6, <1>10
  <2>3. R[l].pre = R[l].doc.count
    BY <1>2, <1>3, <2>2 DEF AnchorsPreCutover
  <2>4. QED
    BY <1>2, <1>6, <2>1, <2>3
<1>11. (\A l \in 1 .. n - 1 : w[l].pre = w[l].doc.count) <=> FullBefore(fs)
  <2>1. \A l \in 1 .. n - 1 : l \in 1 .. n /\ l # n
    OBVIOUS
  <2>2. \A l \in 1 .. n - 1 : w[l].pre = Led(fs, l) /\ w[l].doc = fs[l].segment
    BY <1>6, <2>1
  <2>3. QED
    BY <2>2 DEF FullBefore
<1>12. AnchorsPreCutover(w) <=> (w[n].pre > 0 => \A l \in 1 .. n - 1 : w[l].pre = w[l].doc.count)
  BY <1>4, <1>9, <1>10
<1>13. QED
  BY <1>5, <1>11, <1>12

LEMMA LastRecords ==
    ASSUME NEW fs, NEW n \in Nat \ {0}, n = Len(fs), NEW x, NEW w, Replaces(w, fs, n, x), VerifyDocument(x).passes
    PROVE  /\ UNION {ExportRecords(w[k].doc) : k \in DOMAIN w} = AllRecords(fs, x)
           /\ x.segmentSeq = n /\ (\A k \in 1 .. n : fs[k].segment.segmentSeq = k) =>
                SealHeaders(w, AllRecords(fs, x)) = LastHeaders(fs, x)
<1>1. w[n].doc = x /\ w[n].through = Through(x)
  BY ReportIs, ZenonT(60) DEF Replaces, IsReport
<1>2. \A k \in 1 .. n : k # n => w[k].doc = fs[k].segment /\ w[k].through = Through(fs[k].segment)
  BY DEF Replaces, IsReport
<1>3. DOMAIN w = 1 .. n
  BY DEF Replaces
<1>4. \A k : k \in 1 .. n <=> k \in 1 .. n - 1 \/ k = n
  OBVIOUS
<1>5. n \notin 1 .. n - 1
  OBVIOUS
<1>6. \A k \in 1 .. n - 1 : w[k].doc = fs[k].segment
  BY <1>2, <1>4, <1>5
<1>7. UNION {ExportRecords(w[k].doc) : k \in DOMAIN w} = AllRecords(fs, x)
  <2>0. \A r : r \in AllRecords(fs, x) <=> r \in ExportRecords(x) \/ \E k \in 1 .. n - 1 : r \in ExportRecords(fs[k].segment)
    <3>1. \A r : r \in EarlierRecords(fs) <=> \E k \in 1 .. n - 1 : r \in ExportRecords(fs[k].segment)
      BY DEF EarlierRecords
    <3>2. QED
      BY <3>1 DEF AllRecords
  <2>1. ASSUME NEW r, NEW k \in 1 .. n, r \in ExportRecords(w[k].doc) PROVE r \in AllRecords(fs, x)
    <3>1. CASE k = n
      BY <1>1, <2>0, <2>1, <3>1
    <3>2. CASE k \in 1 .. n - 1
      BY <1>6, <2>0, <2>1, <3>2
    <3>3. QED
      BY <1>4, <3>1, <3>2
  <2>2. ASSUME NEW r \in AllRecords(fs, x) PROVE \E k \in 1 .. n : r \in ExportRecords(w[k].doc)
    <3>1. CASE r \in ExportRecords(x)
      BY <1>1, <1>4, <3>1
    <3>2. CASE \E k \in 1 .. n - 1 : r \in ExportRecords(fs[k].segment)
      BY <1>4, <1>6, <3>2
    <3>3. QED
      BY <2>0, <3>1, <3>2
  <2>3. QED
    BY <1>3, <2>1, <2>2
<1>8. ASSUME x.segmentSeq = n, \A k \in 1 .. n : fs[k].segment.segmentSeq = k
      PROVE  SealHeaders(w, AllRecords(fs, x)) = LastHeaders(fs, x)
  <2>1. PICK Q : Q = AllRecords(fs, x)
    OBVIOUS
  <2>2. ASSUME NEW k \in 1 .. n
        PROVE  HeaderOf(w[k].doc, w[k].through, RecordOf(Q, w[k].doc.segmentSeq)) =
                 (IF k = n THEN HeaderOf(x, Through(x), RecordOf(Q, k))
                  ELSE HeaderOf(fs[k].segment, Through(fs[k].segment), RecordOf(Q, k)))
    BY <1>1, <1>2, <1>8
  <2>3. QED
    BY <1>3, <2>1, <2>2 DEF SealHeaders, LastHeaders
<1>9. QED
  BY <1>7, <1>8

LEMMA LastVerdict ==
    ASSUME CollisionFree, NEW c, NEW fs, NEW action, Kept(c, fs, action), NEW n \in Nat \ {0}, n = Len(fs),
           VerifySeries(ReportsOf(fs)).passes, NEW x, SamePlace(x, Last(fs))
    PROVE  Verdict(With(fs, n, x), {"series"}) = 0 <=>
             /\ Fits(x) /\ NoConflict(ExportRecords(x)) /\ HeaderOf(x, Through(x), OwnRecords(x)) # "refused"
             /\ Cardinality(PreOf(x)) > 0 => FullBefore(fs)
             /\ NoConflict(AllRecords(fs, x)) /\ HeadersFit(LastHeaders(fs, x))
<1>1. n \in 1 .. Len(fs)
  OBVIOUS
<1>2. VerifyDocument(x).passes <=>
         Fits(x) /\ NoConflict(ExportRecords(x)) /\ HeaderOf(x, Through(x), OwnRecords(x)) # "refused"
  BY PassForm
<1>3. ASSUME NEW k \in 1 .. n PROVE fs[k].segment.segmentSeq = k
  <2>1. FileIs(c, fs, k)
    BY FileFacts
  <2>2. QED
    BY <2>1 DEF FileIs, FileOf
<1>4. x.segmentSeq = n
  BY <1>1, <1>3 DEF SamePlace, Last
<1>5. CASE ~VerifyDocument(x).passes
  BY <1>1, <1>2, <1>5, ReplacedVerdict
<1>6. CASE VerifyDocument(x).passes
  <2>1. PICK w : w = With(fs, n, x)
    OBVIOUS
  <2>2. Replaces(w, fs, n, x)
    BY <1>1, <2>1, WithIs
  <2>3. Verdict(w, {"series"}) = 0 <=> VerifySeries(w).passes
    BY <1>1, <1>4, <1>6, <2>1, ReplacedVerdict
  <2>4. \A j \in 2 .. Len(w) : LinkAt(w, j)
    <3>1. Len(w) = n
      BY <2>2 DEF Replaces
    <3>2. QED
      BY <1>6, <2>2, <3>1, LastLinks
  <2>5. AnchorsPreCutover(w) <=> (Cardinality(PreOf(x)) > 0 => FullBefore(fs))
    BY <1>6, <2>2, LastAnchors
  <2>6. UNION {ExportRecords(w[k].doc) : k \in DOMAIN w} = AllRecords(fs, x)
    BY <1>6, <2>2, LastRecords
  <2>7. SealHeaders(w, AllRecords(fs, x)) = LastHeaders(fs, x)
    BY <1>3, <1>4, <1>6, <2>2, LastRecords
  <2>8. VerifySeries(w) = IF AnchorsPreCutover(w) THEN SeriesReport(w, AllRecords(fs, x), LastHeaders(fs, x)) ELSE Refused
    BY <2>4, <2>6, <2>7 DEF VerifySeries, LinkAt
  <2>9. SeriesReport(w, AllRecords(fs, x), LastHeaders(fs, x)).passes
          <=> NoConflict(AllRecords(fs, x)) /\ HeadersFit(LastHeaders(fs, x))
    BY DEF SeriesReport, Refused
  <2>10. VerifySeries(w).passes <=> AnchorsPreCutover(w) /\ NoConflict(AllRecords(fs, x)) /\ HeadersFit(LastHeaders(fs, x))
    BY <2>8, <2>9 DEF Refused
  <2>11. QED
    BY <1>2, <1>6, <2>1, <2>3, <2>5, <2>10
<1>7. QED
  BY <1>5, <1>6

\* The newest file, by its numbers.
NewestIs(c, fs, n, D) ==
    /\ D = Last(fs) /\ D \in Docs /\ FileOf(c, fs, n, D) /\ Fits(D)
    /\ D.from \in Nat \ {0} /\ D.to \in Nat /\ D.from <= D.to /\ D.to <= Len(c)
    /\ \A k \in 1 .. n : fs[k].segment.to \in Nat /\ fs[k].segment.to # 0 /\ fs[k].segment.to <= D.to
    /\ \A k \in 1 .. n - 1 : fs[k].segment.to < D.from

LEMMA Newest ==
    ASSUME CollisionFree, NEW c, NEW fs, NEW action, Kept(c, fs, action), NEW n \in Nat \ {0}, n = Len(fs)
    PROVE  NewestIs(c, fs, n, Last(fs))
<1>1. n \in 1 .. n
  OBVIOUS
<1>2. PICK D : D = Last(fs) /\ D = fs[n].segment
  BY DEF Last
<1>3. FileIs(c, fs, n)
  BY <1>1, FileFacts
<1>4. FileOf(c, fs, n, D)
  BY <1>2, <1>3 DEF FileIs
<1>5. ASSUME NEW k \in 1 .. n PROVE fs[k].segment.to \in Nat /\ fs[k].segment.to # 0 /\ fs[k].segment.to <= D.to
  <2>1. FileIs(c, fs, k)
    BY FileFacts
  <2>2. FileOf(c, fs, k, fs[k].segment)
    BY <2>1 DEF FileIs
  <2>3. PICK f \in Nat \ {0}, t \in Nat : f = fs[k].segment.from /\ t = fs[k].segment.to /\ f <= t
    <3>1. fs[k].segment.from \in Nat \ {0} /\ fs[k].segment.to \in Nat /\ fs[k].segment.from <= fs[k].segment.to
      BY <2>2 DEF FileOf
    <3>2. QED
      BY <3>1
  <2>4. t # 0
    BY <2>3
  <2>5. k \in 1 .. Len(fs) /\ n \in k .. Len(fs)
    OBVIOUS
  <2>6. fs[k].segment.to <= fs[n].segment.to
    BY <2>5, FilesRise
  <2>7. QED
    BY <1>2, <2>3, <2>4, <2>6
<1>6. ASSUME NEW k \in 1 .. n - 1 PROVE fs[k].segment.to < D.from
  <2>1. k \in 1 .. Len(fs) /\ n \in k .. Len(fs) /\ k # n
    OBVIOUS
  <2>2. fs[k].segment.to < fs[n].segment.from
    BY <2>1, FilesRise
  <2>3. QED
    BY <1>2, <2>2
<1>7. QED
  BY <1>2, <1>4, <1>5, <1>6, ZenonT(60) DEF NewestIs, FileOf

LEMMA EarlierIs ==
    ASSUME CollisionFree, NEW c, NEW fs, NEW action, Kept(c, fs, action), NEW n \in Nat \ {0}, n = Len(fs)
    PROVE  EarlierRecords(fs) = RecordsIn(c, 1, Last(fs).from - 1)
<1>1. PICK D : D = Last(fs) /\ D = fs[n].segment
  BY DEF Last
<1>2. n \in 1 .. n
  OBVIOUS
<1>3. FileIs(c, fs, n)
  BY <1>2, FileFacts
<1>4. D.from = IF n = 1 THEN 1 ELSE fs[n - 1].segment.to + 1
  BY <1>1, <1>3, ZenonT(120) DEF FileIs, FileOf
<1>5. CASE n = 1
  <2>1. 1 .. n - 1 = {} /\ 1 .. D.from - 1 = {}
    BY <1>4, <1>5
  <2>2. EarlierRecords(fs) = {}
    BY <2>1 DEF EarlierRecords
  <2>3. RecordsIn(c, 1, D.from - 1) = {}
    BY <2>1 DEF RecordsIn
  <2>4. QED
    BY <1>1, <2>2, <2>3
<1>6. CASE n # 1
  <2>1. 1 \in 1 .. Len(fs) /\ n - 1 \in 1 .. Len(fs)
    BY <1>6
  <2>1a. PICK q \in 1 .. Len(fs) : q = n - 1
    BY <2>1
  <2>1b. PICK i \in 1 .. Len(fs) : i = 1
    BY <2>1
  <2>1c. q \in i .. Len(fs)
    BY <2>1b
  <2>1d. UNION {ExportRecords(fs[j].segment) : j \in i .. q} = RecordsIn(c, fs[i].segment.from, fs[q].segment.to)
    BY ONLY CollisionFree, Kept(c, fs, action), q \in Nat, i \in 1 .. Len(fs), <2>1c, WindowShows
  <2>2. UNION {ExportRecords(fs[j].segment) : j \in 1 .. q} = RecordsIn(c, fs[1].segment.from, fs[q].segment.to)
    BY <2>1b, <2>1d
  <2>3. FileIs(c, fs, 1) /\ FileIs(c, fs, n - 1)
    BY <2>1, FileFacts
  <2>4. fs[1].segment.from = 1
    BY <2>3 DEF FileIs, FileOf
  <2>5. PICK t \in Nat : t = fs[n - 1].segment.to
    BY <2>3 DEF FileIs, FileOf
  <2>6. D.from - 1 = t
    BY <1>4, <1>6, <2>5
  <2>7. EarlierRecords(fs) = UNION {ExportRecords(fs[j].segment) : j \in 1 .. q}
    BY <2>1a DEF EarlierRecords
  <2>8. QED
    BY <1>1, <2>1a, <2>2, <2>4, <2>5, <2>6, <2>7
<1>7. QED
  BY <1>5, <1>6

\* The records among entries that follow one another.
LEMMA RecordsJoined ==
    ASSUME NEW c, NEW from \in Nat \ {0}, NEW to \in Nat, from <= to
    PROVE  RecordsIn(c, 1, from - 1) \cup RecordsIn(c, from, to) = RecordsIn(c, 1, to)
<1>1. \A m : m \in 1 .. to <=> m \in 1 .. from - 1 \/ m \in from .. to
  OBVIOUS
<1>2. QED
  BY <1>1 DEF RecordsIn

\* What the header of the newest file says of a document in its place.
LastSealing(c, x, n, to) ==
    IF Sealing(c, n, to) = "sealed" /\ ~HeaderAgrees(x, Through(x), c[RecordAt(c, n)].details.header)
    THEN "refused" ELSE Sealing(c, n, to)

LEMMA LastHeader ==
    ASSUME CollisionFree, NEW c, NEW fs, NEW action, Kept(c, fs, action), NEW n \in Nat \ {0}, n = Len(fs),
           NEW x, SamePlace(x, Last(fs)), NEW from \in Nat \ {0}, from <= Last(fs).to
    PROVE  HeaderOf(x, Through(x), RecordOf(RecordsIn(c, from, Last(fs).to), n)) = LastSealing(c, x, n, Last(fs).to)
<1>1. PICK D, m, own, to : /\ D = Last(fs) /\ m = RecordAt(c, n) /\ to = D.to /\ own = RecordOf(RecordsIn(c, from, to), n)
  OBVIOUS
<1>2. NewestIs(c, fs, n, D)
  BY <1>1, Newest
<1>3. to \in Nat /\ to <= Len(c) /\ D = fs[n].segment
  BY <1>1, <1>2 DEF NewestIs, Last
<1>4. m \in Nat /\ D.to <= m /\ RecordFits(D, c[m].details) /\ c[m].details \in Details
  <2>1. n \in 1 .. Len(fs)
    OBVIOUS
  <2>2. RecordIs(c, fs, n, m) /\ m \in Nat
    BY <1>1, <2>1, RecordFacts
  <2>3. QED
    BY <1>3, <2>2 DEF RecordIs
<1>5. own = IF m \in from .. to THEN {c[m].details} ELSE {}
  <2>1. n \in 1 .. Len(fs)
    OBVIOUS
  <2>2. \A k \in 1 .. Len(fs) : RecordOf(RecordsIn(c, from, to), k) =
                 IF RecordAt(c, k) \in from .. to THEN {c[RecordAt(c, k)].details} ELSE {}
    BY <1>3, RecordsIf
  <2>3. QED
    BY <1>1, <2>1, <2>2
<1>6. m \in from .. to <=> ~(m > to)
  BY <1>1, <1>3, <1>4
<1>7. CASE m > to
  <2>1. own = {}
    BY <1>5, <1>6, <1>7
  <2>2. HeaderOf(x, Through(x), own) = "none" /\ Sealing(c, n, to) = "none"
    BY <1>1, <1>7, <2>1 DEF HeaderOf, Sealing
  <2>3. QED
    BY <1>1, <2>2 DEF LastSealing
<1>8. CASE ~(m > to)
  <2>1. own = {c[m].details}
    BY <1>5, <1>6, <1>8
  <2>2. own # {} /\ (CHOOSE r \in own : TRUE) = c[m].details
    BY <2>1
  <2>3. HeaderOf(x, Through(x), own) = CheckHeader(x, Through(x), c[m].details)
    BY <2>2 DEF HeaderOf
  <2>4. RangeAgrees(x, c[m].details)
    BY <1>1, <1>4 DEF RecordFits, RangeAgrees, SamePlace
  <2>5. Sealing(c, n, to) = IF c[m].details.header = <<>> THEN "preSeal" ELSE "sealed"
    BY <1>1, <1>8 DEF Sealing
  <2>6. CheckHeader(x, Through(x), c[m].details) =
          IF c[m].details.header = <<>> THEN "preSeal"
          ELSE IF HeaderAgrees(x, Through(x), c[m].details.header) THEN "sealed" ELSE "refused"
    BY <1>4, <2>4, HeaderSays
  <2>7. QED
    BY <1>1, <2>3, <2>5, <2>6 DEF LastSealing
<1>9. QED
  BY <1>7, <1>8

LEMMA SealingFalls ==
    ASSUME NEW c, NEW fs, NEW action, Kept(c, fs, action), NEW i \in 1 .. Len(fs), NEW k \in 1 .. Len(fs), k < i,
           NEW to \in Nat, Sealing(c, i, to) # "none"
    PROVE  Sealing(c, k, to) # "none"
<1>1. RecordAt(c, k) < RecordAt(c, i)
  BY RecordsRise
<1>2. PICK m \in Nat, l \in Nat : m = RecordAt(c, k) /\ l = RecordAt(c, i)
  BY RecordFacts
<1>3. l <= to
  BY <1>2 DEF Sealing
<1>4. ~(m > to)
  BY <1>1, <1>2, <1>3
<1>5. QED
  BY <1>2, <1>4 DEF Sealing

LEMMA SameRecords ==
    ASSUME CollisionFree, NEW c, NEW fs, NEW action, Kept(c, fs, action), NEW n \in Nat \ {0}, n = Len(fs),
           VerifySeries(ReportsOf(fs)).passes, NEW x, SamePlace(x, Last(fs)),
           ExportRecords(x) = ExportRecords(Last(fs))
    PROVE  Verdict(With(fs, n, x), {"series"}) = 0 <=>
             /\ Fits(x)
             /\ Cardinality(PreOf(x)) > 0 => FullBefore(fs)
             /\ Sealing(c, n, Last(fs).to) = "sealed" => HeaderAgrees(x, Through(x), c[RecordAt(c, n)].details.header)
<1>1. PICK D : D = Last(fs)
  OBVIOUS
<1>2. NewestIs(c, fs, n, D)
  BY <1>1, Newest
<1>3. PICK from \in Nat \ {0}, to \in Nat : from = D.from /\ to = D.to /\ from <= to /\ to <= Len(c)
  BY <1>2 DEF NewestIs
<1>4. D = fs[n].segment /\ n \in 1 .. Len(fs)
  BY <1>1 DEF Last
<1>5. ExportRecords(x) = RecordsIn(c, from, to)
  BY <1>1, <1>3, <1>4, FileShows
<1>6. AllRecords(fs, x) = RecordsIn(c, 1, to)
  <2>1. EarlierRecords(fs) = RecordsIn(c, 1, from - 1)
    BY <1>1, <1>3, EarlierIs
  <2>2. RecordsIn(c, 1, from - 1) \cup RecordsIn(c, from, to) = RecordsIn(c, 1, to)
    BY <1>3, RecordsJoined
  <2>3. QED
    BY <1>5, <2>1, <2>2 DEF AllRecords
<1>7. NoConflict(ExportRecords(x)) /\ NoConflict(AllRecords(fs, x))
  <2>1. 1 \in Nat \ {0}
    OBVIOUS
  <2>2. NoConflict(RecordsIn(c, from, to)) /\ NoConflict(RecordsIn(c, 1, to))
    BY <1>3, <2>1, RecordsIf
  <2>3. QED
    BY <1>5, <1>6, <2>2
<1>8. PICK h : h = LastSealing(c, x, n, to)
  OBVIOUS
<1>9. HeaderOf(x, Through(x), OwnRecords(x)) = h
  <2>1. x.segmentSeq = n
    BY <1>1, <1>2 DEF SamePlace, NewestIs, FileOf
  <2>2. HeaderOf(x, Through(x), RecordOf(RecordsIn(c, from, to), n)) = h
    BY <1>1, <1>3, <1>8, LastHeader
  <2>3. QED
    BY <1>5, <2>1, <2>2 DEF OwnRecords
<1>10. PICK H : H = LastHeaders(fs, x)
  OBVIOUS
<1>11. /\ DOMAIN H = 1 .. n /\ H[n] = h
       /\ \A k \in 1 .. n : k # n => H[k] = Sealing(c, k, to)
  <2>1. 1 \in Nat \ {0} /\ 1 <= to
    BY <1>3
  <2>2. HeaderOf(x, Through(x), RecordOf(RecordsIn(c, 1, to), n)) = h
    BY <1>1, <1>3, <1>8, <2>1, LastHeader
  <2>3. ASSUME NEW k \in 1 .. n
        PROVE  HeaderOf(fs[k].segment, Through(fs[k].segment), RecordOf(RecordsIn(c, 1, to), k)) = Sealing(c, k, to)
    <3>1. PICK t \in Nat : t = fs[k].segment.to /\ t # 0
      BY <1>2 DEF NewestIs
    <3>2. 1 <= fs[k].segment.to
      BY <3>1
    <3>3. QED
      BY <1>3, <2>1, <3>2, HeaderIs
  <2>4. DOMAIN H = 1 .. n /\ \A k \in 1 .. n : H[k] =
            IF k = n THEN HeaderOf(x, Through(x), RecordOf(RecordsIn(c, 1, to), k))
            ELSE HeaderOf(fs[k].segment, Through(fs[k].segment), RecordOf(RecordsIn(c, 1, to), k))
    BY <1>6, <1>10 DEF LastHeaders
  <2>5. QED
    BY <1>4, <2>2, <2>3, <2>4
<1>12. h = "refused" <=> (Sealing(c, n, to) = "sealed" /\ ~HeaderAgrees(x, Through(x), c[RecordAt(c, n)].details.header))
  BY <1>8 DEF LastSealing, Sealing
<1>13. h # "refused" => h = Sealing(c, n, to)
  BY <1>8 DEF LastSealing
<1>14. HeadersFit(H) <=> h # "refused"
  <2>1. HeadersFit(H) => h # "refused"
    BY <1>4, <1>11 DEF HeadersFit
  <2>2. ASSUME h # "refused" PROVE HeadersFit(H)
    <3>1. \A k \in 1 .. n : H[k] = Sealing(c, k, to)
      BY <1>11, <1>13, <2>2
    <3>2. \A k \in 1 .. n : H[k] # "refused"
      BY <3>1 DEF Sealing
    <3>3. ASSUME NEW i \in 1 .. n, H[i] # "none", NEW k \in 1 .. i - 1 PROVE H[k] # "none"
      <4>1. k \in 1 .. n /\ k < i
        OBVIOUS
      <4>2. Sealing(c, k, to) # "none"
        BY <3>1, <3>3, <4>1, SealingFalls
      <4>3. QED
        BY <3>1, <4>1, <4>2
    <3>4. QED
      BY <1>11, <3>2, <3>3 DEF HeadersFit
  <2>3. QED
    BY <2>1, <2>2
<1>15. Verdict(With(fs, n, x), {"series"}) = 0 <=>
             /\ Fits(x) /\ h # "refused"
             /\ Cardinality(PreOf(x)) > 0 => FullBefore(fs)
  <2>1. Verdict(With(fs, n, x), {"series"}) = 0 <=>
             /\ Fits(x) /\ NoConflict(ExportRecords(x)) /\ HeaderOf(x, Through(x), OwnRecords(x)) # "refused"
             /\ Cardinality(PreOf(x)) > 0 => FullBefore(fs)
             /\ NoConflict(AllRecords(fs, x)) /\ HeadersFit(LastHeaders(fs, x))
    BY LastVerdict
  <2>2. QED
    BY <1>7, <1>9, <1>10, <1>14, <2>1
<1>16. QED
  BY <1>1, <1>3, <1>12, <1>15

\* What the newest file of a series that passes keeps to.
LEMMA NewestKeeps ==
    ASSUME CollisionFree, NEW c, NEW fs, NEW action, Kept(c, fs, action), NEW n \in Nat \ {0}, n = Len(fs),
           VerifySeries(ReportsOf(fs)).passes
    PROVE  /\ Cardinality(PreOf(Last(fs))) > 0 => FullBefore(fs)
           /\ Sealing(c, n, Last(fs).to) = "sealed" =>
                 HeaderAgrees(Last(fs), Through(Last(fs)), c[RecordAt(c, n)].details.header)
<1>1. PICK R : R = ReportsOf(fs)
  OBVIOUS
<1>2. DOMAIN R = 1 .. n /\ \A k \in 1 .. n : R[k].pre = Led(fs, k) /\ R[k].doc = fs[k].segment
  BY <1>1, ReportsAre DEF IsReport, Led
<1>3. AnchorsPreCutover(R)
  BY <1>1 DEF VerifySeries, Refused
<1>4. n \in 1 .. n
  OBVIOUS
<1>5. PICK D : D = Last(fs) /\ D = fs[n].segment
  BY DEF Last
<1>6. Cardinality(PreOf(D)) > 0 => FullBefore(fs)
  <2>1. SUFFICES ASSUME Cardinality(PreOf(D)) > 0, NEW k \in 1 .. n - 1 PROVE Led(fs, k) = fs[k].segment.count
    BY DEF FullBefore
  <2>2. R[n].pre > 0
    BY <1>2, <1>4, <1>5, <2>1 DEF Led
  <2>3. R[k].pre = R[k].doc.count
    BY <1>2, <1>3, <1>4, <2>2 DEF AnchorsPreCutover
  <2>4. k \in 1 .. n
    OBVIOUS
  <2>5. QED
    BY <1>2, <2>3, <2>4
<1>7. ASSUME Sealing(c, n, D.to) = "sealed" PROVE HeaderAgrees(D, Through(D), c[RecordAt(c, n)].details.header)
  <2>1. RecordFits(D, c[RecordAt(c, n)].details)
    BY <1>4, <1>5, RecordFacts DEF RecordIs
  <2>2. c[RecordAt(c, n)].details.header # <<>>
    BY <1>7 DEF Sealing
  <2>3. QED
    BY <2>1, <2>2 DEF RecordFits
<1>8. QED
  BY <1>5, <1>6, <1>7

\* An id or an instant of a header is bound by a record that seals it.
LEMMA HeaderTold ==
    ASSUME CollisionFree, NEW c, NEW fs, NEW action, Kept(c, fs, action), NEW n \in Nat \ {0}, n = Len(fs),
           VerifySeries(ReportsOf(fs)).passes,
           NEW p \in {"segmentId", "exportedAt"}, NEW x, But(x, Last(fs), p), x[p] = Last(fs)[p] + 1
    PROVE  Verdict(With(fs, n, x), {"series"}) = 0 <=> Sealing(c, n, Last(fs).to) # "sealed"
<1>1. PICK D : D = Last(fs)
  OBVIOUS
<1>2. NewestIs(c, fs, n, D)
  BY <1>1, Newest
<1>3. D \in Docs /\ Fits(D)
  BY <1>2 DEF NewestIs
<1>4. /\ x \in Docs /\ x.entries = D.entries
      /\ x.formatVersion = D.formatVersion /\ x.segmentSeq = D.segmentSeq /\ x.tenant = D.tenant
      /\ x.from = D.from /\ x.to = D.to /\ x.count = D.count /\ x.firstAt = D.firstAt /\ x.lastAt = D.lastAt
      /\ x.startPrevHash = D.startPrevHash /\ x.endHash = D.endHash
      /\ x.genesis = D.genesis /\ x.previous = D.previous
  BY <1>1 DEF But, DocFields, Numbered
<1>5. SamePlace(x, D)
  BY <1>4 DEF SamePlace
<1>6. ClaimsFit(x) /\ EntriesFit(x)
  BY <1>3, <1>4 DEF Fits, ClaimsFit, EntriesFit
<1>7. EndsFit(x) /\ PositionFits(x)
  BY <1>3, <1>4 DEF Fits, EndsFit, PositionFits
<1>8. Fits(x)
  BY <1>6, <1>7 DEF Fits
<1>9. ExportRecords(x) = ExportRecords(D) /\ PreOf(x) = PreOf(D)
  BY <1>4 DEF ExportRecords, PreOf
<1>10. Through(x) = Through(D)
  BY <1>4, <1>9 DEF Through
<1>11. PICK h : h = c[RecordAt(c, n)].details.header
  OBVIOUS
<1>12. Verdict(With(fs, n, x), {"series"}) = 0 <=>
             /\ Fits(x)
             /\ Cardinality(PreOf(x)) > 0 => FullBefore(fs)
             /\ Sealing(c, n, D.to) = "sealed" => HeaderAgrees(x, Through(x), h)
  BY <1>1, <1>5, <1>9, <1>11, SameRecords
<1>13. /\ Cardinality(PreOf(x)) > 0 => FullBefore(fs)
       /\ Sealing(c, n, D.to) = "sealed" => HeaderAgrees(D, Through(D), h)
  BY <1>1, <1>9, <1>11, NewestKeeps
<1>14. ~(HeaderAgrees(D, Through(D), h) /\ HeaderAgrees(x, Through(x), h))
  <2>1. SUFFICES ASSUME HeaderAgrees(D, Through(D), h), HeaderAgrees(x, Through(x), h) PROVE FALSE
    OBVIOUS
  <2>2. D.segmentId = x.segmentId /\ D.exportedAt = x.exportedAt
    BY <2>1 DEF HeaderAgrees
  <2>3. D[p] = x[p] /\ D[p] \in Int
    BY <1>3, <2>2 DEF Docs
  <2>4. QED
    BY <1>1, <2>3
<1>15. QED
  BY <1>1, <1>8, <1>12, <1>13, <1>14

\* Records that no entry changed.
LEMMA RecordsSame ==
    ASSUME NEW D \in Docs, NEW j \in DOMAIN D.entries, NEW f, NEW x, WithEntry(x, D, j, f),
           \/ f.action = D.entries[j].action /\ f.details = D.entries[j].details
           \/ f.action # Exported /\ D.entries[j].action # Exported
    PROVE  ExportRecords(x) = ExportRecords(D)
<1>1. DOMAIN x.entries = DOMAIN D.entries
  <2>1. D.entries \in Seq(Entries)
    BY DEF Docs
  <2>2. QED
    BY <2>1 DEF WithEntry
<1>2. \A k \in DOMAIN D.entries : /\ x.entries[k].action = Exported <=> D.entries[k].action = Exported
                                  /\ D.entries[k].action = Exported => x.entries[k].details = D.entries[k].details
  <2>1. D.entries \in Seq(Entries)
    BY DEF Docs
  <2>2. \A k \in DOMAIN D.entries : k # j => x.entries[k] = D.entries[k]
    BY <2>1 DEF WithEntry
  <2>3. x.entries[j] = f
    BY DEF WithEntry
  <2>4. QED
    BY <2>2, <2>3
<1>3. QED
  BY <1>1, <1>2 DEF ExportRecords

-----------------------------------------------------------------------------
\* What the hash of an entry binds.

\* An entry as it was written.
AsWritten(e) == e \in Entries /\ e.version \in 1 .. 3 /\ e.credential \in {0, 7} /\ e.hash = WrittenHash(e)

LEMMA Versions ==
    /\ \A v \in 0 .. 4 : /\ IsPreCutover(v) <=> v = 1
                         /\ HashesCredential(v) <=> v \in {0, 3, 4}
                         /\ v <= CurrentHashVersion <=> v # 4
BY DEF IsPreCutover, HashesCredential, CurrentHashVersion, HashVersionMicrosecond, HashVersionCredential

\* It has the hash of a text, or it does not.
LEMMA HashOf ==
    ASSUME CollisionFree, NEW e, AsWritten(e), NEW f \in Entries, f.hash = e.hash
    PROVE  /\ HashedFields(f, f.version) \in Seq(Int) /\ WrittenText(e) \in Seq(Int)
           /\ ComputeHash(f) = f.hash <=> HashedFields(f, f.version) = WrittenText(e)
<1>1. PICK t \in Seq(Int) : t = HashedFields(f, f.version)
  BY HashedForm
<1>2. e \in Entries /\ e.hash = WrittenHash(e)
  BY DEF AsWritten
<1>3. PICK w \in Seq(Int) : w = WrittenText(e) /\ e.hash = Sha(w)
  BY <1>2, WrittenForm
<1>4. ComputeHash(f) = Sha(t)
  BY <1>1 DEF ComputeHash
<1>5. Sha(t) = Sha(w) <=> t = w
  BY HashIsNumber
<1>6. QED
  BY <1>1, <1>3, <1>4, <1>5

\* The texts of two entries, side by side.
Texts(t, g, version) ==
    /\ t[4] = g.action /\ t[5] = g.at /\ t[8] = g.details.to
    /\ Len(t) = IF HashesCredential(version) THEN 14 ELSE 13
    /\ HashesCredential(version) => t[14] = g.credential

LEMMA TextIs ==
    ASSUME NEW g \in Entries, NEW v
    PROVE  Texts(HashedFields(g, v), g, v)
<1>1. PICK t : t = HashedFields(g, v)
  OBVIOUS
<1>2. /\ Len(t) = (IF HashesCredential(v) THEN 14 ELSE 13)
      /\ t[4] = g.action /\ t[5] = g.at /\ t[8] = g.details.to
      /\ HashesCredential(v) => t[14] = g.credential
  BY <1>1, HashedForm
<1>3. QED
  BY <1>1, <1>2 DEF Texts

LEMMA TextsOf ==
    ASSUME NEW e, AsWritten(e), NEW f \in Entries
    PROVE  /\ Texts(HashedFields(f, f.version), f, f.version)
           /\ e.version # 1 => Texts(WrittenText(e), e, e.version)
           /\ e.version = 1 => Len(WrittenText(e)) = 14 /\ WrittenText(e)[14] = 500
<1>1. e \in Entries /\ e.version \in 0 .. 4
  BY DEF AsWritten
<1>2. IsPreCutover(e.version) <=> e.version = 1
  BY <1>1, Versions
<1>3. ASSUME e.version # 1 PROVE Texts(WrittenText(e), e, e.version)
  <2>1. WrittenText(e) = HashedFields(e, e.version)
    BY <1>2, <1>3 DEF WrittenText
  <2>2. QED
    BY <1>1, <2>1, TextIs
<1>4. ASSUME e.version = 1 PROVE Len(WrittenText(e)) = 14 /\ WrittenText(e)[14] = 500
  BY <1>1, <1>2, <1>4, WrittenForm
<1>5. QED
  BY <1>3, <1>4, TextIs

\* Which changes an entry that is recomputed betrays.
LEMMA Rehash ==
    ASSUME CollisionFree, NEW e, AsWritten(e), NEW f \in Entries, NEW p, Damaged(p, e, f)
    PROVE  /\ p \in {"at", "action", "details"} /\ e.version # 1 => ComputeHash(f) # f.hash
           /\ p = "credential" /\ e.version # 1 => (ComputeHash(f) = f.hash <=> e.version = 2)
           /\ p = "version" /\ f.version \notin {1, 4} =>
                 (ComputeHash(f) = f.hash <=> f.version = 0 /\ e.version = 3)
<1>1. ASSUME p \in {"at", "action", "details", "credential", "version"}
      PROVE  /\ ComputeHash(f) = f.hash <=> HashedFields(f, f.version) = WrittenText(e)
             /\ \A q \in EntryFields \ {p} : f[q] = e[q]
  <2>1. \A q \in EntryFields \ {p} : f[q] = e[q]
    BY DEF Damaged, ButEntry
  <2>2. f.hash = e.hash
    BY <1>1, <2>1 DEF EntryFields
  <2>3. QED
    BY <2>1, <2>2, HashOf
<1>2. e \in Entries /\ e.version \in 1 .. 3 /\ e.credential \in {0, 7}
  BY DEF AsWritten
<1>3. e.at \in Int /\ e.action \in Int /\ e.details.to \in Int /\ e.credential \in Int
  BY <1>2 DEF Entries, Details
<1>4. PICK t, w : t = HashedFields(f, f.version) /\ w = WrittenText(e)
  OBVIOUS
<1>5. /\ t[4] = f.action /\ t[5] = f.at /\ t[8] = f.details.to
      /\ Len(t) = IF HashesCredential(f.version) THEN 14 ELSE 13
      /\ HashesCredential(f.version) => t[14] = f.credential
      /\ e.version # 1 => /\ w[4] = e.action /\ w[5] = e.at /\ w[8] = e.details.to
                          /\ Len(w) = IF e.version = 3 THEN 14 ELSE 13
                          /\ e.version = 3 => w[14] = e.credential
      /\ e.version = 1 => Len(w) = 14 /\ w[14] = 500
  <2>1. /\ Texts(t, f, f.version)
        /\ e.version # 1 => Texts(w, e, e.version)
        /\ e.version = 1 => Len(w) = 14 /\ w[14] = 500
    BY <1>4, TextsOf
  <2>2. HashesCredential(e.version) <=> e.version = 3
    BY <1>2, Versions
  <2>3. /\ t[4] = f.action /\ t[5] = f.at /\ t[8] = f.details.to
        /\ Len(t) = IF HashesCredential(f.version) THEN 14 ELSE 13
        /\ HashesCredential(f.version) => t[14] = f.credential
    BY <2>1 DEF Texts
  <2>4. ASSUME e.version # 1
        PROVE  /\ w[4] = e.action /\ w[5] = e.at /\ w[8] = e.details.to
               /\ Len(w) = IF e.version = 3 THEN 14 ELSE 13
               /\ e.version = 3 => w[14] = e.credential
    <3>1. Texts(w, e, e.version)
      BY <2>1, <2>4
    <3>2. QED
      BY <2>2, <3>1 DEF Texts
  <2>5. QED
    BY <2>1, <2>3, <2>4
<1>6. ASSUME p \in {"at", "action", "details"}, e.version # 1 PROVE t # w
  <2>1. CASE p = "at"
    <3>1. f.at = e.at + 1
      BY <2>1 DEF Damaged, Altered
    <3>2. QED
      BY <1>3, <1>5, <1>6, <3>1
  <2>2. CASE p = "action"
    <3>1. f.action = e.action + 50
      BY <2>2 DEF Damaged
    <3>2. QED
      BY <1>3, <1>5, <1>6, <3>1
  <2>3. CASE p = "details"
    <3>1. f.details.to = e.details.to + 1
      BY <2>3 DEF Damaged
    <3>2. QED
      BY <1>3, <1>5, <1>6, <3>1
  <2>4. QED
    BY <1>6, <2>1, <2>2, <2>3
<1>7. ASSUME p = "credential", e.version # 1 PROVE t = w <=> e.version = 2
  <2>1. f.credential = e.credential + 1 /\ f.version = e.version
    BY <1>1, <1>7 DEF Damaged, Altered, EntryFields
  <2>2. e.version \in 0 .. 4
    BY <1>2
  <2>3. /\ HashesCredential(e.version) <=> e.version = 3
        /\ IsPreCutover(e.version) <=> e.version = 1
    BY <1>2, <2>2, Versions
  <2>4. CASE e.version = 3
    <3>1. t[14] = e.credential + 1 /\ w[14] = e.credential
      BY <1>5, <2>1, <2>3, <2>4
    <3>2. QED
      BY <1>3, <2>4, <3>1
  <2>5. CASE e.version = 2
    <3>1. w = HashedFields(e, e.version)
      BY <1>4, <2>3, <2>5 DEF WrittenText
    <3>2. /\ f.prevHash = e.prevHash /\ f.tenant = e.tenant /\ f.seq = e.seq /\ f.action = e.action
          /\ f.at = e.at /\ f.details = e.details
      BY <1>1, <1>7 DEF EntryFields
    <3>3. HashedFields(f, e.version) = HashedFields(e, e.version)
      BY <2>3, <2>5, <3>2 DEF HashedFields
    <3>4. QED
      BY <1>4, <2>1, <2>5, <3>1, <3>3
  <2>6. QED
    BY <1>2, <1>7, <2>4, <2>5
<1>8. ASSUME p = "version", f.version \notin {1, 4} PROVE t = w <=> f.version = 0 /\ e.version = 3
  <2>1. f.version \in 0 .. 4 /\ f.version # e.version /\ f.version \in {0, 2, 3}
    BY <1>8 DEF Damaged
  <2>2. f.credential = e.credential
    BY <1>1, <1>8 DEF EntryFields
  <2>3. HashesCredential(f.version) <=> f.version # 2
    BY <2>1, Versions
  <2>4. CASE e.version = 1
    <3>1. Len(t) = 13 \/ t[14] \in {0, 7}
      BY <1>2, <1>5, <2>2, <2>3
    <3>2. Len(w) = 14 /\ w[14] = 500
      BY <1>5, <2>4
    <3>3. QED
      BY <2>4, <3>1, <3>2
  <2>5. CASE e.version = 2
    <3>1. Len(t) = 14 /\ Len(w) = 13
      BY <1>5, <2>1, <2>3, <2>5
    <3>2. QED
      BY <2>5, <3>1
  <2>6. CASE e.version = 3 /\ f.version = 2
    <3>1. Len(t) = 13 /\ Len(w) = 14
      BY <1>5, <2>3, <2>6
    <3>2. QED
      BY <2>6, <3>1
  <2>7. CASE e.version = 3 /\ f.version = 0
    <3>1. 3 \in 0 .. 4 /\ 0 \in 0 .. 4
      OBVIOUS
    <3>2. HashesCredential(3) /\ HashesCredential(0) /\ ~IsPreCutover(3)
      BY <3>1, Versions
    <3>3. w = HashedFields(e, 3)
      BY <1>4, <2>7, <3>2 DEF WrittenText
    <3>4. /\ f.prevHash = e.prevHash /\ f.tenant = e.tenant /\ f.seq = e.seq /\ f.action = e.action
          /\ f.at = e.at /\ f.details = e.details
      BY <1>1, <1>8 DEF EntryFields
    <3>5. HashedFields(f, 0) = HashedFields(e, 3)
      BY <2>2, <3>2, <3>4 DEF HashedFields
    <3>6. QED
      BY <1>4, <2>7, <3>3, <3>5
  <2>8. QED
    BY <1>2, <2>1, <2>4, <2>5, <2>6, <2>7
<1>9. QED
  BY <1>1, <1>4, <1>6, <1>7, <1>8

-----------------------------------------------------------------------------
\* An entry of the newest file, and what may become of it.
EntryAt(c, D, j, m) ==
    /\ j \in Nat \ {0} /\ m \in Nat \ {0} /\ m = D.from + j - 1 /\ j <= D.count
    /\ D.from <= m /\ m <= D.to /\ m <= Len(c)
    /\ D.entries[j] = c[m] /\ AsWritten(c[m])

LEMMA EntryOf ==
    ASSUME NEW c, NEW action, WellWritten(c, action), NEW fs, NEW k, NEW D, FileOf(c, fs, k, D),
           NEW j \in DOMAIN D.entries
    PROVE  EntryAt(c, D, j, D.from + j - 1)
<1>1. PICK l \in Nat : l = Len(c)
  BY DEF WellWritten
<1>2. PICK a \in Nat, b \in Nat : a = D.from /\ b = D.to
  BY DEF FileOf
<1>3. /\ a # 0 /\ a <= b /\ b <= l /\ D.count = b - a + 1 /\ DOMAIN D.entries = 1 .. D.count
      /\ \A i \in 1 .. D.count : D.entries[i] = c[D.from + i - 1]
  BY <1>1, <1>2 DEF FileOf
<1>4. j \in 1 .. b - a + 1 /\ D.entries[j] = c[a + j - 1]
  BY <1>2, <1>3
<1>5. PICK m \in Nat : m = a + j - 1
  BY <1>2, <1>3, <1>4
<1>6. m # 0 /\ a <= m /\ m <= b /\ m <= l /\ j \in Nat /\ j # 0 /\ j <= D.count
  BY <1>2, <1>3, <1>4, <1>5, SMTT(40)
<1>7. PICK q \in 1 .. Len(c) : q = m
  BY <1>1, <1>5, <1>6
<1>8. StandsAt(c, action, q)
  BY DEF WellWritten
<1>9. c[m] \in Entries
  BY <1>7 DEF WellWritten
<1>10. AsWritten(c[m])
  BY <1>7, <1>8, <1>9 DEF StandsAt, AsWritten
<1>11. QED
  BY <1>1, <1>2, <1>4, <1>5, <1>6, <1>10 DEF EntryAt

\* Entry j of the newest file, number m of the chain, has become f, which makes the file x.
Changing(c, fs, action, n, j, m, f, x, p) ==
    /\ Kept(c, fs, action) /\ action \in Nat \ {0, 1}
    /\ n \in Nat \ {0} /\ n = Len(fs) /\ VerifySeries(ReportsOf(fs)).passes
    /\ NewestIs(c, fs, n, Last(fs))
    /\ j \in DOMAIN Last(fs).entries /\ EntryAt(c, Last(fs), j, m)
    /\ f \in Entries /\ WithEntry(x, Last(fs), j, f) /\ Damaged(p, c[m], f)
    /\ SamePlace(x, Last(fs))

LEMMA ChangedPlace ==
    ASSUME NEW x, NEW D, NEW j, NEW f, WithEntry(x, D, j, f)
    PROVE  SamePlace(x, D)
<1>1. x \in Docs /\ \A q \in DocFields \ {"entries"} : x[q] = D[q]
  BY DEF WithEntry, But
<1>2. QED
  BY <1>1 DEF SamePlace, DocFields, Numbered

LEMMA ChangedInPlace ==
    ASSUME NEW e, NEW f, NEW p, Damaged(p, e, f), p \notin {"seq", "tenant", "prevHash", "hash"}
    PROVE  InPlace(f, e)
<1>1. \A q \in EntryFields \ {p} : f[q] = e[q]
  BY DEF Damaged, ButEntry
<1>2. QED
  BY <1>1 DEF InPlace, EntryFields

\* What leads the file is as long, and so the header agrees as before.
LEMMA SameLead ==
    ASSUME NEW x, NEW D, NEW j, NEW f, WithEntry(x, D, j, f), PreOf(x) = PreOf(D)
    PROVE  /\ Through(x) = Through(D)
           /\ \A h : HeaderAgrees(x, Through(x), h) <=> HeaderAgrees(D, Through(D), h)
<1>1. \A q \in DocFields \ {"entries"} : x[q] = D[q]
  BY DEF WithEntry, But
<1>2. x.from = D.from /\ x.segmentId = D.segmentId /\ x.exportedAt = D.exportedAt /\ x.previous = D.previous
  BY <1>1 DEF DocFields, Numbered
<1>3. QED
  BY <1>2 DEF Through, HeaderAgrees

\* An entry that is recomputed as before, or as before is not.
LEMMA EntryFits ==
    ASSUME NEW c, NEW fs, NEW action, NEW n, NEW j, NEW m, NEW f, NEW x, NEW p,
           Changing(c, fs, action, n, j, m, f, x, p), p \notin {"seq", "tenant", "prevHash", "hash"},
           IsPreCutover(f.version) <=> IsPreCutover(c[m].version), f.version <= CurrentHashVersion
    PROVE  /\ PreOf(x) = PreOf(Last(fs))
           /\ Fits(x) <=> /\ IsPreCutover(f.version) \/ ComputeHash(f) = f.hash
                          /\ j = 1 \/ j = Last(fs).count => f.at = c[m].at
<1>1. PICK D : D = Last(fs)
  OBVIOUS
<1>2. /\ WithEntry(x, D, j, f) /\ f \in Entries /\ j \in DOMAIN D.entries
      /\ Damaged(p, c[m], f) /\ EntryAt(c, D, j, m) /\ D \in Docs /\ Fits(D) /\ FileOf(c, fs, n, D)
  BY <1>1 DEF Changing, NewestIs
<1>3. D.entries[j] = c[m] /\ Len(D.entries) = D.count /\ j \in Nat
  BY <1>2 DEF EntryAt, FileOf
<1>4. InPlace(f, D.entries[j])
  BY <1>2, <1>3, ChangedInPlace
<1>5. /\ Fits(x) <=>
           /\ f.version <= CurrentHashVersion
           /\ IF IsPreCutover(f.version) THEN \A k \in 1 .. j - 1 : k \in PreOf(D)
              ELSE ComputeHash(f) = f.hash /\ \A k \in PreOf(D) : k <= j
           /\ j = 1 \/ j = Len(D.entries) => f.at = D.entries[j].at
      /\ PreOf(x) = (PreOf(D) \ {j}) \cup (IF IsPreCutover(f.version) THEN {j} ELSE {})
  BY <1>2, <1>4, AlteredFits
<1>6. PICK l \in Nat : PreOf(D) = 1 .. l
  BY <1>2, LeadsOf DEF Fits
<1>7. j \in PreOf(D) <=> IsPreCutover(f.version)
  BY <1>2, <1>3 DEF PreOf
<1>8. PreOf(x) = PreOf(D)
  BY <1>5, <1>7
<1>9. IsPreCutover(f.version) => \A k \in 1 .. j - 1 : k \in PreOf(D)
  BY <1>3, <1>6, <1>7
<1>10. ~IsPreCutover(f.version) => \A k \in PreOf(D) : k <= j
  BY <1>2, <1>3, <1>6, <1>7 DEF EntryAt
<1>11. Fits(x) <=> /\ IsPreCutover(f.version) \/ ComputeHash(f) = f.hash
                   /\ j = 1 \/ j = D.count => f.at = c[m].at
  BY <1>3, <1>5, <1>9, <1>10
<1>12. QED
  BY <1>1, <1>8, <1>11

\* One whose records are kept as well.
LEMMA EntryKept ==
    ASSUME CollisionFree, NEW c, NEW fs, NEW action, NEW n, NEW j, NEW m, NEW f, NEW x, NEW p,
           Changing(c, fs, action, n, j, m, f, x, p), p \notin {"seq", "tenant", "prevHash", "hash"},
           IsPreCutover(f.version) <=> IsPreCutover(c[m].version), f.version <= CurrentHashVersion,
           ExportRecords(x) = ExportRecords(Last(fs))
    PROVE  Verdict(With(fs, n, x), {"series"}) = 0 <=>
             /\ IsPreCutover(f.version) \/ ComputeHash(f) = f.hash
             /\ j = 1 \/ j = Last(fs).count => f.at = c[m].at
<1>1. PICK D : D = Last(fs)
  OBVIOUS
<1>2. /\ Kept(c, fs, action) /\ n \in Nat \ {0} /\ n = Len(fs) /\ VerifySeries(ReportsOf(fs)).passes
      /\ SamePlace(x, D) /\ WithEntry(x, D, j, f)
  BY <1>1 DEF Changing
<1>3. /\ PreOf(x) = PreOf(D)
      /\ Fits(x) <=> /\ IsPreCutover(f.version) \/ ComputeHash(f) = f.hash
                     /\ j = 1 \/ j = D.count => f.at = c[m].at
  BY <1>1, EntryFits
<1>4. /\ Cardinality(PreOf(D)) > 0 => FullBefore(fs)
      /\ Sealing(c, n, D.to) = "sealed" => HeaderAgrees(D, Through(D), c[RecordAt(c, n)].details.header)
  BY <1>1, <1>2, NewestKeeps
<1>5. Verdict(With(fs, n, x), {"series"}) = 0 <=>
         /\ Fits(x)
         /\ Cardinality(PreOf(x)) > 0 => FullBefore(fs)
         /\ Sealing(c, n, D.to) = "sealed" => HeaderAgrees(x, Through(x), c[RecordAt(c, n)].details.header)
  BY <1>1, <1>2, SameRecords
<1>6. \A h : HeaderAgrees(x, Through(x), h) <=> HeaderAgrees(D, Through(D), h)
  BY <1>2, <1>3, SameLead
<1>7. QED
  BY <1>1, <1>3, <1>4, <1>5, <1>6

\* An entry that does not have its hash, or whose version nobody knows.
LEMMA EntryRefused ==
    ASSUME CollisionFree, NEW c, NEW fs, NEW action, NEW n, NEW j, NEW m, NEW f, NEW x, NEW p,
           Changing(c, fs, action, n, j, m, f, x, p), p \notin {"seq", "tenant", "prevHash", "hash"},
           \/ ~IsPreCutover(f.version) /\ ComputeHash(f) # f.hash
           \/ ~(f.version <= CurrentHashVersion)
    PROVE  Verdict(With(fs, n, x), {"series"}) # 0
<1>1. PICK D : D = Last(fs)
  OBVIOUS
<1>2. /\ Kept(c, fs, action) /\ n \in Nat \ {0} /\ n = Len(fs) /\ VerifySeries(ReportsOf(fs)).passes
      /\ SamePlace(x, D) /\ WithEntry(x, D, j, f) /\ f \in Entries /\ j \in DOMAIN D.entries
      /\ Damaged(p, c[m], f) /\ EntryAt(c, D, j, m) /\ D \in Docs /\ Fits(D)
  BY <1>1 DEF Changing, NewestIs
<1>3. InPlace(f, D.entries[j])
  BY <1>2, ChangedInPlace DEF EntryAt
<1>4. Fits(x) => /\ f.version <= CurrentHashVersion
                 /\ ~IsPreCutover(f.version) => ComputeHash(f) = f.hash
  BY <1>2, <1>3, AlteredFits
<1>5. Verdict(With(fs, n, x), {"series"}) = 0 => Fits(x)
  BY <1>1, <1>2, LastVerdict
<1>6. QED
  BY <1>4, <1>5

\* What the entry was, and what it has kept.
LEMMA ChangedIs ==
    ASSUME NEW c, NEW fs, NEW action, NEW n, NEW j, NEW m, NEW f, NEW x, NEW p,
           Changing(c, fs, action, n, j, m, f, x, p)
    PROVE  /\ AsWritten(c[m]) /\ f \in Entries /\ Damaged(p, c[m], f) /\ c[m] \in Entries
           /\ c[m].version \in 1 .. 3 /\ c[m].at \in Int /\ c[m].action \in Int
           /\ IsPreCutover(c[m].version) <=> c[m].version = 1
           /\ \A q \in EntryFields \ {p} : f[q] = c[m][q]
           /\ p # "version" => f.version = c[m].version
           /\ p # "at" => f.at = c[m].at
           /\ j \in Nat \ {0} /\ Last(fs).count \in Int /\ j <= Last(fs).count
           /\ c[m].action \in {action, Exported} /\ action \in Nat \ {0, 1}
<1>1. /\ AsWritten(c[m]) /\ f \in Entries /\ Damaged(p, c[m], f) /\ action \in Nat \ {0, 1}
      /\ EntryAt(c, Last(fs), j, m) /\ Last(fs) \in Docs /\ WellWritten(c, action)
  BY DEF Changing, EntryAt, NewestIs, Kept
<1>2. c[m] \in Entries /\ c[m].version \in 1 .. 3 /\ c[m].version \in 0 .. 4
  BY <1>1 DEF AsWritten
<1>3. IsPreCutover(c[m].version) <=> c[m].version = 1
  BY <1>2, Versions
<1>4. \A q \in EntryFields \ {p} : f[q] = c[m][q]
  BY <1>1 DEF Damaged, ButEntry
<1>5. /\ p # "version" => f.version = c[m].version
      /\ p # "at" => f.at = c[m].at
  BY <1>4 DEF EntryFields
<1>6. j \in Nat \ {0} /\ j <= Last(fs).count /\ Last(fs).count \in Int
  BY <1>1 DEF EntryAt, Docs
<1>7. c[m].at \in Int /\ c[m].action \in Int
  BY <1>2 DEF Entries
<1>8. c[m].action \in {action, Exported}
  <2>1. PICK q \in 1 .. Len(c) : q = m
    BY <1>1 DEF EntryAt, WellWritten
  <2>2. StandsAt(c, action, q)
    BY <1>1 DEF WellWritten
  <2>3. QED
    BY <2>1, <2>2 DEF StandsAt
<1>9. QED
  BY <1>1, <1>2, <1>3, <1>4, <1>5, <1>6, <1>7, <1>8

LEMMA KeptRecords ==
    ASSUME NEW c, NEW fs, NEW action, NEW n, NEW j, NEW m, NEW f, NEW x, NEW p,
           Changing(c, fs, action, n, j, m, f, x, p), p \in {"action", "details"} => c[m].action # Exported,
           p \in {"at", "credential", "version", "action", "details"}
    PROVE  ExportRecords(x) = ExportRecords(Last(fs))
<1>1. /\ WithEntry(x, Last(fs), j, f) /\ j \in DOMAIN Last(fs).entries /\ Last(fs) \in Docs
      /\ Last(fs).entries[j] = c[m]
  BY DEF Changing, EntryAt, NewestIs
<1>2. CASE p \in {"at", "credential", "version"}
  <2>1. f.action = c[m].action /\ f.details = c[m].details
    BY <1>2, ChangedIs DEF EntryFields
  <2>2. QED
    BY <1>1, <2>1, RecordsSame
<1>3. CASE p \in {"action", "details"} /\ c[m].action # Exported
  <2>1. f.action # Exported
    <3>1. CASE p = "details"
      BY <1>3, <3>1, ChangedIs DEF EntryFields
    <3>2. CASE p = "action"
      <4>1. PICK a \in Int : a = c[m].action
        BY ChangedIs
      <4>2. f.action = a + 50 /\ a \in {action, Exported} /\ action \in Nat
        BY <3>2, <4>1, ChangedIs DEF Damaged
      <4>3. a \in Nat
        BY <4>2 DEF Exported
      <4>4. QED
        BY <4>2, <4>3 DEF Exported
    <3>3. QED
      BY <1>3, <3>1, <3>2
  <2>2. QED
    BY <1>1, <1>3, <2>1, RecordsSame
<1>4. QED
  BY <1>2, <1>3

\* An instant, a credential, and what nobody exported.
LEMMA AtTold ==
    ASSUME CollisionFree, NEW c, NEW fs, NEW action, NEW n, NEW j, NEW m, NEW f, NEW x,
           Changing(c, fs, action, n, j, m, f, x, "at")
    PROVE  Verdict(With(fs, n, x), {"series"}) = 0
             <=> IsPreCutover(c[m].version) /\ 1 < j /\ j < Last(fs).count
<1>1. /\ AsWritten(c[m]) /\ f \in Entries /\ Damaged("at", c[m], f) /\ f.version = c[m].version
      /\ c[m].version \in 1 .. 3 /\ c[m].version \in 0 .. 4
      /\ IsPreCutover(c[m].version) <=> c[m].version = 1
      /\ "at" \notin {"seq", "tenant", "prevHash", "hash"}
  BY ChangedIs
<1>2. f.at # c[m].at
  <2>1. PICK a \in Int : a = c[m].at
    BY ChangedIs
  <2>2. f.at = a + 1
    BY <1>1, <2>1 DEF Damaged, Altered
  <2>3. QED
    BY <2>1, <2>2
<1>3. f.version <= CurrentHashVersion
  BY <1>1, Versions
<1>4. CASE c[m].version # 1
  <2>1. ComputeHash(f) # f.hash
    BY <1>1, <1>4, Rehash
  <2>2. QED
    BY <1>1, <1>4, <2>1, EntryRefused
<1>5. CASE c[m].version = 1
  <2>1. IsPreCutover(f.version) /\ IsPreCutover(c[m].version)
    BY <1>1, <1>5
  <2>0. ExportRecords(x) = ExportRecords(Last(fs))
    BY KeptRecords
  <2>2. Verdict(With(fs, n, x), {"series"}) = 0 <=> ~(j = 1 \/ j = Last(fs).count)
    <3>1. Verdict(With(fs, n, x), {"series"}) = 0 <=>
             /\ IsPreCutover(f.version) \/ ComputeHash(f) = f.hash
             /\ j = 1 \/ j = Last(fs).count => f.at = c[m].at
      BY <1>1, <1>3, <2>0, <2>1, EntryKept
    <3>2. QED
      BY <1>2, <2>1, <3>1
  <2>3. PICK b \in Int : b = Last(fs).count
    BY ChangedIs
  <2>4. j \in Nat \ {0} /\ j <= b
    BY <2>3, ChangedIs
  <2>5. ~(j = 1 \/ j = b) <=> 1 < j /\ j < b
    BY <2>4
  <2>6. QED
    BY <2>1, <2>2, <2>3, <2>5
<1>6. QED
  BY <1>4, <1>5

LEMMA CredentialTold ==
    ASSUME CollisionFree, NEW c, NEW fs, NEW action, NEW n, NEW j, NEW m, NEW f, NEW x,
           Changing(c, fs, action, n, j, m, f, x, "credential")
    PROVE  Verdict(With(fs, n, x), {"series"}) = 0 <=> ~HashesCredential(c[m].version)
<1>1. /\ AsWritten(c[m]) /\ f \in Entries /\ Damaged("credential", c[m], f) /\ f.version = c[m].version
      /\ c[m].version \in 1 .. 3 /\ c[m].version \in 0 .. 4 /\ f.at = c[m].at
      /\ "credential" \notin {"seq", "tenant", "prevHash", "hash"}
  BY ChangedIs
<1>2. /\ f.version <= CurrentHashVersion
      /\ IsPreCutover(c[m].version) <=> c[m].version = 1
      /\ HashesCredential(c[m].version) <=> c[m].version = 3
  BY <1>1, Versions
<1>3. Verdict(With(fs, n, x), {"series"}) = 0 <=> IsPreCutover(f.version) \/ ComputeHash(f) = f.hash
  <2>1. ExportRecords(x) = ExportRecords(Last(fs))
    BY KeptRecords
  <2>2. QED
    BY <1>1, <1>2, <2>1, EntryKept
<1>4. c[m].version # 1 => (ComputeHash(f) = f.hash <=> c[m].version = 2)
  BY <1>1, Rehash
<1>5. QED
  BY <1>1, <1>2, <1>3, <1>4

LEMMA PlainTold ==
    ASSUME CollisionFree, NEW c, NEW fs, NEW action, NEW n, NEW j, NEW m, NEW f, NEW x, NEW p \in {"action", "details"},
           Changing(c, fs, action, n, j, m, f, x, p), c[m].action # Exported \/ ~IsPreCutover(c[m].version)
    PROVE  Verdict(With(fs, n, x), {"series"}) = 0 <=> IsPreCutover(c[m].version)
<1>1. /\ AsWritten(c[m]) /\ f \in Entries /\ Damaged(p, c[m], f) /\ f.version = c[m].version
      /\ c[m].version \in 1 .. 3 /\ c[m].version \in 0 .. 4 /\ f.at = c[m].at
      /\ IsPreCutover(c[m].version) <=> c[m].version = 1
      /\ p \notin {"seq", "tenant", "prevHash", "hash"}
  BY ChangedIs
<1>2. f.version <= CurrentHashVersion
  BY <1>1, Versions
<1>3. CASE c[m].version # 1
  <2>1. ComputeHash(f) # f.hash
    BY <1>1, <1>3, Rehash
  <2>2. QED
    BY <1>1, <1>3, <2>1, EntryRefused
<1>4. CASE c[m].version = 1
  <2>1. IsPreCutover(c[m].version) /\ c[m].action # Exported
    BY <1>1, <1>4
  <2>2. ExportRecords(x) = ExportRecords(Last(fs))
    BY <2>1, KeptRecords
  <2>3. QED
    BY <1>1, <1>2, <2>1, <2>2, EntryKept
<1>5. QED
  BY <1>3, <1>4

\* That a version was read, or another one.
LEMMA VersionTold ==
    ASSUME CollisionFree, NEW c, NEW fs, NEW action, NEW n, NEW j, NEW m, NEW f, NEW x,
           Changing(c, fs, action, n, j, m, f, x, "version"), f.version # 1
    PROVE  Verdict(With(fs, n, x), {"series"}) = 0 <=> f.version = 0 /\ HashesCredential(c[m].version)
<1>1. /\ AsWritten(c[m]) /\ f \in Entries /\ Damaged("version", c[m], f) /\ f.at = c[m].at
      /\ c[m].version \in 1 .. 3 /\ c[m].version \in 0 .. 4
      /\ "version" \notin {"seq", "tenant", "prevHash", "hash"}
  BY ChangedIs
<1>2. f.version \in {0, 2, 3, 4} /\ f.version \in 0 .. 4
  BY <1>1 DEF Damaged
<1>3. /\ f.version <= CurrentHashVersion <=> f.version # 4
      /\ ~IsPreCutover(f.version)
      /\ IsPreCutover(c[m].version) <=> c[m].version = 1
      /\ HashesCredential(c[m].version) <=> c[m].version = 3
  BY <1>1, <1>2, Versions
<1>4. CASE f.version = 4
  BY <1>1, <1>3, <1>4, EntryRefused
<1>5. CASE f.version # 4
  <2>1. ComputeHash(f) = f.hash <=> f.version = 0 /\ c[m].version = 3
    BY <1>1, <1>2, <1>5, Rehash
  <2>2. CASE c[m].version = 1
    <3>1. ComputeHash(f) # f.hash
      BY <2>1, <2>2
    <3>2. QED
      BY <1>1, <1>3, <2>2, <3>1, EntryRefused
  <2>3. CASE c[m].version # 1
    <3>1. ExportRecords(x) = ExportRecords(Last(fs))
      BY KeptRecords
    <3>2. Verdict(With(fs, n, x), {"series"}) = 0 <=> ComputeHash(f) = f.hash
      BY <1>1, <1>3, <1>5, <2>3, <3>1, EntryKept
    <3>3. QED
      BY <1>3, <2>1, <3>2
  <2>4. QED
    BY <2>2, <2>3
<1>6. QED
  BY <1>4, <1>5

\* What cannot be recomputed up to an entry that can.
LEMMA RunBefore ==
    ASSUME CollisionFree, NEW c, NEW fs, NEW action, Kept(c, fs, action), NEW n \in Nat \ {0}, n = Len(fs),
           NewestIs(c, fs, n, Last(fs)), NEW j, NEW m, EntryAt(c, Last(fs), j, m), ~IsPreCutover(c[m].version)
    PROVE  Unrecomputable(c, 1, m) = 1 .. m - 1 <=> Led(fs, n) = j - 1 /\ FullBefore(fs)
<1>1. PICK D : D = Last(fs)
  OBVIOUS
<1>2. D = fs[n].segment
  BY <1>1 DEF Last
<1>3. PICK a \in Nat, b \in Nat : a = D.from /\ b = D.to
  BY <1>1 DEF NewestIs
<1>4. /\ a # 0 /\ a <= b /\ \A k \in 1 .. n - 1 : fs[k].segment.to < D.from
      /\ j \in Nat \ {0} /\ m \in Nat \ {0} /\ m = a + j - 1 /\ a <= m /\ m <= b
  BY <1>1, <1>3 DEF NewestIs, EntryAt
<1>5. PICK l \in Nat : l = Led(fs, n)
  BY FilePre
<1>6. \A q \in a .. b : IsPreCutover(c[q].version) <=> q < a + l
  BY <1>2, <1>3, <1>5, FilePre, SMTT(40)
<1>7. ~(m < a + l)
  BY <1>4, <1>6
<1>8. ASSUME NEW k \in 1 .. n - 1
      PROVE  \E u \in Nat, v \in Nat, t \in Nat, w \in Nat :
                /\ u = fs[k].segment.from /\ v = fs[k].segment.to /\ t = fs[k].segment.count /\ w = Led(fs, k)
                /\ u # 0 /\ u <= v /\ t = v - u + 1 /\ w <= t /\ v < a
                /\ \A q \in u .. v : IsPreCutover(c[q].version) <=> q < u + w
  <2>1. PICK i \in 1 .. Len(fs) : i = k
    BY <1>8
  <2>2. FileIs(c, fs, i)
    BY FileFacts
  <2>3. FileOf(c, fs, i, fs[i].segment)
    BY <2>2 DEF FileIs
  <2>4. PICK u \in Nat, v \in Nat : u = fs[i].segment.from /\ v = fs[i].segment.to
    BY <2>3 DEF FileOf
  <2>5. u # 0 /\ u <= v /\ fs[i].segment.count = v - u + 1
    BY <2>3, <2>4 DEF FileOf
  <2>6. PICK t \in Nat : t = fs[i].segment.count /\ t = v - u + 1
    BY <2>5
  <2>7. PICK w \in Nat : w = Led(fs, i)
    BY FilePre
  <2>8. w <= t /\ \A q \in u .. v : IsPreCutover(c[q].version) <=> q < u + w
    BY <2>4, <2>6, <2>7, FilePre, ZenonT(60)
  <2>9. v < a
    BY <1>3, <1>4, <1>8, <2>1, <2>4
  <2>10. QED
    BY <2>1, <2>4, <2>5, <2>6, <2>7, <2>8, <2>9
<1>9. ASSUME Unrecomputable(c, 1, m) = 1 .. m - 1 PROVE l = j - 1 /\ FullBefore(fs)
  <2>1. \A q \in 1 .. m - 1 : IsPreCutover(c[q].version)
    BY <1>9 DEF Unrecomputable
  <2>2. l = j - 1
    <3>1. CASE j = 1
      BY <1>4, <1>7, <3>1
    <3>2. CASE j # 1
      <4>1. m - 1 \in 1 .. m - 1 /\ m - 1 \in a .. b
        BY <1>3, <1>4, <3>2, SMTT(40)
      <4>2. m - 1 < a + l
        BY <1>6, <2>1, <4>1
      <4>3. QED
        BY <1>4, <1>7, <4>2
    <3>3. QED
      BY <3>1, <3>2
  <2>3. ASSUME NEW k \in 1 .. n - 1 PROVE Led(fs, k) = fs[k].segment.count
    <3>1. PICK u \in Nat, v \in Nat, t \in Nat, w \in Nat :
                /\ u = fs[k].segment.from /\ v = fs[k].segment.to /\ t = fs[k].segment.count /\ w = Led(fs, k)
                /\ u # 0 /\ u <= v /\ t = v - u + 1 /\ w <= t /\ v < a
                /\ \A q \in u .. v : IsPreCutover(c[q].version) <=> q < u + w
      BY <1>8
    <3>2. v \in u .. v /\ v \in 1 .. m - 1
      BY <1>4, <3>1, SMTT(40)
    <3>3. v < u + w
      BY <2>1, <3>1, <3>2
    <3>4. w = t
      <4>1. t = v - u + 1 /\ w <= t
        BY <3>1
      <4>2. QED
        BY <3>3, <4>1
    <3>5. QED
      BY <3>1, <3>4
  <2>4. QED
    BY <1>1, <2>2, <2>3 DEF FullBefore
<1>10. ASSUME l = j - 1, FullBefore(fs), NEW q \in 1 .. m PROVE IsPreCutover(c[q].version) <=> q < m
  <2>1. CASE q >= a
    <3>1. q \in a .. b
      BY <1>4, <1>10, <2>1
    <3>2. IsPreCutover(c[q].version) <=> q < a + l
      BY <1>6, <3>1
    <3>3. QED
      BY <1>4, <1>10, <3>2
  <2>2. CASE q < a
    <3>1. PICK i \in 1 .. Len(fs) : i = 1
      BY <1>4
    <3>2. PICK k \in i .. Len(fs) : k = n
      BY <3>1
    <3>3. \A r \in fs[i].segment.from .. fs[k].segment.to : \E y \in i .. k : r \in fs[y].segment.from .. fs[y].segment.to
      BY FilesRise
    <3>4. fs[i].segment.from = 1
      <4>1. FileIs(c, fs, i)
        BY FileFacts
      <4>2. FileOf(c, fs, i, fs[i].segment)
        BY <4>1 DEF FileIs
      <4>3. QED
        BY <3>1, <4>2 DEF FileOf
    <3>5. q \in fs[i].segment.from .. fs[k].segment.to
      BY <1>2, <1>3, <1>4, <1>10, <2>2, <3>2, <3>4
    <3>6. PICK y \in 1 .. n : q \in fs[y].segment.from .. fs[y].segment.to
      BY <3>1, <3>2, <3>3, <3>5
    <3>7. y # n
      <4>1. ASSUME y = n PROVE FALSE
        <5>1. q \in a .. b
          BY <1>2, <1>3, <3>6, <4>1
        <5>2. QED
          BY <1>3, <2>2, <5>1
      <4>2. QED
        BY <4>1
    <3>8. y \in 1 .. n - 1
      BY <3>6, <3>7
    <3>9. PICK u \in Nat, v \in Nat, t \in Nat, w \in Nat :
                /\ u = fs[y].segment.from /\ v = fs[y].segment.to /\ t = fs[y].segment.count /\ w = Led(fs, y)
                /\ u # 0 /\ u <= v /\ t = v - u + 1 /\ w <= t /\ v < a
                /\ \A r \in u .. v : IsPreCutover(c[r].version) <=> r < u + w
      BY <1>8, <3>8
    <3>10. w = t
      BY <1>10, <3>8, <3>9 DEF FullBefore
    <3>11. q \in u .. v /\ q < u + w
      <4>1. u = fs[y].segment.from /\ v = fs[y].segment.to
        BY <3>9
      <4>2. q \in u .. v
        BY <3>6, <4>1, Zenon
      <4>3. t = v - u + 1
        BY <3>9
      <4>4. q < u + w
        BY <3>10, <4>2, <4>3
      <4>5. QED
        BY <4>2, <4>4
    <3>12. IsPreCutover(c[q].version)
      BY <3>9, <3>11
    <3>13. q < m
      BY <1>4, <2>2
    <3>14. QED
      BY <3>12, <3>13
  <2>3. QED
    BY <1>3, <1>10, <2>1, <2>2
<1>11. ASSUME l = j - 1, FullBefore(fs) PROVE Unrecomputable(c, 1, m) = 1 .. m - 1
  <2>1. \A q \in 1 .. m : IsPreCutover(c[q].version) <=> q < m
    BY <1>10, <1>11
  <2>2. QED
    BY <1>4, <2>1 DEF Unrecomputable
<1>12. QED
  BY <1>5, <1>9, <1>11

\* An entry that is said to be one of the oldest, which nobody recomputes.
LEMMA OldestTold ==
    ASSUME CollisionFree, NEW c, NEW fs, NEW action, NEW n, NEW j, NEW m, NEW f, NEW x,
           Changing(c, fs, action, n, j, m, f, x, "version"), f.version = 1
    PROVE  Verdict(With(fs, n, x), {"series"}) = 0
             <=> Sealing(c, n, Last(fs).to) # "sealed" /\ Unrecomputable(c, 1, m) = 1 .. m - 1
<1>1. PICK D : D = Last(fs)
  OBVIOUS
<1>2. /\ Kept(c, fs, action) /\ n \in Nat \ {0} /\ n = Len(fs) /\ VerifySeries(ReportsOf(fs)).passes
      /\ SamePlace(x, D) /\ WithEntry(x, D, j, f) /\ f \in Entries /\ j \in DOMAIN D.entries
      /\ EntryAt(c, D, j, m) /\ D \in Docs /\ Fits(D) /\ NewestIs(c, fs, n, D)
  BY <1>1 DEF Changing, NewestIs
<1>3. /\ Damaged("version", c[m], f) /\ f.at = c[m].at
      /\ c[m].version \in 1 .. 3 /\ c[m].version \in 0 .. 4
      /\ "version" \notin {"seq", "tenant", "prevHash", "hash"}
  BY ChangedIs
<1>4. c[m].version # 1
  BY <1>3 DEF Damaged
<1>5. 1 \in 0 .. 4
  OBVIOUS
<1>6. f.version <= CurrentHashVersion /\ IsPreCutover(f.version) /\ ~IsPreCutover(c[m].version)
  BY <1>3, <1>4, <1>5, Versions
<1>7. PICK a \in Nat, b \in Nat : a = D.from /\ b = D.to /\ a # 0
  BY <1>2 DEF NewestIs
<1>8. j \in Nat \ {0} /\ m \in Nat \ {0} /\ m = a + j - 1 /\ D.entries[j] = c[m]
  BY <1>2, <1>7 DEF EntryAt
<1>9. PICK l \in Nat : l = Cardinality(PreOf(D)) /\ PreOf(D) = 1 .. l
  BY <1>2, LeadsOf DEF Fits
<1>10. l < j
  <2>1. j \notin PreOf(D)
    BY <1>6, <1>8 DEF PreOf
  <2>2. j \notin 1 .. l
    BY <1>9, <2>1
  <2>3. PICK i \in Nat : i = j /\ i # 0
    BY <1>8
  <2>4. ~(i <= l)
    BY <2>2, <2>3
  <2>5. QED
    BY <2>3, <2>4
<1>11. InPlace(f, D.entries[j])
  BY <1>3, <1>8, ChangedInPlace
<1>12. /\ Fits(x) <=>
            /\ f.version <= CurrentHashVersion
            /\ IF IsPreCutover(f.version) THEN \A k \in 1 .. j - 1 : k \in PreOf(D)
               ELSE ComputeHash(f) = f.hash /\ \A k \in PreOf(D) : k <= j
            /\ j = 1 \/ j = Len(D.entries) => f.at = D.entries[j].at
       /\ PreOf(x) = (PreOf(D) \ {j}) \cup (IF IsPreCutover(f.version) THEN {j} ELSE {})
  BY <1>2, <1>11, AlteredFits
<1>13. Fits(x) <=> l = j - 1
  <2>1. Fits(x) <=> \A k \in 1 .. j - 1 : k \in PreOf(D)
    BY <1>3, <1>6, <1>8, <1>12
  <2>2. ASSUME Fits(x) PROVE l = j - 1
    <3>1. CASE j = 1
      BY <1>10, <3>1
    <3>2. CASE j # 1
      <4>1. j - 1 \in 1 .. j - 1
        BY <1>8, <3>2
      <4>2. j - 1 \in 1 .. l
        BY <1>9, <2>1, <2>2, <4>1
      <4>3. QED
        BY <1>8, <1>10, <4>2
    <3>3. QED
      BY <3>1, <3>2
  <2>3. QED
    BY <1>9, <2>1, <2>2
<1>14. /\ Verdict(With(fs, n, x), {"series"}) = 0 <=>
            /\ Fits(x)
            /\ Cardinality(PreOf(x)) > 0 => FullBefore(fs)
            /\ Sealing(c, n, D.to) = "sealed" => HeaderAgrees(x, Through(x), c[RecordAt(c, n)].details.header)
       /\ Sealing(c, n, D.to) = "sealed" => HeaderAgrees(D, Through(D), c[RecordAt(c, n)].details.header)
  <2>1. ExportRecords(x) = ExportRecords(D)
    BY <1>1, KeptRecords
  <2>2. QED
    BY <1>1, <1>2, <2>1, SameRecords, NewestKeeps
<1>15. ASSUME l = j - 1
       PROVE  Cardinality(PreOf(x)) > 0 /\ Through(x) = m /\ Through(D) # m
  <2>1. PreOf(x) = 1 .. j
    <3>1. PreOf(x) = (1 .. l) \cup {j}
      BY <1>6, <1>9, <1>10, <1>12
    <3>2. (1 .. l) \cup {j} = 1 .. j
      BY <1>8, <1>15
    <3>3. QED
      BY <3>1, <3>2
  <2>2. Cardinality(PreOf(x)) = j
    BY <1>8, <2>1, CardUpTo
  <2>3. x.from = a
    BY <1>2, <1>7 DEF SamePlace
  <2>4. Through(x) = a + j - 1
    BY <1>8, <2>2, <2>3 DEF Through
  <2>5. Through(D) = IF l = 0 THEN 0 ELSE a + l - 1
    BY <1>7, <1>9 DEF Through
  <2>6. QED
    BY <1>7, <1>8, <1>9, <1>15, <2>2, <2>4, <2>5
<1>16. Unrecomputable(c, 1, m) = 1 .. m - 1 <=> l = j - 1 /\ FullBefore(fs)
  <2>1. Led(fs, n) = l
    BY <1>1, <1>2, <1>9 DEF Led, Last
  <2>2. QED
    BY <1>1, <1>2, <1>6, <2>1, RunBefore
<1>17. ASSUME l = j - 1, Sealing(c, n, D.to) = "sealed"
       PROVE  ~HeaderAgrees(x, Through(x), c[RecordAt(c, n)].details.header)
  BY <1>14, <1>15, <1>17 DEF HeaderAgrees
<1>18. QED
  BY <1>1, <1>13, <1>14, <1>15, <1>16, <1>17

\* The record of a file that a chain has.
LEMMA RecordOfEntry ==
    ASSUME NEW c, NEW fs, NEW action, Kept(c, fs, action), NEW m \in 1 .. Len(c), c[m].action = Exported
    PROVE  LET k == c[m].details.segmentSeq IN
           /\ k \in 1 .. Len(fs) /\ RecordAt(c, k) = m /\ RecordFits(fs[k].segment, c[m].details)
           /\ c[m].details \in Details
           /\ \A q \in 1 .. Len(c) : c[q].action = Exported /\ c[q].details.segmentSeq = k => q = m
<1>1. PICK k \in 1 .. Len(fs) : k = c[m].details.segmentSeq
  BY DEF Kept, RecordsKept
<1>2. RecordIs(c, fs, k, RecordAt(c, k))
  BY RecordFacts
<1>3. \A q \in 1 .. Len(c) : c[q].action = Exported /\ c[q].details.segmentSeq = k => q = RecordAt(c, k)
  BY <1>2 DEF RecordIs
<1>4. m = RecordAt(c, k)
  BY <1>1, <1>3
<1>5. RecordFits(fs[k].segment, c[m].details) /\ c[m].details \in Details
  BY <1>2, <1>4 DEF RecordIs
<1>6. QED
  BY <1>1, <1>3, <1>4, <1>5

\* A record that is changed disagrees with the file it is about.
LEMMA RecordMoved ==
    ASSUME CollisionFree, NEW c, NEW fs, NEW action, NEW n, NEW j, NEW m, NEW f, NEW x,
           Changing(c, fs, action, n, j, m, f, x, "details"), c[m].action = Exported
    PROVE  Verdict(With(fs, n, x), {"series"}) # 0
<1>1. PICK D : D = Last(fs)
  OBVIOUS
<1>2. /\ Kept(c, fs, action) /\ n \in Nat \ {0} /\ n = Len(fs) /\ VerifySeries(ReportsOf(fs)).passes
      /\ SamePlace(x, D) /\ WithEntry(x, D, j, f) /\ j \in DOMAIN D.entries /\ D \in Docs
      /\ EntryAt(c, D, j, m) /\ c \in Seq(Entries)
  BY <1>1 DEF Changing, NewestIs, Kept
<1>3. /\ Damaged("details", c[m], f) /\ f.action = c[m].action
  BY ChangedIs DEF EntryFields
<1>4. PICK q \in 1 .. Len(c) : q = m
  BY <1>2 DEF EntryAt
<1>5. PICK k \in 1 .. n : k = c[q].details.segmentSeq /\ RecordFits(fs[k].segment, c[q].details) /\ c[q].details \in Details
  BY <1>2, <1>4, RecordOfEntry
<1>6. PICK r : r = f.details
  OBVIOUS
<1>7. PICK t \in Int : t = c[q].details.to
  BY <1>5 DEF Details
<1>8. r.to = t + 1 /\ r.segmentSeq = k
  BY <1>3, <1>4, <1>5, <1>6, <1>7 DEF Damaged
<1>9. fs[k].segment.to = t
  BY <1>5, <1>7 DEF RecordFits, RangeAgrees
<1>10. r \in ExportRecords(x)
  <2>1. j \in DOMAIN x.entries /\ x.entries[j] = f
    BY <1>2, SMTT(40) DEF WithEntry, Docs
  <2>2. QED
    BY <1>3, <1>6, <2>1, <1>4 DEF ExportRecords
<1>11. PICK R : R = AllRecords(fs, x) /\ r \in R
  BY <1>10 DEF AllRecords
<1>12. ASSUME NoConflict(R) PROVE RecordOf(R, k) = {r}
  BY <1>8, <1>11, <1>12 DEF NoConflict, RecordOf
<1>13. PICK y, u : y = (IF k = n THEN x ELSE fs[k].segment) /\ u = Through(y)
  OBVIOUS
<1>14. y.to = t
  <2>1. CASE k = n
    BY <1>1, <1>2, <1>9, <1>13, <2>1 DEF SamePlace, Last
  <2>2. CASE k # n
    BY <1>9, <1>13, <2>2
  <2>3. QED
    BY <2>1, <2>2
<1>15. LastHeaders(fs, x)[k] = HeaderOf(y, u, RecordOf(R, k)) /\ k \in DOMAIN LastHeaders(fs, x)
  BY <1>2, <1>11, <1>13 DEF LastHeaders
<1>16. CheckHeader(y, u, r) = "refused"
  <2>1. ~RangeAgrees(y, r)
    BY <1>8, <1>14 DEF RangeAgrees
  <2>2. QED
    BY <2>1 DEF CheckHeader
<1>17. HeaderOf(y, u, {r}) = "refused"
  <2>1. (CHOOSE s \in {r} : TRUE) = r
    OBVIOUS
  <2>2. QED
    BY <1>16, <2>1 DEF HeaderOf
<1>18. Verdict(With(fs, n, x), {"series"}) = 0 => NoConflict(R) /\ HeadersFit(LastHeaders(fs, x))
  BY <1>1, <1>2, <1>11, LastVerdict
<1>19. HeadersFit(LastHeaders(fs, x)) => LastHeaders(fs, x)[k] # "refused"
  BY <1>15 DEF HeadersFit
<1>20. QED
  BY <1>12, <1>15, <1>17, <1>18, <1>19

\* A record that nobody takes for one any more.
LEMMA RecordDropped ==
    ASSUME CollisionFree, NEW c, NEW fs, NEW action, NEW n, NEW j, NEW m, NEW f, NEW x,
           Changing(c, fs, action, n, j, m, f, x, "action"), c[m].action = Exported,
           NEW k, k = c[m].details.segmentSeq
    PROVE  /\ \A r : r \in ExportRecords(x)
                       <=> r \in RecordsIn(c, Last(fs).from, Last(fs).to) /\ r.segmentSeq # k
           /\ \A r : r \in AllRecords(fs, x) <=> r \in RecordsIn(c, 1, Last(fs).to) /\ r.segmentSeq # k
<1>1. PICK D : D = Last(fs)
  OBVIOUS
<1>2. /\ Kept(c, fs, action) /\ n \in Nat \ {0} /\ n = Len(fs)
      /\ WithEntry(x, D, j, f) /\ D \in Docs /\ EntryAt(c, D, j, m) /\ FileOf(c, fs, n, D)
      /\ NewestIs(c, fs, n, D) /\ c \in Seq(Entries)
  BY <1>1 DEF Changing, NewestIs, Kept
<1>3. PICK a \in Nat, b \in Nat, l \in Nat : a = D.from /\ b = D.to /\ l = Len(c)
  BY <1>2 DEF NewestIs
<1>4. a # 0 /\ a <= b /\ b <= l /\ j \in Nat \ {0} /\ m \in Nat \ {0} /\ m = a + j - 1 /\ a <= m /\ m <= b
  BY <1>2, <1>3 DEF NewestIs, EntryAt
<1>5. \A q \in 1 .. l : c[q].action = Exported /\ c[q].details.segmentSeq = k => q = m
  <2>1. PICK q \in 1 .. Len(c) : q = m
    BY <1>3, <1>4
  <2>2. \A i \in 1 .. Len(c) : c[i].action = Exported /\ c[i].details.segmentSeq = k => i = q
    BY <1>2, <2>1, RecordOfEntry
  <2>3. QED
    BY <1>3, <2>1, <2>2
<1>6. f.action # Exported
  <2>1. Damaged("action", c[m], f)
    BY ChangedIs
  <2>2. f.action = c[m].action + 50
    BY <2>1 DEF Damaged
  <2>3. QED
    BY <2>2 DEF Exported
<1>7. /\ DOMAIN x.entries = 1 .. b - a + 1 /\ x.entries[j] = f
      /\ \A i \in 1 .. b - a + 1 : i # j => x.entries[i] = c[a + i - 1]
  BY <1>2, <1>3, ZenonT(60) DEF WithEntry, FileOf
<1>8. ASSUME NEW r PROVE r \in ExportRecords(x) <=> r \in RecordsIn(c, a, b) /\ r.segmentSeq # k
  <2>1. ASSUME r \in ExportRecords(x) PROVE r \in RecordsIn(c, a, b) /\ r.segmentSeq # k
    <3>1. PICK i \in DOMAIN x.entries : x.entries[i].action = Exported /\ r = x.entries[i].details
      BY <2>1 DEF ExportRecords
    <3>2. i \in 1 .. b - a + 1 /\ i # j
      BY <1>6, <1>7, <3>1
    <3>3. PICK q \in Nat : q = a + i - 1
      BY <1>4, <3>2
    <3>4. q \in a .. b /\ q \in 1 .. l /\ q # m
      BY <1>4, <3>2, <3>3
    <3>5. c[q].action = Exported /\ r = c[q].details
      BY <1>7, <3>1, <3>2, <3>3
    <3>6. QED
      BY <1>5, <3>4, <3>5 DEF RecordsIn
  <2>2. ASSUME r \in RecordsIn(c, a, b), r.segmentSeq # k PROVE r \in ExportRecords(x)
    <3>1. PICK q \in a .. b : c[q].action = Exported /\ r = c[q].details
      BY <2>2 DEF RecordsIn
    <3>2. q # m
      BY <2>2, <3>1
    <3>3. PICK i \in Nat : i = q - a + 1
      BY <1>4, <3>1
    <3>4. i \in 1 .. b - a + 1 /\ i # j /\ a + i - 1 = q
      BY <1>4, <3>1, <3>2, <3>3
    <3>5. x.entries[i] = c[q]
      BY <1>7, <3>4
    <3>6. QED
      BY <1>7, <3>1, <3>4, <3>5 DEF ExportRecords
  <2>3. QED
    BY <2>1, <2>2
<1>9. ASSUME NEW r \in RecordsIn(c, 1, a - 1) PROVE r.segmentSeq # k
  <2>1. PICK q \in 1 .. a - 1 : c[q].action = Exported /\ r = c[q].details
    BY DEF RecordsIn
  <2>2. q \in 1 .. l /\ q # m
    BY <1>4, <2>1
  <2>3. QED
    BY <1>5, <2>1, <2>2
<1>10. EarlierRecords(fs) = RecordsIn(c, 1, a - 1)
  BY <1>1, <1>2, <1>3, EarlierIs
<1>11. RecordsIn(c, 1, a - 1) \cup RecordsIn(c, a, b) = RecordsIn(c, 1, b)
  BY <1>4, RecordsJoined
<1>12. \A r : r \in AllRecords(fs, x) <=> r \in RecordsIn(c, 1, b) /\ r.segmentSeq # k
  BY <1>8, <1>9, <1>10, <1>11 DEF AllRecords
<1>13. QED
  BY <1>1, <1>3, <1>8, <1>12

\* The headers of the files, to a reader who has not the record of file k.
SealedWithout(hs, c, n, k, to) ==
    DOMAIN hs = 1 .. n /\ \A i \in 1 .. n : hs[i] = IF i = k THEN "none" ELSE Sealing(c, i, to)

\* They can follow one another only if there are no later records.
LEMMA HeadersWithout ==
    ASSUME CollisionFree, NEW c, NEW fs, NEW action, Kept(c, fs, action), NEW n \in Nat \ {0}, n = Len(fs),
           NEW m \in 1 .. Len(c), c[m].action = Exported, NEW k \in 1 .. n, k = c[m].details.segmentSeq,
           NEW to \in Nat, m <= to, to <= Len(c),
           NEW hs, SealedWithout(hs, c, n, k, to)
    PROVE  HeadersFit(hs) <=> {q \in m + 1 .. to : c[q].action = Exported} = {}
<1>0. PICK l \in Nat : l = Len(c)
  BY DEF Kept
<1>1. RecordAt(c, k) = m
  BY RecordOfEntry
<1> USE DEF SealedWithout
<1>2. \A i \in 1 .. n : hs[i] # "refused"
  BY DEF Sealing
<1>3. \A i \in 1 .. n : i # k => (hs[i] = "none" <=> RecordAt(c, i) > to)
  BY DEF Sealing
<1>4. ASSUME NEW q \in m + 1 .. to, c[q].action = Exported, HeadersFit(hs) PROVE FALSE
  <2>1. PICK y \in 1 .. Len(c) : y = q
    BY <1>0, <1>4
  <2>2. PICK i \in 1 .. n : i = c[y].details.segmentSeq /\ RecordAt(c, i) = y
    BY <1>4, <2>1, RecordOfEntry
  <2>3. m < y /\ y <= to /\ i # k
    BY <1>1, <1>4, <2>1, <2>2
  <2>4. k < i
    <3>1. \A u, v \in 1 .. Len(c) :
             c[u].action = Exported /\ c[v].action = Exported /\ u < v => c[u].details.segmentSeq < c[v].details.segmentSeq
      BY DEF Kept, RecordsKept
    <3>2. QED
      BY <1>4, <2>1, <2>2, <2>3, <3>1
  <2>5. hs[i] # "none"
    BY <1>0, <1>3, <2>2, <2>3
  <2>6. hs[k] = "none" /\ k \in 1 .. i - 1 /\ i \in DOMAIN hs
    BY <2>4
  <2>7. QED
    BY <1>4, <2>5, <2>6 DEF HeadersFit
<1>5. ASSUME {q \in m + 1 .. to : c[q].action = Exported} = {} PROVE HeadersFit(hs)
  <2>1. ASSUME NEW i \in 1 .. n, hs[i] # "none", NEW u \in 1 .. i - 1 PROVE hs[u] # "none"
    <3>1. i # k /\ ~(RecordAt(c, i) > to)
      BY <1>3, <2>1
    <3>2. PICK y \in Nat : y = RecordAt(c, i) /\ y \in 1 .. Len(c) /\ c[y].action = Exported
      BY RecordFacts DEF RecordIs
    <3>3. ~(k < i)
      <4>1. ASSUME k < i PROVE FALSE
        <5>1. m < y
          BY <1>1, <3>2, <4>1, RecordsRise
        <5>2. y \in m + 1 .. to
          BY <1>0, <3>1, <3>2, <5>1
        <5>3. QED
          BY <1>5, <3>2, <5>2
      <4>2. QED
        BY <4>1
    <3>4. u \in 1 .. n /\ u < i /\ u # k
      BY <2>1, <3>3
    <3>5. PICK z \in Nat : z = RecordAt(c, u)
      BY <3>4, RecordFacts
    <3>6. z < y
      BY <3>2, <3>4, <3>5, RecordsRise
    <3>7. ~(z > to)
      BY <3>1, <3>2, <3>6
    <3>8. QED
      BY <1>3, <3>4, <3>5, <3>7
  <2>2. QED
    BY <1>2, <2>1 DEF HeadersFit
<1>6. QED
  BY <1>4, <1>5

\* What is read as another action is missed if records follow it.
LEMMA RecordLost ==
    ASSUME CollisionFree, NEW c, NEW fs, NEW action, NEW n, NEW j, NEW m, NEW f, NEW x,
           Changing(c, fs, action, n, j, m, f, x, "action"), c[m].action = Exported, IsPreCutover(c[m].version)
    PROVE  Verdict(With(fs, n, x), {"series"}) = 0
             <=> {q \in m + 1 .. Last(fs).to : c[q].action = Exported} = {}
<1>1. PICK D : D = Last(fs)
  OBVIOUS
<1>2. /\ Kept(c, fs, action) /\ n \in Nat \ {0} /\ n = Len(fs) /\ VerifySeries(ReportsOf(fs)).passes
      /\ SamePlace(x, D) /\ WithEntry(x, D, j, f) /\ EntryAt(c, D, j, m) /\ FileOf(c, fs, n, D)
      /\ NewestIs(c, fs, n, D) /\ c \in Seq(Entries)
  BY <1>1 DEF Changing, NewestIs, Kept
<1>3. PICK a \in Nat, b \in Nat, l \in Nat : a = D.from /\ b = D.to /\ l = Len(c)
  BY <1>2 DEF NewestIs
<1>4. a # 0 /\ a <= b /\ b <= l /\ m \in 1 .. Len(c) /\ m <= b /\ 1 <= b
  BY <1>2, <1>3 DEF NewestIs, EntryAt
<1>5. PICK k \in 1 .. n : k = c[m].details.segmentSeq
  BY <1>2, <1>4, RecordOfEntry
<1>6. /\ \A r : r \in ExportRecords(x) <=> r \in RecordsIn(c, a, b) /\ r.segmentSeq # k
      /\ \A r : r \in AllRecords(fs, x) <=> r \in RecordsIn(c, 1, b) /\ r.segmentSeq # k
  BY <1>1, <1>3, <1>5, RecordDropped
<1>7. PICK X, Y, R, S : X = ExportRecords(x) /\ Y = AllRecords(fs, x) /\ R = RecordsIn(c, a, b) /\ S = RecordsIn(c, 1, b)
  OBVIOUS
<1>8. /\ NoConflict(R) => NoConflict(X)
      /\ \A i : RecordOf(X, i) = IF i = k THEN {} ELSE RecordOf(R, i)
  <2>1. \A r : r \in X <=> r \in R /\ r.segmentSeq # k
    BY <1>6, <1>7
  <2>2. QED
    BY <2>1 DEF NoConflict, RecordOf
<1>9. /\ NoConflict(S) => NoConflict(Y)
      /\ \A i : RecordOf(Y, i) = IF i = k THEN {} ELSE RecordOf(S, i)
  <2>1. \A r : r \in Y <=> r \in S /\ r.segmentSeq # k
    BY <1>6, <1>7
  <2>2. QED
    BY <2>1 DEF NoConflict, RecordOf
<1>10. NoConflict(R) /\ NoConflict(S)
  <2>1. PICK u \in Nat \ {0} : u = a
    BY <1>4
  <2>2. NoConflict(RecordsIn(c, u, b))
    BY <1>2, <1>3, <1>4, RecordsIf
  <2>3. PICK v \in Nat \ {0} : v = 1
    OBVIOUS
  <2>4. NoConflict(RecordsIn(c, v, b))
    BY <1>2, <1>3, <1>4, RecordsIf
  <2>5. QED
    BY <1>7, <2>1, <2>2, <2>3, <2>4
<1>11. NoConflict(X) /\ NoConflict(Y)
  BY <1>8, <1>9, <1>10
<1>12. Fits(x) /\ PreOf(x) = PreOf(D)
  <2>1. /\ f.version = c[m].version /\ f.at = c[m].at /\ c[m].version \in 0 .. 4
        /\ "action" \notin {"seq", "tenant", "prevHash", "hash"} /\ c[m].version = 1
    BY ChangedIs
  <2>2. f.version <= CurrentHashVersion
    BY <2>1, Versions
  <2>3. QED
    BY <1>1, <2>1, <2>2, EntryFits
<1>13. Cardinality(PreOf(x)) > 0 => FullBefore(fs)
  BY <1>1, <1>2, <1>12, NewestKeeps
<1>14. LastSealing(c, x, n, b) = Sealing(c, n, b) /\ Sealing(c, n, b) # "refused"
  <2>1. Sealing(c, n, b) = "sealed" => HeaderAgrees(D, Through(D), c[RecordAt(c, n)].details.header)
    BY <1>1, <1>2, <1>3, NewestKeeps
  <2>2. Sealing(c, n, b) = "sealed" => HeaderAgrees(x, Through(x), c[RecordAt(c, n)].details.header)
    BY <1>2, <1>12, <2>1, SameLead
  <2>3. Sealing(c, n, b) # "refused"
    BY DEF Sealing
  <2>4. QED
    BY <2>2, <2>3 DEF LastSealing
<1>15. HeaderOf(x, Through(x), RecordOf(R, n)) = Sealing(c, n, b) /\ HeaderOf(x, Through(x), RecordOf(S, n)) = Sealing(c, n, b)
  <2>1. PICK u \in Nat \ {0} : u = a /\ u <= Last(fs).to
    BY <1>1, <1>3, <1>4
  <2>2. HeaderOf(x, Through(x), RecordOf(RecordsIn(c, u, Last(fs).to), n)) = LastSealing(c, x, n, Last(fs).to)
    BY <1>1, <1>2, <2>1, LastHeader
  <2>3. PICK v \in Nat \ {0} : v = 1 /\ v <= Last(fs).to
    BY <1>1, <1>3, <1>4
  <2>4. HeaderOf(x, Through(x), RecordOf(RecordsIn(c, v, Last(fs).to), n)) = LastSealing(c, x, n, Last(fs).to)
    BY <1>1, <1>2, <2>3, LastHeader
  <2>5. QED
    BY <1>1, <1>3, <1>7, <1>14, <2>1, <2>2, <2>3, <2>4
<1>16. HeaderOf(x, Through(x), OwnRecords(x)) # "refused"
  <2>1. OwnRecords(x) = RecordOf(X, n)
    <3>1. x.segmentSeq = n
      BY <1>2 DEF SamePlace, FileOf
    <3>2. QED
      BY <1>7, <3>1 DEF OwnRecords
  <2>2. CASE n = k
    BY <1>8, <2>1, <2>2 DEF HeaderOf
  <2>3. CASE n # k
    BY <1>8, <1>14, <1>15, <2>1, <2>3
  <2>4. QED
    BY <2>2, <2>3
<1>17. LastHeaders(fs, x) = [i \in 1 .. n |-> IF i = k THEN "none" ELSE Sealing(c, i, b)]
  <2>1. ASSUME NEW i \in 1 .. n PROVE LastHeaders(fs, x)[i] = IF i = k THEN "none" ELSE Sealing(c, i, b)
    <3>1. PICK y, u : y = (IF i = n THEN x ELSE fs[i].segment) /\ u = Through(y)
      OBVIOUS
    <3>2. LastHeaders(fs, x)[i] = HeaderOf(y, u, RecordOf(Y, i))
      BY <1>2, <1>7, <3>1 DEF LastHeaders
    <3>3. CASE i = k
      BY <1>9, <3>2, <3>3 DEF HeaderOf
    <3>4. CASE i # k
      <4>1. LastHeaders(fs, x)[i] = HeaderOf(y, u, RecordOf(S, i))
        BY <1>9, <3>2, <3>4
      <4>2. CASE i = n
        BY <1>15, <3>1, <3>4, <4>1, <4>2
      <4>3. CASE i # n
        <5>1. PICK z \in 1 .. Len(fs) : z = i
          BY <1>2
        <5>2. PICK v \in Nat \ {0} : v = 1
          OBVIOUS
        <5>3. v <= fs[z].segment.to
          <6>1. fs[i].segment.to \in Nat /\ fs[i].segment.to # 0
            BY <1>2 DEF NewestIs
          <6>2. QED
            BY <5>1, <5>2, <6>1
        <5>4. HeaderOf(fs[z].segment, Through(fs[z].segment), RecordOf(RecordsIn(c, v, b), z)) = Sealing(c, z, b)
          BY <1>2, <1>3, <1>4, <5>3, HeaderIs
        <5>5. QED
          BY <1>7, <3>1, <3>4, <4>1, <4>3, <5>1, <5>2, <5>4
      <4>4. QED
        BY <4>2, <4>3
    <3>5. QED
      BY <3>3, <3>4
  <2>2. LastHeaders(fs, x) = [i \in 1 .. n |-> LastHeaders(fs, x)[i]]
    BY <1>2 DEF LastHeaders
  <2>3. QED
    BY <2>1, <2>2
<1>18. PICK hs : hs = LastHeaders(fs, x)
  OBVIOUS
<1>19. HeadersFit(hs) <=> {q \in m + 1 .. b : c[q].action = Exported} = {}
  <2>1. SealedWithout(hs, c, n, k, b)
    BY <1>17, <1>18 DEF SealedWithout
  <2>2. c[m].action = Exported /\ b <= Len(c)
    BY <1>3, <1>4
  <2>3. QED
    BY <1>2, <1>4, <1>5, <2>1, <2>2, HeadersWithout
<1>20. Verdict(With(fs, n, x), {"series"}) = 0 <=>
          /\ Fits(x) /\ NoConflict(ExportRecords(x)) /\ HeaderOf(x, Through(x), OwnRecords(x)) # "refused"
          /\ Cardinality(PreOf(x)) > 0 => FullBefore(fs)
          /\ NoConflict(AllRecords(fs, x)) /\ HeadersFit(LastHeaders(fs, x))
  BY <1>1, <1>2, LastVerdict
<1>21. QED
  BY <1>1, <1>3, <1>7, <1>11, <1>12, <1>13, <1>16, <1>18, <1>19, <1>20

\* What nothing binds in an entry, by the part that is damaged.
LEMMA UnboundIs ==
    ASSUME NEW c, NEW h, NEW d, NEW m, NEW p, d.part = p, NEW f, d.doc.entries[d.entry] = f
    PROVE  /\ p = "at" => (UnboundInEntry(c, h, d, m)
                             <=> IsPreCutover(c[m].version) /\ 1 < d.entry /\ d.entry < d.doc.count)
           /\ p = "credential" => (UnboundInEntry(c, h, d, m) <=> ~HashesCredential(c[m].version))
           /\ p \in {"action", "details"} =>
                (UnboundInEntry(c, h, d, m)
                   <=> /\ IsPreCutover(c[m].version)
                       /\ \/ c[m].action # Exported
                          \/ p = "action" /\ {k \in m + 1 .. d.doc.to : c[k].action = Exported} = {})
           /\ p = "version" =>
                (UnboundInEntry(c, h, d, m)
                   <=> \/ f.version = 0 /\ HashesCredential(c[m].version)
                       \/ IsPreCutover(f.version) /\ h # "sealed" /\ Unrecomputable(c, 1, m) = 1 .. m - 1)
BY DEF UnboundInEntry

\* A damaged entry of the newest file.
LEMMA EntryTold ==
    ASSUME CollisionFree, NEW c, NEW fs, NEW action, NEW n, NEW j, NEW m, NEW f, NEW x, NEW p,
           Changing(c, fs, action, n, j, m, f, x, p),
           p \in {"action", "details", "at", "credential", "version"},
           NEW d, d.part = p, d.doc = x, d.entry = j
    PROVE  Verdict(With(fs, n, x), {"series"}) = 0 <=> UnboundInEntry(c, Sealing(c, n, Last(fs).to), d, m)
<1>1. d.doc.entries[d.entry] = f /\ d.doc.count = Last(fs).count /\ d.doc.to = Last(fs).to
  BY DEF Changing, WithEntry, SamePlace
<1>2. PICK h : h = Sealing(c, n, Last(fs).to)
  OBVIOUS
<1>3. CASE p = "at"
  <2>1. UnboundInEntry(c, h, d, m) <=> IsPreCutover(c[m].version) /\ 1 < j /\ j < Last(fs).count
    BY <1>1, <1>3, UnboundIs
  <2>2. QED
    BY <1>2, <1>3, <2>1, AtTold
<1>4. CASE p = "credential"
  <2>1. UnboundInEntry(c, h, d, m) <=> ~HashesCredential(c[m].version)
    BY <1>1, <1>4, UnboundIs
  <2>2. QED
    BY <1>2, <1>4, <2>1, CredentialTold
<1>5. CASE p \in {"action", "details"}
  <2>1. UnboundInEntry(c, h, d, m)
          <=> /\ IsPreCutover(c[m].version)
              /\ \/ c[m].action # Exported
                 \/ p = "action" /\ {k \in m + 1 .. Last(fs).to : c[k].action = Exported} = {}
    BY <1>1, <1>5, UnboundIs
  <2>2. CASE c[m].action # Exported \/ ~IsPreCutover(c[m].version)
    <3>1. Verdict(With(fs, n, x), {"series"}) = 0 <=> IsPreCutover(c[m].version)
      BY <1>5, <2>2, PlainTold
    <3>2. QED
      BY <1>2, <2>1, <2>2, <3>1
  <2>3. CASE c[m].action = Exported /\ IsPreCutover(c[m].version)
    <3>1. CASE p = "action"
      <4>1. Verdict(With(fs, n, x), {"series"}) = 0
              <=> {k \in m + 1 .. Last(fs).to : c[k].action = Exported} = {}
        BY <2>3, <3>1, RecordLost
      <4>2. QED
        BY <1>2, <2>1, <2>3, <3>1, <4>1
    <3>2. CASE p = "details"
      <4>1. Verdict(With(fs, n, x), {"series"}) # 0
        BY <2>3, <3>2, RecordMoved
      <4>2. QED
        BY <1>2, <2>1, <2>3, <3>2, <4>1
    <3>3. QED
      BY <1>5, <3>1, <3>2
  <2>4. QED
    BY <2>2, <2>3
<1>6. CASE p = "version"
  <2>1. UnboundInEntry(c, h, d, m)
          <=> \/ f.version = 0 /\ HashesCredential(c[m].version)
              \/ IsPreCutover(f.version) /\ h # "sealed" /\ Unrecomputable(c, 1, m) = 1 .. m - 1
    BY <1>1, <1>6, UnboundIs
  <2>2. f.version \in 0 .. 4
    BY <1>6, ChangedIs DEF Damaged
  <2>3. IsPreCutover(f.version) <=> f.version = 1
    BY <2>2, Versions
  <2>4. CASE f.version = 1
    BY <1>2, <1>6, <2>1, <2>3, <2>4, OldestTold
  <2>5. CASE f.version # 1
    BY <1>2, <1>6, <2>1, <2>3, <2>5, VersionTold
  <2>6. QED
    BY <2>4, <2>5
<1>7. QED
  BY <1>3, <1>4, <1>5, <1>6

\* What nothing binds in the newest file.
LEMMA LastTold ==
    ASSUME CollisionFree, NEW c, NEW fs, NEW action \in Nat \ {0, 1}, Kept(c, fs, action),
           NEW n \in Nat \ {0}, n = Len(fs),
           VerifySeries(ReportsOf(fs)).passes, NEW d, Hurt(d, Last(fs)), d.doc \in Docs
    PROVE  Verdict(With(fs, n, d.doc), {"series"}) = 0 <=> Unbound(c, Sealing(c, n, Last(fs).to), d)
<1>1. PICK D : D = Last(fs)
  OBVIOUS
<1>2. NewestIs(c, fs, n, D) /\ D \in Docs /\ FileOf(c, fs, n, D) /\ Fits(D)
  BY <1>1, Newest DEF NewestIs
<1>3. PICK i \in 1 .. Len(fs) : i = n
  OBVIOUS
<1>4. ~Fits(d.doc) => Verdict(With(fs, n, d.doc), {"series"}) # 0
  <2>1. ~Fits(d.doc) => ~VerifyDocument(d.doc).passes
    BY PassForm
  <2>2. ~VerifyDocument(d.doc).passes => Verdict(With(fs, i, d.doc), {"series"}) # 0
    BY ReplacedVerdict
  <2>3. QED
    BY <1>3, <2>1, <2>2
<1>5. PICK x, p : x = d.doc /\ p = d.part
  OBVIOUS
<1>6. ASSUME p \in Numbered, But(x, D, p), x[p] = D[p] + 1
      PROVE  Verdict(With(fs, n, x), {"series"}) = 0 <=> Unbound(c, Sealing(c, n, D.to), d)
  <2>1. CASE p \in {"segmentId", "exportedAt"}
    <3>1. Verdict(With(fs, n, x), {"series"}) = 0 <=> Sealing(c, n, D.to) # "sealed"
      BY <1>1, <1>6, <2>1, HeaderTold
    <3>2. Unbound(c, Sealing(c, n, D.to), d) <=> Sealing(c, n, D.to) # "sealed"
      BY <1>5, <2>1 DEF Unbound
    <3>3. QED
      BY <3>1, <3>2
  <2>2. CASE p \notin {"segmentId", "exportedAt"}
    <3>1. ~Fits(x)
      BY <1>2, <1>6, <2>2, ClaimUnfit
    <3>2. ~Unbound(c, Sealing(c, n, D.to), d)
      BY <1>5, <1>6, <2>2 DEF Unbound, Numbered
    <3>3. QED
      BY <1>4, <1>5, <3>1, <3>2
  <2>3. QED
    BY <2>1, <2>2
<1>7. ASSUME p \in {"genesis", "entries", "previous"} PROVE ~Unbound(c, Sealing(c, n, D.to), d)
  BY <1>5, <1>7 DEF Unbound
<1>8. ASSUME p = "genesis", But(x, D, "genesis"), x.genesis = ~D.genesis
      PROVE  Verdict(With(fs, n, x), {"series"}) # 0
  BY <1>2, <1>4, <1>5, <1>8, GenesisUnfit
<1>9. ASSUME p = "entries", But(x, D, "entries"), x.entries = Tail(D.entries)
      PROVE  Verdict(With(fs, n, x), {"series"}) # 0
  BY <1>2, <1>4, <1>5, <1>9, TailUnfit
<1>10. ASSUME But(x, D, "previous"), D.previous # NoSegment,
              x.previous = NoSegment \/ \E f \in PointerFields : x.previous[f] = D.previous[f] + 1
       PROVE  Verdict(With(fs, n, x), {"series"}) # 0
  <2>1. n # 1
    BY <1>2, <1>10 DEF FileOf
  <2>2. PICK k \in 2 .. Len(fs) : k = n
    BY <2>1
  <2>3. Meets(fs[k - 1].segment, Digest(fs[k - 1].segment), fs[k].segment.previous)
    BY Linked
  <2>4. D = fs[k].segment
    BY <1>1, <2>2 DEF Last
  <2>5. ~Fits(x) \/ ~Meets(fs[k - 1].segment, Digest(fs[k - 1].segment), x.previous)
    BY <1>2, <1>10, <2>3, <2>4, PointerUnfit
  <2>6. x.segmentSeq = n
    BY <1>2, <1>10 DEF But, DocFields, Numbered, FileOf
  <2>7. CASE ~Fits(x)
    BY <1>4, <1>5, <2>7
  <2>8. CASE ~Meets(fs[k - 1].segment, Digest(fs[k - 1].segment), x.previous)
    <3>1. n \in Nat \ {0, 1} /\ ~Meets(fs[n - 1].segment, Digest(fs[n - 1].segment), x.previous)
      BY <2>1, <2>2, <2>8
    <3>2. QED
      BY <2>6, <3>1, LastUnlinked
  <2>9. QED
    BY <2>5, <2>7, <2>8
<1>11. ASSUME NEW j \in DOMAIN D.entries, NEW f \in Entries, d.entry = j, WithEntry(x, D, j, f), Damaged(p, D.entries[j], f)
       PROVE  Verdict(With(fs, n, x), {"series"}) = 0 <=> Unbound(c, Sealing(c, n, D.to), d)
  <2>1. CASE p \in {"seq", "tenant", "prevHash", "hash"}
    <3>1. ~Fits(x)
      BY <1>2, <1>11, <2>1, EntryUnfit
    <3>2. ~Unbound(c, Sealing(c, n, D.to), d)
      BY <1>5, <2>1 DEF Unbound
    <3>3. QED
      BY <1>4, <1>5, <3>1, <3>2
  <2>2. CASE p \in {"action", "details", "at", "credential", "version"}
    <3>1. PICK m : m = D.from + j - 1
      OBVIOUS
    <3>2. EntryAt(c, D, j, m)
      BY <1>2, <1>11, <3>1, EntryOf DEF Kept
    <3>3. SamePlace(x, D)
      BY <1>11, ChangedPlace
    <3>4. Changing(c, fs, action, n, j, m, f, x, p)
      BY <1>1, <1>2, <1>11, <3>2, <3>3 DEF Changing, EntryAt
    <3>5. Verdict(With(fs, n, x), {"series"}) = 0 <=> UnboundInEntry(c, Sealing(c, n, D.to), d, m)
      BY <1>1, <1>5, <1>11, <2>2, <3>4, EntryTold
    <3>6. d.doc.from + d.entry - 1 = m
      BY <1>5, <1>11, <3>1, <3>3 DEF SamePlace
    <3>7. Unbound(c, Sealing(c, n, D.to), d) <=> UnboundInEntry(c, Sealing(c, n, D.to), d, m)
      BY <1>5, <2>2, <3>6 DEF Unbound
    <3>8. QED
      BY <3>5, <3>7
  <2>3. QED
    BY <1>11, <2>1, <2>2 DEF Damaged, EntryFields
<1>12. QED
  BY <1>1, <1>5, <1>6, <1>7, <1>8, <1>9, <1>10, <1>11 DEF Hurt

LEMMA DamageTells ==
    ASSUME CollisionFree, NEW c, NEW fs, NEW action \in Nat \ {0, 1}, Kept(c, fs, action), Len(fs) \in Nat \ {0},
           VerifySeries(ReportsOf(fs)).passes
    PROVE  DamageTold(c, ReportsOf(fs), [k \in 1 .. Len(fs) |-> Sealing(c, k, fs[Len(fs)].segment.to)])
<1>1. PICK n \in Nat \ {0} : n = Len(fs)
  OBVIOUS
<1>2. PICK rs : rs = ReportsOf(fs)
  OBVIOUS
<1>3. PICK hs : hs = [k \in 1 .. Len(fs) |-> Sealing(c, k, fs[Len(fs)].segment.to)]
  OBVIOUS
<1>4. DOMAIN rs = 1 .. n /\ Len(rs) = n /\ \A k \in 1 .. n : IsReport(rs[k], fs[k].segment)
  BY <1>1, <1>2, ReportsAre
<1>5. ASSUME NEW i \in 1 .. Len(fs), NEW d \in Damages(rs[i].doc)
      PROVE  /\ VerifyFile([segment |-> d.doc, digest |-> rs[i].digest]) = Refused
             /\ Verdict([rs EXCEPT ![i] = VerifyFile(Sealed(d.doc))], {"series"}) = 0 <=> i = n /\ Unbound(c, hs[i], d)
  <2>1. rs[i].doc = fs[i].segment
    BY <1>1, <1>4 DEF IsReport
  <2>2. d \in Damages(fs[i].segment)
    BY <1>5, <2>1
  <2>3. /\ Hurt(d, fs[i].segment) /\ d.doc \in Docs
        /\ VerifyFile([segment |-> d.doc, digest |-> ReportsOf(fs)[i].digest]) = Refused
    BY <2>2, DamagedAlone
  <2>4. [rs EXCEPT ![i] = VerifyFile(Sealed(d.doc))] = With(fs, i, d.doc)
    BY <1>2 DEF With
  <2>5. CASE i = n
    <3>1. Hurt(d, Last(fs)) /\ hs[i] = Sealing(c, n, Last(fs).to)
      BY <1>1, <1>3, <2>3, <2>5 DEF Last
    <3>2. Verdict(With(fs, n, d.doc), {"series"}) = 0 <=> Unbound(c, Sealing(c, n, Last(fs).to), d)
      BY <1>1, <2>3, <3>1, LastTold
    <3>3. QED
      BY <1>2, <2>3, <2>4, <2>5, <3>1, <3>2
  <2>6. CASE i # n
    <3>1. PICK k \in 1 .. n - 1 : k = i
      BY <1>1, <2>6
    <3>2. Verdict(With(fs, k, d.doc), {"series"}) # 0
      BY <1>1, <2>2, <3>1, InnerTold
    <3>3. QED
      BY <1>2, <2>3, <2>4, <2>6, <3>1, <3>2
  <2>7. QED
    BY <2>5, <2>6
<1>6. ASSUME NEW i \in DOMAIN rs, NEW d \in Damages(rs[i].doc)
      PROVE  /\ VerifyFile([segment |-> d.doc, digest |-> rs[i].digest]) = Refused
             /\ Verdict([rs EXCEPT ![i] = VerifyFile(Sealed(d.doc))], {"series"}) = 0
                  <=> i = Len(rs) /\ Unbound(c, hs[i], d)
  <2>1. i \in 1 .. Len(fs)
    BY <1>1, <1>4
  <2>2. QED
    BY <1>4, <1>5, <2>1
<1>7. DamageTold(c, rs, hs)
  BY <1>6 DEF DamageTold
<1>8. QED
  BY <1>2, <1>3, <1>7

\* Everything an archive that stands tells.
LEMMA StandingTells ==
    ASSUME CollisionFree, NEW c, NEW fs, NEW action \in Nat \ {0, 1}, Kept(c, fs, action),
           NEW g, NEW gs, NEW other, Kept(g, gs, other), action # other
    PROVE  (\A i \in DOMAIN fs : VerifyFile(fs[i]).passes) /\ ArchiveTold(c, ReportsOf(fs), ReportsOf(gs))
<1>1. PICK n \in Nat : n = Len(fs)
  BY DEF Kept
<1>2. PICK rs : rs = ReportsOf(fs)
  OBVIOUS
<1>3. DOMAIN rs = 1 .. n /\ Len(rs) = n /\ DOMAIN fs = 1 .. n /\ rs \in Seq(Seen)
  BY <1>1, <1>2, ReportsAre DEF ReportsOf
<1>4. \A i \in DOMAIN fs : VerifyFile(fs[i]).passes
  <2>1. \A k \in 1 .. Len(fs) : ReportsOf(fs)[k] = VerifyFile(fs[k]) /\ IsReport(ReportsOf(fs)[k], fs[k].segment)
    BY ReportsAre
  <2>2. QED
    BY <1>1, <1>3, <2>1 DEF IsReport
<1>5. ASSUME NEW i \in DOMAIN rs, NEW k \in i .. Len(rs)
      PROVE  WindowTold(c, SubSeq(rs, i, k), VerifySeries(SubSeq(rs, i, k)))
  <2>1. PICK u \in 1 .. Len(fs) : u = i
    BY <1>1, <1>3
  <2>2. PICK v \in u .. Len(fs) : v = k
    BY <1>1, <1>3, <2>1
  <2>3. PICK W : W = SubSeq(rs, i, k)
    OBVIOUS
  <2>4. WindowIs(W, fs, u, v)
    BY <1>2, <2>1, <2>2, <2>3, WindowOf
  <2>5. WindowTold(c, W, VerifySeries(W))
    BY <2>4, WindowsTell
  <2>6. QED
    BY <2>3, <2>5
<1>6. /\ VerifyAudit(c) =
            LET pre == Unrecomputable(c, 1, Len(c))
            IN  IF InOrderFrom(pre) THEN Cardinality(pre) ELSE -1
      /\ VerifyChain(c) <=> Unrecomputable(c, 1, Len(c)) = {}
  BY ChainTells DEF Kept
<1>7. ASSUME rs # <<>>, VerifySeries(rs).passes
      PROVE  LET headers == SealHeaders(rs, UNION {ExportRecords(rs[i].doc) : i \in DOMAIN rs})
             IN  /\ DamageTold(c, rs, headers)
                 /\ FilesTold(c, rs, ReportsOf(gs))
                 /\ VerdictTold(c, rs, headers)
  <2>1. Len(fs) \in Nat \ {0}
    BY <1>1, <1>3, <1>7
  <2>2. VerifySeries(ReportsOf(fs)).passes
    BY <1>2, <1>7
  <2>3. PICK hs : hs = SealHeaders(rs, UNION {ExportRecords(rs[i].doc) : i \in DOMAIN rs})
    OBVIOUS
  <2>4. hs = [k \in 1 .. Len(fs) |-> Sealing(c, k, fs[Len(fs)].segment.to)]
    BY <1>2, <2>1, <2>3, AllHeaders
  <2>5. DamageTold(c, rs, hs)
    BY <1>2, <2>1, <2>2, <2>4, DamageTells
  <2>6. VerdictTold(c, rs, hs)
    BY <1>2, <2>1, <2>2, <2>4, VerdictTells
  <2>7. FilesTold(c, rs, ReportsOf(gs))
    BY <1>2, <2>1, FilesTell
  <2>8. QED
    BY <2>3, <2>5, <2>6, <2>7
<1>8. ArchiveTold(c, rs, ReportsOf(gs))
  BY <1>5, <1>6, <1>7 DEF ArchiveTold
<1>9. QED
  BY <1>2, <1>4, <1>8

\* What was exported can be read back (segment.go:492, segment.go:897, main.go:87): whatever
\* builds wrote and cut a chain, of any length and with any cap, the checks of a file, of a
\* series and the command pass what is intact, say how much of it is proven, and refuse what
\* is not, if no two texts have one hash.
THEOREM ArchivesAlwaysVerify ==
    ASSUME CollisionFree
    PROVE  SegmentsSpec => []ArchivesVerify
<1> DEFINE Inv == \/ asked = Nothing
                  \/ \E h \in Histories, k \in SegmentCaps : asked = [about |-> "segments", history |-> h, cap |-> k]
<1>1. asked = Nothing => Inv
  OBVIOUS
<1>2. Inv /\ [AskSegments]_asked => Inv'
  BY DEF AskSegments
<1>3. ASSUME Inv PROVE ArchivesVerify
  <2>1. CASE asked = Nothing
    BY <2>1 DEF ArchivesVerify, Nothing
  <2>2. ASSUME NEW h \in Histories, NEW k \in SegmentCaps, asked = [about |-> "segments", history |-> h, cap |-> k]
        PROVE  ArchivesVerify
    <3>1. asked.history = h /\ asked.cap = k
      BY <2>2
    <3>2. h \in Seq(Builders) /\ k \in Nat \ {0, 1}
      BY SegmentsAssumption DEF Builders
    <3>3. PICK u \in Nat \ {0, 1}, v \in Nat \ {0, 1} : u = 21 /\ v = 41
      OBVIOUS
    <3>4. PICK a, b : a = Archive(h, k, u) /\ b = Archive(h, k, v)
      OBVIOUS
    <3>5. Standing(a, u) /\ Standing(b, v)
      BY <3>2, <3>4, ArchiveStands
    <3>6. Kept(a.chain, a.files, u) /\ Kept(b.chain, b.files, v)
      BY <3>5 DEF Standing, Kept
    <3>7. u # v
      BY <3>3
    <3>8. (\A i \in DOMAIN a.files : VerifyFile(a.files[i]).passes) /\ ArchiveTold(a.chain, ReportsOf(a.files), ReportsOf(b.files))
      BY <3>6, <3>7, StandingTells
    <3>9. QED
      BY <3>1, <3>3, <3>4, <3>8 DEF ArchivesVerify, ReportsOf
  <2>3. QED
    BY <1>3, <2>1, <2>2
<1>4. QED
  BY <1>1, <1>2, <1>3, PTL DEF SegmentsSpec
=============================================================================
