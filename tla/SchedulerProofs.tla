--------------------------- MODULE SchedulerProofs ---------------------------
(***************************************************************************)
(* Theorems about the scheduler, for any processes, jobs, cadences and     *)
(* budgets; and about the reports and the reminders, one of its jobs, for  *)
(* any work of a tenant, any clock and any team.                           *)
(***************************************************************************)
EXTENDS Scheduler, Reminders, FiniteSetTheorems, SequenceTheorems, WellFoundedInduction, TLAPS

USE SchedulerAssumption

-----------------------------------------------------------------------------
\* Why the properties hold.

\* A goroutine inside a job keeps the job's flag up.
FlagInv == \A p \in Procs, j \in Jobs :
    copies[p][j] <= 1 /\ (copies[p][j] > 0 => running[p][j])

\* Outside a probe the cached answer says whether a connection is pinned, and
\* only a leader is inside a turn.
LeaderInv == \A p \in Procs :
    /\ loop[p] # "probing" => (leader[p] <=> pinned[p])
    /\ InTurn(p) => leader[p]
    /\ loop[p] = "returned" => ~leader[p]

\* A pinned connection holds the lock, its session not having been lost.
SessionInv == \A p \in Procs : pinned[p] /\ lost[p] < 0 => lock = p /\ ~orphan

\* How late a process may be at each place of its loop.
LateAt(p) ==
    /\ loop[p] = "running" => budget[p] <= Timeout
                              /\ lost[p] + budget[p] <= LateBy(turn[p]) + Timeout
    /\ loop[p] = "grace" => budget[p] <= Grace
                            /\ lost[p] + budget[p] <= LateBy(turn[p]) + Timeout + Grace
    /\ loop[p] = "turn" => lost[p] <= LateBy(turn[p])
    /\ loop[p] # "probing" => nextProbe[p] = 0 \/ lost[p] + nextProbe[p] <= ProbeInterval

LateInv == \A p \in Procs : LateAt(p)

-----------------------------------------------------------------------------

\* A step of the specification is one of these.
LEMMA Steps ==
    ASSUME [Next]_vars
    PROVE  \/ UNCHANGED vars \/ Reap \/ Tick
           \/ \E p \in Procs :
                 \/ BeginProbe(p) \/ PingAnswers(p) \/ PingFails(p) \/ ElectionWon(p)
                 \/ ElectionLost(p) \/ ElectionError(p) \/ BeginTurn(p) \/ EndTurn(p)
                 \/ CutOff(p) \/ Abandon(p) \/ Release(p) \/ RequestStop(p) \/ Exit(p)
                 \/ Crash(p) \/ Start(p) \/ SessionLost(p)
                 \/ \E j \in Jobs : StartJob(p, j) \/ JobReturns(p, j)
  BY DEF Next, LoopStep, Probe

-----------------------------------------------------------------------------
\* The loop never waits for a job that is not registered.
LEMMA NextLoopOK == LoopOK /\ [Next]_vars => LoopOK'
<1> SUFFICES ASSUME LoopOK, [Next]_vars PROVE LoopOK'
  OBVIOUS
<1> USE DEF LoopOK
<1>1. CASE UNCHANGED vars
  BY <1>1 DEF vars, leaseVars, jobVars
<1>2. CASE Reap
  BY <1>2 DEF Reap, leaseVars, jobVars
<1>3. CASE Tick
  BY <1>3 DEF Tick
<1>4. ASSUME NEW p \in Procs, BeginProbe(p) PROVE LoopOK'
  BY <1>4 DEF BeginProbe, leaseVars, jobVars
<1>5. ASSUME NEW p \in Procs, PingAnswers(p) PROVE LoopOK'
  BY <1>5 DEF PingAnswers, Told, jobVars
<1>6. ASSUME NEW p \in Procs, PingFails(p) PROVE LoopOK'
  BY <1>6 DEF PingFails, Alive, Fault, jobVars
<1>7. ASSUME NEW p \in Procs, ElectionWon(p) PROVE LoopOK'
  BY <1>7 DEF ElectionWon, Told, jobVars
<1>8. ASSUME NEW p \in Procs, ElectionLost(p) PROVE LoopOK'
  BY <1>8 DEF ElectionLost, Told, jobVars
<1>9. ASSUME NEW p \in Procs, ElectionError(p) PROVE LoopOK'
  BY <1>9 DEF ElectionError, Told, Fault, jobVars
<1>10. ASSUME NEW p \in Procs, BeginTurn(p) PROVE LoopOK'
  BY <1>10 DEF BeginTurn, leaseVars, jobVars
<1>11. ASSUME NEW p \in Procs, EndTurn(p) PROVE LoopOK'
  BY <1>11 DEF EndTurn, leaseVars, jobVars
<1>12. ASSUME NEW p \in Procs, CutOff(p) PROVE LoopOK'
  BY <1>12 DEF CutOff, leaseVars
<1>13. ASSUME NEW p \in Procs, Abandon(p) PROVE LoopOK'
  BY <1>13 DEF Abandon, leaseVars, jobVars
<1>14. ASSUME NEW p \in Procs, Release(p) PROVE LoopOK'
  BY <1>14 DEF Release, Alive, jobVars
<1>15. ASSUME NEW p \in Procs, RequestStop(p) PROVE LoopOK'
  BY <1>15 DEF RequestStop, Fault, leaseVars, jobVars
<1>16. ASSUME NEW p \in Procs, Start(p) PROVE LoopOK'
  BY <1>16 DEF Start, leaseVars, jobVars
<1>17. ASSUME NEW p \in Procs, Exit(p) PROVE LoopOK'
  BY <1>17 DEF Exit, Ends, Alive
<1>18. ASSUME NEW p \in Procs, Crash(p) PROVE LoopOK'
  BY <1>18 DEF Crash, Ends, Fault, Alive
<1>19. ASSUME NEW p \in Procs, SessionLost(p) PROVE LoopOK'
  BY <1>19 DEF SessionLost, Alive, Fault, jobVars
<1>20. ASSUME NEW p \in Procs, NEW j \in Jobs, StartJob(p, j) PROVE LoopOK'
  <2>1. j \in Nat \ {0}
    BY DEF Jobs
  <2>2. QED
    BY <1>20, <2>1 DEF StartJob, leaseVars
<1>21. ASSUME NEW p \in Procs, NEW j \in Jobs, JobReturns(p, j) PROVE LoopOK'
  BY <1>21 DEF JobReturns, Awaited, leaseVars
<1>22. QED
  BY Steps, <1>1, <1>2, <1>3, <1>4, <1>5, <1>6, <1>7, <1>8, <1>9, <1>10, <1>11, <1>12,
     <1>13, <1>14, <1>15, <1>16, <1>17, <1>18, <1>19, <1>20, <1>21

\* Only a session that holds the lock can be orphaned.
LEMMA NextLeaseOK == LeaseOK /\ [Next]_vars => LeaseOK'
<1> SUFFICES ASSUME LeaseOK, [Next]_vars PROVE LeaseOK'
  OBVIOUS
<1> USE DEF LeaseOK
<1>1. CASE UNCHANGED vars
  BY <1>1 DEF vars, leaseVars, jobVars
<1>2. CASE Reap
  BY <1>2 DEF Reap, leaseVars, jobVars
<1>3. CASE Tick
  <2>1. MaxLate \in Int
    BY DEF MaxLate, LateBy
  <2>2. QED
    BY <1>3, <2>1 DEF Tick
<1>4. ASSUME NEW p \in Procs, BeginProbe(p) PROVE LeaseOK'
  BY <1>4 DEF BeginProbe, leaseVars, jobVars
<1>5. ASSUME NEW p \in Procs, PingAnswers(p) PROVE LeaseOK'
  BY <1>5 DEF PingAnswers, Told, jobVars
<1>6. ASSUME NEW p \in Procs, PingFails(p) PROVE LeaseOK'
  BY <1>6 DEF PingFails, Alive, Fault, jobVars
<1>7. ASSUME NEW p \in Procs, ElectionWon(p) PROVE LeaseOK'
  BY <1>7 DEF ElectionWon, Told, jobVars
<1>8. ASSUME NEW p \in Procs, ElectionLost(p) PROVE LeaseOK'
  BY <1>8 DEF ElectionLost, Told, jobVars
<1>9. ASSUME NEW p \in Procs, ElectionError(p) PROVE LeaseOK'
  <2>1. lock' \in Procs \cup {NoProc} /\ orphan' \in BOOLEAN /\ (orphan' => lock' # NoProc)
    <3>1. \/ UNCHANGED <<lock, orphan>>
          \/ lock' = p /\ orphan' = TRUE
      BY <1>9 DEF ElectionError
    <3>2. CASE UNCHANGED <<lock, orphan>>
      BY <3>2
    <3>3. CASE lock' = p /\ orphan' = TRUE
      BY <3>3, p # NoProc
    <3>4. QED
      BY <3>1, <3>2, <3>3
  <2>2. faults' \in Nat
    BY <1>9 DEF ElectionError, Fault
  <2>3. QED
    BY <1>9, <2>1, <2>2 DEF ElectionError, Told
<1>10. ASSUME NEW p \in Procs, BeginTurn(p) PROVE LeaseOK'
  BY <1>10 DEF BeginTurn, leaseVars, jobVars
<1>11. ASSUME NEW p \in Procs, EndTurn(p) PROVE LeaseOK'
  BY <1>11 DEF EndTurn, leaseVars, jobVars
<1>12. ASSUME NEW p \in Procs, CutOff(p) PROVE LeaseOK'
  BY <1>12 DEF CutOff, leaseVars
<1>13. ASSUME NEW p \in Procs, Abandon(p) PROVE LeaseOK'
  BY <1>13 DEF Abandon, leaseVars, jobVars
<1>14. ASSUME NEW p \in Procs, Release(p) PROVE LeaseOK'
  <2>1. CASE leader[p]
    <3>1. lock' \in Procs \cup {NoProc} /\ (orphan' => lock' # NoProc)
      BY <1>14, <2>1 DEF Release, Alive
    <3>2. leader' \in [Procs -> BOOLEAN] /\ pinned' \in [Procs -> BOOLEAN]
      BY <1>14, <2>1 DEF Release
    <3>3. lost' \in [Procs -> Int]
      BY <1>14, <2>1 DEF Release
    <3>4. QED
      BY <1>14, <3>1, <3>2, <3>3 DEF Release
  <2>2. CASE ~leader[p]
    BY <1>14, <2>2 DEF Release
  <2>3. QED
    BY <2>1, <2>2
<1>15. ASSUME NEW p \in Procs, RequestStop(p) PROVE LeaseOK'
  BY <1>15 DEF RequestStop, Fault, leaseVars, jobVars
<1>16. ASSUME NEW p \in Procs, Start(p) PROVE LeaseOK'
  BY <1>16 DEF Start, leaseVars, jobVars
<1>17. ASSUME NEW p \in Procs, Exit(p) PROVE LeaseOK'
  BY <1>17 DEF Exit, Ends, Alive
<1>18. ASSUME NEW p \in Procs, Crash(p) PROVE LeaseOK'
  BY <1>18 DEF Crash, Ends, Fault, Alive
<1>19. ASSUME NEW p \in Procs, SessionLost(p) PROVE LeaseOK'
  BY <1>19 DEF SessionLost, Alive, Fault, jobVars
<1>20. ASSUME NEW p \in Procs, NEW j \in Jobs, StartJob(p, j) PROVE LeaseOK'
  BY <1>20 DEF StartJob, leaseVars
<1>21. ASSUME NEW p \in Procs, NEW j \in Jobs, JobReturns(p, j) PROVE LeaseOK'
  BY <1>21 DEF JobReturns, Awaited, leaseVars
<1>22. QED
  BY Steps, <1>1, <1>2, <1>3, <1>4, <1>5, <1>6, <1>7, <1>8, <1>9, <1>10, <1>11, <1>12,
     <1>13, <1>14, <1>15, <1>16, <1>17, <1>18, <1>19, <1>20, <1>21

\* Times and budgets never go below zero.
LEMMA NextJobsOK == JobsOK /\ [Next]_vars => JobsOK'
<1> SUFFICES ASSUME JobsOK, [Next]_vars PROVE JobsOK'
  OBVIOUS
<1> USE DEF JobsOK
<1>1. CASE UNCHANGED vars
  BY <1>1 DEF vars, leaseVars, jobVars
<1>2. CASE Reap
  BY <1>2 DEF Reap, leaseVars, jobVars
<1>3. CASE Tick
  <2>1. nextProbe' \in [Procs -> 0 .. ProbeInterval]
    BY <1>3 DEF Tick, Down
  <2>2. nextRun' \in [Procs -> [Jobs -> 0 .. Interval]]
    BY <1>3 DEF Tick, Down
  <2>3. budget' \in [Procs -> Nat]
    BY <1>3 DEF Tick, Down
  <2>4. QED
    BY <1>3, <2>1, <2>2, <2>3 DEF Tick
<1>4. ASSUME NEW p \in Procs, BeginProbe(p) PROVE JobsOK'
  BY <1>4 DEF BeginProbe, leaseVars, jobVars
<1>5. ASSUME NEW p \in Procs, PingAnswers(p) PROVE JobsOK'
  BY <1>5 DEF PingAnswers, Told, jobVars
<1>6. ASSUME NEW p \in Procs, PingFails(p) PROVE JobsOK'
  BY <1>6 DEF PingFails, Alive, Fault, jobVars
<1>7. ASSUME NEW p \in Procs, ElectionWon(p) PROVE JobsOK'
  BY <1>7 DEF ElectionWon, Told, jobVars
<1>8. ASSUME NEW p \in Procs, ElectionLost(p) PROVE JobsOK'
  BY <1>8 DEF ElectionLost, Told, jobVars
<1>9. ASSUME NEW p \in Procs, ElectionError(p) PROVE JobsOK'
  BY <1>9 DEF ElectionError, Told, Fault, jobVars
<1>10. ASSUME NEW p \in Procs, BeginTurn(p) PROVE JobsOK'
  BY <1>10 DEF BeginTurn, leaseVars, jobVars
<1>11. ASSUME NEW p \in Procs, EndTurn(p) PROVE JobsOK'
  BY <1>11 DEF EndTurn, leaseVars, jobVars
<1>12. ASSUME NEW p \in Procs, CutOff(p) PROVE JobsOK'
  BY <1>12 DEF CutOff, leaseVars
<1>13. ASSUME NEW p \in Procs, Abandon(p) PROVE JobsOK'
  BY <1>13 DEF Abandon, leaseVars, jobVars
<1>14. ASSUME NEW p \in Procs, Release(p) PROVE JobsOK'
  BY <1>14 DEF Release, Alive, jobVars
<1>15. ASSUME NEW p \in Procs, RequestStop(p) PROVE JobsOK'
  BY <1>15 DEF RequestStop, Fault, leaseVars, jobVars
<1>16. ASSUME NEW p \in Procs, Start(p) PROVE JobsOK'
  BY <1>16 DEF Start, leaseVars, jobVars
<1>17. ASSUME NEW p \in Procs, Exit(p) PROVE JobsOK'
  BY <1>17 DEF Exit, Ends, Alive
<1>18. ASSUME NEW p \in Procs, Crash(p) PROVE JobsOK'
  BY <1>18 DEF Crash, Ends, Fault, Alive
<1>19. ASSUME NEW p \in Procs, SessionLost(p) PROVE JobsOK'
  BY <1>19 DEF SessionLost, Alive, Fault, jobVars
<1>20. ASSUME NEW p \in Procs, NEW j \in Jobs, StartJob(p, j) PROVE JobsOK'
  <2>1. copies' \in [Procs -> [Jobs -> Nat]]
    BY <1>20 DEF StartJob
  <2>2. nextRun' \in [Procs -> [Jobs -> 0 .. Interval]]
    BY <1>20 DEF StartJob
  <2>3. QED
    BY <1>20, <2>1, <2>2 DEF StartJob
<1>21. ASSUME NEW p \in Procs, NEW j \in Jobs, JobReturns(p, j) PROVE JobsOK'
  <2>1. copies' \in [Procs -> [Jobs -> Nat]]
    BY <1>21 DEF JobReturns
  <2>2. budget' \in [Procs -> Nat]
    BY <1>21 DEF JobReturns
  <2>3. running' \in [Procs -> [Jobs -> BOOLEAN]]
    BY <1>21 DEF JobReturns
  <2>4. QED
    BY <1>21, <2>1, <2>2, <2>3 DEF JobReturns, leaseVars
<1>22. QED
  BY Steps, <1>1, <1>2, <1>3, <1>4, <1>5, <1>6, <1>7, <1>8, <1>9, <1>10, <1>11, <1>12,
     <1>13, <1>14, <1>15, <1>16, <1>17, <1>18, <1>19, <1>20, <1>21

\* Whatever is stopped, killed or lost, the state of the loops, of the lease
\* and of the jobs keeps its shape.
THEOREM TypeCorrect == Spec => []TypeOK
<1>1. Init => TypeOK
  <2>1. Init => LoopOK
    BY DEF Init, LoopOK
  <2>2. Init => LeaseOK
    <3>1. Init => lost \in [Procs -> Int]
      BY DEF Init
    <3>2. Init => leader \in [Procs -> BOOLEAN] /\ pinned \in [Procs -> BOOLEAN]
      BY DEF Init
    <3>3. Init => orphan \in BOOLEAN /\ (orphan => lock # NoProc)
      BY DEF Init
    <3>4. Init => lock \in Procs \cup {NoProc} /\ faults \in Nat
      BY DEF Init
    <3>5. QED
      BY <3>1, <3>2, <3>3, <3>4 DEF LeaseOK
  <2>3. Init => JobsOK
    BY DEF Init, JobsOK
  <2>4. QED
    BY <2>1, <2>2, <2>3 DEF TypeOK
<1>2. TypeOK /\ [Next]_vars => TypeOK'
  BY NextLoopOK, NextLeaseOK, NextJobsOK DEF TypeOK
<1>3. QED
  BY <1>1, <1>2, PTL DEF Spec

-----------------------------------------------------------------------------
\* A job starts only while its flag is down, and a return puts it down.
LEMMA NextFlagInv == TypeOK /\ FlagInv /\ [Next]_vars => FlagInv'
<1> SUFFICES ASSUME TypeOK, FlagInv, [Next]_vars PROVE FlagInv'
  OBVIOUS
<1> USE DEF FlagInv, TypeOK, JobsOK
<1>1. CASE UNCHANGED vars
  BY <1>1 DEF vars, leaseVars, jobVars
<1>2. CASE Reap
  BY <1>2 DEF Reap, leaseVars, jobVars
<1>3. CASE Tick
  BY <1>3 DEF Tick
<1>4. ASSUME NEW p \in Procs, BeginProbe(p) PROVE FlagInv'
  BY <1>4 DEF BeginProbe, leaseVars, jobVars
<1>5. ASSUME NEW p \in Procs, PingAnswers(p) PROVE FlagInv'
  BY <1>5 DEF PingAnswers, Told, jobVars
<1>6. ASSUME NEW p \in Procs, PingFails(p) PROVE FlagInv'
  BY <1>6 DEF PingFails, Alive, Fault, jobVars
<1>7. ASSUME NEW p \in Procs, ElectionWon(p) PROVE FlagInv'
  BY <1>7 DEF ElectionWon, Told, jobVars
<1>8. ASSUME NEW p \in Procs, ElectionLost(p) PROVE FlagInv'
  BY <1>8 DEF ElectionLost, Told, jobVars
<1>9. ASSUME NEW p \in Procs, ElectionError(p) PROVE FlagInv'
  BY <1>9 DEF ElectionError, Told, Fault, jobVars
<1>10. ASSUME NEW p \in Procs, BeginTurn(p) PROVE FlagInv'
  BY <1>10 DEF BeginTurn, leaseVars, jobVars
<1>11. ASSUME NEW p \in Procs, EndTurn(p) PROVE FlagInv'
  BY <1>11 DEF EndTurn, leaseVars, jobVars
<1>12. ASSUME NEW p \in Procs, CutOff(p) PROVE FlagInv'
  BY <1>12 DEF CutOff, leaseVars
<1>13. ASSUME NEW p \in Procs, Abandon(p) PROVE FlagInv'
  BY <1>13 DEF Abandon, leaseVars, jobVars
<1>14. ASSUME NEW p \in Procs, Release(p) PROVE FlagInv'
  BY <1>14 DEF Release, Alive, jobVars
<1>15. ASSUME NEW p \in Procs, RequestStop(p) PROVE FlagInv'
  BY <1>15 DEF RequestStop, Fault, leaseVars, jobVars
<1>16. ASSUME NEW p \in Procs, Start(p) PROVE FlagInv'
  BY <1>16 DEF Start, leaseVars, jobVars
<1>17. ASSUME NEW p \in Procs, Exit(p) PROVE FlagInv'
  BY <1>17 DEF Exit, Ends, Alive
<1>18. ASSUME NEW p \in Procs, Crash(p) PROVE FlagInv'
  BY <1>18 DEF Crash, Ends, Fault, Alive
<1>19. ASSUME NEW p \in Procs, SessionLost(p) PROVE FlagInv'
  BY <1>19 DEF SessionLost, Alive, Fault, jobVars
<1>20. ASSUME NEW p \in Procs, NEW j \in Jobs, StartJob(p, j) PROVE FlagInv'
  BY <1>20 DEF StartJob, Startable
<1>21. ASSUME NEW p \in Procs, NEW j \in Jobs, JobReturns(p, j) PROVE FlagInv'
  BY <1>21 DEF JobReturns
<1>22. QED
  BY Steps, <1>1, <1>2, <1>3, <1>4, <1>5, <1>6, <1>7, <1>8, <1>9, <1>10, <1>11, <1>12,
     <1>13, <1>14, <1>15, <1>16, <1>17, <1>18, <1>19, <1>20, <1>21

\* The flag of the loop follows the connection of the lease.
LEMMA NextLeaderInv == TypeOK /\ LeaderInv /\ [Next]_vars => LeaderInv'
<1> SUFFICES ASSUME TypeOK, LeaderInv, [Next]_vars PROVE LeaderInv'
  OBVIOUS
<1> USE DEF LeaderInv, TypeOK, LoopOK, LeaseOK, InTurn
<1>1. CASE UNCHANGED vars
  BY <1>1 DEF vars, leaseVars, jobVars
<1>2. CASE Reap
  BY <1>2 DEF Reap, leaseVars, jobVars
<1>3. CASE Tick
  BY <1>3 DEF Tick
<1>4. ASSUME NEW p \in Procs, BeginProbe(p) PROVE LeaderInv'
  BY <1>4 DEF BeginProbe, leaseVars, jobVars
<1>5. ASSUME NEW p \in Procs, PingAnswers(p) PROVE LeaderInv'
  <2>1. pinned[p]
    BY <1>5 DEF PingAnswers, Alive
  <2>2. QED
    BY <1>5, <2>1 DEF PingAnswers, Told, jobVars
<1>6. ASSUME NEW p \in Procs, PingFails(p) PROVE LeaderInv'
  BY <1>6 DEF PingFails, Alive, Fault, jobVars
<1>7. ASSUME NEW p \in Procs, ElectionWon(p) PROVE LeaderInv'
  BY <1>7 DEF ElectionWon, Told, jobVars
<1>8. ASSUME NEW p \in Procs, ElectionLost(p) PROVE LeaderInv'
  BY <1>8 DEF ElectionLost, Told, jobVars
<1>9. ASSUME NEW p \in Procs, ElectionError(p) PROVE LeaderInv'
  BY <1>9 DEF ElectionError, Told, Fault, jobVars
<1>10. ASSUME NEW p \in Procs, BeginTurn(p) PROVE LeaderInv'
  BY <1>10 DEF BeginTurn, leaseVars, jobVars
<1>11. ASSUME NEW p \in Procs, EndTurn(p) PROVE LeaderInv'
  BY <1>11 DEF EndTurn, leaseVars, jobVars
<1>12. ASSUME NEW p \in Procs, CutOff(p) PROVE LeaderInv'
  BY <1>12 DEF CutOff, leaseVars
<1>13. ASSUME NEW p \in Procs, Abandon(p) PROVE LeaderInv'
  BY <1>13 DEF Abandon, leaseVars, jobVars
<1>14. ASSUME NEW p \in Procs, Release(p) PROVE LeaderInv'
  BY <1>14 DEF Release, Alive, jobVars
<1>15. ASSUME NEW p \in Procs, RequestStop(p) PROVE LeaderInv'
  BY <1>15 DEF RequestStop, Fault, leaseVars, jobVars
<1>16. ASSUME NEW p \in Procs, Start(p) PROVE LeaderInv'
  BY <1>16 DEF Start, leaseVars, jobVars
<1>17. ASSUME NEW p \in Procs, Exit(p) PROVE LeaderInv'
  BY <1>17 DEF Exit, Ends, Alive
<1>18. ASSUME NEW p \in Procs, Crash(p) PROVE LeaderInv'
  BY <1>18 DEF Crash, Ends, Fault, Alive
<1>19. ASSUME NEW p \in Procs, SessionLost(p) PROVE LeaderInv'
  BY <1>19 DEF SessionLost, Alive, Fault, jobVars
<1>20. ASSUME NEW p \in Procs, NEW j \in Jobs, StartJob(p, j) PROVE LeaderInv'
  BY <1>20 DEF StartJob, leaseVars
<1>21. ASSUME NEW p \in Procs, NEW j \in Jobs, JobReturns(p, j) PROVE LeaderInv'
  BY <1>21 DEF JobReturns, Awaited, leaseVars
<1>22. QED
  BY Steps, <1>1, <1>2, <1>3, <1>4, <1>5, <1>6, <1>7, <1>8, <1>9, <1>10, <1>11, <1>12,
     <1>13, <1>14, <1>15, <1>16, <1>17, <1>18, <1>19, <1>20, <1>21

\* A lock is given only when nobody holds one, and a pinned session keeps it.
LEMMA NextSessionInv == TypeOK /\ SessionInv /\ [Next]_vars => SessionInv'
<1> SUFFICES ASSUME TypeOK, SessionInv, [Next]_vars PROVE SessionInv'
  OBVIOUS
<1> USE DEF SessionInv, TypeOK, LeaseOK
<1>1. CASE UNCHANGED vars
  BY <1>1 DEF vars, leaseVars, jobVars
<1>2. CASE Reap
  BY <1>2 DEF Reap, leaseVars, jobVars
<1>3. CASE Tick
  BY <1>3 DEF Tick
<1>4. ASSUME NEW p \in Procs, BeginProbe(p) PROVE SessionInv'
  BY <1>4 DEF BeginProbe, leaseVars, jobVars
<1>5. ASSUME NEW p \in Procs, PingAnswers(p) PROVE SessionInv'
  BY <1>5 DEF PingAnswers, Alive, Told, jobVars
<1>6. ASSUME NEW p \in Procs, PingFails(p) PROVE SessionInv'
  BY <1>6 DEF PingFails, Alive, Fault, jobVars
<1>7. ASSUME NEW p \in Procs, ElectionWon(p) PROVE SessionInv'
  BY <1>7 DEF ElectionWon, Told, jobVars
<1>8. ASSUME NEW p \in Procs, ElectionLost(p) PROVE SessionInv'
  BY <1>8 DEF ElectionLost, Told, jobVars
<1>9. ASSUME NEW p \in Procs, ElectionError(p) PROVE SessionInv'
  BY <1>9 DEF ElectionError, Told, Fault, jobVars
<1>10. ASSUME NEW p \in Procs, BeginTurn(p) PROVE SessionInv'
  BY <1>10 DEF BeginTurn, leaseVars, jobVars
<1>11. ASSUME NEW p \in Procs, EndTurn(p) PROVE SessionInv'
  BY <1>11 DEF EndTurn, leaseVars, jobVars
<1>12. ASSUME NEW p \in Procs, CutOff(p) PROVE SessionInv'
  BY <1>12 DEF CutOff, leaseVars
<1>13. ASSUME NEW p \in Procs, Abandon(p) PROVE SessionInv'
  BY <1>13 DEF Abandon, leaseVars, jobVars
<1>14. ASSUME NEW p \in Procs, Release(p) PROVE SessionInv'
  BY <1>14 DEF Release, Alive, jobVars
<1>15. ASSUME NEW p \in Procs, RequestStop(p) PROVE SessionInv'
  BY <1>15 DEF RequestStop, Fault, leaseVars, jobVars
<1>16. ASSUME NEW p \in Procs, Start(p) PROVE SessionInv'
  BY <1>16 DEF Start, leaseVars, jobVars
<1>17. ASSUME NEW p \in Procs, Exit(p) PROVE SessionInv'
  BY <1>17 DEF Exit, Ends, Alive
<1>18. ASSUME NEW p \in Procs, Crash(p) PROVE SessionInv'
  BY <1>18 DEF Crash, Ends, Fault, Alive
<1>19. ASSUME NEW p \in Procs, SessionLost(p) PROVE SessionInv'
  BY <1>19 DEF SessionLost, Alive, Fault, jobVars
<1>20. ASSUME NEW p \in Procs, NEW j \in Jobs, StartJob(p, j) PROVE SessionInv'
  BY <1>20 DEF StartJob, leaseVars
<1>21. ASSUME NEW p \in Procs, NEW j \in Jobs, JobReturns(p, j) PROVE SessionInv'
  BY <1>21 DEF JobReturns, Awaited, leaseVars
<1>22. QED
  BY Steps, <1>1, <1>2, <1>3, <1>4, <1>5, <1>6, <1>7, <1>8, <1>9, <1>10, <1>11, <1>12,
     <1>13, <1>14, <1>15, <1>16, <1>17, <1>18, <1>19, <1>20, <1>21

\* A turn gets later by a timeout and a grace with every job.
LEMMA LateByStep ==
    ASSUME NEW j \in Nat \ {0}
    PROVE  /\ LateBy(j) \in Int /\ LateBy(j) >= 0 /\ LateBy(1) = ProbeInterval - 1
           /\ LateBy(j + 1) = LateBy(j) + Timeout + Grace
<1>1. (j - 1) * (Timeout + Grace) \in Nat
  OBVIOUS
<1>2. (j + 1 - 1) * (Timeout + Grace) = (j - 1) * (Timeout + Grace) + Timeout + Grace
  OBVIOUS
<1>3. QED
  BY <1>1, <1>2 DEF LateBy

\* A job is not called later than those after it.
LEMMA LateByMonotone ==
    ASSUME NEW i \in Nat \ {0}, NEW j \in Nat \ {0}, i <= j
    PROVE  LateBy(i) <= LateBy(j)
<1>1. PICK d \in Nat : j = i + d
  BY j - i \in Nat, j = i + (j - i)
<1>2. (j - 1) * (Timeout + Grace) = (i - 1) * (Timeout + Grace) + d * (Timeout + Grace)
  BY <1>1
<1>3. d * (Timeout + Grace) \in Nat /\ (i - 1) * (Timeout + Grace) \in Nat
  BY <1>1
<1>4. QED
  BY <1>2, <1>3 DEF LateBy

\* Every step of a loop keeps to the schedule LateInv sets.
LEMMA NextLateInv == TypeOK /\ LateInv /\ [Next]_vars => LateInv'
<1> SUFFICES ASSUME TypeOK, LateInv, [Next]_vars PROVE LateInv'
  OBVIOUS
<1> USE DEF LateInv, LateAt, TypeOK, LoopOK, LeaseOK, JobsOK
<1>1. CASE UNCHANGED vars
  BY <1>1 DEF vars, leaseVars, jobVars
<1>2. CASE Reap
  BY <1>2 DEF Reap, leaseVars, jobVars
<1>3. CASE Tick
  <2> SUFFICES ASSUME NEW q \in Procs PROVE LateAt(q)'
    OBVIOUS
  <2>1. turn[q] \in Nat \ {0} /\ LateBy(turn[q]) \in Int /\ LateBy(turn[q]) >= 0
    BY LateByStep
  <2>2. nextProbe[q] \in Nat /\ budget[q] \in Nat /\ lost[q] \in Int
    OBVIOUS
  <2>3. nextProbe'[q] = Down(nextProbe[q]) /\ budget'[q] = Down(budget[q])
    BY <1>3 DEF Tick
  <2>4. lost'[q] = lost[q] \/ lost'[q] = lost[q] + 1
    BY <1>3 DEF Tick
  <2>5. lost[q] < 0 => lost'[q] = lost[q]
    BY <1>3 DEF Tick
  <2>6. loop'[q] = loop[q] /\ turn'[q] = turn[q] /\ Settled(q)
    BY <1>3 DEF Tick
  <2>7. LateAt(q)
    OBVIOUS
  <2>8. QED
    BY <2>1, <2>2, <2>3, <2>4, <2>5, <2>6, <2>7 DEF Settled, Down, LateAt
<1>4. ASSUME NEW p \in Procs, BeginProbe(p) PROVE LateInv'
  BY <1>4 DEF BeginProbe, leaseVars, jobVars
<1>5. ASSUME NEW p \in Procs, PingAnswers(p) PROVE LateInv'
  <2>1. turn[p] \in Nat \ {0} /\ LateBy(turn[p]) \in Int /\ LateBy(turn[p]) >= 0
    BY LateByStep
  <2>2. LateAt(p)'
    <3>1. LateBy(1) = ProbeInterval - 1
      BY LateByStep
    <3>2. QED
      BY <1>5, <3>1 DEF PingAnswers, Told, jobVars
  <2>3. ASSUME NEW q \in Procs, q # p PROVE LateAt(q)'
    BY <1>5, <2>3 DEF PingAnswers, Told, jobVars
  <2>4. QED
    BY <2>2, <2>3
<1>6. ASSUME NEW p \in Procs, PingFails(p) PROVE LateInv'
  BY <1>6 DEF PingFails, Alive, Fault, jobVars
<1>7. ASSUME NEW p \in Procs, ElectionWon(p) PROVE LateInv'
  <2>1. turn[p] \in Nat \ {0} /\ LateBy(turn[p]) \in Int /\ LateBy(turn[p]) >= 0
    BY LateByStep
  <2>2. LateAt(p)'
    <3>1. LateBy(1) = ProbeInterval - 1
      BY LateByStep
    <3>2. QED
      BY <1>7, <3>1 DEF ElectionWon, Told, jobVars
  <2>3. ASSUME NEW q \in Procs, q # p PROVE LateAt(q)'
    BY <1>7, <2>3 DEF ElectionWon, Told, jobVars
  <2>4. QED
    BY <2>2, <2>3
<1>8. ASSUME NEW p \in Procs, ElectionLost(p) PROVE LateInv'
  BY <1>8 DEF ElectionLost, Told, jobVars
<1>9. ASSUME NEW p \in Procs, ElectionError(p) PROVE LateInv'
  BY <1>9 DEF ElectionError, Told, Fault, jobVars
<1>10. ASSUME NEW p \in Procs, BeginTurn(p) PROVE LateInv'
  <2>1. turn[p] \in Nat \ {0} /\ LateBy(turn[p]) \in Int /\ LateBy(turn[p]) >= 0
    BY LateByStep
  <2>2. LateAt(p)'
    <3>1. LateBy(1) = ProbeInterval - 1
      BY LateByStep
    <3>2. QED
      BY <1>10, <3>1 DEF BeginTurn, leaseVars, jobVars
  <2>3. ASSUME NEW q \in Procs, q # p PROVE LateAt(q)'
    BY <1>10, <2>3 DEF BeginTurn, leaseVars, jobVars
  <2>4. QED
    BY <2>2, <2>3
<1>11. ASSUME NEW p \in Procs, EndTurn(p) PROVE LateInv'
  BY <1>11 DEF EndTurn, leaseVars, jobVars
<1>12. ASSUME NEW p \in Procs, CutOff(p) PROVE LateInv'
  <2>1. turn[p] \in Nat \ {0} /\ LateBy(turn[p]) \in Int /\ LateBy(turn[p]) >= 0
    BY LateByStep
  <2>2. LateAt(p)'
    BY <1>12, <2>1 DEF CutOff, leaseVars
  <2>3. ASSUME NEW q \in Procs, q # p PROVE LateAt(q)'
    BY <1>12, <2>3 DEF CutOff, leaseVars
  <2>4. QED
    BY <2>2, <2>3
<1>13. ASSUME NEW p \in Procs, Abandon(p) PROVE LateInv'
  <2>1. turn[p] \in Nat \ {0} /\ LateBy(turn[p]) \in Int /\ LateBy(turn[p]) >= 0
    BY LateByStep
  <2>2. LateAt(p)'
    <3>1. LateBy(turn[p] + 1) = LateBy(turn[p]) + Timeout + Grace
      BY <2>1, LateByStep
    <3>2. QED
      BY <1>13, <2>1, <3>1 DEF Abandon, leaseVars, jobVars
  <2>3. ASSUME NEW q \in Procs, q # p PROVE LateAt(q)'
    BY <1>13, <2>3 DEF Abandon, leaseVars, jobVars
  <2>4. QED
    BY <2>2, <2>3
<1>14. ASSUME NEW p \in Procs, Release(p) PROVE LateInv'
  BY <1>14 DEF Release, Alive, jobVars
<1>15. ASSUME NEW p \in Procs, RequestStop(p) PROVE LateInv'
  BY <1>15 DEF RequestStop, Fault, leaseVars, jobVars
<1>16. ASSUME NEW p \in Procs, Start(p) PROVE LateInv'
  BY <1>16 DEF Start, leaseVars, jobVars
<1>17. ASSUME NEW p \in Procs, Exit(p) PROVE LateInv'
  BY <1>17 DEF Exit, Ends, Alive
<1>18. ASSUME NEW p \in Procs, Crash(p) PROVE LateInv'
  BY <1>18 DEF Crash, Ends, Fault, Alive
<1>19. ASSUME NEW p \in Procs, SessionLost(p) PROVE LateInv'
  <2>1. turn[p] \in Nat \ {0} /\ LateBy(turn[p]) \in Int /\ LateBy(turn[p]) >= 0
    BY LateByStep
  <2>2. LateAt(p)'
    BY <1>19, <2>1 DEF SessionLost, Alive, Fault, jobVars
  <2>3. ASSUME NEW q \in Procs, q # p PROVE LateAt(q)'
    BY <1>19, <2>3 DEF SessionLost, Alive, Fault, jobVars
  <2>4. QED
    BY <2>2, <2>3
<1>20. ASSUME NEW p \in Procs, NEW j \in Jobs, StartJob(p, j) PROVE LateInv'
  <2>1. turn[p] \in Nat \ {0} /\ LateBy(turn[p]) \in Int /\ LateBy(turn[p]) >= 0
    BY LateByStep
  <2>2. LateAt(p)'
    <3>1. j \in Nat \ {0} /\ turn[p] <= j
      BY <1>20 DEF StartJob, Jobs
    <3>2. LateBy(turn[p]) <= LateBy(j) /\ LateBy(j) \in Int
      BY <3>1, <2>1, LateByMonotone, LateByStep
    <3>3. QED
      BY <1>20, <2>1, <3>1, <3>2 DEF StartJob, leaseVars
  <2>3. ASSUME NEW q \in Procs, q # p PROVE LateAt(q)'
    BY <1>20, <2>3 DEF StartJob, leaseVars
  <2>4. QED
    BY <2>2, <2>3
<1>21. ASSUME NEW p \in Procs, NEW j \in Jobs, JobReturns(p, j) PROVE LateInv'
  <2>1. turn[p] \in Nat \ {0} /\ LateBy(turn[p]) \in Int /\ LateBy(turn[p]) >= 0
    BY LateByStep
  <2>2. LateAt(p)'
    <3>1. LateBy(turn[p] + 1) = LateBy(turn[p]) + Timeout + Grace
      BY <2>1, LateByStep
    <3>2. QED
      BY <1>21, <2>1, <3>1 DEF JobReturns, Awaited, leaseVars
  <2>3. ASSUME NEW q \in Procs, q # p PROVE LateAt(q)'
    BY <1>21, <2>3 DEF JobReturns, Awaited, leaseVars
  <2>4. QED
    BY <2>2, <2>3
<1>22. QED
  BY Steps, <1>1, <1>2, <1>3, <1>4, <1>5, <1>6, <1>7, <1>8, <1>9, <1>10, <1>11, <1>12,
     <1>13, <1>14, <1>15, <1>16, <1>17, <1>18, <1>19, <1>20, <1>21

-----------------------------------------------------------------------------
IInv == TypeOK /\ FlagInv /\ LeaderInv /\ SessionInv /\ LateInv

LEMMA Inductive == Spec => []IInv
<1>1. Init => FlagInv /\ LeaderInv /\ SessionInv
  BY DEF Init, FlagInv, LeaderInv, SessionInv, InTurn
<1>2. Init => LateInv
  BY DEF Init, LateInv, LateAt
<1>3. IInv /\ [Next]_vars => (FlagInv /\ LeaderInv /\ SessionInv /\ LateInv)'
  BY NextFlagInv, NextLeaderInv, NextSessionInv, NextLateInv DEF IInv
<1>4. QED
  BY TypeCorrect, <1>1, <1>2, <1>3, PTL DEF Spec, IInv

\* A job never runs twice in one process, however long it overran (runJob).
THEOREM NeverPilesUp == Spec => []NoPileUp
<1>1. IInv => NoPileUp
  BY DEF IInv, FlagInv, NoPileUp
<1>2. QED
  BY Inductive, <1>1, PTL

\* A Run that returned left no connection pinned (releaseLease).
THEOREM AlwaysHandsBack == Spec => []HandsBack
<1>1. IInv => HandsBack
  BY DEF IInv, LeaderInv, HandsBack
<1>2. QED
  BY Inductive, <1>1, PTL

\* Processes that have lost their session and not noticed aside, one at most
\* does scheduled work (schedulerLease).
THEOREM AtMostOneRunner == Spec => []OneRunner
<1>1. IInv => OneRunner
  <2> SUFFICES ASSUME IInv, NEW p \in Procs, NEW q \in Procs, InTurn(p), InTurn(q),
                      lost[p] < 0, lost[q] < 0
               PROVE  p = q
    BY DEF OneRunner
  <2>1. pinned[p] /\ pinned[q]
    BY DEF IInv, LeaderInv, InTurn
  <2>2. QED
    BY <2>1 DEF IInv, SessionInv
<1>2. QED
  BY Inductive, <1>1, PTL

\* One more goroutine inside a job means that the loop started it.
LEMMA OnlyStartJobStarts ==
    ASSUME TypeOK, [Next]_vars, NEW p \in Procs, NEW j \in Jobs, copies'[p][j] > copies[p][j]
    PROVE  StartJob(p, j)
<1> USE DEF TypeOK, JobsOK
<1>1. CASE UNCHANGED vars \/ Reap \/ Tick
  BY <1>1 DEF vars, jobVars, Reap, Tick
<1>2. ASSUME NEW q \in Procs,
             \/ BeginProbe(q) \/ PingAnswers(q) \/ PingFails(q) \/ ElectionWon(q)
             \/ ElectionLost(q) \/ ElectionError(q) \/ BeginTurn(q) \/ EndTurn(q)
             \/ CutOff(q) \/ Abandon(q) \/ Release(q) \/ RequestStop(q)
             \/ Start(q) \/ SessionLost(q)
      PROVE  FALSE
  <2>1. copies' = copies
    BY <1>2 DEF BeginProbe, PingAnswers, PingFails, ElectionWon, ElectionLost, ElectionError,
                Told, BeginTurn, EndTurn, CutOff, Abandon, Release, RequestStop, Start,
                SessionLost, jobVars
  <2>2. QED
    BY <2>1
<1>3. ASSUME NEW q \in Procs, Exit(q) \/ Crash(q) PROVE FALSE
  <2>1. copies' = [copies EXCEPT ![q] = [k \in Jobs |-> 0]]
    BY <1>3 DEF Exit, Crash, Ends
  <2>2. copies[p][j] \in Nat /\ (copies'[p][j] = copies[p][j] \/ copies'[p][j] = 0)
    BY <2>1
  <2>3. QED
    BY <2>2
<1>4. ASSUME NEW q \in Procs, NEW k \in Jobs, JobReturns(q, k) PROVE FALSE
  BY <1>4 DEF JobReturns
<1>5. ASSUME NEW q \in Procs, NEW k \in Jobs, StartJob(q, k) PROVE q = p /\ k = j
  BY <1>5 DEF StartJob
<1>6. QED
  BY Steps, <1>1, <1>2, <1>3, <1>4, <1>5

\* A process that has not lost its session starts a job only where the lock is
\* held (step).
THEOREM StartsOnlyUnderLease == Spec => StartsUnderLease
<1>1. IInv /\ [Next]_vars =>
        [\A p \in Procs, j \in Jobs :
           copies'[p][j] > copies[p][j] /\ lost[p] < 0 => lock = p /\ ~orphan]_copies
  <2> SUFFICES ASSUME IInv, [Next]_vars, NEW p \in Procs, NEW j \in Jobs,
                      copies'[p][j] > copies[p][j], lost[p] < 0
               PROVE  lock = p /\ ~orphan
    OBVIOUS
  <2>1. StartJob(p, j)
    BY OnlyStartJobStarts DEF IInv
  <2>2. pinned[p]
    BY <2>1 DEF StartJob, IInv, LeaderInv, InTurn
  <2>3. QED
    BY <2>2 DEF IInv, SessionInv
<1>2. QED
  BY Inductive, <1>1, PTL DEF Spec, StartsUnderLease

\* Even where sessions are lost, a job starts at most MaxLate ticks after its
\* process lost the lease (holdsLease, runJob).
THEOREM LateStartsBounded == Spec => StaleStartsBounded
<1>1. IInv /\ [Next]_vars =>
        [\A p \in Procs, j \in Jobs :
           copies'[p][j] > copies[p][j] => lost[p] <= MaxLate]_copies
  <2> SUFFICES ASSUME IInv, [Next]_vars, NEW p \in Procs, NEW j \in Jobs,
                      copies'[p][j] > copies[p][j]
               PROVE  lost[p] <= MaxLate
    OBVIOUS
  <2>1. StartJob(p, j)
    BY OnlyStartJobStarts DEF IInv
  <2>2. turn[p] \in Nat \ {0} /\ turn[p] <= NJobs /\ NJobs \in Nat \ {0}
    BY <2>1 DEF StartJob, Jobs, IInv, TypeOK, LoopOK
  <2>3. lost[p] <= LateBy(turn[p]) /\ lost[p] \in Int
    BY <2>1 DEF StartJob, IInv, LateInv, LateAt, TypeOK, LeaseOK
  <2>4. LateBy(turn[p]) <= MaxLate /\ LateBy(turn[p]) \in Int /\ MaxLate \in Int
    BY <2>2, LateByStep, LateByMonotone DEF MaxLate
  <2>5. QED
    BY <2>3, <2>4
<1>2. QED
  BY Inductive, <1>1, PTL DEF Spec, StaleStartsBounded

HIDE SchedulerAssumption

(***************************************************************************)
(* Finite sets.                                                            *)
(***************************************************************************)
LEMMA LeastOf == ASSUME NEW S \in SUBSET Nat, S # {} PROVE \E k \in S : \A j \in S : k <= j
<1>1. PICK k \in S : \A j \in S : <<j, k>> \notin OpToRel(<, Nat)
  BY WFMin, NatLessThanWellFounded, Zenon
<1>2. \A j \in S : ~(j < k)
  BY <1>1, Zenon DEF OpToRel
<1>3. QED
  BY <1>2

\* Induction, over a set of subsets.
LEMMA AllSubsets ==
    ASSUME NEW S, IsFiniteSet(S), NEW P, {} \in P,
           \A s \in SUBSET S : s # {} /\ (\A x \in s : s \ {x} \in P) => s \in P
    PROVE  \A s \in SUBSET S : s \in P
<1> SUFFICES ASSUME NEW s \in SUBSET S, s \notin P PROVE FALSE
  OBVIOUS
<1> DEFINE sizes == {n \in Nat : \E t \in SUBSET S : t \notin P /\ Cardinality(t) = n}
<1>1. \A t \in SUBSET S : IsFiniteSet(t) /\ Cardinality(t) \in Nat
  BY FS_Subset, FS_CardinalityType
<1>2. PICK n \in sizes : \A m \in sizes : n <= m
  <2>1. Cardinality(s) \in sizes
    BY <1>1
  <2>2. QED
    BY <2>1, LeastOf
<1>3. PICK t \in SUBSET S : t \notin P /\ Cardinality(t) = n
  BY <1>2
<1>4. \A x \in t : Cardinality(t \ {x}) = n - 1
  BY <1>1, <1>3, FS_RemoveElement
<1>5. \A x \in t : t \ {x} \in P
  <2> SUFFICES ASSUME NEW x \in t, t \ {x} \notin P PROVE FALSE
    OBVIOUS
  <2>1. n - 1 \in sizes
    <3>1. n - 1 = Cardinality(t \ {x}) /\ t \ {x} \in SUBSET S
      BY <1>4
    <3>2. QED
      BY <1>1, <3>1
  <2>2. QED
    BY <1>2, <2>1
<1>6. QED
  BY <1>3, <1>5

\* One element more or less.
LEMMA CountStep ==
    ASSUME NEW A, NEW x, IsFiniteSet(A)
    PROVE  /\ Cardinality(A) \in Nat /\ IsFiniteSet(A \ {x})
           /\ Cardinality(A) = Cardinality(A \ {x}) + One(x \in A)
  BY FS_RemoveElement, FS_CardinalityType DEF One

\* The least of a finite set.
LEMMA MinForm ==
    ASSUME NEW A, IsFiniteSet(A), A # {}, A \subseteq Int
    PROVE  Min(A) \in A /\ \A y \in A : Min(A) <= y
<1> DEFINE P == {s \in SUBSET A : s # {} => \E m \in s : \A y \in s : m <= y}
<1>1. {} \in P
  OBVIOUS
<1>2. ASSUME NEW s \in SUBSET A, s # {}, \A x \in s : s \ {x} \in P PROVE s \in P
  <2>1. PICK x \in s : TRUE
    BY <1>2
  <2>2. CASE s \ {x} = {}
    <3>1. \A y \in s : y = x
      BY <2>2
    <3>2. \A y \in s : x <= y
      BY <3>1
    <3>3. QED
      BY <3>2
  <2>3. CASE s \ {x} # {}
    <3>1. PICK m \in s \ {x} : \A y \in s \ {x} : m <= y
      BY <1>2, <2>3
    <3>2. x \in Int /\ m \in Int
      OBVIOUS
    <3>3. CASE m <= x
      BY <3>1, <3>3
    <3>4. CASE ~(m <= x)
      <4>1. \A y \in s : x <= y
        BY <3>1, <3>2, <3>4
      <4>2. QED
        BY <4>1
    <3>5. QED
      BY <3>3, <3>4
  <2>4. QED
    BY <2>2, <2>3
<1>3. A \in P
  <2> HIDE DEF P
  <2>1. QED
    BY <1>1, <1>2, AllSubsets
<1>4. \E m \in A : \A y \in A : m =< y
  BY <1>3
<1>5. QED
  BY <1>4, Zenon DEF Min

LEMMA MinIs ==
    ASSUME NEW A, NEW m \in A, A \subseteq Int, \A y \in A : m <= y
    PROVE  Min(A) = m
<1>1. Min(A) \in A /\ \A y \in A : Min(A) =< y
  BY Zenon DEF Min
<1>2. PICK k \in A : k = Min(A) /\ \A y \in A : k <= y
  BY <1>1
<1>3. m \in Int /\ k \in Int /\ k <= m /\ m <= k
  BY <1>2
<1>4. QED
  BY <1>2, <1>3

LEMMA MinStep ==
    ASSUME NEW A, IsFiniteSet(A), A \subseteq Int, NEW x \in A
    PROVE  Min(A) = IF A \ {x} = {} THEN x ELSE Least(Min(A \ {x}), x)
<1>1. CASE A \ {x} = {}
  <2>1. \A y \in A : x <= y
    BY <1>1
  <2>2. QED
    BY <1>1, <2>1, MinIs
<1>2. CASE A \ {x} # {}
  <2>1. Min(A \ {x}) \in A \ {x} /\ \A y \in A \ {x} : Min(A \ {x}) <= y
    BY <1>2, FS_RemoveElement, MinForm
  <2>2. PICK m \in A \ {x} : m = Min(A \ {x})
    BY <2>1
  <2>3. CASE m <= x
    <3>1. Least(m, x) = m /\ \A y \in A : m <= y
      BY <2>1, <2>2, <2>3 DEF Least
    <3>2. QED
      BY <1>2, <2>2, <3>1, MinIs
  <2>4. CASE ~(m <= x)
    <3>1. Least(m, x) = x /\ \A y \in A : x <= y
      BY <2>1, <2>2, <2>4 DEF Least
    <3>2. QED
      BY <1>2, <2>2, <3>1, MinIs
  <2>5. QED
    BY <2>3, <2>4
<1>3. QED
  BY <1>1, <1>2

(***************************************************************************)
(* The order of text.                                                      *)
(***************************************************************************)
\* Where s goes before t.
At(s, t, i) ==
    /\ i \in 1 .. Len(t) /\ i <= Len(s) + 1 /\ \A j \in 1 .. i - 1 : s[j] = t[j]
    /\ i = Len(s) + 1 \/ s[i] < t[i]

LEMMA SamePrefix ==
    ASSUME NEW s \in Seq(Int), NEW t \in Seq(Int), NEW n \in 0 .. Len(s), n <= Len(t)
    PROVE  SubSeq(s, 1, n) = SubSeq(t, 1, n) <=> \A j \in 1 .. n : s[j] = t[j]
<1>1. /\ SubSeq(s, 1, n) = [j \in 1 .. n |-> s[j]]
      /\ SubSeq(t, 1, n) = [j \in 1 .. n |-> t[j]]
  OBVIOUS
<1>2. QED
  BY <1>1, Zenon

LEMMA PrecedesForm ==
    ASSUME NEW s \in Seq(Int), NEW t \in Seq(Int)
    PROVE  Precedes(s, t) <=> \E i \in Nat : At(s, t, i)
<1>1. ASSUME Len(s) < Len(t), SubSeq(t, 1, Len(s)) = s PROVE At(s, t, Len(s) + 1)
  <2>1. s = SubSeq(s, 1, Len(s))
    OBVIOUS
  <2>2. \A j \in 1 .. Len(s) : s[j] = t[j]
    BY <1>1, <2>1, SamePrefix
  <2>3. QED
    BY <1>1, <2>2 DEF At
<1>2. ASSUME NEW i \in 1 .. Least(Len(s), Len(t)), SubSeq(s, 1, i - 1) = SubSeq(t, 1, i - 1), s[i] < t[i]
      PROVE  At(s, t, i)
  <2>1. i \in 1 .. Len(s) /\ i <= Len(t)
    BY DEF Least
  <2>2. \A j \in 1 .. i - 1 : s[j] = t[j]
    BY <1>2, <2>1, SamePrefix
  <2>3. QED
    BY <1>2, <2>1, <2>2 DEF At
<1>3. ASSUME NEW i \in Nat, At(s, t, i) PROVE Precedes(s, t)
  <2>1. CASE i = Len(s) + 1
    <3>1. Len(s) < Len(t) /\ \A j \in 1 .. Len(s) : s[j] = t[j]
      BY <1>3, <2>1 DEF At
    <3>2. SubSeq(s, 1, Len(s)) = SubSeq(t, 1, Len(s))
      BY <3>1, SamePrefix
    <3>3. SubSeq(s, 1, Len(s)) = s
      OBVIOUS
    <3>4. QED
      BY <3>1, <3>2, <3>3 DEF Precedes
  <2>2. CASE i # Len(s) + 1
    <3>1. i \in 1 .. Len(s) /\ i <= Len(t) /\ s[i] < t[i] /\ \A j \in 1 .. i - 1 : s[j] = t[j]
      BY <1>3, <2>2 DEF At
    <3>2. SubSeq(s, 1, i - 1) = SubSeq(t, 1, i - 1)
      BY <3>1, SamePrefix
    <3>3. i \in 1 .. Least(Len(s), Len(t))
      BY <3>1 DEF Least
    <3>4. QED
      BY <3>1, <3>2, <3>3 DEF Precedes
  <2>3. QED
    BY <2>1, <2>2
<1>4. \A i \in 1 .. Least(Len(s), Len(t)) : i \in Nat
  BY DEF Least
<1>5. Len(s) + 1 \in Nat
  OBVIOUS
<1>6. QED
  BY <1>1, <1>2, <1>3, <1>4, <1>5 DEF Precedes

LEMMA TextOrder ==
    /\ \A s \in Seq(Int) : ~Precedes(s, s)
    /\ \A s, t \in Seq(Int) : s = t \/ Precedes(s, t) \/ Precedes(t, s)
    /\ \A s, t, u \in Seq(Int) : Precedes(s, t) /\ Precedes(t, u) => Precedes(s, u)
<1>1. \A s \in Seq(Int) : ~Precedes(s, s)
  <2> SUFFICES ASSUME NEW s \in Seq(Int), NEW i \in Nat, At(s, s, i) PROVE FALSE
    BY PrecedesForm
  <2>1. i \in 1 .. Len(s) /\ s[i] < s[i]
    BY DEF At
  <2>2. s[i] \in Int
    BY <2>1
  <2>3. QED
    BY <2>1, <2>2
<1>2. ASSUME NEW s \in Seq(Int), NEW t \in Seq(Int), s # t PROVE Precedes(s, t) \/ Precedes(t, s)
  <2> DEFINE D == {i \in Nat \ {0} : /\ i <= Len(s) + 1 /\ i <= Len(t) + 1
                                     /\ i = Len(s) + 1 \/ i = Len(t) + 1 \/ s[i] # t[i]}
  <2>1. Len(s) + 1 \in D \/ Len(t) + 1 \in D
    OBVIOUS
  <2>2. PICK i \in D : \A j \in D : i <= j
    BY <2>1, LeastOf
  <2>3. i \in Nat /\ i > 0 /\ i <= Len(s) + 1 /\ i <= Len(t) + 1
    BY <2>2
  <2>4. \A j \in 1 .. i - 1 : s[j] = t[j]
    <3> SUFFICES ASSUME NEW j \in 1 .. i - 1, s[j] # t[j] PROVE FALSE
      OBVIOUS
    <3>1. j \in Nat \ {0} /\ j <= Len(s) + 1 /\ j <= Len(t) + 1
      BY <2>3
    <3>2. j \in D
      BY <3>1
    <3>3. QED
      BY <2>2, <2>3, <3>1, <3>2
  <2>5. CASE i = Len(s) + 1 /\ i = Len(t) + 1
    <3>1. Len(s) = Len(t) /\ \A j \in 1 .. Len(s) : s[j] = t[j]
      BY <2>4, <2>5
    <3>2. s = t
      BY <3>1, SeqEqual
    <3>3. QED
      BY <1>2, <3>2
  <2>6. CASE i = Len(s) + 1 /\ i # Len(t) + 1
    <3>1. At(s, t, i)
      BY <2>3, <2>4, <2>6 DEF At
    <3>2. QED
      BY <2>3, <3>1, PrecedesForm
  <2>7. CASE i # Len(s) + 1 /\ i = Len(t) + 1
    <3>1. At(t, s, i)
      BY <2>3, <2>4, <2>7 DEF At
    <3>2. QED
      BY <2>3, <3>1, PrecedesForm
  <2>8. CASE i # Len(s) + 1 /\ i # Len(t) + 1
    <3>1. s[i] # t[i] /\ s[i] \in Int /\ t[i] \in Int /\ i \in 1 .. Len(s) /\ i \in 1 .. Len(t)
      BY <2>2, <2>3, <2>8
    <3>2. s[i] < t[i] \/ t[i] < s[i]
      BY <3>1
    <3>3. At(s, t, i) \/ At(t, s, i)
      BY <2>3, <2>4, <3>1, <3>2 DEF At
    <3>4. QED
      BY <2>3, <3>3, PrecedesForm
  <2>9. QED
    BY <2>5, <2>6, <2>7, <2>8
<1>3. ASSUME NEW s \in Seq(Int), NEW t \in Seq(Int), NEW u \in Seq(Int), Precedes(s, t), Precedes(t, u)
      PROVE  Precedes(s, u)
  <2>1. PICK i \in Nat, k \in Nat : At(s, t, i) /\ At(t, u, k)
    BY <1>3, PrecedesForm
  <2>2. /\ i \in 1 .. Len(t) /\ i <= Len(s) + 1 /\ \A j \in 1 .. i - 1 : s[j] = t[j]
        /\ k \in 1 .. Len(u) /\ k <= Len(t) + 1 /\ \A j \in 1 .. k - 1 : t[j] = u[j]
        /\ i = Len(s) + 1 \/ s[i] < t[i]
        /\ k = Len(t) + 1 \/ t[k] < u[k]
    BY <2>1 DEF At
  <2>3. \A j \in 1 .. Len(s) : s[j] \in Int
    OBVIOUS
  <2>4. \A j \in 1 .. Len(t) : t[j] \in Int
    OBVIOUS
  <2>5. \A j \in 1 .. Len(u) : u[j] \in Int
    OBVIOUS
  <2>6. CASE i < k
    <3>1. t[i] = u[i] /\ i \in 1 .. Len(u) /\ \A j \in 1 .. i - 1 : s[j] = u[j]
      BY <2>2, <2>6
    <3>2. At(s, u, i)
      BY <2>2, <3>1 DEF At
    <3>3. QED
      BY <3>2, PrecedesForm
  <2>7. CASE i = k
    <3>1. k # Len(t) + 1 /\ t[k] < u[k] /\ \A j \in 1 .. i - 1 : s[j] = u[j]
      BY <2>2, <2>7
    <3>2. i = Len(s) + 1 \/ s[i] < u[i]
      <4>1. CASE i # Len(s) + 1
        <5>1. i \in 1 .. Len(s) /\ i \in 1 .. Len(t) /\ i \in 1 .. Len(u)
          BY <2>2, <2>7, <4>1
        <5>2. s[i] \in Int /\ t[i] \in Int /\ u[i] \in Int
          BY <2>3, <2>4, <2>5, <5>1
        <5>3. QED
          BY <2>2, <2>7, <3>1, <5>2, <4>1, SMTT(60)
      <4>2. QED
        BY <4>1
    <3>3. At(s, u, i)
      BY <2>2, <2>7, <3>1, <3>2 DEF At
    <3>4. QED
      BY <3>3, PrecedesForm
  <2>8. CASE k < i
    <3>1. s[k] = t[k] /\ k # Len(t) + 1 /\ k <= Len(s) /\ \A j \in 1 .. k - 1 : s[j] = u[j]
      BY <2>2, <2>8, SMTT(60)
    <3>2. At(s, u, k)
      BY <2>2, <3>1 DEF At
    <3>3. QED
      BY <3>2, PrecedesForm
  <2>9. QED
    BY <2>2, <2>6, <2>7, <2>8
<1>4. QED
  BY <1>1, <1>2, <1>3

(***************************************************************************)
(* Sorting.                                                                *)
(***************************************************************************)
\* R orders the elements of S, and s has them in that order.
Orders(R, S) ==
    /\ \A a \in S : <<a, a>> \notin R
    /\ \A a, b \in S : a = b \/ <<a, b>> \in R \/ <<b, a>> \in R
    /\ \A a, b, c \in S : <<a, b>> \in R /\ <<b, c>> \in R => <<a, c>> \in R
Sorted(R, S, s) ==
    s \in [1 .. Cardinality(S) -> S] /\ \A i, j \in DOMAIN s : i < j => <<s[i], s[j]>> \in R

\* There is a last of any.
LEMMA LastOf ==
    ASSUME NEW S, IsFiniteSet(S), NEW R, Orders(R, S), S # {}
    PROVE  \E m \in S : \A x \in S : x # m => <<x, m>> \in R
<1> DEFINE P == {s \in SUBSET S : s # {} => \E m \in s : \A x \in s : x # m => <<x, m>> \in R}
<1>1. {} \in P
  OBVIOUS
<1>2. ASSUME NEW s \in SUBSET S, s # {}, \A x \in s : s \ {x} \in P PROVE s \in P
  <2>1. PICK x \in s : TRUE
    BY <1>2
  <2>2. CASE s \ {x} = {}
    BY <2>2
  <2>3. CASE s \ {x} # {}
    <3>1. PICK m \in s \ {x} : \A y \in s \ {x} : y # m => <<y, m>> \in R
      BY <1>2, <2>3
    <3>2. CASE <<x, m>> \in R
      BY <3>1, <3>2
    <3>3. CASE <<m, x>> \in R
      <4>1. \A y \in s : y # x => <<y, x>> \in R
        BY <3>1, <3>3 DEF Orders
      <4>2. QED
        BY <4>1
    <3>4. QED
      BY <3>2, <3>3 DEF Orders
  <2>4. QED
    BY <2>2, <2>3
<1>3. S \in P
  <2> HIDE DEF P
  <2>1. QED
    BY <1>1, <1>2, AllSubsets
<1>4. QED
  BY <1>3

LEMMA SortedExists ==
    ASSUME NEW S, IsFiniteSet(S), NEW R, Orders(R, S)
    PROVE  \E s : Sorted(R, S, s)
<1> DEFINE P == {t \in SUBSET S : \E s : Sorted(R, t, s)}
<1>1. {} \in P
  <2>1. Cardinality({}) = 0
    BY FS_EmptySet
  <2>2. Sorted(R, {}, <<>>)
    BY <2>1 DEF Sorted
  <2>3. QED
    BY <2>2
<1>2. ASSUME NEW t \in SUBSET S, t # {}, \A x \in t : t \ {x} \in P PROVE t \in P
  <2>1. Orders(R, t) /\ IsFiniteSet(t)
    BY FS_Subset DEF Orders
  <2>2. PICK m \in t : \A x \in t : x # m => <<x, m>> \in R
    BY <1>2, <2>1, LastOf
  <2>3. PICK s : Sorted(R, t \ {m}, s)
    BY <1>2
  <2>4. PICK n \in Nat : n = Cardinality(t \ {m}) /\ Cardinality(t) = n + 1
    <3>1. IsFiniteSet(t \ {m}) /\ Cardinality(t \ {m}) = Cardinality(t) - 1
      BY <2>1, FS_RemoveElement
    <3>2. QED
      BY <2>1, <3>1, FS_CardinalityType
  <2>5. s \in [1 .. n -> t \ {m}] /\ \A i, j \in 1 .. n : i < j => <<s[i], s[j]>> \in R
    BY <2>3, <2>4 DEF Sorted
  <2>6. PICK u : u = [i \in 1 .. n + 1 |-> IF i = n + 1 THEN m ELSE s[i]]
    OBVIOUS
  <2>7. u \in [1 .. n + 1 -> t]
    BY <2>5, <2>6
  <2>8. \A i, j \in 1 .. n + 1 : i < j => <<u[i], u[j]>> \in R
    BY <2>2, <2>5, <2>6
  <2>9. Sorted(R, t, u)
    BY <2>4, <2>7, <2>8 DEF Sorted
  <2>10. QED
    BY <2>9
<1>3. S \in P
  <2> HIDE DEF P
  <2>1. QED
    BY <1>1, <1>2, AllSubsets, SMTT(60)
<1>4. QED
  BY <1>3

LEMMA SortedForm ==
    ASSUME NEW S, IsFiniteSet(S), NEW R, Orders(R, S), NEW s, Sorted(R, S, s)
    PROVE  /\ Cardinality(S) \in Nat /\ s \in Seq(S) /\ Len(s) = Cardinality(S)
           /\ DOMAIN s = 1 .. Cardinality(S) /\ \A i \in DOMAIN s : s[i] \in S
           /\ \A i, j \in DOMAIN s : s[i] = s[j] => i = j
           /\ \A x \in S : \E i \in DOMAIN s : s[i] = x
<1>1. PICK n \in Nat : n = Cardinality(S)
  BY FS_CardinalityType
<1>2. s \in [1 .. n -> S] /\ \A i, j \in 1 .. n : i < j => <<s[i], s[j]>> \in R
  BY <1>1 DEF Sorted
<1>3. \A i, j \in 1 .. n : s[i] = s[j] => i = j
  <2> SUFFICES ASSUME NEW i \in 1 .. n, NEW j \in 1 .. n, s[i] = s[j], i < j PROVE FALSE
    OBVIOUS
  <2>1. <<s[i], s[j]>> \in R /\ s[i] \in S
    BY <1>2
  <2>2. QED
    BY <2>1 DEF Orders
<1>4. s \in Injection(1 .. n, S)
  BY <1>2, <1>3 DEF Injection, IsInjective
<1>5. Cardinality(1 .. n) = n
  BY FS_Interval
<1>6. s \in Surjection(1 .. n, S)
  BY <1>1, <1>4, <1>5, FS_Injection
<1>7. \A x \in S : \E i \in 1 .. n : s[i] = x
  BY <1>6 DEF Surjection
<1>8. QED
  BY <1>1, <1>2, <1>3, <1>7

LEMMA SortedUnique ==
    ASSUME NEW S, IsFiniteSet(S), NEW R, Orders(R, S), NEW s, Sorted(R, S, s), NEW t, Sorted(R, S, t)
    PROVE  s = t
<1>1. PICK n \in Nat : n = Cardinality(S)
  BY FS_CardinalityType
<1>2. /\ s \in [1 .. n -> S] /\ \A i, j \in 1 .. n : i < j => <<s[i], s[j]>> \in R
      /\ t \in [1 .. n -> S] /\ \A i, j \in 1 .. n : i < j => <<t[i], t[j]>> \in R
  BY <1>1 DEF Sorted
<1>3. /\ \A i, j \in 1 .. n : s[i] = s[j] => i = j
      /\ \A i, j \in 1 .. n : t[i] = t[j] => i = j
      /\ \A x \in S : \E i \in 1 .. n : s[i] = x
      /\ \A x \in S : \E i \in 1 .. n : t[i] = x
  <2>1. \A r : Sorted(R, S, r) => /\ DOMAIN r = 1 .. n /\ \A i, j \in DOMAIN r : r[i] = r[j] => i = j
                                  /\ \A x \in S : \E i \in DOMAIN r : r[i] = x
    BY <1>1, SortedForm
  <2>2. QED
    BY <2>1, SMTT(60)
<1>4. \A i \in 1 .. n : s[i] = t[i]
  <2> SUFFICES ASSUME NEW d \in 1 .. n, s[d] # t[d] PROVE FALSE
    OBVIOUS
  <2> DEFINE D == {i \in 1 .. n : s[i] # t[i]}
  <2>1. D \in SUBSET Nat /\ d \in D
    OBVIOUS
  <2>2. PICK k \in D : \A j \in D : k <= j
    BY <2>1, LeastOf
  <2>3. k \in 1 .. n /\ s[k] # t[k] /\ \A j \in 1 .. n : j < k => s[j] = t[j]
    BY <2>2
  <2>4. PICK i \in 1 .. n : t[i] = s[k]
    BY <1>2, <1>3, <2>3
  <2>5. PICK j \in 1 .. n : s[j] = t[k]
    BY <1>2, <1>3, <2>3
  <2>6. i > k
    <3>1. i # k
      BY <2>3, <2>4
    <3>2. ~(i < k)
      BY <1>3, <2>3, <2>4
    <3>3. QED
      BY <2>3, <3>1, <3>2
  <2>7. j > k
    <3>1. j # k
      BY <2>3, <2>5
    <3>2. ~(j < k)
      BY <1>3, <2>3, <2>5
    <3>3. QED
      BY <2>3, <3>1, <3>2
  <2>8. <<t[k], s[k]>> \in R /\ <<s[k], t[k]>> \in R /\ s[k] \in S /\ t[k] \in S
    BY <1>2, <2>3, <2>4, <2>5, <2>6, <2>7
  <2>9. QED
    BY <2>8 DEF Orders
<1>5. QED
  BY <1>2, <1>4

\* Keys that differ order what has them.
ByKey(S, K) == {p \in S \X S : Precedes(K[p[1]], K[p[2]])}
Keys(S, K) == K \in [S -> Seq(Int)] /\ \A a, b \in S : K[a] = K[b] => a = b

LEMMA KeysOrder == ASSUME NEW S, NEW K, Keys(S, K) PROVE Orders(ByKey(S, K), S)
<1>1. \A a, b \in S : <<a, b>> \in ByKey(S, K) <=> Precedes(K[a], K[b])
  BY DEF ByKey
<1>2. \A a \in S : K[a] \in Seq(Int)
  BY DEF Keys
<1>3. \A a, b \in S : K[a] = K[b] => a = b
  BY DEF Keys
<1>4. QED
  BY <1>1, <1>2, <1>3, TextOrder DEF Orders

LEMMA OrderedForm ==
    ASSUME NEW S, IsFiniteSet(S), NEW K, Keys(S, K), NEW o, o = Ordered(S, LAMBDA x : K[x])
    PROVE  Sorted(ByKey(S, K), S, o)
<1>1. PICK s : Sorted(ByKey(S, K), S, s)
  BY KeysOrder, SortedExists
<1>2. \A a, b \in S : <<a, b>> \in ByKey(S, K) <=> Precedes(K[a], K[b])
  BY DEF ByKey
<1>3. s \in [1 .. Cardinality(S) -> S] /\ \A i, j \in DOMAIN s : i < j => Precedes(K[s[i]], K[s[j]])
  BY <1>1, <1>2 DEF Sorted
<1>4. o \in [1 .. Cardinality(S) -> S] /\ \A i, j \in DOMAIN o : i < j => Precedes(K[o[i]], K[o[j]])
  BY <1>3, Zenon DEF Ordered
<1>5. QED
  BY <1>2, <1>4 DEF Sorted

(***************************************************************************)
(* Sums.                                                                   *)
(***************************************************************************)
\* F has the sums of f over the subsets of S.
Adds(S, f, F) ==
    /\ F \in [SUBSET S -> Int] /\ F[{}] = 0
    /\ \A s \in SUBSET S : \A x \in s : F[s] = f[x] + F[s \ {x}]

LEMMA SumsExist ==
    ASSUME NEW S, IsFiniteSet(S), NEW f \in [S -> Int]
    PROVE  \E F : Adds(S, f, F)
<1> DEFINE P == {s \in SUBSET S : \E F : Adds(s, f, F)}
<1>1. {} \in P
  <2>1. Adds({}, f, [s \in SUBSET {} |-> 0])
    BY DEF Adds
  <2>2. QED
    BY <2>1
<1>2. ASSUME NEW s \in SUBSET S, s # {}, \A x \in s : s \ {x} \in P PROVE s \in P
  <2>1. PICK a \in s : TRUE
    BY <1>2
  <2>2. PICK F : Adds(s \ {a}, f, F)
    BY <1>2
  <2>3. PICK G : G = [t \in SUBSET s |-> F[t \ {a}] + (IF a \in t THEN f[a] ELSE 0)]
    OBVIOUS
  <2>4. \A t \in SUBSET s : t \ {a} \in SUBSET (s \ {a}) /\ F[t \ {a}] \in Int
    BY <2>2 DEF Adds
  <2>5. f[a] \in Int
    OBVIOUS
  <2>6. \A t \in SUBSET s : F[t \ {a}] + (IF a \in t THEN f[a] ELSE 0) \in Int
    <3> TAKE t \in SUBSET s
    <3>1. PICK u \in Int : u = F[t \ {a}]
      BY <2>4
    <3>2. PICK v \in Int : v = IF a \in t THEN f[a] ELSE 0
      BY <2>5
    <3>3. QED
      BY <3>1, <3>2
  <2>7. G \in [SUBSET s -> Int]
    BY <2>3, <2>6
  <2>8. G[{}] = 0
    <3>1. {} \ {a} = {}
      OBVIOUS
    <3>2. QED
      BY <2>2, <2>3, <3>1 DEF Adds
  <2>9. ASSUME NEW t \in SUBSET s, NEW x \in t PROVE G[t] = f[x] + G[t \ {x}]
    <3>1. t \ {x} \in SUBSET s
      OBVIOUS
    <3>2. G[t] = F[t \ {a}] + (IF a \in t THEN f[a] ELSE 0)
      BY <2>3
    <3>3. G[t \ {x}] = F[(t \ {x}) \ {a}] + (IF a \in t \ {x} THEN f[a] ELSE 0)
      BY <2>3, <3>1
    <3>4. CASE x = a
      <4>1. (t \ {x}) \ {a} = t \ {a}
        BY <3>4
      <4>2. QED
        <5>1. PICK u \in Int : u = F[t \ {a}]
          BY <2>4
        <5>2. G[t] = u + f[a] /\ G[t \ {x}] = u + 0
          BY <3>2, <3>3, <3>4, <4>1, <5>1
        <5>3. QED
          BY <2>5, <3>4, <5>1, <5>2
    <3>5. CASE x # a
      <4>1. (t \ {x}) \ {a} = (t \ {a}) \ {x} /\ x \in t \ {a} /\ (a \in t <=> a \in t \ {x})
        BY <3>5
      <4>2. F[t \ {a}] = f[x] + F[(t \ {a}) \ {x}]
        BY <2>2, <2>4, <4>1 DEF Adds
      <4>3. f[x] \in Int /\ F[(t \ {x}) \ {a}] \in Int
        BY <2>4, <3>1
      <4>4. QED
        <5>1. PICK u \in Int : u = F[(t \ {x}) \ {a}]
          BY <4>3
        <5>2. PICK v \in Int : v = IF a \in t THEN f[a] ELSE 0
          BY <2>5
        <5>3. G[t] = (f[x] + u) + v /\ G[t \ {x}] = u + v
          BY <3>2, <3>3, <4>1, <4>2, <5>1, <5>2
        <5>4. QED
          BY <4>3, <5>1, <5>2, <5>3
    <3>6. QED
      BY <3>4, <3>5
  <2>10. Adds(s, f, G)
    BY <2>7, <2>8, <2>9 DEF Adds
  <2>11. QED
    BY <2>10
<1>3. S \in P
  <2> HIDE DEF P
  <2>1. QED
    BY <1>1, <1>2, AllSubsets
<1>4. QED
  BY <1>3

LEMMA SumIs ==
    ASSUME NEW S, IsFiniteSet(S), NEW f, NEW F, Adds(S, f, F)
    PROVE  MapThenSumSet(LAMBDA x : f[x], S) = F[S]
<1> DEFINE G == CHOOSE I : I = [s \in SUBSET S |-> IF s = {} THEN 0
                                    ELSE f[CHOOSE x \in s : TRUE] + I[s \ {CHOOSE x \in s : TRUE}]]
<1>1. \A s \in SUBSET S : s # {} => (CHOOSE x \in s : TRUE) \in s
  OBVIOUS
<1>2. \A s \in SUBSET S : F[s] = IF s = {} THEN 0
                                 ELSE f[CHOOSE x \in s : TRUE] + F[s \ {CHOOSE x \in s : TRUE}]
  BY <1>1 DEF Adds
<1>3. F = [s \in SUBSET S |-> IF s = {} THEN 0
                              ELSE f[CHOOSE x \in s : TRUE] + F[s \ {CHOOSE x \in s : TRUE}]]
  BY <1>2 DEF Adds
<1>4. G = [s \in SUBSET S |-> IF s = {} THEN 0
                              ELSE f[CHOOSE x \in s : TRUE] + G[s \ {CHOOSE x \in s : TRUE}]]
  BY <1>3, Zenon
<1>5. MapThenSumSet(LAMBDA x : f[x], S) = G[S]
  BY Zenon DEF MapThenSumSet, MapThenFoldSet
<1> HIDE DEF G
<1> DEFINE P == {s \in SUBSET S : G[s] = F[s]}
<1>6. {} \in P
  <2>1. G[{}] = 0 /\ F[{}] = 0
    BY <1>2, <1>4
  <2>2. QED
    BY <2>1
<1>7. ASSUME NEW s \in SUBSET S, s # {}, \A x \in s : s \ {x} \in P PROVE s \in P
  <2>1. PICK x \in s : x = CHOOSE y \in s : TRUE
    BY <1>1, <1>7
  <2>2. G[s] = f[x] + G[s \ {x}]
    BY <1>4, <1>7, <2>1
  <2>3. F[s] = f[x] + F[s \ {x}]
    BY <1>2, <1>7, <2>1
  <2>4. QED
    BY <1>7, <2>2, <2>3
<1>8. S \in P
  <2> HIDE DEF P
  <2>1. QED
    BY <1>6, <1>7, AllSubsets, SMTT(60)
<1>9. QED
  BY <1>5, <1>8

\* Sums over the subsets, and over what they are numbered by.
LEMMA SumOfPart ==
    ASSUME NEW S, IsFiniteSet(S), NEW f, NEW F, Adds(S, f, F), NEW T \in SUBSET S
    PROVE  MapThenSumSet(LAMBDA x : f[x], T) = F[T]
<1>1. PICK G : G = [s \in SUBSET T |-> F[s]]
  OBVIOUS
<1>2. \A s \in SUBSET T : s \in SUBSET S /\ G[s] = F[s] /\ F[s] \in Int
  BY <1>1 DEF Adds
<1>3. \A s \in SUBSET T : \A x \in s : G[s] = f[x] + G[s \ {x}]
  <2> TAKE s \in SUBSET T
  <2> TAKE x \in s
  <2>1. s \ {x} \in SUBSET T /\ s \in SUBSET S
    OBVIOUS
  <2>2. F[s] = f[x] + F[s \ {x}]
    BY <2>1 DEF Adds
  <2>3. QED
    BY <1>2, <2>1, <2>2
<1>4. G \in [SUBSET T -> Int] /\ G[{}] = 0
  <2>1. G[{}] = F[{}]
    BY <1>2
  <2>2. QED
    BY <1>1, <1>2, <2>1 DEF Adds
<1>5. Adds(T, f, G)
  BY <1>3, <1>4 DEF Adds
<1>6. G[T] = F[T] /\ IsFiniteSet(T)
  BY <1>2, FS_Subset
<1>7. QED
  BY <1>5, <1>6, SumIs

Within(A, of, U) == {x \in A : of[x] \in U}
Renamed(S, F, R, rho) == [t \in SUBSET R |-> F[Within(S, rho, t)]]

LEMMA SumRenamed ==
    ASSUME NEW S, NEW f, NEW F, Adds(S, f, F), NEW R, NEW rho \in [S -> R],
           \A x, y \in S : rho[x] = rho[y] => x = y, \A r \in R : \E x \in S : r = rho[x],
           NEW g, \A x \in S : g[rho[x]] = f[x]
    PROVE  Adds(R, g, Renamed(S, F, R, rho))
<1> DEFINE of(t) == {x \in S : rho[x] \in t}
<1>1. PICK G : G = [t \in SUBSET R |-> F[of(t)]]
  OBVIOUS
<1>2. \A t \in SUBSET R : of(t) \in SUBSET S /\ F[of(t)] \in Int /\ G[t] = F[of(t)]
  BY <1>1 DEF Adds
<1>3. G[{}] = 0
  <2>1. of({}) = {}
    OBVIOUS
  <2>2. QED
    BY <1>2, <2>1 DEF Adds
<1>4. ASSUME NEW t \in SUBSET R, NEW r \in t PROVE G[t] = g[r] + G[t \ {r}]
  <2>1. PICK x \in S : r = rho[x]
    OBVIOUS
  <2>2. x \in of(t) /\ of(t \ {r}) = of(t) \ {x}
    BY <2>1
  <2>3. F[of(t)] = f[x] + F[of(t) \ {x}]
    BY <1>2, <2>2, ZenonT(120) DEF Adds
  <2>4. G[t] = F[of(t)] /\ G[t \ {r}] = F[of(t \ {r})] /\ g[r] = f[x]
    BY <1>2, <2>1
  <2>5. QED
    BY <2>2, <2>3, <2>4
<1>5. G \in [SUBSET R -> Int]
  BY <1>1, <1>2
<1>6. Adds(R, g, G)
  BY <1>3, <1>4, <1>5 DEF Adds
<1>7. G = Renamed(S, F, R, rho)
  BY <1>1, Zenon DEF Renamed, Within
<1>8. QED
  BY <1>6, <1>7

(***************************************************************************)
(* Percentages.                                                            *)
(***************************************************************************)
LEMMA Distributes ==
    ASSUME NEW p \in Int, NEW t \in Int
    PROVE  /\ p * t \in Int
           /\ (2 * p - 1) * t = 2 * (p * t) - t /\ (2 * p + 1) * t = 2 * (p * t) + t
           /\ (2 * t) * p = 2 * (p * t)
  BY SMT

LEMMA ProductGrows ==
    ASSUME NEW t \in Nat \ {0}, NEW p \in Int, NEW r \in Int, p * t < r * t
    PROVE  p < r
<1> SUFFICES ASSUME r <= p PROVE FALSE
  OBVIOUS
<1>1. PICK k \in Nat : p = r + k
  <2>1. p - r \in Nat /\ p = r + (p - r)
    OBVIOUS
  <2>2. QED
    BY <2>1
<1>2. p * t = r * t + k * t /\ k * t >= 0 /\ r * t \in Int /\ k * t \in Int
  BY <1>1, SMT
<1>3. QED
  BY <1>2

LEMMA Divides ==
    ASSUME NEW n \in Int, NEW d \in Nat \ {0}
    PROVE  n \div d \in Int /\ d * (n \div d) <= n /\ n < d * (n \div d) + d
<1>1. n = d * (n \div d) + (n % d) /\ (n % d) \in 0 .. d - 1
  BY SMT
<1>2. n \div d \in Int /\ d * (n \div d) \in Int
  BY SMT
<1>3. QED
  BY <1>1, <1>2

LEMMA SamePercent ==
    ASSUME NEW c \in Nat, NEW t \in Nat, c <= t, NEW s, s.total = t, s.completed = c
    PROVE  OraclePercent(s) = RoundedPercent(c, t)
<1> DEFINE Rate(p) == (2 * p - 1) * t <= 200 * c /\ 200 * c < (2 * p + 1) * t
<1>1. CASE t = 0
  BY <1>1 DEF OraclePercent, RoundedPercent
<1>2. CASE t # 0
  <2>1. PICK n \in Nat : n = 2 * c * 100 + t /\ n = 200 * c + t
    OBVIOUS
  <2>2. PICK p \in Int : p = n \div (2 * t) /\ (2 * t) * p <= n /\ n < (2 * t) * p + 2 * t
    <3>1. PICK d \in Nat \ {0} : d = 2 * t
      BY <1>2
    <3>2. n \div d \in Int /\ d * (n \div d) <= n /\ n < d * (n \div d) + d
      BY <2>1, Divides
    <3>3. QED
      BY <3>1, <3>2
  <2>3. Rate(p)
    BY <2>1, <2>2, Distributes
  <2>4. p \in 0 .. 100
    <3>1. 2 * (p * t) <= n /\ n < 2 * (p * t) + 2 * t /\ p * t \in Int
      BY <2>2, Distributes
    <3>2. p * t < 101 * t
      BY <2>1, <3>1
    <3>3. p < 101
      BY <1>2, <3>2, ProductGrows
    <3>4. (-1) * t = 0 - t
      BY SMT
    <3>5. (-1) * t < p * t
      BY <2>1, <3>1, <3>4
    <3>6. -1 < p
      BY <1>2, <3>5, ProductGrows
    <3>7. QED
      BY <3>3, <3>6
  <2>5. ASSUME NEW r \in 0 .. 100, Rate(r) PROVE r = p
    <3>1. /\ 2 * (r * t) - t <= 200 * c /\ 200 * c < 2 * (r * t) + t /\ r * t \in Int
          /\ 2 * (p * t) - t <= 200 * c /\ 200 * c < 2 * (p * t) + t /\ p * t \in Int
      BY <2>3, <2>5, Distributes
    <3>2. (p + 1) * t = p * t + t /\ (r + 1) * t = r * t + t
      BY SMT
    <3>3. r * t < (p + 1) * t /\ p * t < (r + 1) * t
      BY <3>1, <3>2
    <3>4. r < p + 1 /\ p < r + 1
      BY <1>2, <3>3, ProductGrows
    <3>5. QED
      BY <3>4
  <2>6. OraclePercent(s) = CHOOSE r \in 0 .. 100 : Rate(r)
    BY <1>2, Zenon DEF OraclePercent
  <2>7. RoundedPercent(c, t) = p
    BY <1>2, <2>1, <2>2 DEF RoundedPercent
  <2> HIDE DEF Rate
  <2>8. (CHOOSE k \in 0 .. 100 : Rate(k)) = p
    <3>1. PICK r : r = (CHOOSE k \in 0 .. 100 : Rate(k)) /\ r \in 0 .. 100 /\ Rate(r)
      BY <2>3, <2>4
    <3>2. QED
      BY <2>5, <3>1
  <2>9. QED
    BY <2>6, <2>7, <2>8
<1>3. QED
  BY <1>1, <1>2

(***************************************************************************)
(* Tables.                                                                 *)
(***************************************************************************)
Asking(q) == \E c \in Clocks, W \in TaskSets :
    q = [about |-> "reports", zone |-> c.zone, now |-> c.now, work |-> W]

LEMMA TableForm ==
    ASSUME NEW q, Asking(q)
    PROVE  /\ q.zone \in Int /\ q.now \in Int /\ Today(q) \in Int /\ q.work \in TaskSets
           /\ IsFiniteSet(q.work)
           /\ \A x, y \in q.work : x.id = y.id => x = y
           /\ \A S \in SUBSET q.work :
                 IsFiniteSet(S) /\ Cardinality(S) \in Nat /\ Cardinality(S) <= 5000
<1>1. PICK c \in Clocks, W \in TaskSets :
          q = [about |-> "reports", zone |-> c.zone, now |-> c.now, work |-> W]
  BY DEF Asking
<1>2. q.zone \in Int /\ q.now \in Int /\ q.work = W
  BY <1>1, ReportsAssumption
<1>3. IsFiniteSet(W) /\ \A x, y \in W : x.id = y.id => x = y
  BY ReportsAssumption
<1>4. Cardinality(W) <= 5000
  BY OracleAssumption DEF ReportLimit
<1>5. Today(q) \in Int
  BY <1>2 DEF Today, CivilDate
<1>6. \A S \in SUBSET W :
          IsFiniteSet(S) /\ Cardinality(S) \in Nat /\ Cardinality(S) <= 5000
  <2> TAKE S \in SUBSET W
  <2>1. IsFiniteSet(S) /\ Cardinality(S) <= Cardinality(W)
    BY <1>3, FS_Subset
  <2>2. Cardinality(S) \in Nat /\ Cardinality(W) \in Nat
    BY <1>3, <2>1, FS_CardinalityType
  <2>3. QED
    <3>1. PICK k \in Nat, m \in Nat : k = Cardinality(S) /\ m = Cardinality(W)
      BY <2>2
    <3>2. k <= m /\ m <= 5000
      BY <1>4, <2>1, <3>1
    <3>3. QED
      BY <2>1, <3>1, <3>2
<1>7. QED
  BY <1>2, <1>3, <1>5, <1>6

LEMMA RowForm ==
    ASSUME NEW q, Asking(q), NEW x \in q.work
    PROVE  /\ x.wf \in Portfolio /\ x.status \in Statuses
           /\ x.id \in Int /\ x.name \in Int /\ x.due \in Int /\ x.filing \in Int
           /\ x.end \in Int /\ x.code \in Int
           /\ x.status = "completed" <=> x.completedAt # None
           /\ x.completedAt \in Int \cup {None}
           /\ None \notin Int
<1>1. x \in UNION TaskSets
  BY TableForm
<1>2. /\ x.wf \in Portfolio /\ x.status \in Statuses
      /\ {x.id, x.name, x.due, x.filing, x.end, x.code} \subseteq Int
  BY <1>1, ReportsAssumption
<1>3. IF x.status = "completed" THEN x.completedAt \in Int ELSE x.completedAt = None
  BY <1>1, ReportsAssumption
<1>4. None \notin Int
  BY ReportsAssumption
<1>5. QED
  BY <1>2, <1>3, <1>4

LEMMA WorkflowForm ==
    ASSUME NEW w \in Portfolio
    PROVE  /\ w.createdAt \in Int /\ w.year \in Int \cup {None}
           /\ w.entity # None => /\ w.entity.id \in Int \ {99} /\ w.entity.name \in Int \ {99}
                                 /\ \A v \in Portfolio : v.entity # None =>
                                       /\ v.entity.id = w.entity.id => v.entity = w.entity
                                       /\ v.entity.name = w.entity.name => v.entity = w.entity
           /\ w.obligation # None =>
                 /\ w.obligation.id \in Int \ {99} /\ w.obligation.name \in Int \ {99}
                 /\ w.obligation.code \in Int
                 /\ \A v \in Portfolio : v.obligation # None =>
                       /\ v.obligation.id = w.obligation.id => v.obligation = w.obligation
                       /\ v.obligation.name = w.obligation.name /\ v.obligation.code = w.obligation.code
                             => v.obligation = w.obligation
<1>1. w.createdAt \in Int /\ w.year \in Int \cup {None}
  BY ReportsAssumption
<1>2. ASSUME NEW part \in {"entity", "obligation"}, w[part] # None
      PROVE  /\ w[part].id \in Int \ {99} /\ w[part].name \in Int
             /\ part = "obligation" => w[part].code \in Int
             /\ \A v \in Portfolio : v[part] # None /\ v[part].id = w[part].id => v[part] = w[part]
  <2>1. w[part] \in {v[part] : v \in Portfolio} \ {None}
    BY <1>2
  <2>2. QED
    BY <2>1, ReportsAssumption
<1>3. ASSUME w.entity # None
      PROVE  /\ w.entity.id \in Int \ {99} /\ w.entity.name \in Int \ {99}
             /\ \A v \in Portfolio : v.entity # None =>
                   /\ v.entity.id = w.entity.id => v.entity = w.entity
                   /\ v.entity.name = w.entity.name => v.entity = w.entity
  <2>1. /\ w.entity.id \in Int \ {99} /\ w.entity.name \in Int
        /\ \A v \in Portfolio : v.entity # None /\ v.entity.id = w.entity.id => v.entity = w.entity
    BY <1>2, <1>3
  <2>2. w.entity.name # 99
    <3>1. w["entity"] # None => <<w["entity"].name>> # Unknown
      BY OracleAssumption
    <3>2. QED
      BY <1>3, <3>1 DEF Unknown
  <2>3. \A v \in Portfolio : v.entity # None /\ v.entity.name = w.entity.name => v.entity = w.entity
    BY <1>3, OracleAssumption
  <2>4. QED
    BY <2>1, <2>2, <2>3
<1>4. ASSUME w.obligation # None
      PROVE  /\ w.obligation.id \in Int \ {99} /\ w.obligation.name \in Int \ {99}
             /\ w.obligation.code \in Int
             /\ \A v \in Portfolio : v.obligation # None =>
                   /\ v.obligation.id = w.obligation.id => v.obligation = w.obligation
                   /\ v.obligation.name = w.obligation.name /\ v.obligation.code = w.obligation.code
                         => v.obligation = w.obligation
  <2>1. /\ w.obligation.id \in Int \ {99} /\ w.obligation.name \in Int /\ w.obligation.code \in Int
        /\ \A v \in Portfolio : v.obligation # None /\ v.obligation.id = w.obligation.id
                                    => v.obligation = w.obligation
    BY <1>2, <1>4
  <2>2. \A v \in Portfolio : v.obligation # None
            /\ v.obligation.name = w.obligation.name /\ v.obligation.code = w.obligation.code
            => v.obligation = w.obligation
    BY <1>4, OracleAssumption
  <2>3. w.obligation.name # 99
    <3>1. w["obligation"] # None => <<w["obligation"].name>> # Unknown
      BY OracleAssumption
    <3>2. QED
      BY <1>4, <3>1 DEF Unknown
  <2>4. QED
    BY <2>1, <2>2, <2>3
<1>5. QED
  BY <1>1, <1>3, <1>4

(***************************************************************************)
(* One instance, to the reports and to the oracle.                         *)
(***************************************************************************)
LEMMA SameClass ==
    ASSUME NEW q, Asking(q), NEW x \in q.work, NEW deadline \in Int
    PROVE  OracleClassify(q, x, deadline) = ComplianceClass(q, x, deadline)
<1>1. \A i : OracleDay(q, i) = CivilDate(q, i) /\ OracleToday(q) = Today(q)
  BY DEF OracleDay, CivilDate, OracleToday, Today
<1>2. CASE x.status = "completed" /\ x.completedAt # None
  <2>1. x.completedAt \in Int /\ q.zone \in Int
    BY <1>2, RowForm, TableForm
  <2>2. PICK d \in Int : d = CivilDate(q, x.completedAt)
    BY <2>1 DEF CivilDate
  <2>3. d <= deadline \/ d > deadline
    BY <2>2
  <2>4. QED
    BY <1>1, <1>2, <2>2, <2>3 DEF OracleClassify, ComplianceClass
<1>3. CASE ~(x.status = "completed" /\ x.completedAt # None)
  BY <1>1, <1>3 DEF OracleClassify, ComplianceClass
<1>4. QED
  BY <1>2, <1>3

LEMMA SameMatches == ASSUME NEW f, NEW w PROVE OracleMatches(f, w) <=> PassesFilters(f, w)
<1> DEFINE of(field) == CASE field = "year" -> w.year
                          [] field = "entity" -> IF w.entity = None THEN None ELSE w.entity.id
                          [] field = "obligation" ->
                                IF w.obligation = None THEN None ELSE w.obligation.id
<1>1. /\ of("year") = w.year
      /\ of("entity") = IF w.entity = None THEN None ELSE w.entity.id
      /\ of("obligation") = IF w.obligation = None THEN None ELSE w.obligation.id
  OBVIOUS
<1>2. OracleMatches(f, w) <=> \A field \in {"year", "entity", "obligation"} :
                                   f[field] = None \/ f[field] = of(field)
  BY Zenon DEF OracleMatches
<1> HIDE DEF of
<1>3. OracleMatches(f, w) <=> /\ f.year = None \/ f.year = of("year")
                              /\ f.entity = None \/ f.entity = of("entity")
                              /\ f.obligation = None \/ f.obligation = of("obligation")
  BY <1>2
<1>4. QED
  BY <1>1, <1>3 DEF PassesFilters

LEMMA SameParticipants ==
    ASSUME NEW q, NEW f
    PROVE  OracleParticipating(q, f) = ComplianceFrom(q, Everything, f)
<1>1. \A w : InScope(Everything, w)
  BY DEF InScope, In, Everything
<1>2. \A w : OracleMatches(f, w) <=> PassesFilters(f, w)
  BY SameMatches
<1>3. QED
  BY <1>1, <1>2 DEF OracleParticipating, ComplianceFrom, Participates

\* The numbers up to the last of some.
LEMMA MaxForm ==
    ASSUME NEW n \in Nat, NEW s \in SUBSET (1 .. n), s # {}
    PROVE  Max(s) \in s /\ \A y \in s : Max(s) >= y
<1> DEFINE Gaps == {n - y : y \in s}
<1>1. Gaps \in SUBSET Nat /\ Gaps # {}
  <2>1. \A y \in s : y \in 1 .. n
    OBVIOUS
  <2>2. \A y \in s : n - y \in Nat
    BY <2>1
  <2>3. QED
    BY <2>2
<1>2. PICK g \in Gaps : \A h \in Gaps : g <= h
  BY <1>1, LeastOf
<1>3. PICK m \in s : g = n - m
  BY <1>2
<1>4. \A y \in s : m >= y
  <2> TAKE y \in s
  <2>1. n - y \in Gaps /\ y \in Int /\ m \in Int
    OBVIOUS
  <2>2. n - m <= n - y
    BY <1>2, <1>3, <2>1
  <2>3. QED
    BY <2>1, <2>2
<1>5. \E k \in s : \A y \in s : k >= y
  BY <1>4
<1>6. QED
  BY <1>5, Zenon DEF Max

\* The first of the numbers of some that is good, if the last may be it.
FirstStep(s, m, Good) ==
    /\ (s \ {m}) \cap Good # {} =>
          Min(s \cap Good) = Min((s \ {m}) \cap Good) /\ s \cap Good # {}
    /\ (s \ {m}) \cap Good = {} /\ m \in Good => s \cap Good # {} /\ Min(s \cap Good) = m
    /\ (s \ {m}) \cap Good = {} /\ m \notin Good => s \cap Good = {}

LEMMA FirstGood ==
    ASSUME NEW n \in Nat, NEW s \in SUBSET (1 .. n), s # {}, NEW Good
    PROVE  FirstStep(s, Max(s), Good)
<1>0. PICK m : m = Max(s)
  OBVIOUS
<1>1. m \in s /\ \A y \in s : m >= y
  BY <1>0, MaxForm
<1>2. ASSUME (s \ {m}) \cap Good # {}
      PROVE  Min(s \cap Good) = Min((s \ {m}) \cap Good) /\ s \cap Good # {}
  <2>1. PICK k : k = Min((s \ {m}) \cap Good)
    OBVIOUS
  <2>2. (s \ {m}) \cap Good \in SUBSET Nat
    <3>1. \A y \in s : y \in 1 .. n
      OBVIOUS
    <3>2. \A y \in (s \ {m}) \cap Good : y \in Nat
      BY <3>1
    <3>3. QED
      BY <3>2
  <2>3. \E k1 \in (s \ {m}) \cap Good : \A y \in (s \ {m}) \cap Good : k1 =< y
    BY <1>2, <2>2, LeastOf
  <2>4. k \in (s \ {m}) \cap Good /\ \A y \in (s \ {m}) \cap Good : k =< y
    BY <2>1, <2>3, Zenon DEF Min
  <2>5. k \in s \cap Good /\ \A y \in s \cap Good : k <= y
    BY <1>1, <2>4
  <2>6. Min(s \cap Good) = k
    <3>1. \A y \in s : y \in 1 .. n
      OBVIOUS
    <3>2. \A y \in s \cap Good : y \in Int
      BY <3>1
    <3>3. s \cap Good \subseteq Int
      BY <3>2
    <3>4. QED
      BY <2>5, <3>3, MinIs
  <2>7. QED
    BY <2>1, <2>5, <2>6
<1>3. ASSUME (s \ {m}) \cap Good = {}, m \in Good PROVE s \cap Good # {} /\ Min(s \cap Good) = m
  <2>1. \A y \in s \cap Good : y = m
    BY <1>3
  <2>2. \A y \in s : y \in 1 .. n
    OBVIOUS
  <2>3. m \in s \cap Good /\ s \cap Good \subseteq Int /\ \A y \in s \cap Good : m <= y
    BY <1>1, <1>3, <2>1, <2>2
  <2>4. QED
    BY <2>3, MinIs
<1>4. QED
  BY <1>0, <1>2, <1>3 DEF FirstStep

UpTo(I, n) == n \in Nat /\ I = 1 .. n

\* A walk over a list which keeps the first thing it finds, and that thing.
Walk(I, num, none, F) ==
    F = [s \in SUBSET I |-> IF s = {} THEN none
            ELSE IF F[s \ {Max(s)}] # none THEN F[s \ {Max(s)}] ELSE num[Max(s)]]
Found(I, num, none) ==
    LET given == {i \in I : num[i] # none} IN IF given = {} THEN none ELSE num[Min(given)]

LEMMA WalkFinds ==
    ASSUME NEW n \in Nat, NEW I, UpTo(I, n), NEW num, NEW none
    PROVE  /\ \E F : Walk(I, num, none, F)
           /\ \A F : Walk(I, num, none, F) => F[I] = Found(I, num, none)
<1> DEFINE Good == {i \in I : num[i] # none}
           H == [s \in SUBSET I |-> IF s \cap Good = {} THEN none ELSE num[Min(s \cap Good)]]
<1>1. I \subseteq Nat /\ IsFiniteSet(I) /\ I = 1 .. n
  BY FS_Interval DEF UpTo
<1>2. IsFiniteSet(I)
  BY <1>1
<1>3. H[{}] = none
  OBVIOUS
<1>4. \A s \in SUBSET I : s \cap Good # {} => Min(s \cap Good) \in Good
  <2> TAKE s \in SUBSET I
  <2> HAVE s \cap Good # {}
  <2>1. s \cap Good \in SUBSET Nat
    BY <1>1
  <2>2. \E k \in s \cap Good : \A y \in s \cap Good : k =< y
    BY <2>1, LeastOf
  <2>3. Min(s \cap Good) \in s \cap Good
    BY <2>2, Zenon DEF Min
  <2>4. QED
    BY <2>3
<1>5. ASSUME NEW s \in SUBSET I, s # {}
      PROVE  H[s] = IF H[s \ {Max(s)}] # none THEN H[s \ {Max(s)}] ELSE num[Max(s)]
  <2>1. PICK m : m = Max(s)
    OBVIOUS
  <2>2. m \in s /\ s \ {m} \in SUBSET I
    BY <1>1, <1>5, <2>1, MaxForm
  <2>3. FirstStep(s, m, Good)
    <3> HIDE DEF Good
    <3> QED
      BY <1>1, <1>5, <2>1, FirstGood
  <2>4. H[s] = (IF s \cap Good = {} THEN none ELSE num[Min(s \cap Good)])
        /\ H[s \ {m}] = (IF (s \ {m}) \cap Good = {} THEN none ELSE num[Min((s \ {m}) \cap Good)])
    BY <2>2
  <2>5. (s \ {m}) \cap Good # {} => num[Min((s \ {m}) \cap Good)] # none
    BY <1>4, <2>2
  <2>6. m \in Good <=> num[m] # none
    BY <2>2
  <2> HIDE DEF H, Good
  <2>7. QED
    BY <2>1, <2>3, <2>4, <2>5, <2>6 DEF FirstStep
<1>6. Walk(I, num, none, H)
  <2>1. \A s \in SUBSET I : H[s] = IF s = {} THEN none
            ELSE IF H[s \ {Max(s)}] # none THEN H[s \ {Max(s)}] ELSE num[Max(s)]
    <3> HIDE DEF H
    <3> QED
      BY <1>3, <1>5, Zenon
  <2>2. QED
    BY <2>1, Zenon DEF Walk
<1>7. I \cap Good = Good /\ H[I] = Found(I, num, none)
  <2>1. I \cap Good = Good
    OBVIOUS
  <2>2. H[I] = IF I \cap Good = {} THEN none ELSE num[Min(I \cap Good)]
    OBVIOUS
  <2>3. QED
    BY <2>1, <2>2 DEF Found
<1> HIDE DEF H
<1>8. ASSUME NEW G, Walk(I, num, none, G) PROVE G[I] = H[I]
  <2> DEFINE P == {s \in SUBSET I : G[s] = H[s]}
  <2>1. {} \in P
    BY <1>6, <1>8 DEF Walk
  <2>2. ASSUME NEW s \in SUBSET I, s # {}, \A x \in s : s \ {x} \in P PROVE s \in P
    <3>1. Max(s) \in s
      BY <1>1, <2>2, MaxForm
    <3>2. G[s \ {Max(s)}] = H[s \ {Max(s)}]
      BY <2>2, <3>1
    <3>3. /\ G[s] = IF G[s \ {Max(s)}] # none THEN G[s \ {Max(s)}] ELSE num[Max(s)]
          /\ H[s] = IF H[s \ {Max(s)}] # none THEN H[s \ {Max(s)}] ELSE num[Max(s)]
      BY <1>6, <1>8, <2>2 DEF Walk
    <3>4. QED
      BY <2>2, <3>2, <3>3
  <2>3. \A s \in SUBSET I : s \in P
    <3> HIDE DEF P
    <3> QED
      BY <1>2, <2>1, <2>2, AllSubsets
  <2>4. QED
    BY <2>3
<1>9. QED
  BY <1>6, <1>7, <1>8

LEMMA FoundIn ==
    ASSUME NEW n \in Nat, NEW I, UpTo(I, n), NEW T \in SUBSET I, T # {}
    PROVE  Min(T) \in T
<1>1. T \in SUBSET Nat
  BY DEF UpTo
<1>2. \E k \in T : \A y \in T : k =< y
  BY <1>1, LeastOf
<1>3. QED
  BY <1>2, Zenon DEF Min

LEMMA SameFirstNonZero ==
    ASSUME NEW data, NEW n \in Nat, NEW keys, DOMAIN keys = 1 .. n
    PROVE  OracleFirstNonZero(data, keys) = FirstNonZero(data, keys)
<1>1. \A key : OracleNum(data, key) = JsonNum(data, key)
  BY DEF OracleNum, JsonNum, HasKey
<1>2. PICK I : UpTo(I, n)
  BY DEF UpTo
<1>3. PICK num : num = [i \in I |-> OracleNum(data, keys[i])]
  OBVIOUS
<1> DEFINE G == CHOOSE F : Walk(I, num, 0, F)
<1>5. G[I] = Found(I, num, 0)
  BY <1>2, WalkFinds, Zenon
<1>6. \A F : Walk(I, num, 0, F)
           <=> F = [s \in SUBSET I |-> IF s = {} THEN 0
                    ELSE IF F[s \ {Max(s)}] # 0 THEN F[s \ {Max(s)}] ELSE OracleNum(data, keys[Max(s)])]
  <2> TAKE F
  <2>1. \A s \in SUBSET I : s # {} => num[Max(s)] = OracleNum(data, keys[Max(s)])
    BY <1>2, <1>3, MaxForm DEF UpTo
  <2>2. [s \in SUBSET I |-> IF s = {} THEN 0
                    ELSE IF F[s \ {Max(s)}] # 0 THEN F[s \ {Max(s)}] ELSE num[Max(s)]]
           = [s \in SUBSET I |-> IF s = {} THEN 0
                    ELSE IF F[s \ {Max(s)}] # 0 THEN F[s \ {Max(s)}] ELSE OracleNum(data, keys[Max(s)])]
    BY <2>1, Zenon
  <2>3. QED
    BY <2>2, Zenon DEF Walk
<1>8. OracleFirstNonZero(data, keys) = G[I]
  <2>1. I = DOMAIN keys
    BY <1>2 DEF UpTo
  <2>2. OracleFirstNonZero(data, keys) = (CHOOSE F : F = [s \in SUBSET I |-> IF s = {} THEN 0
            ELSE IF F[s \ {Max(s)}] # 0 THEN F[s \ {Max(s)}]
                 ELSE OracleNum(data, keys[Max(s)])])[I]
    BY <2>1, Zenon DEF OracleFirstNonZero, FoldLeft, MapThenFoldSet
  <2>3. QED
    BY <1>6, <2>2, ZenonT(120)
<1> HIDE DEF G
<1>9. {i \in DOMAIN keys : JsonNum(data, keys[i]) # 0} = {i \in I : num[i] # 0}
  BY <1>1, <1>2, <1>3 DEF UpTo
<1>10. FirstNonZero(data, keys)
          = IF {i \in I : num[i] # 0} = {} THEN 0 ELSE JsonNum(data, keys[Min({i \in I : num[i] # 0})])
  BY <1>9, Zenon DEF FirstNonZero
<1>11. {i \in I : num[i] # 0} # {} => Min({i \in I : num[i] # 0}) \in I
  <2>1. PICK T : T = {i \in I : num[i] # 0}
    OBVIOUS
  <2>2. T \in SUBSET I
    BY <2>1
  <2>3. T # {} => Min(T) \in I
    BY <1>2, <2>2, FoundIn
  <2>4. QED
    BY <2>1, <2>3, Zenon
<1>12. \A i \in I : num[i] = JsonNum(data, keys[i])
  BY <1>1, <1>3
<1>13. QED
  BY <1>5, <1>8, <1>10, <1>11, <1>12, Zenon DEF Found

LEMMA SameTruthy ==
    ASSUME NEW x \in UNION TaskSets, NEW key
    PROVE  /\ JsonTruthy(x.data, key) => OracleTruthy(x.data, key) = x.data[key].text
           /\ ~JsonTruthy(x.data, key) => OracleTruthy(x.data, key) = None
           /\ OracleTruthy(x.data, key) # None <=> JsonTruthy(x.data, key)
<1>1. CASE ~HasKey(x.data, key)
  BY <1>1 DEF HasKey, JsonTruthy, OracleTruthy
<1>2. CASE HasKey(x.data, key)
  <2>1. /\ x.data[key].type = "boolean" => x.data[key].text \in {"true", "false"}
        /\ x.data[key].text # None
    BY <1>2, ReportsAssumption, ZenonT(120) DEF HasKey
  <2>2. x.data # None /\ key \in DOMAIN x.data
    BY <1>2 DEF HasKey
  <2>3. OracleTruthy(x.data, key) = LET v == x.data[key] IN
         IF \/ v.type = "number" /\ ~(v.text = "0" \/ v.text = "0.0")
            \/ v.type = "boolean" /\ v.text = "true"
            \/ v.type = "string" /\ v.text # ""
         THEN v.text ELSE None
    BY <2>2 DEF OracleTruthy
  <2>4. JsonTruthy(x.data, key) <=> LET v == x.data[key] IN
         CASE v.type = "number" -> v.text \notin {"0", "0.0"}
         [] v.type = "boolean" -> v.text # "false"
         [] v.type = "string" -> v.text # ""
         [] OTHER -> FALSE
    BY <1>2, Zenon DEF JsonTruthy
  <2>5. QED
    BY <2>1, <2>3, <2>4
<1>3. QED
  BY <1>1, <1>2

LEMMA SameFirstTruthy ==
    ASSUME NEW x \in UNION TaskSets, NEW n \in Nat, NEW keys, DOMAIN keys = 1 .. n
    PROVE  OracleFirstTruthy(x.data, keys) = FirstTruthy(x.data, keys)
<1>1. PICK data : data = x.data
  OBVIOUS
<1>2. PICK I : UpTo(I, n)
  BY DEF UpTo
<1>3. PICK num : num = [i \in I |-> OracleTruthy(data, keys[i])]
  OBVIOUS
<1> DEFINE G == CHOOSE F : Walk(I, num, None, F)
<1>5. G[I] = Found(I, num, None)
  BY <1>2, WalkFinds, Zenon
<1>6. \A F : Walk(I, num, None, F)
           <=> F = [s \in SUBSET I |-> IF s = {} THEN None
                    ELSE IF F[s \ {Max(s)}] # None THEN F[s \ {Max(s)}] ELSE OracleTruthy(data, keys[Max(s)])]
  <2> TAKE F
  <2>1. \A s \in SUBSET I : s # {} => num[Max(s)] = OracleTruthy(data, keys[Max(s)])
    BY <1>2, <1>3, MaxForm DEF UpTo
  <2>2. [s \in SUBSET I |-> IF s = {} THEN None
                    ELSE IF F[s \ {Max(s)}] # None THEN F[s \ {Max(s)}] ELSE num[Max(s)]]
           = [s \in SUBSET I |-> IF s = {} THEN None
                    ELSE IF F[s \ {Max(s)}] # None THEN F[s \ {Max(s)}] ELSE OracleTruthy(data, keys[Max(s)])]
    BY <2>1, Zenon
  <2>3. QED
    BY <2>2, Zenon DEF Walk
<1>8. OracleFirstTruthy(data, keys) = G[I]
  <2>1. I = DOMAIN keys
    BY <1>2 DEF UpTo
  <2>2. OracleFirstTruthy(data, keys) = (CHOOSE F : F = [s \in SUBSET I |-> IF s = {} THEN None
            ELSE IF F[s \ {Max(s)}] # None THEN F[s \ {Max(s)}]
                 ELSE OracleTruthy(data, keys[Max(s)])])[I]
    BY <2>1, Zenon DEF OracleFirstTruthy, FoldLeft, MapThenFoldSet
  <2>3. QED
    BY <1>6, <2>2, ZenonT(120)
<1> HIDE DEF G
<1>9. {i \in DOMAIN keys : JsonTruthy(data, keys[i])} = {i \in I : num[i] # None}
  <2>1. \A i \in I : num[i] # None <=> JsonTruthy(data, keys[i])
    BY <1>1, <1>3, SameTruthy
  <2>2. QED
    BY <1>2, <2>1 DEF UpTo
<1>10. FirstTruthy(data, keys)
          = IF {i \in I : num[i] # None} = {} THEN None ELSE data[keys[Min({i \in I : num[i] # None})]].text
  BY <1>9, Zenon DEF FirstTruthy
<1>11. {i \in I : num[i] # None} # {} =>
          num[Min({i \in I : num[i] # None})] = data[keys[Min({i \in I : num[i] # None})]].text
  <2>1. PICK T : T = {i \in I : num[i] # None}
    OBVIOUS
  <2>2. T \in SUBSET I
    BY <2>1
  <2>3. T # {} => Min(T) \in T
    BY <1>2, <2>2, FoundIn
  <2>4. \A i \in T : num[i] = data[keys[i]].text
    BY <1>1, <1>3, <2>1, SameTruthy
  <2>5. QED
    BY <2>1, <2>3, <2>4, Zenon
<1>13. QED
  BY <1>1, <1>5, <1>8, <1>10, <1>11, Zenon DEF Found

LEMMA SameLists ==
    ASSUME NEW data
    PROVE  /\ \A name \in DOMAIN Aliases :
                 OracleFirstNonZero(data, Aliases[name]) = FirstNonZero(data, Aliases[name])
           /\ \A name \in DOMAIN ExportPairs :
                 OracleFirstNonZero(data, ExportPairs[name]) = FirstNonZero(data, ExportPairs[name])
<1>1. ASSUME NEW keys, DOMAIN keys = 1 .. 2 \/ DOMAIN keys = 1 .. 3
      PROVE  OracleFirstNonZero(data, keys) = FirstNonZero(data, keys)
  <2>1. PICK n \in Nat : DOMAIN keys = 1 .. n
    BY <1>1
  <2>2. QED
    BY <2>1, SameFirstNonZero
<1>2. \A name \in DOMAIN Aliases : DOMAIN Aliases[name] = 1 .. 2 \/ DOMAIN Aliases[name] = 1 .. 3
  BY DEF Aliases
<1>3. \A name \in DOMAIN ExportPairs : DOMAIN ExportPairs[name] = 1 .. 2
  BY DEF ExportPairs
<1>4. QED
  BY <1>1, <1>2, <1>3, Zenon

LEMMA SamePenaltyInterest ==
    ASSUME NEW x \in UNION TaskSets
    PROVE  OraclePenaltyInterest(x) = PenaltyInterest(x)
<1>1. DOMAIN Aliases.penaltyAmount = 1 .. 2 /\ DOMAIN Aliases.interestAmount = 1 .. 2
  BY DEF Aliases
<1>2. /\ OracleFirstTruthy(x.data, Aliases.penaltyAmount) = FirstTruthy(x.data, Aliases.penaltyAmount)
      /\ OracleFirstTruthy(x.data, Aliases.interestAmount) = FirstTruthy(x.data, Aliases.interestAmount)
  <2>1. 2 \in Nat
    OBVIOUS
  <2>2. QED
    BY <1>1, <2>1, SameFirstTruthy, Zenon
<1>3. QED
  BY <1>2, Zenon DEF OraclePenaltyInterest, PenaltyInterest

LEMMA SameComplianceRow ==
    ASSUME NEW q, Asking(q), NEW x \in q.work
    PROVE  OracleComplianceRow(q, x) = ComplianceRow(q, x)
<1>1. x \in UNION TaskSets /\ x.filing \in Int
  BY TableForm, RowForm
<1>2. OraclePenaltyInterest(x) = PenaltyInterest(x)
  BY <1>1, SamePenaltyInterest
<1>3. OracleClassify(q, x, x.filing) = ComplianceClass(q, x, x.filing)
  BY <1>1, SameClass
<1>4. OracleRow(x).label = EntityName(x.wf)
  BY DEF OracleRow, EntityName
<1>5. QED
  BY <1>2, <1>3, <1>4, Zenon
     DEF OracleComplianceRow, ComplianceRow, ObligationName, CodeOf, TemplateOf

LEMMA SameCells ==
    ASSUME NEW f, NEW view \in Views, NEW x
    PROVE  /\ OracleRow(x) = [key |-> HeatmapRow(x.wf).id, label |-> HeatmapRow(x.wf).label]
           /\ OracleColumn(f, view, x)
                 = [key |-> HeatmapCol(f, view, x).id, label |-> HeatmapCol(f, view, x).label]
<1>1. OracleRow(x) = [key |-> HeatmapRow(x.wf).id, label |-> HeatmapRow(x.wf).label]
  BY DEF OracleRow, HeatmapRow
<1>2. CASE view = "tax-type"
  <2>1. CASE x.wf.obligation = None
    <3>1. HeatmapCol(f, view, x) = [id |-> Unknown, label |-> Unknown]
      BY <1>2, <2>1, Zenon DEF HeatmapCol
    <3>2. OracleColumn(f, view, x) = [key |-> Unknown, label |-> Unknown]
      BY <1>2, <2>1 DEF OracleColumn, OracleQualifiesYears
    <3>3. QED
      BY <1>1, <3>1, <3>2
  <2>2. CASE x.wf.obligation # None
    <3>1. HeatmapCol(f, view, x) = [id |-> <<x.wf.obligation.id>>, label |-> <<x.wf.obligation.name, x.wf.obligation.code>>]
      BY <1>2, <2>2, Zenon DEF HeatmapCol
    <3>2. OracleColumn(f, view, x) = [key |-> <<x.wf.obligation.id>>, label |-> <<x.wf.obligation.name, x.wf.obligation.code>>]
      BY <1>2, <2>2 DEF OracleColumn, OracleQualifiesYears
    <3>3. QED
      BY <1>1, <3>1, <3>2
  <2>3. QED
    BY <2>1, <2>2
<1>3. CASE view = "period"
  <2>0. view # "tax-type"
    BY <1>3
  <2>1. CASE f.year = None
    <3>1. HeatmapCol(f, view, x) = [id |-> <<YearText(x.wf), x.code>>, label |-> <<x.code, YearText(x.wf)>>]
      BY <1>3, <2>0, <2>1, Zenon DEF HeatmapCol
    <3>2. OracleColumn(f, view, x) = [key |-> <<YearText(x.wf), x.code>>, label |-> <<x.code, YearText(x.wf)>>]
      BY <1>3, <2>0, <2>1 DEF OracleColumn, OracleQualifiesYears, YearText
    <3>3. QED
      BY <1>1, <3>1, <3>2
  <2>2. CASE f.year # None
    <3>1. HeatmapCol(f, view, x) = [id |-> <<x.code>>, label |-> <<x.code>>]
      BY <1>3, <2>0, <2>2, Zenon DEF HeatmapCol
    <3>2. OracleColumn(f, view, x) = [key |-> <<x.code>>, label |-> <<x.code>>]
      BY <1>3, <2>0, <2>2 DEF OracleColumn, OracleQualifiesYears
    <3>3. QED
      BY <1>1, <3>1, <3>2
  <2>3. QED
    BY <2>1, <2>2
<1>4. QED
  BY <1>1, <1>2, <1>3 DEF Views

LEMMA SameGroup ==
    ASSUME NEW x, NEW by \in Groupings
    PROVE  OracleGroupOf(x, by) = GroupOf(x, by).key
<1>1. CASE by = "country"
  BY <1>1 DEF OracleGroupOf, GroupOf
<1>2. CASE by = "tax-type"
  BY <1>2 DEF OracleGroupOf, GroupOf, TemplateOf
<1>3. CASE by = "period"
  BY <1>3 DEF OracleGroupOf, GroupOf
<1>4. CASE by = "obligation"
  BY <1>4 DEF OracleGroupOf, GroupOf
<1>5. CASE by = "entity"
  BY <1>5 DEF OracleGroupOf, GroupOf
<1>6. QED
  BY <1>1, <1>2, <1>3, <1>4, <1>5 DEF Groupings

LEMMA SameFigureRow ==
    ASSUME NEW x
    PROVE  OracleFigures(TemplateOf(x.wf), x.data) = Figures(x)
<1> DEFINE num(name) == FirstNonZero(x.data, Aliases[name])
<1>1. /\ \A name \in DOMAIN Aliases : OracleFirstNonZero(x.data, Aliases[name]) = num(name)
      /\ DOMAIN Aliases = {"outputVat", "inputVat", "netVat", "taxableIncome", "taxLiability",
             "whtAmount", "amount", "engagementCost", "penaltyAmount", "interestAmount"}
  BY SameLists DEF Aliases
<1>2. /\ OracleFirstNonZero(x.data, Aliases.outputVat) = num("outputVat")
      /\ OracleFirstNonZero(x.data, Aliases.inputVat) = num("inputVat")
      /\ OracleFirstNonZero(x.data, Aliases.netVat) = num("netVat")
      /\ OracleFirstNonZero(x.data, Aliases.taxableIncome) = num("taxableIncome")
      /\ OracleFirstNonZero(x.data, Aliases.taxLiability) = num("taxLiability")
      /\ OracleFirstNonZero(x.data, Aliases.whtAmount) = num("whtAmount")
      /\ OracleFirstNonZero(x.data, Aliases.amount) = num("amount")
      /\ OracleFirstNonZero(x.data, Aliases.engagementCost) = num("engagementCost")
  BY <1>1
<1>3. PICK ov, iv, nv, ti, tl, wa, am, ec :
          /\ ov = num("outputVat") /\ iv = num("inputVat") /\ nv = num("netVat")
          /\ ti = num("taxableIncome") /\ tl = num("taxLiability") /\ wa = num("whtAmount")
          /\ am = num("amount") /\ ec = num("engagementCost")
  OBVIOUS
<1>4. PICK t : t = TemplateOf(x.wf)
  OBVIOUS
<1>5. PICK net : net = IF nv # 0 THEN nv ELSE ov - iv
  OBVIOUS
<1>6. Figures(x) =
          [outputVat |-> IF t = "VAT" THEN ov ELSE 0, inputVat |-> IF t = "VAT" THEN iv ELSE 0,
           netVat |-> IF (IF t = "VAT" THEN nv ELSE 0) # 0 THEN (IF t = "VAT" THEN nv ELSE 0)
                      ELSE (IF t = "VAT" THEN ov ELSE 0) - (IF t = "VAT" THEN iv ELSE 0),
           taxableIncome |-> IF t = "CIT" THEN ti ELSE 0,
           taxLiability |-> IF t = "CIT" THEN tl ELSE 0, whtAmount |-> IF t = "WHT" THEN wa ELSE 0,
           engagementCost |-> ec,
           totalAmount |->
              CASE t = "VAT" -> IF (IF t = "VAT" THEN nv ELSE 0) # 0 THEN (IF t = "VAT" THEN nv ELSE 0)
                      ELSE (IF t = "VAT" THEN ov ELSE 0) - (IF t = "VAT" THEN iv ELSE 0)
                [] t = "CIT" -> IF t = "CIT" THEN tl ELSE 0
                [] t = "WHT" -> IF t = "WHT" THEN wa ELSE 0
                [] OTHER -> am]
  BY <1>3, <1>4, Zenon DEF Figures
<1>7. OracleFigures(t, x.data) =
          LET cost == [OracleNone EXCEPT !.engagementCost = ec]
          IN CASE t = "VAT" -> [cost EXCEPT !.outputVat = ov, !.inputVat = iv,
                                            !.netVat = net, !.totalAmount = net]
               [] t = "CIT" -> [cost EXCEPT !.taxableIncome = ti,
                                            !.taxLiability = tl, !.totalAmount = tl]
               [] t = "WHT" -> [cost EXCEPT !.whtAmount = wa, !.totalAmount = wa]
               [] OTHER -> [cost EXCEPT !.totalAmount = am]
  BY <1>2, <1>3, <1>5, Zenon DEF OracleFigures
<1>8. CASE t = "VAT"
  BY <1>4, <1>5, <1>6, <1>7, <1>8 DEF OracleNone, FigureNames
<1>9. t # "VAT" => (IF (IF t = "VAT" THEN nv ELSE 0) # 0 THEN (IF t = "VAT" THEN nv ELSE 0)
                      ELSE (IF t = "VAT" THEN ov ELSE 0) - (IF t = "VAT" THEN iv ELSE 0)) = 0
  <2>1. 0 - 0 = 0
    OBVIOUS
  <2>2. QED
    BY <2>1, Zenon
<1>10. CASE t = "CIT"
  BY <1>4, <1>6, <1>7, <1>9, <1>10 DEF OracleNone, FigureNames
<1>11. CASE t = "WHT"
  BY <1>4, <1>6, <1>7, <1>9, <1>11 DEF OracleNone, FigureNames
<1>12. CASE t \notin {"VAT", "CIT", "WHT"}
  BY <1>4, <1>6, <1>7, <1>9, <1>12 DEF OracleNone, FigureNames
<1>13. QED
  BY <1>8, <1>10, <1>11, <1>12

(***************************************************************************)
(* Folds.                                                                  *)
(***************************************************************************)
Choice(s) == CHOOSE x \in s : TRUE

\* What two folds of the same steps come to.
LEMMA FoldsAgree ==
    ASSUME NEW S, IsFiniteSet(S), NEW G, NEW H, G[{}] = H[{}],
           \A s \in SUBSET S : \A x \in s :
               x = Choice(s) /\ G[s \ {x}] = H[s \ {x}] => G[s] = H[s]
    PROVE  G[S] = H[S]
<1> DEFINE P == {s \in SUBSET S : G[s] = H[s]}
<1>1. {} \in P
  OBVIOUS
<1>2. ASSUME NEW s \in SUBSET S, s # {}, \A x \in s : s \ {x} \in P PROVE s \in P
  <2>1. PICK x \in s : x = Choice(s)
    BY <1>2 DEF Choice
  <2>2. QED
    BY <1>2, <2>1
<1>3. S \in P
  <2> HIDE DEF P
  <2>1. QED
    BY <1>1, <1>2, AllSubsets, ZenonT(120)
<1>4. QED
  BY <1>3

(***************************************************************************)
(* export-raw.                                                             *)
(***************************************************************************)
LEMMA DayBounds ==
    ASSUME NEW i \in Int, NEW d \in Int
    PROVE  (i >= 24 * d <=> d <= i \div 24) /\ (i < 24 * (d + 1) <=> i \div 24 <= d)
<1>1. 24 \in Nat \ {0}
  OBVIOUS
<1>2. i \div 24 \in Int /\ 24 * (i \div 24) <= i /\ i < 24 * (i \div 24) + 24
  BY <1>1, Divides
<1>3. QED
  BY <1>2

LEMMA ExportHolds ==
    ASSUME NEW q, Asking(q), NEW f, f.from \in Int \cup {None}, f.to \in Int \cup {None}
    PROVE  CheckExport(q, f)
<1>1. \A w \in Portfolio : ExportFilter(Everything, f, w) <=> OracleExportMatches(f, w)
  BY DEF ExportFilter, OracleExportMatches, InScope, In, Everything
<1>2. \A w \in Portfolio : WorkflowWindow(f, w) <=> OracleWithin(f, w.createdAt \div 24)
  <2> TAKE w \in Portfolio
  <2>1. PICK i \in Int : i = w.createdAt
    BY WorkflowForm
  <2>2. f.from # None => (i >= 24 * f.from <=> f.from <= i \div 24)
    BY DayBounds
  <2>3. f.to # None => (i < 24 * (f.to + 1) <=> i \div 24 <= f.to)
    BY DayBounds
  <2>4. QED
    BY <2>1, <2>2, <2>3, Zenon DEF WorkflowWindow, OracleWithin
<1>3. \A x \in q.work : InstanceWindow(f, x) <=> OracleWithin(f, x.due)
  <2> TAKE x \in q.work
  <2>1. x.due \in Int
    BY RowForm
  <2>2. QED
    BY <2>1 DEF InstanceWindow, OracleWithin
<1>4. \A x \in q.work : x.wf \in Portfolio
  BY RowForm
<1>5. ExportWorkflows(Everything, f) = OracleExportWorkflows(f)
  BY <1>1, <1>2 DEF ExportWorkflows, OracleExportWorkflows
<1>6. ExportTasks(q, Everything, f) = OracleExportInstances(q, f, FALSE)
  BY <1>1, <1>3, <1>4 DEF ExportTasks, OracleExportInstances
<1>7. {y \in ExportTasks(q, Everything, f) : y.data # None} = OracleExportInstances(q, f, TRUE)
  BY <1>1, <1>3, <1>4 DEF ExportTasks, OracleExportInstances
<1>8. \A data : OracleExportFigures(data)
                    = [name \in DOMAIN ExportPairs |-> FirstNonZero(data, ExportPairs[name])]
  <2> TAKE data
  <2>1. \A name \in DOMAIN ExportPairs :
            OracleFirstNonZero(data, ExportPairs[name]) = FirstNonZero(data, ExportPairs[name])
    BY SameLists
  <2>2. QED
    BY <2>1, Zenon DEF OracleExportFigures
<1>9. ExportTaxData(q, Everything, f) = {[id |-> x.id, figures |-> OracleExportFigures(x.data)]
                                             : x \in OracleExportInstances(q, f, TRUE)}
  BY <1>7, <1>8, Zenon DEF ExportTaxData
<1>10. QED
  BY <1>5, <1>6, <1>9 DEF CheckExport

LEMMA ExportFilterForm ==
    ASSUME NEW q, Asking(q), NEW f \in ExportFilters(q)
    PROVE  f.from \in Int \cup {None} /\ f.to \in Int \cup {None}
<1>1. \A x \in q.work : x.due \in Int
  BY RowForm
<1>2. CASE f = NoExportFilter
  BY <1>2 DEF NoExportFilter
<1>3. ASSUME NEW field \in {"category", "entity", "from", "to"}, NEW v,
             f = [NoExportFilter EXCEPT ![field] = v], field \in {"from", "to"} => v \in Int
      PROVE  f.from \in Int \cup {None} /\ f.to \in Int \cup {None}
  <2>1. CASE field = "category"
    BY <1>3, <2>1 DEF NoExportFilter
  <2>2. CASE field = "entity"
    BY <1>3, <2>2 DEF NoExportFilter
  <2>3. CASE field = "from"
    BY <1>3, <2>3 DEF NoExportFilter
  <2>4. CASE field = "to"
    BY <1>3, <2>4 DEF NoExportFilter
  <2>5. QED
    BY <2>1, <2>2, <2>3, <2>4
<1>4. f = NoExportFilter \/ \E field \in {"category", "entity", "from", "to"} : \E v :
          /\ f = [NoExportFilter EXCEPT ![field] = v]
          /\ field \in {"from", "to"} => v \in {x.due : x \in q.work}
  <2>1. \/ f \in OneOf(NoExportFilter, "category", {"recurring", "project"})
        \/ f \in OneOf(NoExportFilter, "entity", PortfolioIds("entity"))
        \/ f \in OneOf(NoExportFilter, "from", {x.due : x \in q.work})
        \/ f \in OneOf(NoExportFilter, "to", {x.due : x \in q.work})
    BY Zenon DEF ExportFilters
  <2>2. \A field, V : f \in OneOf(NoExportFilter, field, V)
            => f = NoExportFilter \/ \E v \in V : f = [NoExportFilter EXCEPT ![field] = v]
    BY Zenon DEF OneOf
  <2>3. ASSUME NEW field \in {"category", "entity"}, NEW V, f \in OneOf(NoExportFilter, field, V),
               f # NoExportFilter
        PROVE  \E v : f = [NoExportFilter EXCEPT ![field] = v] /\ field \notin {"from", "to"}
    BY <2>2, <2>3
  <2>4. ASSUME NEW field \in {"from", "to"}, f \in OneOf(NoExportFilter, field, {x.due : x \in q.work}),
               f # NoExportFilter
        PROVE  \E v \in {x.due : x \in q.work} : f = [NoExportFilter EXCEPT ![field] = v]
    BY <2>2, <2>4
  <2>5. QED
    BY <2>1, <2>3, <2>4, Zenon
<1>5. QED
  <2>1. \A v \in {x.due : x \in q.work} : v \in Int
    BY <1>1
  <2>2. QED
    BY <1>2, <1>3, <1>4, <2>1, Zenon

(***************************************************************************)
(* The tiles.                                                              *)
(***************************************************************************)
LEMMA SameWeekEnd == ASSUME NEW q, Asking(q) PROVE OracleEndOfWeek(Today(q)) = WeekEndOf(q)
<1>1. PICK t \in Int : t = Today(q)
  BY TableForm
<1>2. PICK k \in 0 .. 6 : k = t % 7
  BY SMT
<1>3. \A d \in t .. t + 6 : (d % 7) = 6 <=> d = t + 6 - k
  BY <1>2, SMT
<1>4. t + 6 - k \in t .. t + 6
  OBVIOUS
<1>5. (CHOOSE d \in t .. t + 6 : (d % 7) = 6) = t + 6 - k
  BY <1>3, <1>4
<1>6. QED
  BY <1>1, <1>2, <1>5 DEF OracleEndOfWeek, WeekEndOf, Weekday

\* What a tile counts.
Shows(q, x, tile) ==
    CASE tile = "total" -> TRUE
      [] tile = "overdue" -> DueWindow(q, x, "overdue")
      [] tile = "dueToday" -> DueWindow(q, x, "today")
      [] tile = "dueThisWeek" -> DueWindow(q, x, "this_week")
      [] tile = "active" -> Open(x)
      [] tile = "completed" -> x.status = "completed"
      [] tile = "awaitingApproval" -> x.status = "pending_approval"
Shown(q, s, tile) == Cardinality({x \in s : Shows(q, x, tile)})
InStatus(s, status) == Cardinality({x \in s : x.status = status})
Dash(q, s) ==
    [total |-> Shown(q, s, "total"), overdue |-> Shown(q, s, "overdue"),
     dueToday |-> Shown(q, s, "dueToday"), dueThisWeek |-> Shown(q, s, "dueThisWeek"),
     active |-> Shown(q, s, "active"), completed |-> Shown(q, s, "completed"),
     awaitingApproval |-> Shown(q, s, "awaitingApproval"),
     byStatus |-> [t \in Statuses |-> InStatus(s, t)]]

LEMMA ShownStep ==
    ASSUME NEW q, NEW s, IsFiniteSet(s), NEW x \in s
    PROVE  /\ \A tile : Shown(q, s, tile) = Shown(q, s \ {x}, tile) + One(Shows(q, x, tile))
           /\ \A t : InStatus(s, t) = InStatus(s \ {x}, t) + One(x.status = t)
           /\ \A tile : Shown(q, s, tile) \in Nat
           /\ \A t : InStatus(s, t) \in Nat
<1>1. ASSUME NEW tile
      PROVE  Shown(q, s, tile) = Shown(q, s \ {x}, tile) + One(Shows(q, x, tile))
             /\ Shown(q, s, tile) \in Nat
  <2>1. PICK A : A = {y \in s : Shows(q, y, tile)}
    OBVIOUS
  <2>2. IsFiniteSet(A) /\ (x \in A <=> Shows(q, x, tile)) /\ A \ {x} = {y \in s \ {x} : Shows(q, y, tile)}
    BY <2>1, FS_Subset
  <2>3. QED
    <3>1. One(x \in A) = One(Shows(q, x, tile))
      BY <2>2, Zenon DEF One
    <3>2. Cardinality(A) \in Nat /\ Cardinality(A) = Cardinality(A \ {x}) + One(x \in A)
      BY <2>2, CountStep
    <3>3. QED
      BY <2>1, <2>2, <3>1, <3>2 DEF Shown
<1>2. ASSUME NEW t
      PROVE  InStatus(s, t) = InStatus(s \ {x}, t) + One(x.status = t) /\ InStatus(s, t) \in Nat
  <2>1. PICK A : A = {y \in s : y.status = t}
    OBVIOUS
  <2>2. IsFiniteSet(A) /\ (x \in A <=> x.status = t) /\ A \ {x} = {y \in s \ {x} : y.status = t}
    BY <2>1, FS_Subset
  <2>3. QED
    <3>1. One(x \in A) = One(x.status = t)
      BY <2>2, Zenon DEF One
    <3>2. Cardinality(A) \in Nat /\ Cardinality(A) = Cardinality(A \ {x}) + One(x \in A)
      BY <2>2, CountStep
    <3>3. QED
      BY <2>1, <2>2, <3>1, <3>2 DEF InStatus
<1>3. QED
  BY <1>1, <1>2

LEMMA DashboardForm ==
    ASSUME NEW q, Asking(q)
    PROVE  OracleDashboard(q) = Dash(q, q.work)
<1> DEFINE today == OracleToday(q)
           zero == [total |-> 0, overdue |-> 0, dueToday |-> 0, dueThisWeek |-> 0, active |-> 0,
                    completed |-> 0, awaitingApproval |-> 0, byStatus |-> [s \in Statuses |-> 0]]
           window(x) == CASE x.status = "completed" -> "done"
                          [] x.status # "completed" /\ x.due < today -> "overdue"
                          [] x.status # "completed" /\ x.due = today -> "dueToday"
                          [] x.status # "completed" /\ x.due > today ->
                                IF x.due <= OracleEndOfWeek(today) THEN "dueThisWeek" ELSE "later"
           count(x, d) ==
               [d EXCEPT !.total = @ + 1, !.byStatus[x.status] = @ + 1,
                         !.awaitingApproval = @ + One(x.status = "pending_approval"),
                         !.completed = @ + One(window(x) = "done"),
                         !.active = @ + One(window(x) # "done"),
                         !.overdue = @ + One(window(x) = "overdue"),
                         !.dueToday = @ + One(window(x) = "dueToday"),
                         !.dueThisWeek = @ + One(window(x) = "dueThisWeek")]
           Eq(F) == F = [s \in SUBSET q.work |-> IF s = {} THEN zero
                           ELSE count(CHOOSE x \in s : TRUE, F[s \ {CHOOSE x \in s : TRUE}])]
           G == CHOOSE F : Eq(F)
           H == [s \in SUBSET q.work |-> Dash(q, s)]
<1>1. IsFiniteSet(q.work) /\ Today(q) \in Int
  BY TableForm
<1>2. ASSUME NEW x \in q.work
      PROVE  /\ (window(x) = "done") = Shows(q, x, "completed")
             /\ (window(x) # "done") = Shows(q, x, "active")
             /\ (window(x) = "overdue") = Shows(q, x, "overdue")
             /\ (window(x) = "dueToday") = Shows(q, x, "dueToday")
             /\ (window(x) = "dueThisWeek") = Shows(q, x, "dueThisWeek")
             /\ (x.status = "pending_approval") = Shows(q, x, "awaitingApproval")
             /\ Shows(q, x, "total") = TRUE
  <2>1. today = Today(q)
    BY DEF OracleToday, OracleDay, Today, CivilDate
  <2>2. OracleEndOfWeek(today) = WeekEndOf(q)
    BY <2>1, SameWeekEnd
  <2>3. PICK e : e = WeekEndOf(q)
    OBVIOUS
  <2>4. PICK t \in Int : t = Today(q)
    BY <1>1
  <2>5. PICK due \in Int : due = x.due
    BY RowForm
  <2>6. window(x) = CASE x.status = "completed" -> "done"
                      [] x.status # "completed" /\ due < t -> "overdue"
                      [] x.status # "completed" /\ due = t -> "dueToday"
                      [] x.status # "completed" /\ due > t ->
                            IF due <= e THEN "dueThisWeek" ELSE "later"
    BY <2>1, <2>2, <2>3, <2>4, <2>5, Zenon
  <2>7. /\ DueWindow(q, x, "overdue") = (x.status # "completed" /\ due < t)
        /\ DueWindow(q, x, "today") = (x.status # "completed" /\ due = t)
        /\ DueWindow(q, x, "this_week") = (x.status # "completed" /\ t < due /\ due <= e)
    BY <2>3, <2>4, <2>5 DEF DueWindow, Open
  <2> HIDE DEF window
  <2>8. CASE x.status = "completed"
    BY <2>6, <2>7, <2>8 DEF Shows, Open
  <2>9. CASE x.status # "completed"
    BY <2>6, <2>7, <2>9 DEF Shows, Open
  <2>10. QED
    BY <2>8, <2>9
<1>3. H[{}] = zero
  <2>1. Cardinality({}) = 0
    BY FS_EmptySet
  <2>2. \A tile : {x \in {} : Shows(q, x, tile)} = {}
    OBVIOUS
  <2>3. \A t : {x \in {} : x.status = t} = {}
    OBVIOUS
  <2>4. \A tile : Shown(q, {}, tile) = 0
    BY <2>1, <2>2 DEF Shown
  <2>5. \A t : InStatus({}, t) = 0
    BY <2>1, <2>3 DEF InStatus
  <2>6. H[{}] = Dash(q, {})
    OBVIOUS
  <2>7. QED
    BY <2>4, <2>5, <2>6 DEF Dash
<1>4. ASSUME NEW s \in SUBSET q.work, NEW x \in s PROVE H[s] = count(x, H[s \ {x}])
  <2>1. IsFiniteSet(s) /\ x \in q.work /\ x.status \in Statuses
    BY <1>1, FS_Subset, RowForm
  <2>2. PICK r : r = s \ {x}
    OBVIOUS
  <2>3. H[s] = Dash(q, s) /\ H[r] = Dash(q, r)
    BY <2>2
  <2>4. \A tile : Shown(q, s, tile) = Shown(q, r, tile) + One(Shows(q, x, tile))
    BY <2>1, <2>2, ShownStep
  <2>5. \A t : InStatus(s, t) = InStatus(r, t) + One(x.status = t)
    BY <2>1, <2>2, ShownStep
  <2>6. \A t : InStatus(r, t) \in Nat
    <3>1. \A t : IsFiniteSet({y \in r : y.status = t})
      BY <2>1, <2>2, FS_Subset
    <3>2. QED
      BY <3>1, FS_CardinalityType DEF InStatus
  <2>7. [t \in Statuses |-> InStatus(s, t)]
            = [[t \in Statuses |-> InStatus(r, t)] EXCEPT ![x.status] = @ + 1]
    BY <2>1, <2>5, <2>6 DEF One
  <2>8. Dash(q, s) =
          [total |-> Shown(q, r, "total") + 1,
           overdue |-> Shown(q, r, "overdue") + One(window(x) = "overdue"),
           dueToday |-> Shown(q, r, "dueToday") + One(window(x) = "dueToday"),
           dueThisWeek |-> Shown(q, r, "dueThisWeek") + One(window(x) = "dueThisWeek"),
           active |-> Shown(q, r, "active") + One(window(x) # "done"),
           completed |-> Shown(q, r, "completed") + One(window(x) = "done"),
           awaitingApproval |-> Shown(q, r, "awaitingApproval") + One(x.status = "pending_approval"),
           byStatus |-> [[t \in Statuses |-> InStatus(r, t)] EXCEPT ![x.status] = @ + 1]]
    <3> HIDE DEF window
    <3>1. /\ One(window(x) = "done") = One(Shows(q, x, "completed"))
          /\ One(window(x) # "done") = One(Shows(q, x, "active"))
          /\ One(window(x) = "overdue") = One(Shows(q, x, "overdue"))
          /\ One(window(x) = "dueToday") = One(Shows(q, x, "dueToday"))
          /\ One(window(x) = "dueThisWeek") = One(Shows(q, x, "dueThisWeek"))
          /\ One(x.status = "pending_approval") = One(Shows(q, x, "awaitingApproval"))
          /\ One(Shows(q, x, "total")) = 1
      BY <1>2, <2>1, Zenon DEF One
    <3>2. /\ Shown(q, s, "completed") = Shown(q, r, "completed") + One(window(x) = "done")
          /\ Shown(q, s, "active") = Shown(q, r, "active") + One(window(x) # "done")
          /\ Shown(q, s, "overdue") = Shown(q, r, "overdue") + One(window(x) = "overdue")
          /\ Shown(q, s, "dueToday") = Shown(q, r, "dueToday") + One(window(x) = "dueToday")
          /\ Shown(q, s, "dueThisWeek") = Shown(q, r, "dueThisWeek") + One(window(x) = "dueThisWeek")
          /\ Shown(q, s, "awaitingApproval")
                = Shown(q, r, "awaitingApproval") + One(x.status = "pending_approval")
          /\ Shown(q, s, "total") = Shown(q, r, "total") + 1
      <4>1. /\ Shown(q, s, "completed") = Shown(q, r, "completed") + One(Shows(q, x, "completed"))
            /\ Shown(q, s, "active") = Shown(q, r, "active") + One(Shows(q, x, "active"))
            /\ Shown(q, s, "overdue") = Shown(q, r, "overdue") + One(Shows(q, x, "overdue"))
            /\ Shown(q, s, "dueToday") = Shown(q, r, "dueToday") + One(Shows(q, x, "dueToday"))
            /\ Shown(q, s, "dueThisWeek") = Shown(q, r, "dueThisWeek") + One(Shows(q, x, "dueThisWeek"))
            /\ Shown(q, s, "awaitingApproval")
                  = Shown(q, r, "awaitingApproval") + One(Shows(q, x, "awaitingApproval"))
            /\ Shown(q, s, "total") = Shown(q, r, "total") + One(Shows(q, x, "total"))
        BY <2>4, Zenon
      <4>2. QED
        BY <3>1, <4>1, Zenon
    <3>3. QED
      BY <2>7, <3>2, Zenon DEF Dash
  <2>9. count(x, Dash(q, r)) =
          [total |-> Shown(q, r, "total") + 1,
           overdue |-> Shown(q, r, "overdue") + One(window(x) = "overdue"),
           dueToday |-> Shown(q, r, "dueToday") + One(window(x) = "dueToday"),
           dueThisWeek |-> Shown(q, r, "dueThisWeek") + One(window(x) = "dueThisWeek"),
           active |-> Shown(q, r, "active") + One(window(x) # "done"),
           completed |-> Shown(q, r, "completed") + One(window(x) = "done"),
           awaitingApproval |-> Shown(q, r, "awaitingApproval") + One(x.status = "pending_approval"),
           byStatus |-> [[t \in Statuses |-> InStatus(r, t)] EXCEPT ![x.status] = @ + 1]]
    <3> HIDE DEF window
    <3>1. PICK a, b, c, d, e, g, h, t :
              /\ a = Shown(q, r, "total") /\ b = Shown(q, r, "overdue") /\ c = Shown(q, r, "dueToday")
              /\ d = Shown(q, r, "dueThisWeek") /\ e = Shown(q, r, "active")
              /\ g = Shown(q, r, "completed") /\ h = Shown(q, r, "awaitingApproval")
              /\ t = [u \in Statuses |-> InStatus(r, u)]
      OBVIOUS
    <3>2. PICK D : D = [total |-> a, overdue |-> b, dueToday |-> c, dueThisWeek |-> d, active |-> e,
                        completed |-> g, awaitingApproval |-> h, byStatus |-> t]
      OBVIOUS
    <3>3. D = Dash(q, r)
      BY <3>1, <3>2, Zenon DEF Dash
    <3>4. PICK o1, o2, o3, o4, o5, o6 :
              /\ o1 = One(window(x) = "overdue") /\ o2 = One(window(x) = "dueToday")
              /\ o3 = One(window(x) = "dueThisWeek") /\ o4 = One(window(x) # "done")
              /\ o5 = One(window(x) = "done") /\ o6 = One(x.status = "pending_approval")
      OBVIOUS
    <3>5. count(x, D) = [D EXCEPT !.total = @ + 1, !.byStatus[x.status] = @ + 1,
                         !.awaitingApproval = @ + o6, !.completed = @ + o5, !.active = @ + o4,
                         !.overdue = @ + o1, !.dueToday = @ + o2, !.dueThisWeek = @ + o3]
      BY <3>4, Zenon
    <3>6. [D EXCEPT !.total = @ + 1, !.byStatus[x.status] = @ + 1,
                         !.awaitingApproval = @ + o6, !.completed = @ + o5, !.active = @ + o4,
                         !.overdue = @ + o1, !.dueToday = @ + o2, !.dueThisWeek = @ + o3]
            = [total |-> a + 1, overdue |-> b + o1, dueToday |-> c + o2, dueThisWeek |-> d + o3,
                 active |-> e + o4, completed |-> g + o5, awaitingApproval |-> h + o6,
                 byStatus |-> [t EXCEPT ![x.status] = @ + 1]]
      <4>1. PICK E : E = [D EXCEPT !.total = @ + 1, !.byStatus[x.status] = @ + 1,
                         !.awaitingApproval = @ + o6, !.completed = @ + o5, !.active = @ + o4,
                         !.overdue = @ + o1, !.dueToday = @ + o2, !.dueThisWeek = @ + o3]
        OBVIOUS
      <4>2. /\ E.total = a + 1 /\ E.overdue = b + o1 /\ E.dueToday = c + o2 /\ E.dueThisWeek = d + o3
            /\ E.active = e + o4 /\ E.completed = g + o5 /\ E.awaitingApproval = h + o6
            /\ E.byStatus = [t EXCEPT ![x.status] = @ + 1]
        BY ONLY <3>2, <4>1
      <4>3. E = [n \in {"total", "overdue", "dueToday", "dueThisWeek", "active", "completed",
                        "awaitingApproval", "byStatus"} |-> E[n]]
        BY ONLY <3>2, <4>1, ZenonT(120)
      <4>4. E = [total |-> a + 1, overdue |-> b + o1, dueToday |-> c + o2, dueThisWeek |-> d + o3,
                 active |-> e + o4, completed |-> g + o5, awaitingApproval |-> h + o6,
                 byStatus |-> [t EXCEPT ![x.status] = @ + 1]]
        BY ONLY <4>2, <4>3
      <4>5. QED
        BY <4>1, <4>4
    <3>7. QED
      BY <3>1, <3>3, <3>4, <3>5, <3>6, Zenon
  <2>10. QED
    BY <2>2, <2>3, <2>8, <2>9
<1>5. Eq(H)
  <2> HIDE DEF count, zero
  <2>1. \A s \in SUBSET q.work : H[s] = IF s = {} THEN zero
              ELSE count(CHOOSE x \in s : TRUE, H[s \ {CHOOSE x \in s : TRUE}])
    <3> HIDE DEF H
    <3>1. \A s \in SUBSET q.work : s # {} => (CHOOSE x \in s : TRUE) \in s
      OBVIOUS
    <3>2. QED
      BY <1>3, <1>4, <3>1, Zenon
  <2>2. H = [s \in SUBSET q.work |-> H[s]]
    OBVIOUS
  <2> HIDE DEF H
  <2>3. QED
    BY <2>1, <2>2, Zenon
<1>6. OracleDashboard(q) = G[q.work]
  BY Zenon DEF OracleDashboard, FoldSet, MapThenFoldSet
<1> HIDE DEF count, zero
<1>7. Eq(G)
  <2> HIDE DEF H, Eq
  <2> QED
    BY <1>5, Zenon
<1> HIDE DEF H, G
<1>8. G[{}] = H[{}]
  BY <1>3, <1>7
<1>9. \A s \in SUBSET q.work : \A x \in s :
          x = Choice(s) /\ G[s \ {x}] = H[s \ {x}] => G[s] = H[s]
  <2> SUFFICES ASSUME NEW s \in SUBSET q.work, NEW x \in s, x = Choice(s),
                      G[s \ {x}] = H[s \ {x}]
               PROVE  G[s] = H[s]
    OBVIOUS
  <2>1. G[s] = count(x, G[s \ {x}])
    BY <1>7, Zenon DEF Choice
  <2>2. QED
    BY <1>4, <2>1
<1>10. G[q.work] = H[q.work]
  BY <1>1, <1>8, <1>9, FoldsAgree
<1>11. QED
  BY <1>6, <1>10 DEF H

LEMMA AllWork ==
    ASSUME NEW q
    PROVE  {x \in q.work : TaskFilterWhere(q, Everything, NoTaskFilter, x)} = q.work
<1>1. ASSUME NEW x PROVE TaskFilterWhere(q, Everything, NoTaskFilter, x)
  <2>1. PICK f : f = NoTaskFilter
    OBVIOUS
  <2>2. /\ f.workflow = None /\ f.entity = None /\ f.assignee = None /\ f.obligation = None
        /\ f.taxType = None /\ f.years = {} /\ f.period = None /\ f.status = None
        /\ f.category = None /\ f.due = None /\ f.from = None /\ f.to = None
    BY <2>1 DEF NoTaskFilter
  <2>3. InScope(Everything, x.wf)
    BY DEF InScope, In, Everything
  <2>4. None \notin {"unassigned", "open"}
    BY ReportsAssumption
  <2> HIDE <2>1
  <2>5. TaskFilterWhere(q, Everything, f, x)
    BY <2>2, <2>3, <2>4 DEF TaskFilterWhere
  <2>6. QED
    BY <2>1, <2>5
<1>2. QED
  BY <1>1

\* What is done is some of what there is.
LEMMA DoneOfAll ==
    ASSUME NEW s, IsFiniteSet(s)
    PROVE  LET done == Cardinality({x \in s : x.status = "completed"})
           IN  done \in Nat /\ Cardinality(s) \in Nat /\ done <= Cardinality(s)
<1>1. {x \in s : x.status = "completed"} \subseteq s
  OBVIOUS
<1>2. QED
  BY <1>1, FS_Subset, FS_CardinalityType

LEMMA TaskSummaryHolds == ASSUME NEW q, Asking(q) PROVE CheckTaskSummary(q)
<1>1. IsFiniteSet(q.work)
  BY TableForm
<1>2. PICK got : got = TaskSummary(q, Everything, NoTaskFilter)
  OBVIOUS
<1>3. got = Tiles(q, q.work)
  BY <1>2, AllWork DEF TaskSummary
<1>4. PICK want : want = OracleDashboard(q)
  OBVIOUS
<1>5. want = Dash(q, q.work)
  BY <1>4, DashboardForm
<1>6. /\ \A x : Shows(q, x, "total") /\ (Shows(q, x, "overdue") <=> DueWindow(q, x, "overdue"))
      /\ \A x : Shows(q, x, "dueToday") <=> DueWindow(q, x, "today")
      /\ \A x : Shows(q, x, "dueThisWeek") <=> DueWindow(q, x, "this_week")
      /\ \A x : Shows(q, x, "active") <=> Open(x)
      /\ \A x : Shows(q, x, "completed") <=> x.status = "completed"
      /\ \A x : Shows(q, x, "awaitingApproval") <=> x.status = "pending_approval"
  BY DEF Shows
<1>7. /\ Shown(q, q.work, "total") = Cardinality(q.work)
      /\ Shown(q, q.work, "overdue") = Cardinality({x \in q.work : DueWindow(q, x, "overdue")})
      /\ Shown(q, q.work, "dueToday") = Cardinality({x \in q.work : DueWindow(q, x, "today")})
      /\ Shown(q, q.work, "dueThisWeek") = Cardinality({x \in q.work : DueWindow(q, x, "this_week")})
      /\ Shown(q, q.work, "active") = Cardinality({x \in q.work : Open(x)})
      /\ Shown(q, q.work, "completed") = Cardinality({x \in q.work : x.status = "completed"})
      /\ Shown(q, q.work, "awaitingApproval") = Cardinality({x \in q.work : x.status = "pending_approval"})
  <2>1. /\ {x \in q.work : Shows(q, x, "total")} = q.work
        /\ {x \in q.work : Shows(q, x, "overdue")} = {x \in q.work : DueWindow(q, x, "overdue")}
        /\ {x \in q.work : Shows(q, x, "dueToday")} = {x \in q.work : DueWindow(q, x, "today")}
        /\ {x \in q.work : Shows(q, x, "dueThisWeek")} = {x \in q.work : DueWindow(q, x, "this_week")}
        /\ {x \in q.work : Shows(q, x, "active")} = {x \in q.work : Open(x)}
        /\ {x \in q.work : Shows(q, x, "completed")} = {x \in q.work : x.status = "completed"}
        /\ {x \in q.work : Shows(q, x, "awaitingApproval")}
              = {x \in q.work : x.status = "pending_approval"}
    BY <1>6
  <2>2. QED
    BY <2>1, Zenon DEF Shown
<1>8. /\ got.today = Today(q) /\ got.total = Cardinality(q.work)
      /\ got.completed = Cardinality({x \in q.work : x.status = "completed"})
      /\ got.active = Cardinality({x \in q.work : Open(x)})
      /\ got.overdue = Cardinality({x \in q.work : DueWindow(q, x, "overdue")})
      /\ got.dueToday = Cardinality({x \in q.work : DueWindow(q, x, "today")})
      /\ got.dueThisWeek = Cardinality({x \in q.work : DueWindow(q, x, "this_week")})
      /\ got.awaitingApproval = Cardinality({x \in q.work : x.status = "pending_approval"})
      /\ got.byStatus = [t \in Statuses |-> Cardinality({x \in q.work : x.status = t})]
      /\ got.completionRate = RoundedPercent(Cardinality({x \in q.work : x.status = "completed"}),
                                             Cardinality(q.work))
  BY <1>3 DEF Tiles, Count
<1>9. [t \in Statuses |-> InStatus(q.work, t)]
          = [t \in Statuses |-> Cardinality({x \in q.work : x.status = t})]
  BY Zenon DEF InStatus
<1>10. /\ want.total = got.total /\ want.overdue = got.overdue /\ want.dueToday = got.dueToday
       /\ want.dueThisWeek = got.dueThisWeek /\ want.active = got.active
       /\ want.completed = got.completed /\ want.awaitingApproval = got.awaitingApproval
       /\ want.byStatus = got.byStatus
  BY <1>5, <1>7, <1>8, <1>9 DEF Dash
<1>11. DOMAIN want = {"total", "overdue", "dueToday", "dueThisWeek", "active", "completed",
                      "awaitingApproval", "byStatus"}
  BY <1>5 DEF Dash
<1>12. got.completionRate = OraclePercent(want)
  <2>1. PICK c, t : c = Cardinality({x \in q.work : x.status = "completed"}) /\ t = Cardinality(q.work)
    OBVIOUS
  <2>2. c \in Nat /\ t \in Nat /\ c <= t
    BY <1>1, <2>1, DoneOfAll
  <2>3. want.total = t /\ want.completed = c
    BY <1>8, <1>10, <2>1
  <2>4. OraclePercent(want) = RoundedPercent(c, t)
    BY <2>2, <2>3, SamePercent
  <2>5. QED
    BY <1>8, <2>1, <2>4
<1>13. got.today = OracleToday(q)
  BY <1>8 DEF OracleToday, OracleDay, Today, CivilDate
<1>14. \A n \in DOMAIN want : got[n] = want[n]
  BY <1>10, <1>11
<1>15. QED
  BY <1>2, <1>4, <1>12, <1>13, <1>14, Zenon DEF CheckTaskSummary

(***************************************************************************)
(* workflow-stats.                                                         *)
(***************************************************************************)
LEMMA ImageSize ==
    ASSUME NEW S, IsFiniteSet(S), NEW T, NEW f \in [S -> T], \A t \in T : \E x \in S : t = f[x]
    PROVE  /\ IsFiniteSet(T) /\ Cardinality(T) \in Nat /\ Cardinality(T) <= Cardinality(S)
           /\ (\A x, y \in S : f[x] = f[y] => x = y) => Cardinality(T) = Cardinality(S)
<1>1. f \in Surjection(S, T)
  BY DEF Surjection
<1>2. (\A x, y \in S : f[x] = f[y] => x = y) => f \in Injection(S, T)
  BY DEF Injection, IsInjective
<1>3. QED
  BY <1>1, <1>2, FS_Surjection, FS_CardinalityType

\* The least with one more.
LEMMA MinAdd ==
    ASSUME NEW A, IsFiniteSet(A), A \subseteq Int, NEW v \in Int
    PROVE  Min(A \cup {v}) = IF A = {} THEN v ELSE Least(Min(A), v)
<1>1. CASE A = {}
  <2>1. A \cup {v} = {v} /\ v \in {v} /\ {v} \subseteq Int /\ \A y \in {v} : v <= y
    BY <1>1
  <2>2. QED
    BY <1>1, <2>1, MinIs
<1>2. CASE A # {}
  <2>1. PICK m \in A : m = Min(A) /\ \A y \in A : m <= y
    BY <1>2, MinForm
  <2>2. m \in Int /\ A \cup {v} \subseteq Int
    OBVIOUS
  <2>3. CASE m <= v
    <3>1. m \in A \cup {v} /\ \A y \in A \cup {v} : m <= y
      BY <2>1, <2>3
    <3>2. QED
      BY <1>2, <2>1, <2>2, <2>3, <3>1, MinIs DEF Least
  <2>4. CASE ~(m <= v)
    <3>1. v \in A \cup {v} /\ \A y \in A \cup {v} : v <= y
      BY <2>1, <2>2, <2>4
    <3>2. QED
      BY <1>2, <2>1, <2>2, <2>4, <3>1, MinIs DEF Least
  <2>5. QED
    BY <2>3, <2>4
<1>3. QED
  BY <1>1, <1>2

Of(q, w) == {x \in q.work : x.wf = w}
Dues(s) == {x.due : x \in {y \in s : Open(y)}}
Done(s) == Cardinality({x \in s : x.status = "completed"})
NextDue(s) == IF Dues(s) = {} THEN None ELSE Min(Dues(s))
StatsRow(q, w) ==
    [workflow |-> w.id, total |-> Cardinality(Of(q, w)), completed |-> Done(Of(q, w)),
     percent |-> RoundedPercent(Done(Of(q, w)), Cardinality(Of(q, w))),
     nextDue |-> NextDue(Of(q, w))]

LEMMA StatsForm ==
    ASSUME NEW q
    PROVE  WorkflowStats(q, Everything, NoTaskFilter) = {StatsRow(q, w) : w \in Portfolio}
<1>1. PICK f : f = NoTaskFilter
  OBVIOUS
<1>2. /\ f.workflow = None /\ f.entity = None /\ f.years = {} /\ f.status = None /\ f.category = None
  BY <1>1 DEF NoTaskFilter
<1>3. \A w : InScope(Everything, w)
  BY DEF InScope, In, Everything
<1>4. {w \in Portfolio :
          /\ InScope(Everything, w)
          /\ f.workflow # None => w.id = f.workflow
          /\ f.entity # None => w.entity # None /\ w.entity.id = f.entity
          /\ f.years # {} => w.year \in f.years
          /\ f.status # None => w.status = f.status
          /\ f.category # None => w.category = f.category} = Portfolio
  BY <1>2, <1>3
<1>5. QED
  BY <1>1, <1>4, Zenon DEF WorkflowStats, StatsRow, NextDue, Dues, Done, Of, Count

LEMMA OracleStatsForm ==
    ASSUME NEW q, Asking(q), NEW w
    PROVE  OracleStats(q, w) = [total |-> Cardinality(Of(q, w)), completed |-> Done(Of(q, w)),
                                nextDue |-> NextDue(Of(q, w))]
<1> DEFINE W == {x \in q.work : x.wf = w}
           zero == [total |-> 0, completed |-> 0, nextDue |-> None]
           count(x, s) == IF x.status = "completed"
                          THEN [s EXCEPT !.total = @ + 1, !.completed = @ + 1]
                          ELSE [s EXCEPT !.total = @ + 1,
                                         !.nextDue = IF @ = None THEN x.due ELSE Least(@, x.due)]
           Eq(F) == F = [s \in SUBSET W |-> IF s = {} THEN zero
                           ELSE count(CHOOSE x \in s : TRUE, F[s \ {CHOOSE x \in s : TRUE}])]
           G == CHOOSE F : Eq(F)
           stats(s) == [total |-> Cardinality(s), completed |-> Done(s), nextDue |-> NextDue(s)]
           H == [s \in SUBSET W |-> stats(s)]
<1>1. IsFiniteSet(W) /\ \A x \in W : x.due \in Int
  BY TableForm, RowForm
<1>2. None \notin Int
  BY ReportsAssumption
<1>3. H[{}] = zero
  <2>1. {x \in {} : x.status = "completed"} = {} /\ Dues({}) = {} /\ Cardinality({}) = 0
    BY FS_EmptySet DEF Dues
  <2>2. QED
    BY <2>1 DEF Done, NextDue
<1>4. ASSUME NEW s \in SUBSET W, NEW x \in s PROVE H[s] = count(x, H[s \ {x}])
  <2>1. IsFiniteSet(s)
    BY <1>1, FS_Subset
  <2>2. PICK r : r = s \ {x} /\ r \in SUBSET W /\ IsFiniteSet(r)
    BY <2>1, FS_RemoveElement
  <2>3. Cardinality(s) = Cardinality(r) + 1 /\ Cardinality(r) \in Nat
    BY <2>1, <2>2, FS_RemoveElement, FS_CardinalityType
  <2>4. Done(s) = IF x.status = "completed" THEN Done(r) + 1 ELSE Done(r)
    <3>1. PICK A : A = {y \in s : y.status = "completed"}
      OBVIOUS
    <3>2. IsFiniteSet(A) /\ A \ {x} = {y \in r : y.status = "completed"}
          /\ (x \in A <=> x.status = "completed")
      BY <2>1, <2>2, <3>1, FS_Subset
    <3>3. Cardinality(A) \in Nat /\ Cardinality(A) = Cardinality(A \ {x}) + One(x \in A)
          /\ IsFiniteSet(A \ {x})
      BY <3>2, CountStep
    <3>4. Cardinality(A \ {x}) \in Nat
      BY <3>3, FS_CardinalityType
    <3>5. Cardinality(A) = IF x.status = "completed" THEN Cardinality(A \ {x}) + 1
                           ELSE Cardinality(A \ {x})
      BY <3>2, <3>3, <3>4 DEF One
    <3>6. QED
      BY <3>1, <3>2, <3>5 DEF Done
  <2>5. NextDue(s) = IF x.status = "completed" THEN NextDue(r)
                     ELSE IF NextDue(r) = None THEN x.due ELSE Least(NextDue(r), x.due)
    <3>1. CASE x.status = "completed"
      <4>1. {y \in s : Open(y)} = {y \in r : Open(y)}
        BY <2>2, <3>1 DEF Open
      <4>2. QED
        BY <3>1, <4>1, Zenon DEF NextDue, Dues
    <3>2. CASE x.status # "completed"
      <4>1. PICK A : A = Dues(r)
        OBVIOUS
      <4>2. Dues(s) = A \cup {x.due}
        BY <2>2, <3>2, <4>1 DEF Dues, Open
      <4>3. A \subseteq Int /\ x.due \in Int
        BY <1>1, <2>2, <4>1 DEF Dues
      <4>4. IsFiniteSet(A)
        <5>1. IsFiniteSet({y \in r : Open(y)})
          BY <2>2, FS_Subset
        <5>2. PICK d : d = [y \in {z \in r : Open(z)} |-> y.due]
          OBVIOUS
        <5>3. d \in [{z \in r : Open(z)} -> A] /\ \A t \in A : \E y \in {z \in r : Open(z)} : t = d[y]
          BY <4>1, <5>2 DEF Dues
        <5>4. QED
          BY <5>1, <5>3, ImageSize
      <4>5. Min(A \cup {x.due}) = IF A = {} THEN x.due ELSE Least(Min(A), x.due)
        BY <4>3, <4>4, MinAdd
      <4>6. A # {} => Min(A) # None
        BY <1>2, <4>3, <4>4, MinForm
      <4>7. NextDue(s) = Min(A \cup {x.due}) /\ NextDue(r) = IF A = {} THEN None ELSE Min(A)
        BY <4>1, <4>2 DEF NextDue
      <4>8. QED
        BY <3>2, <4>5, <4>6, <4>7, Zenon
    <3>3. QED
      BY <3>1, <3>2
  <2>6. H[s] = stats(s) /\ H[r] = stats(r)
    BY <2>2
  <2>7. PICK a, b, d : a = Cardinality(r) /\ b = Done(r) /\ d = NextDue(r)
    OBVIOUS
  <2>8. stats(s) = IF x.status = "completed" THEN [total |-> a + 1, completed |-> b + 1, nextDue |-> d]
                   ELSE [total |-> a + 1, completed |-> b,
                         nextDue |-> IF d = None THEN x.due ELSE Least(d, x.due)]
    BY <2>3, <2>4, <2>5, <2>7, Zenon
  <2>9. PICK D : D = [total |-> a, completed |-> b, nextDue |-> d]
    OBVIOUS
  <2>10. [D EXCEPT !.total = @ + 1, !.completed = @ + 1]
             = [total |-> a + 1, completed |-> b + 1, nextDue |-> d]
    <3>1. PICK E : E = [D EXCEPT !.total = @ + 1, !.completed = @ + 1]
      OBVIOUS
    <3>2. /\ E.total = a + 1 /\ E.completed = b + 1 /\ E.nextDue = d
          /\ E = [n \in {"total", "completed", "nextDue"} |-> E[n]]
      BY ONLY <2>9, <3>1
    <3>3. E = [total |-> a + 1, completed |-> b + 1, nextDue |-> d]
      BY ONLY <3>2
    <3>4. QED
      BY <3>1, <3>3
  <2>11. PICK e : e = IF d = None THEN x.due ELSE Least(d, x.due)
    OBVIOUS
  <2>12. [D EXCEPT !.total = @ + 1, !.nextDue = IF @ = None THEN x.due ELSE Least(@, x.due)]
             = [total |-> a + 1, completed |-> b, nextDue |-> e]
    <3>1. PICK E : E = [D EXCEPT !.total = @ + 1, !.nextDue = IF @ = None THEN x.due ELSE Least(@, x.due)]
      OBVIOUS
    <3>2. /\ E.total = a + 1 /\ E.completed = b /\ E.nextDue = e
          /\ E = [n \in {"total", "completed", "nextDue"} |-> E[n]]
      BY ONLY <2>9, <2>11, <3>1
    <3>3. E = [total |-> a + 1, completed |-> b, nextDue |-> e]
      BY ONLY <3>2
    <3>4. QED
      BY <3>1, <3>3
  <2>13. count(x, D) = IF x.status = "completed" THEN [total |-> a + 1, completed |-> b + 1, nextDue |-> d]
                       ELSE [total |-> a + 1, completed |-> b, nextDue |-> e]
    BY <2>10, <2>12, Zenon
  <2>14. H[r] = D
    BY <2>6, <2>7, <2>9
  <2> HIDE DEF H, count, stats
  <2>15. QED
    BY <2>2, <2>6, <2>8, <2>11, <2>13, <2>14
<1>5. Eq(H)
  <2> HIDE DEF count, zero
  <2>1. \A s \in SUBSET W : H[s] = IF s = {} THEN zero
              ELSE count(CHOOSE x \in s : TRUE, H[s \ {CHOOSE x \in s : TRUE}])
    <3> HIDE DEF H
    <3>1. \A s \in SUBSET W : s # {} => (CHOOSE x \in s : TRUE) \in s
      OBVIOUS
    <3>2. QED
      BY <1>3, <1>4, <3>1, Zenon
  <2>2. H = [s \in SUBSET W |-> H[s]]
    OBVIOUS
  <2> HIDE DEF H
  <2>3. QED
    BY <2>1, <2>2, Zenon
<1>6. OracleStats(q, w) = G[W]
  BY Zenon DEF OracleStats, FoldSet, MapThenFoldSet
<1> HIDE DEF count, zero
<1>7. Eq(G)
  <2> HIDE DEF H, Eq
  <2> QED
    BY <1>5, Zenon
<1> HIDE DEF H, G
<1>8. G[{}] = H[{}]
  BY <1>3, <1>7
<1>9. \A s \in SUBSET W : \A x \in s : x = Choice(s) /\ G[s \ {x}] = H[s \ {x}] => G[s] = H[s]
  <2> SUFFICES ASSUME NEW s \in SUBSET W, NEW x \in s, x = Choice(s), G[s \ {x}] = H[s \ {x}]
               PROVE  G[s] = H[s]
    OBVIOUS
  <2>1. G[s] = count(x, G[s \ {x}])
    BY <1>7, Zenon DEF Choice
  <2>2. QED
    BY <1>4, <2>1
<1>10. G[W] = H[W]
  <2> HIDE DEF W
  <2> QED
    BY <1>1, <1>8, <1>9, FoldsAgree
<1>11. H[W] = stats(W) /\ W = Of(q, w)
  BY DEF H, Of
<1>12. QED
  BY <1>6, <1>10, <1>11, Zenon

LEMMA WorkflowStatsHolds == ASSUME NEW q, Asking(q) PROVE CheckWorkflowStats(q)
<1>1. PICK got : got = WorkflowStats(q, Everything, NoTaskFilter)
  OBVIOUS
<1>2. got = {StatsRow(q, w) : w \in Portfolio}
  BY <1>1, StatsForm
<1>3. Cardinality(got) = Cardinality(Portfolio)
  <2>1. PICK f : f = [w \in Portfolio |-> StatsRow(q, w)]
    OBVIOUS
  <2>2. f \in [Portfolio -> got] /\ \A t \in got : \E w \in Portfolio : t = f[w]
    BY <1>2, <2>1
  <2>3. \A v, w \in Portfolio : f[v] = f[w] => v = w
    <3>1. \A w \in Portfolio : f[w].workflow = w.id
      BY <2>1 DEF StatsRow
    <3>2. QED
      BY <3>1, ReportsAssumption
  <2>4. QED
    BY <2>2, <2>3, ImageSize, ReportsAssumption
<1>4. ASSUME NEW w \in Portfolio
      PROVE  LET want == OracleStats(q, w) IN
             [workflow |-> w.id, total |-> want.total, completed |-> want.completed,
              percent |-> OraclePercent(want), nextDue |-> want.nextDue] \in got
  <2>1. PICK want : want = OracleStats(q, w)
    OBVIOUS
  <2>2. want = [total |-> Cardinality(Of(q, w)), completed |-> Done(Of(q, w)),
                nextDue |-> NextDue(Of(q, w))]
    BY <2>1, OracleStatsForm
  <2>3. want.total = Cardinality(Of(q, w)) /\ want.completed = Done(Of(q, w))
        /\ want.nextDue = NextDue(Of(q, w))
    BY <2>2
  <2>4. IsFiniteSet(Of(q, w))
    BY TableForm DEF Of
  <2>5. Done(Of(q, w)) \in Nat /\ Cardinality(Of(q, w)) \in Nat
        /\ Done(Of(q, w)) <= Cardinality(Of(q, w))
    BY <2>4, DoneOfAll DEF Done
  <2>6. OraclePercent(want) = RoundedPercent(Done(Of(q, w)), Cardinality(Of(q, w)))
    BY <2>3, <2>5, SamePercent
  <2>7. [workflow |-> w.id, total |-> want.total, completed |-> want.completed,
         percent |-> OraclePercent(want), nextDue |-> want.nextDue] = StatsRow(q, w)
    BY <2>3, <2>6, Zenon DEF StatsRow
  <2>8. QED
    BY <1>2, <2>1, <2>7, Zenon
<1>5. QED
  BY <1>1, <1>3, <1>4, Zenon DEF CheckWorkflowStats

(***************************************************************************)
(* Lists and pages.                                                        *)
(***************************************************************************)
\* A first page that has room for everything.
LEMMA WholePage ==
    ASSUME NEW S, NEW s \in Seq(S), NEW limit \in Nat, Len(s) <= limit
    PROVE  Page(s, limit, 0) = s
<1>1. Least(0 + limit, Len(s)) = Len(s)
  BY DEF Least
<1>2. SubSeq(s, 1, Len(s)) = s
  OBVIOUS
<1>3. QED
  BY <1>1, <1>2 DEF Page

InOrder(S, K) == Ordered(S, LAMBDA x : K[x])

LEMMA InOrderForm ==
    ASSUME NEW S, IsFiniteSet(S), NEW K, Keys(S, K)
    PROVE  Sorted(ByKey(S, K), S, InOrder(S, K))
  BY OrderedForm, Zenon DEF InOrder

\* A list in order, of no more than a page.
LEMMA ListedWhole ==
    ASSUME NEW S, IsFiniteSet(S), NEW K, Keys(S, K), NEW o, o = InOrder(S, K),
           NEW limit \in Nat, Cardinality(S) <= limit
    PROVE  /\ Page(o, limit, 0) = o /\ Sorted(ByKey(S, K), S, o)
           /\ o \in Seq(S) /\ Len(o) = Cardinality(S) /\ ToSet(o) = S
<1>1. Sorted(ByKey(S, K), S, o) /\ Orders(ByKey(S, K), S)
  BY InOrderForm, KeysOrder
<1>2. /\ o \in Seq(S) /\ Len(o) = Cardinality(S)
      /\ \A i \in DOMAIN o : o[i] \in S
      /\ \A x \in S : \E i \in DOMAIN o : o[i] = x
  BY <1>1, SortedForm
<1>3. ToSet(o) = S
  BY <1>2 DEF ToSet
<1>4. QED
  BY <1>1, <1>2, <1>3, WholePage

(***************************************************************************)
(* The dashboard.                                                          *)
(***************************************************************************)
Feed(S) == Ordered(S, LAMBDA x : <<x.due, x.id>>)

LEMMA FeedWhole ==
    ASSUME NEW q, Asking(q), NEW S \in SUBSET q.work
    PROVE  Page(Feed(S), ReportLimit, 0) = Feed(S) /\ ToSet(Feed(S)) = S /\ Feed(S) \in Seq(S)
<1>1. PICK K : K = [x \in S |-> <<x.due, x.id>>]
  OBVIOUS
<1>2. \A x \in S : x.due \in Int /\ x.id \in Int
  BY RowForm
<1>3. IsFiniteSet(S) /\ Cardinality(S) <= 5000 /\ Cardinality(S) \in Nat
  BY TableForm
<1>4. Keys(S, K)
  <2>1. K \in [S -> Seq(Int)]
    BY <1>1, <1>2
  <2>2. ASSUME NEW a \in S, NEW b \in S, K[a] = K[b] PROVE a = b
    <3>1. a.id = b.id
      BY <1>1, <2>2
    <3>2. QED
      BY <3>1, TableForm
  <2>3. QED
    BY <2>1, <2>2 DEF Keys
<1>5. Feed(S) = InOrder(S, K)
  <2>1. \A s \in [1 .. Cardinality(S) -> S] :
            (\A i, j \in DOMAIN s : i < j => Precedes(K[s[i]], K[s[j]]))
            <=> (\A i, j \in DOMAIN s : i < j => Precedes(<<s[i].due, s[i].id>>, <<s[j].due, s[j].id>>))
    BY <1>1
  <2>2. QED
    BY <2>1, Zenon DEF Ordered, Feed, InOrder
<1>6. 5000 \in Nat
  OBVIOUS
<1>7. QED
  BY <1>3, <1>4, <1>5, <1>6, ListedWhole DEF ReportLimit

\* The sum of a number over rows.
Total(R, n) == MapThenSumSet(LAMBDA r : r[n], R)

LEMMA SumField ==
    ASSUME NEW n, NEW R, IsFiniteSet(R), NEW g, \A r \in R : g[r] = r[n], NEW F, Adds(R, g, F)
    PROVE  Total(R, n) = F[R]
<1>1. \A I : [s \in SUBSET R |-> IF s = {} THEN 0
                  ELSE g[CHOOSE x \in s : TRUE] + I[s \ {CHOOSE x \in s : TRUE}]]
           = [s \in SUBSET R |-> IF s = {} THEN 0
                  ELSE (CHOOSE x \in s : TRUE)[n] + I[s \ {CHOOSE x \in s : TRUE}]]
  <2> TAKE I
  <2>1. \A s \in SUBSET R : s # {} => g[CHOOSE x \in s : TRUE] = (CHOOSE x \in s : TRUE)[n]
    <3> TAKE s \in SUBSET R
    <3>1. s # {} => (CHOOSE x \in s : TRUE) \in R
      OBVIOUS
    <3>2. QED
      BY <3>1, Zenon
  <2>2. \A s \in SUBSET R :
            (IF s = {} THEN 0 ELSE g[CHOOSE x \in s : TRUE] + I[s \ {CHOOSE x \in s : TRUE}])
            = (IF s = {} THEN 0 ELSE (CHOOSE x \in s : TRUE)[n] + I[s \ {CHOOSE x \in s : TRUE}])
    <3> TAKE s \in SUBSET R
    <3>1. CASE s = {}
      BY <3>1, Zenon
    <3>2. CASE s # {}
      <4>1. PICK c : c = CHOOSE x \in s : TRUE
        OBVIOUS
      <4>2. g[c] = c[n]
        BY <2>1, <3>2, <4>1, Zenon
      <4>3. QED
        BY <3>2, <4>1, <4>2, Zenon
    <3>3. QED
      BY <3>1, <3>2
  <2>3. QED
    BY <2>2, Zenon
<1>2. \A I : I = [s \in SUBSET R |-> IF s = {} THEN 0
                  ELSE g[CHOOSE x \in s : TRUE] + I[s \ {CHOOSE x \in s : TRUE}]]
           <=> I = [s \in SUBSET R |-> IF s = {} THEN 0
                  ELSE (CHOOSE x \in s : TRUE)[n] + I[s \ {CHOOSE x \in s : TRUE}]]
  BY <1>1, SMTT(60)
<1>3. MapThenSumSet(LAMBDA x : g[x], R)
          = (CHOOSE I : I = [s \in SUBSET R |-> IF s = {} THEN 0
                  ELSE g[CHOOSE x \in s : TRUE] + I[s \ {CHOOSE x \in s : TRUE}]])[R]
  BY Zenon DEF MapThenSumSet, MapThenFoldSet
<1>4. MapThenSumSet(LAMBDA r : r[n], R)
          = (CHOOSE I : I = [s \in SUBSET R |-> IF s = {} THEN 0
                  ELSE (CHOOSE x \in s : TRUE)[n] + I[s \ {CHOOSE x \in s : TRUE}]])[R]
  BY Zenon DEF MapThenSumSet, MapThenFoldSet
<1>5. (CHOOSE I : I = [s \in SUBSET R |-> IF s = {} THEN 0
                  ELSE g[CHOOSE x \in s : TRUE] + I[s \ {CHOOSE x \in s : TRUE}]])
        = (CHOOSE I : I = [s \in SUBSET R |-> IF s = {} THEN 0
                  ELSE (CHOOSE x \in s : TRUE)[n] + I[s \ {CHOOSE x \in s : TRUE}]])
  BY <1>2, Zenon
<1>6. MapThenSumSet(LAMBDA x : g[x], R) = F[R]
  BY SumIs, Zenon
<1>7. QED
  BY <1>3, <1>4, <1>5, <1>6, Zenon DEF Total

\* What the parts of a table number.
Sizes(V, A, of) == [U \in SUBSET V |-> Cardinality(Within(A, of, U))]

LEMMA PartsAdd ==
    ASSUME NEW V, IsFiniteSet(V), NEW A, IsFiniteSet(A), NEW of \in [A -> V],
           NEW f, \A v \in V : f[v] = Cardinality(Within(A, of, {v}))
    PROVE  Adds(V, f, Sizes(V, A, of))
<1> DEFINE at(U) == {x \in A : of[x] \in U}
<1>1. PICK F : F = [U \in SUBSET V |-> Cardinality(at(U))]
  OBVIOUS
<1>2. \A U \in SUBSET V : IsFiniteSet(at(U)) /\ Cardinality(at(U)) \in Nat
  <2> TAKE U \in SUBSET V
  <2>1. at(U) \subseteq A
    OBVIOUS
  <2>2. IsFiniteSet(at(U))
    BY <2>1, FS_Subset
  <2>3. QED
    BY <2>2, FS_CardinalityType
<1>3. F \in [SUBSET V -> Int]
  <2>1. \A U \in SUBSET V : Cardinality(at(U)) \in Int
    BY <1>2
  <2> HIDE DEF at
  <2>2. QED
    BY <1>1, <2>1
<1>4. F[{}] = 0
  <2>1. at({}) = {}
    OBVIOUS
  <2>2. QED
    BY <1>1, <2>1, FS_EmptySet
<1>5. ASSUME NEW U \in SUBSET V, NEW v \in U PROVE F[U] = f[v] + F[U \ {v}]
  <2>1. PICK B, C : B = at(U \ {v}) /\ C = {x \in A : of[x] = v}
    OBVIOUS
  <2>2. at(U) = B \cup C /\ B \cap C = {} /\ IsFiniteSet(B) /\ IsFiniteSet(C)
    <3>1. at(U) = B \cup C /\ B \cap C = {} /\ B \subseteq A /\ C \subseteq A
      BY <2>1
    <3>2. QED
      BY <3>1, FS_Subset
  <2>3. Cardinality(at(U)) = Cardinality(B) + Cardinality(C) - 0
    BY <2>2, FS_Union, FS_EmptySet
  <2>4. Cardinality(B) \in Nat /\ Cardinality(C) \in Nat
    BY <2>2, FS_CardinalityType
  <2>5. F[U] = Cardinality(at(U)) /\ F[U \ {v}] = Cardinality(B) /\ f[v] = Cardinality(C)
    <3>1. C = Within(A, of, {v})
      BY <2>1 DEF Within
    <3>2. QED
      BY <1>1, <2>1, <3>1
  <2>6. QED
    BY <2>3, <2>4, <2>5
<1>6. Adds(V, f, F)
  BY <1>3, <1>4, <1>5 DEF Adds
<1>7. F = Sizes(V, A, of)
  BY <1>1, Zenon DEF Sizes, Within
<1>8. QED
  BY <1>6, <1>7

\* The rows of workflow-stats add up to the work.
LEMMA StatsAddUp ==
    ASSUME NEW q, Asking(q), NEW n \in {"total", "completed"}, NEW A \in SUBSET q.work,
           \A w \in Portfolio : StatsRow(q, w)[n] = Cardinality({x \in A : x.wf = w})
    PROVE  Total({StatsRow(q, w) : w \in Portfolio}, n) = Cardinality(A)
<1>1. PICK R, rho : R = {StatsRow(q, w) : w \in Portfolio} /\ rho = [w \in Portfolio |-> StatsRow(q, w)]
  OBVIOUS
<1>2. IsFiniteSet(A) /\ IsFiniteSet(Portfolio)
  BY TableForm, ReportsAssumption
<1>3. PICK of : of = [x \in A |-> x.wf]
  OBVIOUS
<1>4. of \in [A -> Portfolio] /\ \A x \in A : of[x] = x.wf
  BY <1>3, RowForm
<1>5. PICK f, F : f = [w \in Portfolio |-> Cardinality(Within(A, of, {w}))]
                  /\ F = Sizes(Portfolio, A, of)
  OBVIOUS
<1>6. Adds(Portfolio, f, F)
  <2>1. \A w \in Portfolio : f[w] = Cardinality(Within(A, of, {w}))
    BY <1>5
  <2>2. QED
    BY <1>2, <1>4, <1>5, <2>1, PartsAdd
<1>7. /\ rho \in [Portfolio -> R] /\ \A r \in R : \E w \in Portfolio : r = rho[w]
      /\ \A v, w \in Portfolio : rho[v] = rho[w] => v = w
  <2>1. \A w \in Portfolio : rho[w].workflow = w.id
    BY <1>1 DEF StatsRow
  <2>2. QED
    BY <1>1, <2>1, ReportsAssumption
<1>8. PICK g : g = [r \in R |-> r[n]]
  OBVIOUS
<1>9. \A w \in Portfolio : g[rho[w]] = f[w]
  <2> TAKE w \in Portfolio
  <2>1. Within(A, of, {w}) = {x \in A : x.wf = w}
    BY <1>4 DEF Within
  <2>2. QED
    BY <1>1, <1>5, <1>8, <2>1
<1>10. PICK T : T = Renamed(Portfolio, F, R, rho)
  OBVIOUS
<1>11. Adds(R, g, T)
  BY <1>6, <1>7, <1>9, <1>10, SumRenamed
<1>12. IsFiniteSet(R)
  BY <1>2, <1>7, ImageSize
<1>13. T[R] = Cardinality(A)
  <2>1. Within(Portfolio, rho, R) = Portfolio /\ Within(A, of, Portfolio) = A
    BY <1>4, <1>7 DEF Within
  <2>2. T[R] = F[Portfolio]
    BY <1>10, <2>1 DEF Renamed
  <2>3. F[Portfolio] = Cardinality(Within(A, of, Portfolio))
    BY <1>5 DEF Sizes
  <2>4. QED
    BY <2>1, <2>2, <2>3
<1>14. Total(R, n) = T[R]
  <2>1. \A x \in R : g[x] = x[n]
    BY <1>8
  <2>2. QED
    BY <1>11, <1>12, <2>1, SumField
<1>15. QED
  BY <1>1, <1>13, <1>14

LEMMA DashboardHolds == ASSUME NEW q, Asking(q) PROVE CheckDashboard(q)
<1>1. PICK listed : listed = ListTaskInstances(q, Everything, NoTaskFilter, ReportLimit, 0)
  OBVIOUS
<1>3. listed.rows = Page(Feed(q.work), ReportLimit, 0)
  <2>1. listed = [rows |-> Page(Feed(q.work), ReportLimit, 0), total |-> Cardinality(q.work)]
    BY <1>1, AllWork, Zenon DEF ListTaskInstances, Feed
  <2>2. QED
    BY <2>1
<1>4. ToSet(listed.rows) = q.work
  BY <1>3, FeedWhole
<1>5. [q EXCEPT !.work = ToSet(listed.rows)] = q
  <2>1. PICK c \in Clocks, W \in TaskSets :
            q = [about |-> "reports", zone |-> c.zone, now |-> c.now, work |-> W]
    BY DEF Asking
  <2>2. q.work = W
    BY <2>1
  <2>3. [q EXCEPT !.work = W] = q
    BY <2>1
  <2>4. QED
    BY <1>4, <2>2, <2>3
<1>6. PICK stats : stats = WorkflowStats(q, Everything, NoTaskFilter)
  OBVIOUS
<1>7. stats = {StatsRow(q, w) : w \in Portfolio}
  BY <1>6, StatsForm
<1>8. MapThenSumSet(LAMBDA s : s["total"], stats) = Cardinality(q.work)
  <2>1. \A w \in Portfolio : StatsRow(q, w)["total"] = Cardinality({x \in q.work : x.wf = w})
    BY DEF StatsRow, Of
  <2>2. Total({StatsRow(q, w) : w \in Portfolio}, "total") = Cardinality(q.work)
    BY <2>1, StatsAddUp
  <2>3. QED
    BY <1>7, <2>2, Zenon DEF Total
<1>9. MapThenSumSet(LAMBDA s : s["completed"], stats)
          = Cardinality({x \in q.work : x.status = "completed"})
  <2>1. PICK A : A = {x \in q.work : x.status = "completed"}
    OBVIOUS
  <2>2. \A w \in Portfolio : {x \in {y \in q.work : y.wf = w} : x.status = "completed"}
                                 = {x \in A : x.wf = w}
    BY <2>1
  <2>3. \A w \in Portfolio : StatsRow(q, w)["completed"] = Cardinality({x \in A : x.wf = w})
    BY <2>2 DEF StatsRow, Of, Done
  <2>4. A \in SUBSET q.work
    BY <2>1
  <2>5. Total({StatsRow(q, w) : w \in Portfolio}, "completed") = Cardinality(A)
    BY <2>3, <2>4, StatsAddUp
  <2>6. QED
    BY <1>7, <2>1, <2>5, Zenon DEF Total
<1>10. PICK c, t : c = Cardinality({x \in q.work : x.status = "completed"}) /\ t = Cardinality(q.work)
  OBVIOUS
<1>11. c \in Nat /\ t \in Nat /\ c <= t
  BY <1>10, DoneOfAll, TableForm
<1>12. OraclePercent([total |-> t, completed |-> c]) = RoundedPercent(c, t)
  <2>1. PICK s : s = [total |-> t, completed |-> c]
    OBVIOUS
  <2>2. s.total = t /\ s.completed = c
    BY <2>1
  <2>3. OraclePercent(s) = RoundedPercent(c, t)
    BY <1>11, <2>2, SamePercent
  <2>4. QED
    BY <2>1, <2>3
<1>13. OraclePercent(OracleDashboard(q)) = RoundedPercent(c, t)
  <2>1. PICK s : s = OracleDashboard(q)
    OBVIOUS
  <2>2. s.total = Shown(q, q.work, "total") /\ s.completed = Shown(q, q.work, "completed")
    BY <2>1, DashboardForm DEF Dash
  <2>3. {x \in q.work : Shows(q, x, "total")} = q.work
        /\ {x \in q.work : Shows(q, x, "completed")} = {x \in q.work : x.status = "completed"}
    BY DEF Shows
  <2>4. s.total = t /\ s.completed = c
    BY <1>10, <2>2, <2>3 DEF Shown
  <2>5. OraclePercent(s) = RoundedPercent(c, t)
    BY <1>11, <2>4, SamePercent
  <2>6. QED
    BY <2>1, <2>5
<1>14. QED
  BY <1>1, <1>5, <1>6, <1>8, <1>9, <1>10, <1>12, <1>13, Zenon DEF CheckDashboard

(***************************************************************************)
(* compliance-status.                                                      *)
(***************************************************************************)
\* What differs only in its last place is in no other order without it.
LEMMA LastPlace ==
    ASSUME NEW s \in Seq(Int), NEW t \in Seq(Int), Len(s) = Len(t), NEW u \in Int, NEW v \in Int,
           Precedes(s \o <<u>>, t \o <<v>>)
    PROVE  ~Precedes(t, s)
<1>1. PICK n \in Nat : n = Len(s) /\ n = Len(t)
  OBVIOUS
<1>2. PICK a, b : a = s \o <<u>> /\ b = t \o <<v>>
  OBVIOUS
<1>3. /\ a \in Seq(Int) /\ b \in Seq(Int) /\ Len(a) = n + 1 /\ Len(b) = n + 1
      /\ \A i \in 1 .. n : a[i] = s[i] /\ b[i] = t[i]
  BY <1>1, <1>2
<1>4. PICK i \in Nat : At(a, b, i)
  BY <1>2, <1>3, PrecedesForm
<1>5. i \in 1 .. n + 1 /\ a[i] < b[i] /\ \A j \in 1 .. i - 1 : a[j] = b[j]
  BY <1>1, <1>3, <1>4 DEF At
<1>6. CASE i = n + 1
  <2>1. \A j \in 1 .. n : s[j] = t[j]
    BY <1>3, <1>5, <1>6
  <2>2. s = t
    BY <1>1, <2>1, SeqEqual
  <2>3. QED
    BY <2>2, TextOrder
<1>7. CASE i # n + 1
  <2>1. i \in 1 .. n /\ s[i] < t[i] /\ \A j \in 1 .. i - 1 : s[j] = t[j]
    BY <1>3, <1>5, <1>7
  <2>2. At(s, t, i)
    BY <1>1, <2>1 DEF At
  <2>3. Precedes(s, t)
    BY <2>2, PrecedesForm
  <2>4. QED
    BY <2>3, TextOrder
<1>8. QED
  BY <1>6, <1>7

\* Parts of a key.
LEMMA TextsJoin ==
    ASSUME NEW a \in Int, NEW b \in Int, NEW c \in Int, NEW d \in Int
    PROVE  /\ <<a>> \o <<b>> = <<a, b>> /\ <<a, b>> \o <<c>> = <<a, b, c>>
           /\ <<a, b, c>> \o <<d>> = <<a, b, c, d>>
<1>1. ASSUME NEW s \in Seq(Int), NEW t \in Seq(Int), NEW u \in Seq(Int), Len(u) = Len(s) + Len(t),
             \A i \in 1 .. Len(u) : u[i] = IF i <= Len(s) THEN s[i] ELSE t[i - Len(s)]
      PROVE  s \o t = u
  <2>1. s \o t \in Seq(Int) /\ Len(s \o t) = Len(u) /\ \A i \in 1 .. Len(u) : (s \o t)[i] = u[i]
    BY <1>1
  <2>2. QED
    BY <2>1, SeqEqual
<1>2. <<a>> \o <<b>> = <<a, b>>
  <2>1. PICK s, t, u : s = <<a>> /\ t = <<b>> /\ u = <<a, b>>
    OBVIOUS
  <2>2. /\ s \in Seq(Int) /\ t \in Seq(Int) /\ u \in Seq(Int) /\ Len(s) = 1 /\ Len(t) = 1 /\ Len(u) = 2
        /\ s[1] = a /\ t[1] = b /\ u[1] = a /\ u[2] = b
    BY <2>1
  <2>3. \A i \in 1 .. Len(u) : u[i] = IF i <= Len(s) THEN s[i] ELSE t[i - Len(s)]
    BY ONLY <2>2
  <2>4. Len(u) = Len(s) + Len(t)
    BY ONLY <2>2
  <2>5. s \o t = u
    BY <1>1, <2>2, <2>3, <2>4, Zenon
  <2>6. QED
    BY <2>1, <2>5
<1>3. <<a, b>> \o <<c>> = <<a, b, c>>
  <2>1. PICK s, t, u : s = <<a, b>> /\ t = <<c>> /\ u = <<a, b, c>>
    OBVIOUS
  <2>2. /\ s \in Seq(Int) /\ t \in Seq(Int) /\ u \in Seq(Int) /\ Len(s) = 2 /\ Len(t) = 1 /\ Len(u) = 3
        /\ s[1] = a /\ s[2] = b /\ t[1] = c /\ u[1] = a /\ u[2] = b /\ u[3] = c
    BY <2>1
  <2>3. \A i \in 1 .. Len(u) : u[i] = IF i <= Len(s) THEN s[i] ELSE t[i - Len(s)]
    BY ONLY <2>2
  <2>4. Len(u) = Len(s) + Len(t)
    BY ONLY <2>2
  <2>5. s \o t = u
    BY <1>1, <2>2, <2>3, <2>4, Zenon
  <2>6. QED
    BY <2>1, <2>5
<1>4. <<a, b, c>> \o <<d>> = <<a, b, c, d>>
  <2>1. PICK s, t, u : s = <<a, b, c>> /\ t = <<d>> /\ u = <<a, b, c, d>>
    OBVIOUS
  <2>2. /\ s \in Seq(Int) /\ t \in Seq(Int) /\ u \in Seq(Int) /\ Len(s) = 3 /\ Len(t) = 1 /\ Len(u) = 4
        /\ s[1] = a /\ s[2] = b /\ s[3] = c /\ t[1] = d /\ u[1] = a /\ u[2] = b /\ u[3] = c /\ u[4] = d
    BY <2>1
  <2>3. \A i \in 1 .. Len(u) : u[i] = IF i <= Len(s) THEN s[i] ELSE t[i - Len(s)]
    BY ONLY <2>2
  <2>4. Len(u) = Len(s) + Len(t)
    BY ONLY <2>2
  <2>5. s \o t = u
    BY <1>1, <2>2, <2>3, <2>4, Zenon
  <2>6. QED
    BY <2>1, <2>5
<1>5. QED
  BY <1>2, <1>3, <1>4, Zenon

Classified(q, f) == {ComplianceRow(q, x) : x \in ComplianceFrom(q, Everything, f)}
RowKey(r) == ComplianceKey(r) \o <<r.id>>
ByName(S) == Ordered(S, LAMBDA r : ComplianceKey(r) \o <<r.id>>)
\* What a list sorted by names needs of its rows.
Named(S) ==
    /\ \A r \in S : \E a, b \in Int : r.entity = <<a>> /\ r.obligation = <<b>>
    /\ \A r \in S : r.period \in Int /\ r.id \in Int
    /\ \A r, s \in S : r.id = s.id => r = s

LEMMA KeyOfRow ==
    ASSUME NEW S, Named(S), NEW r \in S
    PROVE  \E a, b \in Int : /\ ComplianceKey(r) = <<a, b, r.period>>
                             /\ RowKey(r) = <<a, b, r.period, r.id>>
<1>1. PICK a \in Int, b \in Int : r.entity = <<a>> /\ r.obligation = <<b>>
  BY DEF Named
<1>2. PICK p \in Int, i \in Int : p = r.period /\ i = r.id
  BY DEF Named
<1>3. ComplianceKey(r) = <<a>> \o <<b>> \o <<p>>
  BY <1>1, <1>2, Zenon DEF ComplianceKey
<1>4. <<a>> \o <<b>> \o <<p>> = <<a, b, p>> /\ <<a, b, p>> \o <<i>> = <<a, b, p, i>>
  <2>1. /\ <<a>> \o <<b>> = <<a, b>> /\ <<a, b>> \o <<p>> = <<a, b, p>>
        /\ <<a, b, p>> \o <<i>> = <<a, b, p, i>>
    BY TextsJoin
  <2>2. QED
    BY <2>1, Zenon
<1>5. QED
  BY <1>2, <1>3, <1>4 DEF RowKey

LEMMA ByNameForm ==
    ASSUME NEW S, IsFiniteSet(S), Named(S)
    PROVE  /\ ByName(S) \in Seq(S) /\ Len(ByName(S)) = Cardinality(S) /\ ToSet(ByName(S)) = S
           /\ \A i, j \in 1 .. Cardinality(S) : i < j => Precedes(RowKey(ByName(S)[i]), RowKey(ByName(S)[j]))
           /\ \A limit \in Nat : Cardinality(S) <= limit => Page(ByName(S), limit, 0) = ByName(S)
           /\ \A i, j \in 1 .. Cardinality(S) : ByName(S)[i] = ByName(S)[j] => i = j
<1>1. PICK K : K = [r \in S |-> RowKey(r)]
  OBVIOUS
<1>2. Keys(S, K)
  <2>1. \A r \in S : RowKey(r) \in Seq(Int) /\ RowKey(r)[4] = r.id
    <3> TAKE r \in S
    <3>1. PICK a \in Int, b \in Int : RowKey(r) = <<a, b, r.period, r.id>>
      BY KeyOfRow
    <3>2. r.period \in Int /\ r.id \in Int
      BY DEF Named
    <3>3. QED
      BY <3>1, <3>2
  <2>2. \A a, b \in S : RowKey(a) = RowKey(b) => a = b
    BY <2>1 DEF Named
  <2>3. QED
    BY <1>1, <2>1, <2>2 DEF Keys
<1>3. ByName(S) = InOrder(S, K)
  <2>1. \A s \in [1 .. Cardinality(S) -> S] :
            (\A i, j \in DOMAIN s : i < j => Precedes(K[s[i]], K[s[j]]))
            <=> (\A i, j \in DOMAIN s : i < j => Precedes(RowKey(s[i]), RowKey(s[j])))
    BY <1>1
  <2>2. QED
    BY <2>1, Zenon DEF Ordered, ByName, InOrder, RowKey
<1>4. Cardinality(S) \in Nat
  BY FS_CardinalityType
<1>5. \A limit \in Nat : Cardinality(S) <= limit =>
          /\ Page(ByName(S), limit, 0) = ByName(S) /\ Sorted(ByKey(S, K), S, ByName(S))
          /\ ByName(S) \in Seq(S) /\ Len(ByName(S)) = Cardinality(S) /\ ToSet(ByName(S)) = S
  BY <1>2, <1>3, ListedWhole
<1>6. /\ Sorted(ByKey(S, K), S, ByName(S))
      /\ ByName(S) \in Seq(S) /\ Len(ByName(S)) = Cardinality(S) /\ ToSet(ByName(S)) = S
  <2>1. PICK limit \in Nat : limit = Cardinality(S)
    BY <1>4
  <2>2. Cardinality(S) <= limit
    BY <2>1
  <2>3. QED
    BY <1>5, <2>2
<1>7. Orders(ByKey(S, K), S)
  BY <1>2, KeysOrder
<1>8. \A i, j \in 1 .. Cardinality(S) : ByName(S)[i] = ByName(S)[j] => i = j
  BY <1>6, <1>7, SortedForm
<1>9. \A i, j \in 1 .. Cardinality(S) : i < j => Precedes(RowKey(ByName(S)[i]), RowKey(ByName(S)[j]))
  <2>1. \A a, b \in S : <<a, b>> \in ByKey(S, K) => Precedes(RowKey(a), RowKey(b))
    BY <1>1 DEF ByKey
  <2>2. /\ \A i \in 1 .. Cardinality(S) : ByName(S)[i] \in S
        /\ \A i, j \in 1 .. Cardinality(S) : i < j => <<ByName(S)[i], ByName(S)[j]>> \in ByKey(S, K)
    BY <1>6 DEF Sorted
  <2>3. QED
    BY <2>1, <2>2
<1>10. QED
  BY <1>5, <1>6, <1>8, <1>9

LEMMA ClassifiedForm ==
    ASSUME NEW q, Asking(q), NEW f
    PROVE  /\ IsFiniteSet(Classified(q, f)) /\ Cardinality(Classified(q, f)) \in Nat
           /\ Cardinality(Classified(q, f)) <= Cardinality(q.work)
           /\ \A S \in SUBSET Classified(q, f) :
                 /\ IsFiniteSet(S) /\ Named(S) /\ Cardinality(S) \in Nat /\ Cardinality(S) <= 5000
           /\ OracleCompliance(q, f).rows = Classified(q, f)
<1>1. PICK S : S = ComplianceFrom(q, Everything, f)
  OBVIOUS
<1>2. S \in SUBSET q.work
  BY <1>1 DEF ComplianceFrom
<1>3. IsFiniteSet(S) /\ Cardinality(S) \in Nat /\ Cardinality(S) <= 5000
  BY <1>2, TableForm
<1>4. PICK T : T = Classified(q, f)
  OBVIOUS
<1>5. PICK rho : rho = [x \in S |-> ComplianceRow(q, x)]
  OBVIOUS
<1>6. rho \in [S -> T] /\ \A t \in T : \E x \in S : t = rho[x]
  BY <1>1, <1>4, <1>5 DEF Classified
<1>7. IsFiniteSet(T) /\ Cardinality(T) \in Nat /\ Cardinality(T) <= Cardinality(S)
  BY <1>3, <1>6, ImageSize
<1>8. Cardinality(S) <= Cardinality(q.work) /\ Cardinality(q.work) \in Nat
  BY <1>2, TableForm, FS_Subset, FS_CardinalityType
<1>9. Cardinality(T) <= Cardinality(q.work) /\ Cardinality(T) <= 5000
  <2>1. PICK a \in Nat, b \in Nat, c \in Nat :
            a = Cardinality(T) /\ b = Cardinality(S) /\ c = Cardinality(q.work)
    BY <1>3, <1>7, <1>8
  <2>2. a <= b /\ b <= c /\ b <= 5000
    BY <1>3, <1>7, <1>8, <2>1
  <2>3. QED
    BY <2>1, <2>2
<1>10. Named(T)
  <2>1. ASSUME NEW r \in T
        PROVE  /\ \E a, b \in Int : r.entity = <<a>> /\ r.obligation = <<b>>
               /\ r.period \in Int /\ r.id \in Int
               /\ \E x \in q.work : r = ComplianceRow(q, x) /\ r.id = x.id
    <3>1. PICK x \in S : r = ComplianceRow(q, x)
      BY <1>5, <1>6
    <3>2. x \in q.work /\ x.wf \in Portfolio /\ x.id \in Int /\ x.code \in Int
      BY <1>2, RowForm
    <3>3. /\ r.entity = EntityName(x.wf) /\ r.obligation = ObligationName(x.wf)
          /\ r.period = x.code /\ r.id = x.id
      BY <3>1 DEF ComplianceRow
    <3>4. PICK w \in Portfolio : w = x.wf
      BY <3>2
    <3>5. \E a \in Int : EntityName(w) = <<a>>
      <4>1. CASE w.entity = None
        BY <4>1 DEF EntityName, Unknown
      <4>2. CASE w.entity # None
        <5>1. w.entity.name \in Int
          BY <4>2, WorkflowForm
        <5>2. QED
          BY <4>2, <5>1 DEF EntityName
      <4>3. QED
        BY <4>1, <4>2
    <3>6. \E b \in Int : ObligationName(w) = <<b>>
      <4>1. CASE w.obligation = None
        BY <4>1 DEF ObligationName, Unknown
      <4>2. CASE w.obligation # None
        <5>1. w.obligation.name \in Int
          BY <4>2, WorkflowForm
        <5>2. QED
          BY <4>2, <5>1 DEF ObligationName
      <4>3. QED
        BY <4>1, <4>2
    <3>7. QED
      BY <3>1, <3>2, <3>3, <3>4, <3>5, <3>6
  <2>2. \A r, s \in T : r.id = s.id => r = s
    BY <2>1, TableForm
  <2>3. QED
    BY <2>1, <2>2 DEF Named
<1>11. ASSUME NEW U \in SUBSET T
       PROVE  IsFiniteSet(U) /\ Named(U) /\ Cardinality(U) \in Nat /\ Cardinality(U) <= 5000
  <2>1. IsFiniteSet(U) /\ Cardinality(U) <= Cardinality(T) /\ Cardinality(U) \in Nat
    BY <1>7, FS_Subset, FS_CardinalityType
  <2>2. Named(U)
    BY <1>10 DEF Named
  <2>3. Cardinality(U) <= 5000
    <3>1. PICK a \in Nat, b \in Nat : a = Cardinality(U) /\ b = Cardinality(T)
      BY <1>7, <2>1
    <3>2. a <= b /\ b <= 5000
      BY <1>9, <2>1, <3>1
    <3>3. QED
      BY <3>1, <3>2
  <2>4. QED
    BY <2>1, <2>2, <2>3
<1>12. OracleCompliance(q, f).rows = T
  <2>1. OracleCompliance(q, f).rows = {OracleComplianceRow(q, x) : x \in OracleParticipating(q, f)}
    BY DEF OracleCompliance
  <2>2. OracleParticipating(q, f) = S
    BY <1>1, SameParticipants
  <2>3. \A x \in S : OracleComplianceRow(q, x) = ComplianceRow(q, x)
    BY <1>2, SameComplianceRow
  <2>4. {OracleComplianceRow(q, x) : x \in S} = {ComplianceRow(q, x) : x \in S}
    BY <2>3
  <2>5. QED
    BY <1>1, <1>4, <2>1, <2>2, <2>4, Zenon DEF Classified
<1>13. QED
  BY <1>4, <1>7, <1>9, <1>11, <1>12

OfClass(s, class) == Cardinality({r \in s : r.class = class})
ClassCounts(s) ==
    [total |-> Cardinality(s), onTime |-> OfClass(s, "on_time"), late |-> OfClass(s, "late"),
     missed |-> OfClass(s, "missed"), notDue |-> OfClass(s, "not_due")]

\* The summary of the oracle, kept row by row, counts each class.
LEMMA ClassesCounted ==
    ASSUME NEW q, NEW f, NEW R, R = OracleCompliance(q, f).rows, IsFiniteSet(R)
    PROVE  OracleCompliance(q, f).summary = ClassCounts(R)
<1> DEFINE one(class) == [total |-> 1, onTime |-> One(class = "on_time"), late |-> One(class = "late"),
                          missed |-> One(class = "missed"), notDue |-> One(class = "not_due")]
           zero == [total |-> 0, onTime |-> 0, late |-> 0, missed |-> 0, notDue |-> 0]
           count(r, s) == [n \in DOMAIN s |-> s[n] + one(r.class)[n]]
           Eq(F) == F = [s \in SUBSET R |-> IF s = {} THEN zero
                           ELSE count(CHOOSE x \in s : TRUE, F[s \ {CHOOSE x \in s : TRUE}])]
           G == CHOOSE F : Eq(F)
           H == [s \in SUBSET R |-> ClassCounts(s)]
<1>1. ASSUME NEW s, IsFiniteSet(s), NEW class
      PROVE  /\ OfClass(s, class) \in Nat
             /\ \A x \in s : OfClass(s, class) = OfClass(s \ {x}, class) + One(x.class = class)
  <2>1. PICK A : A = {r \in s : r.class = class}
    OBVIOUS
  <2>2. IsFiniteSet(A) /\ Cardinality(A) = OfClass(s, class)
    BY <1>1, <2>1, FS_Subset DEF OfClass
  <2>3. ASSUME NEW x \in s PROVE OfClass(s, class) = OfClass(s \ {x}, class) + One(x.class = class)
    <3>1. A \ {x} = {r \in s \ {x} : r.class = class} /\ (x \in A <=> x.class = class)
      BY <2>1
    <3>2. One(x \in A) = One(x.class = class)
      BY <3>1, Zenon DEF One
    <3>3. Cardinality(A) = Cardinality(A \ {x}) + One(x \in A)
      BY <2>2, CountStep
    <3>4. QED
      BY <2>2, <3>1, <3>2, <3>3 DEF OfClass
  <2>4. QED
    BY <2>2, <2>3, FS_CardinalityType
<1>2. H[{}] = zero
  <2>1. Cardinality({}) = 0 /\ \A class : OfClass({}, class) = 0
    <3>1. \A class : {r \in {} : r.class = class} = {}
      OBVIOUS
    <3>2. QED
      BY <3>1, FS_EmptySet DEF OfClass
  <2>2. QED
    BY <2>1 DEF ClassCounts
<1>3. ASSUME NEW s \in SUBSET R, NEW x \in s PROVE H[s] = count(x, H[s \ {x}])
  <2>1. IsFiniteSet(s)
    BY FS_Subset
  <2>2. PICK r : r = s \ {x} /\ r \in SUBSET R /\ IsFiniteSet(r)
    BY <2>1, FS_RemoveElement
  <2>3. Cardinality(s) = Cardinality(r) + 1
    BY <2>1, <2>2, FS_RemoveElement, FS_CardinalityType
  <2>4. \A class : OfClass(s, class) = OfClass(r, class) + One(x.class = class)
    BY <1>1, <2>1, <2>2
  <2>5. PICK D : D = ClassCounts(r)
    OBVIOUS
  <2>6. /\ D.total = Cardinality(r) /\ D.onTime = OfClass(r, "on_time") /\ D.late = OfClass(r, "late")
        /\ D.missed = OfClass(r, "missed") /\ D.notDue = OfClass(r, "not_due")
        /\ DOMAIN D = {"total", "onTime", "late", "missed", "notDue"}
    BY <2>5 DEF ClassCounts
  <2>7. PICK o : o = one(x.class)
    OBVIOUS
  <2>8. /\ o.total = 1 /\ o.onTime = One(x.class = "on_time") /\ o.late = One(x.class = "late")
        /\ o.missed = One(x.class = "missed") /\ o.notDue = One(x.class = "not_due")
    BY <2>7
  <2>9. PICK E : E = [n \in DOMAIN D |-> D[n] + o[n]]
    OBVIOUS
  <2>10. /\ E.total = Cardinality(s) /\ E.onTime = OfClass(s, "on_time") /\ E.late = OfClass(s, "late")
         /\ E.missed = OfClass(s, "missed") /\ E.notDue = OfClass(s, "not_due")
         /\ E = [n \in {"total", "onTime", "late", "missed", "notDue"} |-> E[n]]
    BY <2>3, <2>4, <2>6, <2>8, <2>9
  <2>11. E = ClassCounts(s)
    BY <2>10 DEF ClassCounts
  <2>12. H[s] = ClassCounts(s) /\ H[r] = D
    BY <2>2, <2>5
  <2>13. count(x, D) = E
    BY <2>7, <2>9, Zenon
  <2> HIDE DEF H, count
  <2>14. QED
    BY <2>2, <2>11, <2>12, <2>13
<1>4. Eq(H)
  <2> HIDE DEF count, zero
  <2>1. \A s \in SUBSET R : H[s] = IF s = {} THEN zero
              ELSE count(CHOOSE x \in s : TRUE, H[s \ {CHOOSE x \in s : TRUE}])
    <3> HIDE DEF H
    <3>1. \A s \in SUBSET R : s # {} => (CHOOSE x \in s : TRUE) \in s
      OBVIOUS
    <3>2. QED
      BY <1>2, <1>3, <3>1, ZenonT(120)
  <2>2. H = [s \in SUBSET R |-> H[s]]
    OBVIOUS
  <2> HIDE DEF H
  <2>3. QED
    BY <2>1, <2>2, Zenon
<1>5. OracleCompliance(q, f).summary = G[R]
  <2>1. PICK T : T = {OracleComplianceRow(q, x) : x \in OracleParticipating(q, f)}
    OBVIOUS
  <2>2. OracleCompliance(q, f) = [rows |-> T, summary |-> FoldSet(LAMBDA r, s : count(r, s), zero, T)]
    BY <2>1, Zenon DEF OracleCompliance
  <2>3. R = T
    BY <2>1 DEF OracleCompliance
  <2>4. OracleCompliance(q, f).summary = FoldSet(LAMBDA r, s : count(r, s), zero, T)
    <3>1. PICK v : v = FoldSet(LAMBDA r, s : count(r, s), zero, T)
      BY Zenon
    <3>2. OracleCompliance(q, f) = [rows |-> T, summary |-> v]
      BY <2>2, <3>1, Zenon
    <3>3. OracleCompliance(q, f).summary = v
      BY ONLY <3>2
    <3>4. QED
      BY <3>1, <3>3, Zenon
  <2>5. QED
    BY <2>3, <2>4, Zenon DEF FoldSet, MapThenFoldSet
<1> HIDE DEF count, zero
<1>6. Eq(G)
  <2> HIDE DEF H, Eq
  <2> QED
    BY <1>4, Zenon
<1> HIDE DEF H, G
<1>7. G[{}] = H[{}]
  BY <1>2, <1>6
<1>8. \A s \in SUBSET R : \A x \in s : x = Choice(s) /\ G[s \ {x}] = H[s \ {x}] => G[s] = H[s]
  <2> SUFFICES ASSUME NEW s \in SUBSET R, NEW x \in s, x = Choice(s), G[s \ {x}] = H[s \ {x}]
               PROVE  G[s] = H[s]
    OBVIOUS
  <2>1. G[s] = count(x, G[s \ {x}])
    BY <1>6, Zenon DEF Choice
  <2>2. QED
    BY <1>3, <2>1
<1>9. G[R] = H[R]
  BY <1>7, <1>8, FoldsAgree
<1>10. H[R] = ClassCounts(R)
  BY DEF H
<1>11. QED
  BY <1>5, <1>9, <1>10, Zenon

LEMMA PageForm ==
    ASSUME NEW C, NEW status, NEW limit, NEW offset, NEW F, F = {r \in C : status # None => r.class = status}
    PROVE  CompliancePage(C, status, limit, offset)
              = [rows |-> Page(ByName(F), limit, offset), total |-> Cardinality(F),
                 summary |-> ClassCounts(C)]
  BY Zenon DEF CompliancePage, ByName, ClassCounts, OfClass, Count

LEMMA ComplianceHolds ==
    ASSUME NEW q, Asking(q), NEW f, NEW status
    PROVE  CheckCompliance(q, f, status)
<1>1. PICK C : C = Classified(q, f)
  OBVIOUS
<1>2. /\ IsFiniteSet(C) /\ OracleCompliance(q, f).rows = C
      /\ \A S \in SUBSET C :
            IsFiniteSet(S) /\ Named(S) /\ Cardinality(S) \in Nat /\ Cardinality(S) <= 5000
  BY <1>1, ClassifiedForm
<1>3. PICK F : F = {r \in C : status # None => r.class = status}
  OBVIOUS
<1>4. F \in SUBSET C /\ F = {r \in C : status = None \/ r.class = status}
  BY <1>3
<1>5. IsFiniteSet(F) /\ Named(F) /\ Cardinality(F) \in Nat /\ Cardinality(F) <= 5000
  BY <1>2, <1>4
<1>6. PICK o : o = ByName(F)
  OBVIOUS
<1>7. /\ o \in Seq(F) /\ Len(o) = Cardinality(F) /\ ToSet(o) = F
      /\ \A i, j \in 1 .. Cardinality(F) : i < j => Precedes(RowKey(o[i]), RowKey(o[j]))
      /\ \A limit \in Nat : Cardinality(F) <= limit => Page(o, limit, 0) = o
  BY <1>5, <1>6, ByNameForm
<1>8. PICK got : got = ComplianceStatus(q, Everything, f, status, ReportLimit, 0)
  OBVIOUS
<1>9. got = [rows |-> o, total |-> Cardinality(F), summary |-> ClassCounts(C)]
  <2>1. got = CompliancePage(C, status, ReportLimit, 0)
    BY <1>1, <1>8, Zenon DEF ComplianceStatus, Classified
  <2>2. got = [rows |-> Page(o, ReportLimit, 0), total |-> Cardinality(F), summary |-> ClassCounts(C)]
    BY <1>3, <1>6, <2>1, PageForm
  <2>3. Page(o, ReportLimit, 0) = o
    BY <1>5, <1>7 DEF ReportLimit
  <2>4. QED
    BY <2>2, <2>3
<1>10. got.rows = o /\ got.total = Cardinality(F) /\ got.summary = ClassCounts(C)
  BY <1>9
<1>11. ASSUME NEW i \in 2 .. Len(o) PROVE ~Precedes(ComplianceKey(o[i]), ComplianceKey(o[i - 1]))
  <2>1. PICK n \in Nat : n = Cardinality(F) /\ n = Len(o)
    BY <1>5, <1>7
  <2>2. i \in 1 .. n /\ i - 1 \in 1 .. n /\ i - 1 < i
    BY <2>1
  <2>3. PICK r \in F, s \in F : r = o[i - 1] /\ s = o[i]
    BY <1>7, <2>1, <2>2
  <2>4. Precedes(RowKey(r), RowKey(s))
    BY <1>7, <2>1, <2>2, <2>3
  <2>5. ComplianceKey(r) \in Seq(Int) /\ Len(ComplianceKey(r)) = 3
        /\ ComplianceKey(s) \in Seq(Int) /\ Len(ComplianceKey(s)) = 3 /\ r.id \in Int /\ s.id \in Int
    <3>1. ASSUME NEW t \in F PROVE ComplianceKey(t) \in Seq(Int) /\ Len(ComplianceKey(t)) = 3 /\ t.id \in Int
      <4>1. PICK a \in Int, b \in Int : ComplianceKey(t) = <<a, b, t.period>>
        BY <1>5, KeyOfRow
      <4>2. t.period \in Int /\ t.id \in Int
        BY <1>5 DEF Named
      <4>3. QED
        BY <4>1, <4>2
    <3>2. QED
      BY <3>1
  <2>6. Precedes(ComplianceKey(r) \o <<r.id>>, ComplianceKey(s) \o <<s.id>>)
    BY <2>4, Zenon DEF RowKey
  <2>7. ~Precedes(ComplianceKey(s), ComplianceKey(r))
    BY <2>5, <2>6, LastPlace
  <2>8. QED
    BY <2>3, <2>7
<1>12. PICK want : want = OracleCompliance(q, f)
  OBVIOUS
<1>13. want.rows = C /\ want.summary = ClassCounts(C)
  BY <1>2, <1>12, ClassesCounted
<1>14. SameCompliance(got, want, status)
  <2>1. {r \in want.rows : status = None \/ r.class = status} = F
    BY <1>4, <1>13
  <2>2. QED
    BY <1>7, <1>10, <1>11, <1>13, <2>1 DEF SameCompliance
<1>15. QED
  BY <1>8, <1>12, <1>14, Zenon DEF CheckCompliance

\* How long pages are together.
Lengths(pages) == MapThenSumSet(LAMBDA i : Len(pages[i].rows), DOMAIN pages)

LEMMA LengthsAdd ==
    ASSUME NEW pages, NEW I, I = DOMAIN pages, IsFiniteSet(I), NEW g,
           \A i \in I : g[i] = Len(pages[i].rows), NEW F, Adds(I, g, F)
    PROVE  Lengths(pages) = F[I]
<1>1. \A T : [s \in SUBSET I |-> IF s = {} THEN 0
                  ELSE g[CHOOSE x \in s : TRUE] + T[s \ {CHOOSE x \in s : TRUE}]]
           = [s \in SUBSET I |-> IF s = {} THEN 0
                  ELSE Len(pages[CHOOSE x \in s : TRUE].rows) + T[s \ {CHOOSE x \in s : TRUE}]]
  <2> TAKE T
  <2>1. \A s \in SUBSET I :
            (IF s = {} THEN 0 ELSE g[CHOOSE x \in s : TRUE] + T[s \ {CHOOSE x \in s : TRUE}])
            = (IF s = {} THEN 0
               ELSE Len(pages[CHOOSE x \in s : TRUE].rows) + T[s \ {CHOOSE x \in s : TRUE}])
    <3> TAKE s \in SUBSET I
    <3>1. CASE s = {}
      BY <3>1, Zenon
    <3>2. CASE s # {}
      <4>1. PICK c : c = CHOOSE x \in s : TRUE
        OBVIOUS
      <4>2. c \in I
        BY <3>2, <4>1
      <4>3. g[c] = Len(pages[c].rows)
        BY <4>2
      <4>4. QED
        BY <3>2, <4>1, <4>3, Zenon
    <3>3. QED
      BY <3>1, <3>2
  <2>2. QED
    BY <2>1, Zenon
<1>2. \A T : T = [s \in SUBSET I |-> IF s = {} THEN 0
                  ELSE g[CHOOSE x \in s : TRUE] + T[s \ {CHOOSE x \in s : TRUE}]]
           <=> T = [s \in SUBSET I |-> IF s = {} THEN 0
                  ELSE Len(pages[CHOOSE x \in s : TRUE].rows) + T[s \ {CHOOSE x \in s : TRUE}]]
  <2> TAKE T
  <2>1. PICK A, B :
            /\ A = [s \in SUBSET I |-> IF s = {} THEN 0
                      ELSE g[CHOOSE x \in s : TRUE] + T[s \ {CHOOSE x \in s : TRUE}]]
            /\ B = [s \in SUBSET I |-> IF s = {} THEN 0
                      ELSE Len(pages[CHOOSE x \in s : TRUE].rows) + T[s \ {CHOOSE x \in s : TRUE}]]
    BY Zenon
  <2>2. A = B
    BY <1>1, <2>1, ZenonT(60)
  <2>3. T = A <=> T = B
    BY ONLY <2>2
  <2>4. QED
    BY <2>1, <2>3, Zenon
<1>3. MapThenSumSet(LAMBDA x : g[x], I)
          = (CHOOSE T : T = [s \in SUBSET I |-> IF s = {} THEN 0
                  ELSE g[CHOOSE x \in s : TRUE] + T[s \ {CHOOSE x \in s : TRUE}]])[I]
  BY Zenon DEF MapThenSumSet, MapThenFoldSet
<1>4. Lengths(pages)
          = (CHOOSE T : T = [s \in SUBSET I |-> IF s = {} THEN 0
                  ELSE Len(pages[CHOOSE x \in s : TRUE].rows) + T[s \ {CHOOSE x \in s : TRUE}]])[I]
  BY Zenon DEF Lengths, MapThenSumSet, MapThenFoldSet
<1>5. (CHOOSE T : T = [s \in SUBSET I |-> IF s = {} THEN 0
                  ELSE g[CHOOSE x \in s : TRUE] + T[s \ {CHOOSE x \in s : TRUE}]])
        = (CHOOSE T : T = [s \in SUBSET I |-> IF s = {} THEN 0
                  ELSE Len(pages[CHOOSE x \in s : TRUE].rows) + T[s \ {CHOOSE x \in s : TRUE}]])
  BY ONLY <1>2, Zenon
<1>6. MapThenSumSet(LAMBDA x : g[x], I) = F[I]
  BY SumIs, Zenon
<1>7. QED
  BY <1>3, <1>4, <1>5, <1>6, Zenon

\* A page of one.
LEMMA OneEach ==
    ASSUME NEW S, NEW o \in Seq(S), NEW m \in Nat, m = Len(o), NEW i \in Nat \ {0}
    PROVE  /\ i <= m => Page(o, 1, i - 1) = <<o[i]>>
           /\ i > m => Page(o, 1, i - 1) = <<>>
<1>1. i - 1 + 1 = i
  OBVIOUS
<1>2. ASSUME i <= m PROVE Page(o, 1, i - 1) = <<o[i]>>
  <2>1. Least(i, Len(o)) = i
    BY <1>2 DEF Least
  <2>2. Page(o, 1, i - 1) = SubSeq(o, i, i)
    BY <1>1, <2>1, Zenon DEF Page
  <2>3. SubSeq(o, i, i) = <<o[i]>>
    <3>1. PICK t : t = SubSeq(o, i, i)
      OBVIOUS
    <3>2. t \in Seq(S) /\ Len(t) = 1 /\ t[1] = o[i]
      BY <1>2, <3>1
    <3>3. PICK u : u = <<o[i]>>
      OBVIOUS
    <3>4. u \in Seq(S) /\ Len(u) = 1 /\ u[1] = o[i]
      BY <1>2, <3>3
    <3>5. t = u
      BY <3>2, <3>4, SeqEqual
    <3>6. QED
      BY <3>1, <3>3, <3>5
  <2>4. QED
    BY <2>2, <2>3
<1>3. ASSUME i > m PROVE Page(o, 1, i - 1) = <<>>
  <2>1. Least(i, Len(o)) = m
    BY <1>3 DEF Least
  <2>2. Page(o, 1, i - 1) = SubSeq(o, i, m)
    BY <1>1, <2>1, Zenon DEF Page
  <2>3. SubSeq(o, i, m) = <<>>
    BY <1>3
  <2>4. QED
    BY <2>2, <2>3
<1>4. QED
  BY <1>2, <1>3

LEMMA CompliancePagingHolds == ASSUME NEW q, Asking(q) PROVE CheckCompliancePaging(q, 1)
<1>1. PICK C : C = Classified(q, NoFilter)
  OBVIOUS
<1>2. /\ IsFiniteSet(C) /\ OracleCompliance(q, NoFilter).rows = C /\ Named(C)
      /\ Cardinality(C) \in Nat /\ Cardinality(C) <= Cardinality(q.work)
  BY <1>1, ClassifiedForm
<1>3. PICK n \in Nat, m \in Nat : n = Cardinality(q.work) /\ m = Cardinality(C) /\ m <= n
  BY <1>2, TableForm
<1>4. PICK o : o = ByName(C)
  OBVIOUS
<1>5. /\ o \in Seq(C) /\ Len(o) = m /\ ToSet(o) = C
  BY <1>2, <1>3, <1>4, ByNameForm
<1>6. PICK pages : pages = [i \in 1 .. n + 1 |-> CompliancePage(C, None, 1, 1 * (i - 1))]
  OBVIOUS
<1>7. ASSUME NEW i \in 1 .. n + 1
      PROVE  /\ pages[i].rows = IF i <= m THEN <<o[i]>> ELSE <<>>
             /\ pages[i].total = m
  <2>1. i \in Nat \ {0} /\ 1 * (i - 1) = i - 1
    OBVIOUS
  <2>2. C = {r \in C : None # None => r.class = None}
    OBVIOUS
  <2>3. CompliancePage(C, None, 1, i - 1) = [rows |-> Page(o, 1, i - 1), total |-> Cardinality(C), summary |-> ClassCounts(C)]
    BY <1>4, <2>2, PageForm
  <2>4. pages[i].rows = Page(o, 1, i - 1) /\ pages[i].total = m
    BY <1>3, <1>6, <2>1, <2>3
  <2>5. (i <= m => Page(o, 1, i - 1) = <<o[i]>>) /\ (i > m => Page(o, 1, i - 1) = <<>>)
    BY <1>5, <2>1, OneEach
  <2>6. QED
    BY <2>1, <2>4, <2>5
<1>8. DOMAIN pages = 1 .. n + 1
  BY <1>6
<1>9. UNION {ToSet(p.rows) : p \in ToSet(pages)} = C
  <2>1. ToSet(pages) = {pages[i] : i \in 1 .. n + 1}
    BY <1>8 DEF ToSet
  <2>2. \A i \in 1 .. n + 1 : ToSet(pages[i].rows) = IF i <= m THEN {o[i]} ELSE {}
    <3> TAKE i \in 1 .. n + 1
    <3>1. CASE i <= m
      <4>1. pages[i].rows = <<o[i]>>
        BY <1>7, <3>1
      <4>2. ToSet(<<o[i]>>) = {o[i]}
        BY DEF ToSet
      <4>3. QED
        BY <3>1, <4>1, <4>2
    <3>2. CASE ~(i <= m)
      <4>1. pages[i].rows = <<>>
        BY <1>7, <3>2
      <4>2. ToSet(<<>>) = {}
        BY DEF ToSet
      <4>3. QED
        BY <3>2, <4>1, <4>2
    <3>3. QED
      BY <3>1, <3>2
  <2>3. C = {o[i] : i \in 1 .. m}
    BY <1>5 DEF ToSet
  <2>4. \A c : c \in C <=> \E i \in 1 .. n + 1 : c \in ToSet(pages[i].rows)
    <3> TAKE c
    <3>1. c \in C <=> \E i \in 1 .. m : c = o[i]
      BY <2>3
    <3>2. (\E i \in 1 .. m : c = o[i]) <=> \E i \in 1 .. n + 1 : i <= m /\ c = o[i]
      BY <1>3
    <3>3. QED
      BY <2>2, <3>1, <3>2
  <2>5. QED
    BY <2>1, <2>4
<1>10. Lengths(pages) = m
  <2>1. PICK I : I = 1 .. n + 1
    OBVIOUS
  <2>2. IsFiniteSet(I)
    BY <2>1, FS_Interval
  <2>3. PICK A : A = 1 .. m
    OBVIOUS
  <2>4. PICK g : g = [i \in I |-> One(i \in A)]
    OBVIOUS
  <2>5. \A i \in I : g[i] = Len(pages[i].rows)
    <3> TAKE i \in I
    <3>1. CASE i <= m
      <4>1. pages[i].rows = <<o[i]>>
        BY <1>7, <2>1, <3>1
      <4>2. Len(<<o[i]>>) = 1
        OBVIOUS
      <4>3. i \in A
        BY <2>1, <2>3, <3>1
      <4>4. g[i] = 1
        BY <2>4, <4>3 DEF One
      <4>5. QED
        BY <4>1, <4>2, <4>4, Zenon
    <3>2. CASE ~(i <= m)
      <4>1. pages[i].rows = <<>>
        BY <1>7, <2>1, <3>2
      <4>2. Len(<<>>) = 0
        OBVIOUS
      <4>3. i \notin A
        BY <2>1, <2>3, <3>2
      <4>4. g[i] = 0
        BY <2>4, <4>3 DEF One
      <4>5. QED
        BY <4>1, <4>2, <4>4, Zenon
    <3>3. QED
      BY <3>1, <3>2
  <2>6. PICK F : F = [s \in SUBSET I |-> Cardinality(s \cap A)]
    OBVIOUS
  <2>7. \A s \in SUBSET I : IsFiniteSet(s \cap A) /\ Cardinality(s \cap A) \in Nat
    <3> TAKE s \in SUBSET I
    <3>1. IsFiniteSet(s \cap A)
      BY <2>2, FS_Subset
    <3>2. QED
      BY <3>1, FS_CardinalityType
  <2>8. Adds(I, g, F)
    <3>1. F \in [SUBSET I -> Int]
      BY <2>6, <2>7
    <3>2. F[{}] = 0
      <4>1. {} \cap A = {}
        OBVIOUS
      <4>2. QED
        BY <2>6, <4>1, FS_EmptySet
    <3>3. ASSUME NEW s \in SUBSET I, NEW x \in s PROVE F[s] = g[x] + F[s \ {x}]
      <4>1. PICK B : B = s \cap A
        OBVIOUS
      <4>2. B \ {x} = (s \ {x}) \cap A /\ (x \in B <=> x \in A) /\ IsFiniteSet(B)
        BY <2>7, <4>1
      <4>3. One(x \in B) = One(x \in A)
        BY <4>2, Zenon DEF One
      <4>4. /\ Cardinality(B) = Cardinality(B \ {x}) + One(x \in B) /\ IsFiniteSet(B \ {x})
        BY <4>2, CountStep
      <4>5. Cardinality(B \ {x}) \in Nat /\ One(x \in B) \in Nat
        BY <4>4, FS_CardinalityType DEF One
      <4>6. F[s] = Cardinality(B) /\ F[s \ {x}] = Cardinality(B \ {x}) /\ g[x] = One(x \in B)
        BY <2>4, <2>6, <4>1, <4>2, <4>3
      <4>7. QED
        BY <4>4, <4>5, <4>6
    <3>4. QED
      BY <3>1, <3>2, <3>3 DEF Adds
  <2>9. F[I] = m
    <3>1. I \cap A = A
      BY <1>3, <2>1, <2>3
    <3>2. Cardinality(A) = m
      BY <2>3, FS_Interval
    <3>3. QED
      BY <2>6, <3>1, <3>2
  <2>10. I = DOMAIN pages
    BY <1>8, <2>1
  <2>11. QED
    BY <2>2, <2>5, <2>8, <2>9, <2>10, LengthsAdd
<1>11. CompletePages(pages, C)
  BY <1>3, <1>7, <1>8, <1>9, <1>10, Zenon DEF CompletePages, Lengths
<1>12. QED
  BY <1>1, <1>2, <1>3, <1>6, <1>11, Zenon DEF CheckCompliancePaging, Classified

(***************************************************************************)
(* Tallies.                                                                *)
(***************************************************************************)
\* An entry for each key.
Entries(s, key, ent) == [k \in {key[x] : x \in s} |-> ent[{x \in s : key[x] = k}]]
Mates(s, key, x) == {y \in s : key[y] = key[x]}

\* The entries of s, from those of s without x.
OneMore(s, x, key, ent, t) ==
    /\ Entries(s, key, ent) = [k \in DOMAIN t \cup {key[x]} |->
          IF k # key[x] THEN t[k] ELSE ent[Mates(s, key, x)]]
    /\ key[x] \in DOMAIN t <=> Mates(s, key, x) \ {x} # {}
    /\ key[x] \in DOMAIN t => t[key[x]] = ent[Mates(s, key, x) \ {x}]

LEMMA TallyStep ==
    ASSUME NEW s, NEW x \in s, NEW key, NEW ent, NEW t, t = Entries(s \ {x}, key, ent)
    PROVE  OneMore(s, x, key, ent, t)
<1>1. PICK r : r = s \ {x}
  OBVIOUS
<1>2. PICK D : D = {key[y] : y \in r}
  OBVIOUS
<1>3. DOMAIN t = D /\ \A k \in D : t[k] = ent[{y \in r : key[y] = k}]
  BY <1>1, <1>2 DEF Entries
<1>4. {key[y] : y \in s} = D \cup {key[x]}
  BY <1>1, <1>2
<1>5. \A k : k # key[x] => {y \in s : key[y] = k} = {y \in r : key[y] = k}
  BY <1>1
<1>6. Mates(s, key, x) \ {x} = {y \in r : key[y] = key[x]}
  BY <1>1 DEF Mates
<1>7. PICK u : u = Entries(s, key, ent)
  OBVIOUS
<1>8. u = [k \in D \cup {key[x]} |-> ent[{y \in s : key[y] = k}]]
  BY <1>4, <1>7, Zenon DEF Entries
<1>9. \A k \in D \cup {key[x]} :
          ent[{y \in s : key[y] = k}] = IF k # key[x] THEN t[k] ELSE ent[Mates(s, key, x)]
  <2> TAKE k \in D \cup {key[x]}
  <2>1. CASE k = key[x]
    BY <2>1, Zenon DEF Mates
  <2>2. CASE k # key[x]
    <3>1. k \in D
      BY <2>2
    <3>2. QED
      BY <1>3, <1>5, <2>2, <3>1, Zenon
  <2>3. QED
    BY <2>1, <2>2
<1>10. u = [k \in D \cup {key[x]} |-> IF k # key[x] THEN t[k] ELSE ent[Mates(s, key, x)]]
  BY <1>8, <1>9, Zenon
<1>11. key[x] \in D <=> {y \in r : key[y] = key[x]} # {}
  BY <1>2
<1>12. key[x] \in D => t[key[x]] = ent[{y \in r : key[y] = key[x]}]
  BY <1>3
<1>13. QED
  BY <1>3, <1>6, <1>7, <1>10, <1>11, <1>12, Zenon DEF OneMore

(***************************************************************************)
(* tax-financial.                                                          *)
(***************************************************************************)
LEMMA FigureForm == ASSUME NEW x PROVE Figures(x) \in [FigureNames -> Int]
<1>1. \A data, key : JsonNum(data, key) \in Int
  <2>1. \A s \in DOMAIN PlainNumbers : PlainNumbers[s] \in Int
    BY DEF PlainNumbers
  <2>2. QED
    BY <2>1 DEF JsonNum
<1>2. \A data, keys : FirstNonZero(data, keys) \in Int
  <2> TAKE data, keys
  <2>1. FirstNonZero(data, keys) = 0 \/ \E key : FirstNonZero(data, keys) = JsonNum(data, key)
    BY Zenon DEF FirstNonZero
  <2>2. QED
    BY <1>1, <2>1
<1>3. PICK ov, iv, nv, ti, tl, wa, am, ec :
          /\ ov = FirstNonZero(x.data, Aliases.outputVat) /\ iv = FirstNonZero(x.data, Aliases.inputVat)
          /\ nv = FirstNonZero(x.data, Aliases.netVat) /\ ti = FirstNonZero(x.data, Aliases.taxableIncome)
          /\ tl = FirstNonZero(x.data, Aliases.taxLiability) /\ wa = FirstNonZero(x.data, Aliases.whtAmount)
          /\ am = FirstNonZero(x.data, Aliases.amount) /\ ec = FirstNonZero(x.data, Aliases.engagementCost)
  OBVIOUS
<1>4. /\ ov \in Int /\ iv \in Int /\ nv \in Int /\ ti \in Int /\ tl \in Int /\ wa \in Int
      /\ am \in Int /\ ec \in Int
  BY <1>2, <1>3
<1>5. PICK t : t = TemplateOf(x.wf)
  OBVIOUS
<1>6. Figures(x) =
          [outputVat |-> IF t = "VAT" THEN ov ELSE 0, inputVat |-> IF t = "VAT" THEN iv ELSE 0,
           netVat |-> IF (IF t = "VAT" THEN nv ELSE 0) # 0 THEN (IF t = "VAT" THEN nv ELSE 0)
                      ELSE (IF t = "VAT" THEN ov ELSE 0) - (IF t = "VAT" THEN iv ELSE 0),
           taxableIncome |-> IF t = "CIT" THEN ti ELSE 0,
           taxLiability |-> IF t = "CIT" THEN tl ELSE 0, whtAmount |-> IF t = "WHT" THEN wa ELSE 0,
           engagementCost |-> ec,
           totalAmount |->
              CASE t = "VAT" -> IF (IF t = "VAT" THEN nv ELSE 0) # 0 THEN (IF t = "VAT" THEN nv ELSE 0)
                      ELSE (IF t = "VAT" THEN ov ELSE 0) - (IF t = "VAT" THEN iv ELSE 0)
                [] t = "CIT" -> IF t = "CIT" THEN tl ELSE 0
                [] t = "WHT" -> IF t = "WHT" THEN wa ELSE 0
                [] OTHER -> am]
  BY <1>3, <1>5, Zenon DEF Figures
<1>7. QED
  BY <1>4, <1>6 DEF FigureNames

\* The instances with data, what they amount to.
Carrying(q, f) == {x \in ComplianceFrom(q, Everything, f) : x.data # None /\ x.data # <<>>}
FigureOf(S, n) == [x \in S |-> Figures(x)[n]]
Amount(S, n) == CHOOSE F : Adds(S, FigureOf(S, n), F)
Amounts(S, A) == [n \in FigureNames |-> Amount(S, n)[A]]

LEMMA AmountForm ==
    ASSUME NEW S, IsFiniteSet(S), NEW n \in FigureNames
    PROVE  Adds(S, FigureOf(S, n), Amount(S, n))
<1>1. PICK f : f = FigureOf(S, n)
  OBVIOUS
<1>2. f \in [S -> Int]
  BY <1>1, FigureForm DEF FigureOf
<1>3. \E F : Adds(S, f, F)
  BY <1>2, SumsExist
<1>4. QED
  BY <1>1, <1>3, Zenon DEF Amount

\* One more of them.
LEMMA AmountsStep ==
    ASSUME NEW S, IsFiniteSet(S), NEW A \in SUBSET S, NEW x \in A
    PROVE  /\ OraclePlus(Amounts(S, A \ {x}), Figures(x)) = Amounts(S, A)
           /\ Amounts(S, {}) = OracleNone
<1>1. ASSUME NEW n \in FigureNames
      PROVE  /\ Amounts(S, A \ {x})[n] + Figures(x)[n] = Amounts(S, A)[n]
             /\ Amounts(S, {})[n] = 0
  <2>1. PICK F, f : F = Amount(S, n) /\ f = FigureOf(S, n)
    OBVIOUS
  <2>2. F \in [SUBSET S -> Int] /\ F[{}] = 0 /\ \A B \in SUBSET S : \A y \in B : F[B] = f[y] + F[B \ {y}]
    <3>1. Adds(S, f, F)
      BY <2>1, AmountForm
    <3>2. QED
      BY <3>1 DEF Adds
  <2>3. A \ {x} \in SUBSET S
    OBVIOUS
  <2>4. PICK a \in Int, b \in Int, c \in Int :
            a = Amount(S, n)[A \ {x}] /\ b = Figures(x)[n] /\ c = Amount(S, n)[A]
    <3>1. F[A \ {x}] \in Int /\ F[A] \in Int
      BY <2>2, <2>3
    <3>2. Figures(x)[n] \in Int
      BY FigureForm
    <3>3. QED
      BY <2>1, <3>1, <3>2
  <2>5. c = b + a
    <3>1. f[x] = b
      BY <2>1, <2>4 DEF FigureOf
    <3>2. QED
      BY <2>1, <2>2, <2>4, <3>1
  <2>6. Amounts(S, A \ {x})[n] = a /\ Amounts(S, A)[n] = c
    BY <2>4 DEF Amounts
  <2>7. Amounts(S, {})[n] = 0
    BY <2>1, <2>2 DEF Amounts
  <2>8. QED
    BY <2>4, <2>5, <2>6, <2>7
<1>2. OraclePlus(Amounts(S, A \ {x}), Figures(x)) = [n \in FigureNames |-> Amounts(S, A)[n]]
  BY <1>1, Zenon DEF OraclePlus
<1>3. Amounts(S, A) = [n \in FigureNames |-> Amounts(S, A)[n]]
  BY DEF Amounts
<1>4. Amounts(S, {}) = [n \in FigureNames |-> Amounts(S, {})[n]]
  BY DEF Amounts
<1>5. Amounts(S, {}) = OracleNone
  BY <1>1, <1>4, Zenon DEF OracleNone
<1>6. QED
  BY <1>2, <1>3, <1>5, Zenon

\* The sum of one figure over rows.
SumOfFigure(T, n) == MapThenSumSet(LAMBDA r : r.figures[n], T)

SumOver(f, T) == MapThenSumSet(LAMBDA x : f[x], T)
LEMMA PartSum ==
    ASSUME NEW S, IsFiniteSet(S), NEW f, NEW F, Adds(S, f, F), NEW T \in SUBSET S
    PROVE  SumOver(f, T) = F[T]
  BY SumOfPart, ZenonT(120) DEF SumOver

Tells(g, R, n) == \A r \in R : g[r] = r.figures[n]

LEMMA FigureSums ==
    ASSUME NEW R, IsFiniteSet(R), NEW n, NEW g, Tells(g, R, n),
           NEW F, Adds(R, g, F), NEW T \in SUBSET R
    PROVE  SumOfFigure(T, n) = F[T]
<1>1. \A I : [s \in SUBSET T |-> IF s = {} THEN 0
                  ELSE g[CHOOSE x \in s : TRUE] + I[s \ {CHOOSE x \in s : TRUE}]]
           = [s \in SUBSET T |-> IF s = {} THEN 0
                  ELSE (CHOOSE x \in s : TRUE).figures[n] + I[s \ {CHOOSE x \in s : TRUE}]]
  <2> TAKE I
  <2>1. \A s \in SUBSET T :
            (IF s = {} THEN 0 ELSE g[CHOOSE x \in s : TRUE] + I[s \ {CHOOSE x \in s : TRUE}])
            = (IF s = {} THEN 0
               ELSE (CHOOSE x \in s : TRUE).figures[n] + I[s \ {CHOOSE x \in s : TRUE}])
    <3> TAKE s \in SUBSET T
    <3>1. CASE s = {}
      BY <3>1, Zenon
    <3>2. CASE s # {}
      <4>1. PICK c : c = CHOOSE x \in s : TRUE
        OBVIOUS
      <4>2. c \in R
        BY <3>2, <4>1
      <4>3. g[c] = c.figures[n]
        BY <4>2 DEF Tells
      <4>4. QED
        BY <3>2, <4>1, <4>3, Zenon
    <3>3. QED
      BY <3>1, <3>2
  <2>2. QED
    BY <2>1, Zenon
<1>2. \A I : I = [s \in SUBSET T |-> IF s = {} THEN 0
                  ELSE g[CHOOSE x \in s : TRUE] + I[s \ {CHOOSE x \in s : TRUE}]]
           <=> I = [s \in SUBSET T |-> IF s = {} THEN 0
                  ELSE (CHOOSE x \in s : TRUE).figures[n] + I[s \ {CHOOSE x \in s : TRUE}]]
  <2> TAKE I
  <2>1. PICK A, B :
            /\ A = [s \in SUBSET T |-> IF s = {} THEN 0
                      ELSE g[CHOOSE x \in s : TRUE] + I[s \ {CHOOSE x \in s : TRUE}]]
            /\ B = [s \in SUBSET T |-> IF s = {} THEN 0
                      ELSE (CHOOSE x \in s : TRUE).figures[n] + I[s \ {CHOOSE x \in s : TRUE}]]
    BY Zenon
  <2>2. A = B
    BY <1>1, <2>1, Zenon
  <2>3. I = A <=> I = B
    BY ONLY <2>2
  <2>4. QED
    BY <2>1, <2>3, Zenon
<1>3. MapThenSumSet(LAMBDA x : g[x], T)
          = (CHOOSE I : I = [s \in SUBSET T |-> IF s = {} THEN 0
                  ELSE g[CHOOSE x \in s : TRUE] + I[s \ {CHOOSE x \in s : TRUE}]])[T]
  BY Zenon DEF MapThenSumSet, MapThenFoldSet
<1>4. SumOfFigure(T, n)
          = (CHOOSE I : I = [s \in SUBSET T |-> IF s = {} THEN 0
                  ELSE (CHOOSE x \in s : TRUE).figures[n] + I[s \ {CHOOSE x \in s : TRUE}]])[T]
  BY Zenon DEF SumOfFigure, MapThenSumSet, MapThenFoldSet
<1>5. (CHOOSE I : I = [s \in SUBSET T |-> IF s = {} THEN 0
                  ELSE g[CHOOSE x \in s : TRUE] + I[s \ {CHOOSE x \in s : TRUE}]])
        = (CHOOSE I : I = [s \in SUBSET T |-> IF s = {} THEN 0
                  ELSE (CHOOSE x \in s : TRUE).figures[n] + I[s \ {CHOOSE x \in s : TRUE}]])
  BY ONLY <1>2, Zenon
<1>6. MapThenSumSet(LAMBDA x : g[x], T) = F[T]
  <2>1. SumOver(g, T) = F[T]
    BY PartSum
  <2>2. QED
    BY <2>1, Zenon DEF SumOver
<1>7. QED
  BY <1>3, <1>4, <1>5, <1>6, Zenon

\* A row for each instance, with its figures.
Carried(S, R, rho) ==
    /\ rho \in [S -> R]
    /\ \A x, y \in S : rho[x] = rho[y] => x = y
    /\ \A r \in R : \E x \in S : r = rho[x]
    /\ \A x \in S : rho[x].figures = Figures(x)

\* The sums over rows are those over what the rows are of.
LEMMA SumOfRows ==
    ASSUME NEW S, IsFiniteSet(S), NEW R, NEW rho, Carried(S, R, rho), NEW T \in SUBSET R
    PROVE  SumOf(T) = Amounts(S, Within(S, rho, T))
<1>0. /\ rho \in [S -> R]
      /\ \A x, y \in S : rho[x] = rho[y] => x = y
      /\ \A r \in R : \E x \in S : r = rho[x]
      /\ \A x \in S : rho[x].figures = Figures(x)
  BY DEF Carried
<1>1. IsFiniteSet(R)
  BY <1>0, ImageSize
<1>2. ASSUME NEW n \in FigureNames PROVE SumOfFigure(T, n) = Amount(S, n)[Within(S, rho, T)]
  <2>1. PICK f, F : f = FigureOf(S, n) /\ F = Amount(S, n)
    OBVIOUS
  <2>2. Adds(S, f, F)
    BY <2>1, AmountForm
  <2>3. PICK g : g = [r \in R |-> r.figures[n]]
    OBVIOUS
  <2>4. \A x \in S : g[rho[x]] = f[x]
    <3> TAKE x \in S
    <3>1. rho[x] \in R /\ rho[x].figures = Figures(x)
      BY <1>0
    <3>2. g[rho[x]] = Figures(x)[n]
      BY <2>3, <3>1
    <3>3. QED
      BY <2>1, <3>2 DEF FigureOf
  <2>5. PICK H : H = Renamed(S, F, R, rho)
    OBVIOUS
  <2>6. Adds(R, g, H)
    BY <1>0, <2>2, <2>4, <2>5, SumRenamed
  <2>7. Tells(g, R, n)
    BY <2>3 DEF Tells
  <2>8. SumOfFigure(T, n) = H[T]
    BY <1>1, <2>6, <2>7, FigureSums
  <2>9. H[T] = F[Within(S, rho, T)]
    BY <2>5 DEF Renamed
  <2>10. QED
    BY <2>1, <2>8, <2>9
<1>3. SumOf(T) = [n \in FigureNames |-> SumOfFigure(T, n)]
  BY Zenon DEF SumOf, SumOfFigure
<1>4. QED
  BY <1>2, <1>3, Zenon DEF Amounts

\* What the oracle keeps of a group.
OracleFiguresOf(x) ==
    OracleFigures(IF x.wf.obligation = None THEN None ELSE x.wf.obligation.template, x.data)
FreshGroup(x) == [figures |-> OracleNone, count |-> 0, first |-> x.end]
AddToGroup(x, g) ==
    [figures |-> OraclePlus(g.figures, OracleFiguresOf(x)), count |-> g.count + 1,
     first |-> Least(g.first, x.end)]
EndDays(A) == {x.end : x \in A}
Groups(S) == [A \in SUBSET S |->
    [figures |-> Amounts(S, A), count |-> Cardinality(A), first |-> Min(EndDays(A))]]

LEMMA OwnFigures == ASSUME NEW x PROVE OracleFiguresOf(x) = Figures(x)
<1>1. OracleFiguresOf(x) = OracleFigures(TemplateOf(x.wf), x.data)
  BY Zenon DEF OracleFiguresOf, TemplateOf
<1>2. QED
  BY <1>1, SameFigureRow

LEMMA GroupStep ==
    ASSUME NEW S, IsFiniteSet(S), \A y \in S : y.end \in Int, NEW A \in SUBSET S, NEW x \in A
    PROVE  Groups(S)[A] = AddToGroup(x, IF A \ {x} # {} THEN Groups(S)[A \ {x}] ELSE FreshGroup(x))
<1>1. PICK B : B = A \ {x} /\ B \in SUBSET S
  OBVIOUS
<1>2. IsFiniteSet(A) /\ IsFiniteSet(B) /\ Cardinality(B) \in Nat /\ Cardinality(A) = Cardinality(B) + 1
  <2>1. IsFiniteSet(A) /\ IsFiniteSet(B)
    BY <1>1, FS_Subset
  <2>2. QED
    BY <1>1, <2>1, FS_RemoveElement, FS_CardinalityType
<1>3. OraclePlus(Amounts(S, B), Figures(x)) = Amounts(S, A) /\ Amounts(S, {}) = OracleNone
  BY <1>1, AmountsStep
<1>4. EndDays(A) = EndDays(B) \cup {x.end} /\ EndDays(B) \subseteq Int /\ x.end \in Int /\ (B # {} <=> EndDays(B) # {})
  BY <1>1 DEF EndDays
<1>5. IsFiniteSet(EndDays(B))
  <2>1. PICK e, E : e = [y \in B |-> y.end] /\ E = EndDays(B)
    OBVIOUS
  <2>2. e \in [B -> E] /\ \A t \in E : \E y \in B : t = e[y]
    BY <2>1 DEF EndDays
  <2>3. QED
    BY <1>2, <2>1, <2>2, ImageSize
<1>6. Min(EndDays(A)) = IF EndDays(B) = {} THEN x.end ELSE Least(Min(EndDays(B)), x.end)
  BY <1>4, <1>5, MinAdd
<1>7. PICK fa, ca, ma, fb, cb, mb :
          /\ fa = Amounts(S, A) /\ ca = Cardinality(A) /\ ma = Min(EndDays(A))
          /\ fb = Amounts(S, B) /\ cb = Cardinality(B) /\ mb = Min(EndDays(B))
  OBVIOUS
<1>8. /\ Groups(S)[A] = [figures |-> fa, count |-> ca, first |-> ma]
      /\ Groups(S)[B] = [figures |-> fb, count |-> cb, first |-> mb]
  BY <1>1, <1>7 DEF Groups
<1>9. CASE B = {}
  <2>1. FreshGroup(x) = [figures |-> fb, count |-> cb, first |-> x.end]
    BY <1>3, <1>7, <1>9, FS_EmptySet DEF FreshGroup
  <2>2. PICK g : g = FreshGroup(x)
    OBVIOUS
  <2>3. g.figures = fb /\ g.count = cb /\ g.first = x.end
    BY <2>1, <2>2
  <2>4. Least(x.end, x.end) = x.end /\ ma = x.end
    BY <1>4, <1>6, <1>7, <1>9 DEF Least
  <2>5. AddToGroup(x, g) = [figures |-> fa, count |-> ca, first |-> ma]
    BY <1>2, <1>3, <1>7, <2>3, <2>4, OwnFigures DEF AddToGroup
  <2>6. QED
    BY <1>1, <1>8, <1>9, <2>2, <2>5, Zenon
<1>10. CASE B # {}
  <2>1. PICK g : g = Groups(S)[B]
    OBVIOUS
  <2>2. g.figures = fb /\ g.count = cb /\ g.first = mb
    BY <1>8, <2>1
  <2>3. ma = Least(mb, x.end)
    BY <1>4, <1>6, <1>7, <1>10
  <2>4. AddToGroup(x, g) = [figures |-> fa, count |-> ca, first |-> ma]
    BY <1>2, <1>3, <1>7, <2>2, <2>3, OwnFigures DEF AddToGroup
  <2>5. QED
    BY <1>1, <1>8, <1>10, <2>1, <2>4, Zenon
<1>11. QED
  BY <1>9, <1>10

\* One instance more in the tally of groups.
NextGroups(x, kx, t) ==
    [k \in DOMAIN t \cup {kx} |->
        IF k # kx THEN t[k] ELSE AddToGroup(x, IF k \in DOMAIN t THEN t[k] ELSE FreshGroup(x))]

LEMMA GroupsStep ==
    ASSUME NEW S, IsFiniteSet(S), \A y \in S : y.end \in Int, NEW key,
           NEW s \in SUBSET S, NEW x \in s, NEW t, t = Entries(s \ {x}, key, Groups(S))
    PROVE  Entries(s, key, Groups(S)) = NextGroups(x, key[x], t)
<1>1. PICK M, kx, ent : M = Mates(s, key, x) /\ kx = key[x] /\ ent = Groups(S)
  OBVIOUS
<1>2. /\ Entries(s, key, ent) = [k \in DOMAIN t \cup {kx} |-> IF k # kx THEN t[k] ELSE ent[M]]
      /\ kx \in DOMAIN t <=> M \ {x} # {}
      /\ kx \in DOMAIN t => t[kx] = ent[M \ {x}]
  <2>1. t = Entries(s \ {x}, key, ent)
    BY <1>1
  <2>2. OneMore(s, x, key, ent, t)
    BY <2>1, TallyStep
  <2>3. QED
    BY <1>1, <2>2, Zenon DEF OneMore
<1>3. M \in SUBSET S /\ x \in M
  BY <1>1 DEF Mates
<1>4. ent[M] = AddToGroup(x, IF M \ {x} # {} THEN ent[M \ {x}] ELSE FreshGroup(x))
  BY <1>1, <1>3, GroupStep
<1>5. ent[M] = AddToGroup(x, IF kx \in DOMAIN t THEN t[kx] ELSE FreshGroup(x))
  BY <1>2, <1>4, Zenon
<1>6. \A k : (IF k # kx THEN t[k] ELSE ent[M])
             = IF k # kx THEN t[k] ELSE AddToGroup(x, IF k \in DOMAIN t THEN t[k] ELSE FreshGroup(x))
  BY <1>5, Zenon
<1>7. QED
  BY <1>1, <1>2, <1>6, ZenonT(120) DEF NextGroups

LEMMA CarryingForm ==
    ASSUME NEW q, Asking(q), NEW f
    PROVE  /\ Carrying(q, f) \in SUBSET q.work /\ IsFiniteSet(Carrying(q, f))
           /\ Cardinality(Carrying(q, f)) \in Nat /\ Cardinality(Carrying(q, f)) <= 5000
           /\ {x \in OracleParticipating(q, f) : x.data # None /\ DOMAIN x.data # {}} = Carrying(q, f)
<1>1. PICK S : S = ComplianceFrom(q, Everything, f)
  OBVIOUS
<1>2. S \in SUBSET q.work /\ OracleParticipating(q, f) = S
  <2>1. S \in SUBSET q.work
    BY <1>1 DEF ComplianceFrom
  <2>2. QED
    BY <1>1, <2>1, SameParticipants
<1>3. PICK C : C = Carrying(q, f)
  OBVIOUS
<1>4. C = {x \in S : x.data # None /\ x.data # <<>>}
  BY <1>1, <1>3 DEF Carrying
<1>5. ASSUME NEW x \in S, x.data # None PROVE x.data # <<>> <=> DOMAIN x.data # {}
  <2>1. x \in UNION TaskSets
    BY <1>2, TableForm
  <2>2. PICK d : d = x.data
    OBVIOUS
  <2>3. d = [k \in DOMAIN d |-> d[k]]
    BY <1>5, <2>1, <2>2, ReportsAssumption
  <2>4. DOMAIN d = {} => d = <<>>
    <3>1. ASSUME DOMAIN d = {} PROVE d = <<>>
      <4>1. d = [k \in {} |-> d[k]]
        BY <2>3, <3>1
      <4>2. \A e : [k \in {} |-> e[k]] = <<>>
        OBVIOUS
      <4>3. QED
        BY <4>1, <4>2
    <3>2. QED
      BY <3>1
  <2>5. DOMAIN <<>> = {}
    OBVIOUS
  <2>6. QED
    BY <2>2, <2>4, <2>5
<1>6. {x \in S : x.data # None /\ DOMAIN x.data # {}} = C
  BY <1>4, <1>5
<1>7. C \in SUBSET q.work
  BY <1>2, <1>4
<1>8. IsFiniteSet(C) /\ Cardinality(C) \in Nat /\ Cardinality(C) <= 5000
  BY <1>7, TableForm
<1>9. QED
  BY <1>2, <1>3, <1>6, <1>7, <1>8

GroupTally(S, by) == Tally(S, LAMBDA x : OracleGroupOf(x, by), FreshGroup, AddToGroup)
PeriodTally(S) == Tally(S, LAMBDA x : x.code, FreshGroup, AddToGroup)
FigureTally(S) == FoldSet(LAMBDA x, sum : OraclePlus(sum, OracleFiguresOf(x)), OracleNone, S)
ByFirst(t) == Ordered(DOMAIN t, LAMBDA p : <<t[p].first, p>>)

OracleCarrying(q, f) ==
    {x \in OracleParticipating(q, f) : x.data # None /\ DOMAIN x.data # {}}

LEMMA OracleFinancialForm ==
    ASSUME NEW q, NEW f, NEW by
    PROVE  OracleFinancial(q, f, by) =
               [rows |-> [x \in OracleCarrying(q, f) |-> OracleFiguresOf(x)],
                groups |-> GroupTally(OracleCarrying(q, f), by),
                periods |-> PeriodTally(OracleCarrying(q, f)),
                chartOrder |-> ByFirst(PeriodTally(OracleCarrying(q, f))),
                summary |-> FigureTally(OracleCarrying(q, f))]
  BY Zenon DEF OracleCarrying, OracleFinancial, GroupTally, PeriodTally, FigureTally, ByFirst, FreshGroup,
               AddToGroup, OracleFiguresOf, Tally, SortedKeys

LEMMA GroupsTallied ==
    ASSUME NEW S, IsFiniteSet(S), \A y \in S : y.end \in Int, NEW by,
           NEW key, key = [x \in S |-> OracleGroupOf(x, by)]
    PROVE  GroupTally(S, by) = Entries(S, key, Groups(S))
<1> DEFINE count(x, t) == [k \in DOMAIN t \cup {OracleGroupOf(x, by)} |->
                              IF k # OracleGroupOf(x, by) THEN t[k]
                              ELSE AddToGroup(x, IF k \in DOMAIN t THEN t[k] ELSE FreshGroup(x))]
           Eq(F) == F = [s \in SUBSET S |-> IF s = {} THEN <<>>
                           ELSE count(CHOOSE x \in s : TRUE, F[s \ {CHOOSE x \in s : TRUE}])]
           G == CHOOSE F : Eq(F)
           H == [s \in SUBSET S |-> Entries(s, key, Groups(S))]
<1>1. H[{}] = <<>>
  <2>1. H[{}] = Entries({}, key, Groups(S))
    OBVIOUS
  <2>2. {key[x] : x \in {}} = {}
    OBVIOUS
  <2>3. PICK ent : ent = Groups(S)
    OBVIOUS
  <2>4. [k \in {} |-> ent[{x \in {} : key[x] = k}]] = <<>>
    OBVIOUS
  <2>5. Entries({}, key, ent) = <<>>
    BY <2>2, <2>4, Zenon DEF Entries
  <2>6. QED
    BY <2>1, <2>3, <2>5
<1>2. ASSUME NEW s \in SUBSET S, NEW x \in s PROVE H[s] = count(x, H[s \ {x}])
  <2>1. PICK t : t = Entries(s \ {x}, key, Groups(S))
    OBVIOUS
  <2>2. Entries(s, key, Groups(S)) = NextGroups(x, key[x], t)
    BY <2>1, GroupsStep
  <2>3. key[x] = OracleGroupOf(x, by)
    OBVIOUS
  <2>4. H[s] = Entries(s, key, Groups(S)) /\ H[s \ {x}] = t
    BY <2>1
  <2> HIDE DEF H
  <2>5. QED
    BY <2>2, <2>3, <2>4, Zenon DEF NextGroups
<1>3. Eq(H)
  <2> HIDE DEF count
  <2>1. \A s \in SUBSET S : H[s] = IF s = {} THEN <<>>
              ELSE count(CHOOSE x \in s : TRUE, H[s \ {CHOOSE x \in s : TRUE}])
    <3> HIDE DEF H
    <3>1. \A s \in SUBSET S : s # {} => (CHOOSE x \in s : TRUE) \in s
      OBVIOUS
    <3>2. QED
      BY <1>1, <1>2, <3>1, Zenon
  <2>2. H = [s \in SUBSET S |-> H[s]]
    OBVIOUS
  <2> HIDE DEF H
  <2>3. QED
    BY <2>1, <2>2, Zenon
<1>4. GroupTally(S, by) = G[S]
  BY Zenon DEF GroupTally, Tally, FoldSet, MapThenFoldSet
<1> HIDE DEF count
<1>5. Eq(G)
  <2> HIDE DEF H, Eq
  <2> QED
    BY <1>3, Zenon
<1> HIDE DEF H, G
<1>6. G[{}] = H[{}]
  BY <1>1, <1>5
<1>7. \A s \in SUBSET S : \A x \in s : x = Choice(s) /\ G[s \ {x}] = H[s \ {x}] => G[s] = H[s]
  <2> SUFFICES ASSUME NEW s \in SUBSET S, NEW x \in s, x = Choice(s), G[s \ {x}] = H[s \ {x}]
               PROVE  G[s] = H[s]
    OBVIOUS
  <2>1. G[s] = count(x, G[s \ {x}])
    BY <1>5, Zenon DEF Choice
  <2>2. QED
    BY <1>2, <2>1
<1>8. G[S] = H[S]
  BY <1>6, <1>7, FoldsAgree
<1>9. H[S] = Entries(S, key, Groups(S))
  BY DEF H
<1>10. QED
  BY <1>4, <1>8, <1>9, Zenon

LEMMA PeriodsTallied ==
    ASSUME NEW S, IsFiniteSet(S), \A y \in S : y.end \in Int, NEW key, key = [x \in S |-> x.code]
    PROVE  PeriodTally(S) = Entries(S, key, Groups(S))
<1> DEFINE count(x, t) == [k \in DOMAIN t \cup {x.code} |->
                              IF k # x.code THEN t[k]
                              ELSE AddToGroup(x, IF k \in DOMAIN t THEN t[k] ELSE FreshGroup(x))]
           Eq(F) == F = [s \in SUBSET S |-> IF s = {} THEN <<>>
                           ELSE count(CHOOSE x \in s : TRUE, F[s \ {CHOOSE x \in s : TRUE}])]
           G == CHOOSE F : Eq(F)
           H == [s \in SUBSET S |-> Entries(s, key, Groups(S))]
<1>1. H[{}] = <<>>
  <2>1. H[{}] = Entries({}, key, Groups(S))
    OBVIOUS
  <2>2. {key[x] : x \in {}} = {}
    OBVIOUS
  <2>3. PICK ent : ent = Groups(S)
    OBVIOUS
  <2>4. [k \in {} |-> ent[{x \in {} : key[x] = k}]] = <<>>
    OBVIOUS
  <2>5. Entries({}, key, ent) = <<>>
    BY <2>2, <2>4, Zenon DEF Entries
  <2>6. QED
    BY <2>1, <2>3, <2>5
<1>2. ASSUME NEW s \in SUBSET S, NEW x \in s PROVE H[s] = count(x, H[s \ {x}])
  <2>1. PICK t : t = Entries(s \ {x}, key, Groups(S))
    OBVIOUS
  <2>2. Entries(s, key, Groups(S)) = NextGroups(x, key[x], t)
    BY <2>1, GroupsStep
  <2>3. key[x] = x.code
    OBVIOUS
  <2>4. H[s] = Entries(s, key, Groups(S)) /\ H[s \ {x}] = t
    BY <2>1
  <2> HIDE DEF H
  <2>5. QED
    BY <2>2, <2>3, <2>4, Zenon DEF NextGroups
<1>3. Eq(H)
  <2> HIDE DEF count
  <2>1. \A s \in SUBSET S : H[s] = IF s = {} THEN <<>>
              ELSE count(CHOOSE x \in s : TRUE, H[s \ {CHOOSE x \in s : TRUE}])
    <3> HIDE DEF H
    <3>1. \A s \in SUBSET S : s # {} => (CHOOSE x \in s : TRUE) \in s
      OBVIOUS
    <3>2. QED
      BY <1>1, <1>2, <3>1, Zenon
  <2>2. H = [s \in SUBSET S |-> H[s]]
    OBVIOUS
  <2> HIDE DEF H
  <2>3. QED
    BY <2>1, <2>2, Zenon
<1>4. PeriodTally(S) = G[S]
  BY Zenon DEF PeriodTally, Tally, FoldSet, MapThenFoldSet
<1> HIDE DEF count
<1>5. Eq(G)
  <2> HIDE DEF H, Eq
  <2> QED
    BY <1>3, Zenon
<1> HIDE DEF H, G
<1>6. G[{}] = H[{}]
  BY <1>1, <1>5
<1>7. \A s \in SUBSET S : \A x \in s : x = Choice(s) /\ G[s \ {x}] = H[s \ {x}] => G[s] = H[s]
  <2> SUFFICES ASSUME NEW s \in SUBSET S, NEW x \in s, x = Choice(s), G[s \ {x}] = H[s \ {x}]
               PROVE  G[s] = H[s]
    OBVIOUS
  <2>1. G[s] = count(x, G[s \ {x}])
    BY <1>5, Zenon DEF Choice
  <2>2. QED
    BY <1>2, <2>1
<1>8. G[S] = H[S]
  BY <1>6, <1>7, FoldsAgree
<1>9. H[S] = Entries(S, key, Groups(S))
  BY DEF H
<1>10. QED
  BY <1>4, <1>8, <1>9, Zenon

LEMMA FiguresTallied ==
    ASSUME NEW S, IsFiniteSet(S)
    PROVE  FigureTally(S) = Amounts(S, S)
<1> DEFINE count(x, sum) == OraclePlus(sum, OracleFiguresOf(x))
           Eq(F) == F = [s \in SUBSET S |-> IF s = {} THEN OracleNone
                           ELSE count(CHOOSE x \in s : TRUE, F[s \ {CHOOSE x \in s : TRUE}])]
           G == CHOOSE F : Eq(F)
           H == [s \in SUBSET S |-> Amounts(S, s)]
<1>1. H[{}] = OracleNone
  <2>1. \A n \in FigureNames : Amounts(S, {})[n] = 0
    <3> TAKE n \in FigureNames
    <3>1. Adds(S, FigureOf(S, n), Amount(S, n))
      BY AmountForm
    <3>2. QED
      BY <3>1 DEF Adds, Amounts
  <2>2. Amounts(S, {}) = [n \in FigureNames |-> Amounts(S, {})[n]]
    BY DEF Amounts
  <2>3. Amounts(S, {}) = OracleNone
    BY <2>1, <2>2, Zenon DEF OracleNone
  <2>4. QED
    BY <2>3
<1>2. ASSUME NEW s \in SUBSET S, NEW x \in s PROVE H[s] = count(x, H[s \ {x}])
  <2>1. OraclePlus(Amounts(S, s \ {x}), Figures(x)) = Amounts(S, s)
    BY AmountsStep
  <2>2. OracleFiguresOf(x) = Figures(x)
    BY OwnFigures
  <2>3. H[s] = Amounts(S, s) /\ H[s \ {x}] = Amounts(S, s \ {x})
    OBVIOUS
  <2> HIDE DEF H
  <2>4. QED
    BY <2>1, <2>2, <2>3, Zenon
<1>3. Eq(H)
  <2> HIDE DEF count
  <2>1. \A s \in SUBSET S : H[s] = IF s = {} THEN OracleNone
              ELSE count(CHOOSE x \in s : TRUE, H[s \ {CHOOSE x \in s : TRUE}])
    <3> HIDE DEF H
    <3>1. \A s \in SUBSET S : s # {} => (CHOOSE x \in s : TRUE) \in s
      OBVIOUS
    <3>2. QED
      BY <1>1, <1>2, <3>1, Zenon
  <2>2. H = [s \in SUBSET S |-> H[s]]
    OBVIOUS
  <2> HIDE DEF H
  <2>3. QED
    BY <2>1, <2>2, Zenon
<1>4. FigureTally(S) = G[S]
  BY Zenon DEF FigureTally, FoldSet, MapThenFoldSet
<1> HIDE DEF count
<1>5. Eq(G)
  <2> HIDE DEF H, Eq
  <2> QED
    BY <1>3, Zenon
<1> HIDE DEF H, G
<1>6. G[{}] = H[{}]
  BY <1>1, <1>5
<1>7. \A s \in SUBSET S : \A x \in s : x = Choice(s) /\ G[s \ {x}] = H[s \ {x}] => G[s] = H[s]
  <2> SUFFICES ASSUME NEW s \in SUBSET S, NEW x \in s, x = Choice(s), G[s \ {x}] = H[s \ {x}]
               PROVE  G[s] = H[s]
    OBVIOUS
  <2>1. G[s] = count(x, G[s \ {x}])
    BY <1>5, Zenon DEF Choice
  <2>2. QED
    BY <1>2, <2>1
<1>8. G[S] = H[S]
  BY <1>6, <1>7, FoldsAgree
<1>9. H[S] = Amounts(S, S)
  BY DEF H
<1>10. QED
  BY <1>4, <1>8, <1>9, Zenon

LEMMA NameForm ==
    ASSUME NEW w \in Portfolio
    PROVE  /\ \E a \in Int : EntityName(w) = <<a>>
           /\ \E b \in Int : ObligationName(w) = <<b>>
<1>1. \E a \in Int : EntityName(w) = <<a>>
  <2>1. CASE w.entity = None
    BY <2>1 DEF EntityName, Unknown
  <2>2. CASE w.entity # None
    <3>1. w.entity.name \in Int
      BY <2>2, WorkflowForm
    <3>2. QED
      BY <2>2, <3>1 DEF EntityName
  <2>3. QED
    BY <2>1, <2>2
<1>2. \E b \in Int : ObligationName(w) = <<b>>
  <2>1. CASE w.obligation = None
    BY <2>1 DEF ObligationName, Unknown
  <2>2. CASE w.obligation # None
    <3>1. w.obligation.name \in Int
      BY <2>2, WorkflowForm
    <3>2. QED
      BY <2>2, <3>1 DEF ObligationName
  <2>3. QED
    BY <2>1, <2>2
<1>3. QED
  BY <1>1, <1>2

\* A group is known by its key.
LEMMA GroupOfKey ==
    ASSUME NEW by \in Groupings, NEW x, x.wf \in Portfolio, NEW y, y.wf \in Portfolio,
           OracleGroupOf(x, by) = OracleGroupOf(y, by)
    PROVE  GroupOf(x, by) = GroupOf(y, by)
<1>1. PICK v \in Portfolio, w \in Portfolio : v = x.wf /\ w = y.wf
  OBVIOUS
<1>2. GroupOf(x, by).key = GroupOf(y, by).key
  BY SameGroup
<1>3. CASE by = "country"
  <2>1. \A z : GroupOf(z, by) = [key |-> GroupOf(z, by).key, label |-> GroupOf(z, by).key]
    BY <1>3 DEF GroupOf
  <2>2. QED
    BY <1>2, <2>1
<1>4. CASE by = "tax-type"
  <2>1. \A z : GroupOf(z, by) = [key |-> GroupOf(z, by).key, label |-> GroupOf(z, by).key]
    BY <1>4 DEF GroupOf
  <2>2. QED
    BY <1>2, <2>1
<1>5. CASE by = "period"
  <2>1. \A z : GroupOf(z, by) = [key |-> GroupOf(z, by).key, label |-> GroupOf(z, by).key]
    BY <1>5 DEF GroupOf
  <2>2. QED
    BY <1>2, <2>1
<1>6. CASE by = "obligation"
  <2>1. PICK k, l : /\ k = [u \in Portfolio |-> IF u.obligation = None THEN Unknown ELSE <<u.obligation.id>>]
                    /\ l = [u \in Portfolio |-> ObligationName(u)]
    OBVIOUS
  <2>2. \A z : z.wf \in Portfolio => GroupOf(z, by) = [key |-> k[z.wf], label |-> l[z.wf]]
    BY <1>6, <2>1 DEF GroupOf
  <2>3. k[v] = k[w]
    BY <1>1, <1>2, <2>2
  <2>4. v.obligation = w.obligation
    <3>1. CASE v.obligation = None /\ w.obligation = None
      BY <3>1
    <3>2. CASE v.obligation # None /\ w.obligation # None
      <4>1. <<v.obligation.id>> = <<w.obligation.id>>
        BY <2>1, <2>3, <3>2
      <4>2. v.obligation.id = w.obligation.id
        BY <4>1
      <4>3. QED
        BY <3>2, <4>2, WorkflowForm
    <3>3. CASE v.obligation = None /\ w.obligation # None
      <4>1. <<99>> = <<w.obligation.id>>
        BY <2>1, <2>3, <3>3 DEF Unknown
      <4>2. w.obligation.id = 99
        BY <4>1
      <4>3. QED
        BY <3>3, <4>2, WorkflowForm
    <3>4. CASE v.obligation # None /\ w.obligation = None
      <4>1. <<v.obligation.id>> = <<99>>
        BY <2>1, <2>3, <3>4 DEF Unknown
      <4>2. v.obligation.id = 99
        BY <4>1
      <4>3. QED
        BY <3>4, <4>2, WorkflowForm
    <3>5. QED
      BY <3>1, <3>2, <3>3, <3>4
  <2>5. ObligationName(v) = ObligationName(w)
    BY <2>4, Zenon DEF ObligationName
  <2>6. l[v] = l[w]
    BY <2>1, <2>5
  <2>7. QED
    BY <1>1, <2>2, <2>3, <2>6
<1>7. CASE by = "entity"
  <2>1. PICK k, l : /\ k = [u \in Portfolio |-> IF u.entity = None THEN Unknown ELSE <<u.entity.id>>]
                    /\ l = [u \in Portfolio |-> EntityName(u)]
    OBVIOUS
  <2>2. \A z : z.wf \in Portfolio => GroupOf(z, by) = [key |-> k[z.wf], label |-> l[z.wf]]
    BY <1>7, <2>1 DEF GroupOf
  <2>3. k[v] = k[w]
    BY <1>1, <1>2, <2>2
  <2>4. v.entity = w.entity
    <3>1. CASE v.entity = None /\ w.entity = None
      BY <3>1
    <3>2. CASE v.entity # None /\ w.entity # None
      <4>1. <<v.entity.id>> = <<w.entity.id>>
        BY <2>1, <2>3, <3>2
      <4>2. v.entity.id = w.entity.id
        BY <4>1
      <4>3. QED
        BY <3>2, <4>2, WorkflowForm
    <3>3. CASE v.entity = None /\ w.entity # None
      <4>1. <<99>> = <<w.entity.id>>
        BY <2>1, <2>3, <3>3 DEF Unknown
      <4>2. w.entity.id = 99
        BY <4>1
      <4>3. QED
        BY <3>3, <4>2, WorkflowForm
    <3>4. CASE v.entity # None /\ w.entity = None
      <4>1. <<v.entity.id>> = <<99>>
        BY <2>1, <2>3, <3>4 DEF Unknown
      <4>2. v.entity.id = 99
        BY <4>1
      <4>3. QED
        BY <3>4, <4>2, WorkflowForm
    <3>5. QED
      BY <3>1, <3>2, <3>3, <3>4
  <2>5. EntityName(v) = EntityName(w)
    BY <2>4, Zenon DEF EntityName
  <2>6. l[v] = l[w]
    BY <2>1, <2>5
  <2>7. QED
    BY <1>1, <2>2, <2>3, <2>6
<1>8. QED
  BY <1>3, <1>4, <1>5, <1>6, <1>7 DEF Groupings

FirstSeen(R) == Ordered({r.period : r \in R},
                        LAMBDA p : <<Min({r.end : r \in {s \in R : s.period = p}}), p>>)
Aggregate(R, g) ==
    [key |-> g.key, label |-> g.label, figures |-> SumOf({r \in R : r.group = g}),
     count |-> Cardinality({r \in R : r.group = g})]
Charted(R, L) ==
    [i \in DOMAIN L |-> [period |-> L[i], figures |-> SumOf({r \in R : r.period = L[i]})]]

LEMMA FinancialForm ==
    ASSUME NEW R, NEW limit, NEW offset
    PROVE  FinancialPage(R, limit, offset) =
               [rows |-> Page(ByName(R), limit, offset),
                aggregated |-> {Aggregate(R, g) : g \in {r.group : r \in R}},
                chart |-> Charted(R, FirstSeen(R)), summary |-> SumOf(R), total |-> Cardinality(R)]
  BY Zenon DEF FinancialPage, ByName, Aggregate, Charted, FirstSeen

\* The rows of the answer.
Rows(S, by) == {FinancialRow(x, by) : x \in S}
Numbered(S, by) == [x \in S |-> FinancialRow(x, by)]

RowOfEach(S, by, R, rho) ==
    /\ Carried(S, R, rho) /\ Named(R)
    /\ IsFiniteSet(S) /\ IsFiniteSet(R) /\ Cardinality(R) = Cardinality(S) /\ Cardinality(S) <= 5000
    /\ \A x \in S : /\ rho[x].id = x.id /\ rho[x].period = x.code /\ rho[x].end = x.end
                    /\ x.end \in Int /\ x.code \in Int
                    /\ rho[x].group = GroupOf(x, by) /\ x.wf \in Portfolio

LEMMA RowsForm ==
    ASSUME NEW q, Asking(q), NEW S \in SUBSET q.work, NEW by
    PROVE  RowOfEach(S, by, Rows(S, by), Numbered(S, by))
<1>1. PICK rho, R : rho = Numbered(S, by) /\ R = Rows(S, by)
  OBVIOUS
<1>2. rho \in [S -> R] /\ \A r \in R : \E x \in S : r = rho[x]
  BY <1>1 DEF Numbered, Rows
<1>3. \A x \in S : /\ rho[x].id = x.id /\ rho[x].period = x.code
                   /\ rho[x].end = x.end /\ rho[x].figures = Figures(x)
                   /\ rho[x].group = GroupOf(x, by)
                   /\ rho[x].entity = EntityName(x.wf) /\ rho[x].obligation = ObligationName(x.wf)
  BY <1>1 DEF Numbered, FinancialRow
<1>4. \A x \in S : x.id \in Int /\ x.end \in Int /\ x.code \in Int /\ x.wf \in Portfolio
  BY RowForm
<1>5. \A x, y \in S : rho[x] = rho[y] => x = y
  BY <1>3, TableForm
<1>6. IsFiniteSet(S) /\ Cardinality(S) <= 5000
  BY TableForm
<1>7. IsFiniteSet(R) /\ Cardinality(R) = Cardinality(S)
  BY <1>2, <1>5, <1>6, ImageSize
<1>8. Named(R)
  <2>1. ASSUME NEW r \in R
        PROVE  /\ \E a, b \in Int : r.entity = <<a>> /\ r.obligation = <<b>>
               /\ r.period \in Int /\ r.id \in Int
               /\ \E x \in S : r = rho[x] /\ r.id = x.id
    <3>1. PICK x \in S : r = rho[x]
      BY <1>2
    <3>2. PICK w \in Portfolio : w = x.wf
      BY <1>4
    <3>3. (\E a \in Int : EntityName(w) = <<a>>) /\ (\E b \in Int : ObligationName(w) = <<b>>)
      BY NameForm
    <3>4. QED
      BY <1>3, <1>4, <3>1, <3>2, <3>3
  <2>2. \A r, s \in R : r.id = s.id => r = s
    BY <2>1, TableForm
  <2>3. QED
    BY <2>1, <2>2 DEF Named
<1>9. Carried(S, R, rho)
  BY <1>2, <1>3, <1>5 DEF Carried
<1>10. RowOfEach(S, by, R, rho)
  BY <1>3, <1>4, <1>6, <1>7, <1>8, <1>9 DEF RowOfEach
<1>11. QED
  BY <1>1, <1>10, Zenon

Codes(S) == [x \in S |-> x.code]
PeriodEntries(S) == Entries(S, Codes(S), Groups(S))

\* The entry of a period.
LEMMA PeriodEntry ==
    ASSUME NEW S
    PROVE  /\ DOMAIN PeriodEntries(S) = {x.code : x \in S}
           /\ \A p \in {x.code : x \in S} :
                 /\ PeriodEntries(S)[p].figures = Amounts(S, {x \in S : x.code = p})
                 /\ PeriodEntries(S)[p].first = Min(EndDays({x \in S : x.code = p}))
<1>1. PICK key, ent : key = Codes(S) /\ ent = Groups(S)
  OBVIOUS
<1>2. {key[x] : x \in S} = {x.code : x \in S} /\ \A x \in S : key[x] = x.code
  BY <1>1 DEF Codes
<1>3. PeriodEntries(S) = [p \in {x.code : x \in S} |-> ent[{x \in S : key[x] = p}]]
  BY <1>1, <1>2, Zenon DEF PeriodEntries, Entries
<1>4. \A p : {x \in S : key[x] = p} = {x \in S : x.code = p}
  BY <1>2
<1>5. \A A \in SUBSET S : ent[A] = [figures |-> Amounts(S, A), count |-> Cardinality(A), first |-> Min(EndDays(A))]
  BY <1>1 DEF Groups
<1>6. \A A \in SUBSET S : ent[A].figures = Amounts(S, A) /\ ent[A].first = Min(EndDays(A))
  <2> TAKE A \in SUBSET S
  <2>1. PICK e, a, c, m : e = ent[A] /\ a = Amounts(S, A) /\ c = Cardinality(A) /\ m = Min(EndDays(A))
    OBVIOUS
  <2>2. e = [figures |-> a, count |-> c, first |-> m]
    BY <1>5, <2>1, Zenon
  <2>3. e.figures = a /\ e.first = m
    BY ONLY <2>2
  <2>4. QED
    BY <2>1, <2>3
<1>7. ASSUME NEW p \in {x.code : x \in S}
      PROVE  /\ PeriodEntries(S)[p].figures = Amounts(S, {x \in S : x.code = p})
             /\ PeriodEntries(S)[p].first = Min(EndDays({x \in S : x.code = p}))
  <2>1. PICK A \in SUBSET S : A = {x \in S : x.code = p}
    OBVIOUS
  <2>2. PeriodEntries(S)[p] = ent[A]
    BY <1>3, <1>4, <2>1
  <2>3. QED
    BY <1>6, <2>1, <2>2
<1>8. QED
  BY <1>3, <1>7

\* The periods of the chart, in the order of the oracle.
LEMMA ChartOrder ==
    ASSUME NEW q, Asking(q), NEW S \in SUBSET q.work, NEW by, NEW R, R = Rows(S, by)
    PROVE  /\ FirstSeen(R) = ByFirst(PeriodEntries(S))
           /\ \E n \in Nat : FirstSeen(R) \in [1 .. n -> {x.code : x \in S}]
<1>1. PICK P, T : P = {x.code : x \in S} /\ T = PeriodEntries(S)
  OBVIOUS
<1>2. PICK rho : rho = Numbered(S, by)
  OBVIOUS
<1>3. /\ rho \in [S -> R] /\ \A r \in R : \E x \in S : r = rho[x]
      /\ \A x \in S : rho[x].period = x.code /\ rho[x].end = x.end /\ x.end \in Int /\ x.code \in Int
      /\ IsFiniteSet(S)
  <2>1. RowOfEach(S, by, R, rho)
    BY <1>2, RowsForm
  <2>2. QED
    BY <2>1 DEF RowOfEach, Carried
<1>4. {r.period : r \in R} = P
  BY <1>1, <1>3
<1>5. DOMAIN T = P /\ \A p \in P : T[p].first = Min(EndDays({x \in S : x.code = p}))
  BY <1>1, PeriodEntry
<1>6. \A p : {r.end : r \in {s \in R : s.period = p}} = EndDays({x \in S : x.code = p})
  <2> TAKE p
  <2>1. PICK A : A = {x \in S : x.code = p}
    OBVIOUS
  <2>2. PICK B : B = {s \in R : s.period = p}
    OBVIOUS
  <2>3. (\A x \in A : rho[x] \in B /\ rho[x].end = x.end) /\ \A r \in B : \E x \in A : r = rho[x] /\ r.end = x.end
    BY <1>3, <2>1, <2>2
  <2>4. {r.end : r \in B} = {x.end : x \in A}
    BY <2>3
  <2>5. QED
    BY <2>1, <2>2, <2>4 DEF EndDays
<1>7. \A p \in P : Min({r.end : r \in {s \in R : s.period = p}}) = T[p].first /\ T[p].first \in Int /\ p \in Int
  <2> TAKE p \in P
  <2>1. PICK A : A = {x \in S : x.code = p}
    OBVIOUS
  <2>2. A # {} /\ A \in SUBSET S /\ IsFiniteSet(A)
    BY <1>1, <1>3, <2>1, FS_Subset
  <2>3. PICK E : E = EndDays(A)
    OBVIOUS
  <2>4. E \subseteq Int /\ E # {}
    BY <1>3, <2>2, <2>3 DEF EndDays
  <2>5. IsFiniteSet(E)
    <3>1. PICK e : e = [y \in A |-> y.end]
      OBVIOUS
    <3>2. e \in [A -> E] /\ \A t \in E : \E y \in A : t = e[y]
      BY <2>3, <3>1 DEF EndDays
    <3>3. QED
      BY <2>2, <3>2, ImageSize
  <2>6. Min(E) \in Int
    BY <2>4, <2>5, MinForm
  <2>7. T[p].first = Min(E) /\ Min({r.end : r \in {s \in R : s.period = p}}) = Min(E)
    BY <1>5, <1>6, <2>1, <2>3, Zenon
  <2>8. p \in Int
    BY <1>1, <1>3
  <2>9. QED
    BY <2>6, <2>7, <2>8
<1>8. PICK K : K = [p \in P |-> <<T[p].first, p>>]
  OBVIOUS
<1>9. Keys(P, K)
  <2>1. \A p \in P : K[p] \in Seq(Int) /\ K[p][2] = p
    <3> TAKE p \in P
    <3>1. PICK e \in Int, d \in Int : e = T[p].first /\ d = p
      BY <1>7
    <3>2. K[p] = <<e, d>>
      BY <1>8, <3>1
    <3>3. QED
      BY <3>1, <3>2
  <2>2. QED
    BY <1>8, <2>1 DEF Keys
<1>10. IsFiniteSet(P)
  <2>1. PICK c : c = [x \in S |-> x.code]
    OBVIOUS
  <2>2. c \in [S -> P] /\ \A p \in P : \E x \in S : p = c[x]
    BY <1>1, <2>1
  <2>3. QED
    BY <1>3, <2>2, ImageSize
<1>11. ByFirst(T) = InOrder(P, K)
  <2>1. \A s \in [1 .. Cardinality(P) -> P] :
            (\A i, j \in DOMAIN s : i < j => Precedes(K[s[i]], K[s[j]]))
            <=> (\A i, j \in DOMAIN s : i < j => Precedes(<<T[s[i]].first, s[i]>>, <<T[s[j]].first, s[j]>>))
    BY <1>8
  <2>2. QED
    BY <1>5, <2>1, Zenon DEF Ordered, ByFirst, InOrder
<1>12. FirstSeen(R) = InOrder(P, K)
  <2>0. \A p \in P : K[p] = <<Min({r.end : r \in {u \in R : u.period = p}}), p>>
    BY <1>7, <1>8
  <2>1. \A s \in [1 .. Cardinality(P) -> P] :
            (\A i, j \in DOMAIN s : i < j => Precedes(K[s[i]], K[s[j]]))
            <=> (\A i, j \in DOMAIN s : i < j =>
                    Precedes(<<Min({r.end : r \in {u \in R : u.period = s[i]}}), s[i]>>,
                             <<Min({r.end : r \in {u \in R : u.period = s[j]}}), s[j]>>))
    <3> TAKE s \in [1 .. Cardinality(P) -> P]
    <3>1. \A i \in DOMAIN s : s[i] \in P
      OBVIOUS
    <3>2. \A i \in DOMAIN s : K[s[i]] = <<Min({r.end : r \in {u \in R : u.period = s[i]}}), s[i]>>
      BY <2>0, <3>1, Zenon
    <3>3. QED
      BY <3>2, Zenon
  <2>2. QED
    BY <1>4, <2>1, Zenon DEF Ordered, FirstSeen, InOrder
<1>13. Sorted(ByKey(P, K), P, InOrder(P, K)) /\ Cardinality(P) \in Nat
  BY <1>9, <1>10, InOrderForm, FS_CardinalityType
<1>14. PICK n \in Nat : n = Cardinality(P)
  BY <1>13
<1>15. FirstSeen(R) \in [1 .. n -> P]
  BY <1>12, <1>13, <1>14 DEF Sorted
<1>16. QED
  BY <1>1, <1>11, <1>12, <1>15

\* One aggregated group.
LEMMA GroupHolds ==
    ASSUME NEW q, Asking(q), NEW S \in SUBSET q.work, NEW by \in Groupings, NEW y \in S,
           NEW key, key = [x \in S |-> OracleGroupOf(x, by)]
    PROVE  LET a == Aggregate(Rows(S, by), GroupOf(y, by))
               g == Entries(S, key, Groups(S))[key[y]]
           IN  a.key = key[y] /\ a.label = GroupOf(y, by).label /\ a.count = g.count /\ a.figures = g.figures
<1>1. PICK R, rho, ent : R = Rows(S, by) /\ rho = Numbered(S, by) /\ ent = Groups(S)
  OBVIOUS
<1>2. RowOfEach(S, by, R, rho)
  BY <1>1, RowsForm
<1>3. /\ rho \in [S -> R] /\ \A r \in R : \E x \in S : r = rho[x]
      /\ \A x, z \in S : rho[x] = rho[z] => x = z
      /\ \A x \in S : rho[x].group = GroupOf(x, by) /\ x.wf \in Portfolio
      /\ IsFiniteSet(S)
  BY <1>2 DEF RowOfEach, Carried
<1>4. PICK A \in SUBSET S : A = {x \in S : key[x] = key[y]}
  OBVIOUS
<1>5. \A x \in S : rho[x].group = GroupOf(y, by) <=> key[x] = key[y]
  <2> TAKE x \in S
  <2>1. rho[x].group = GroupOf(x, by) /\ key[x] = OracleGroupOf(x, by) /\ key[y] = OracleGroupOf(y, by)
    BY <1>3
  <2>2. OracleGroupOf(x, by) = GroupOf(x, by).key /\ OracleGroupOf(y, by) = GroupOf(y, by).key
    BY SameGroup
  <2>3. OracleGroupOf(x, by) = OracleGroupOf(y, by) => GroupOf(x, by) = GroupOf(y, by)
    BY <1>3, GroupOfKey
  <2>4. QED
    BY <2>1, <2>2, <2>3
<1>6. PICK T \in SUBSET R : T = {r \in R : r.group = GroupOf(y, by)}
  OBVIOUS
<1>7. Within(S, rho, T) = A
  BY <1>3, <1>4, <1>5, <1>6 DEF Within
<1>8. SumOf(T) = Amounts(S, A)
  <2>1. Carried(S, R, rho)
    BY <1>2 DEF RowOfEach
  <2>2. SumOf(T) = Amounts(S, Within(S, rho, T))
    BY <1>3, <2>1, SumOfRows
  <2>3. QED
    BY <1>7, <2>2
<1>9. Cardinality(T) = Cardinality(A)
  <2>1. PICK f : f = [x \in A |-> rho[x]]
    OBVIOUS
  <2>2. \A x \in A : f[x] = rho[x] /\ rho[x] \in T
    BY <1>3, <1>4, <1>5, <1>6, <2>1
  <2>3. \A t \in T : \E x \in A : t = rho[x]
    BY <1>3, <1>4, <1>5, <1>6
  <2>4. f \in [A -> T] /\ \A t \in T : \E x \in A : t = f[x]
    BY <2>1, <2>2, <2>3
  <2>5. \A x, z \in A : f[x] = f[z] => x = z
    BY <1>3, <2>2
  <2>6. IsFiniteSet(A)
    BY <1>3, FS_Subset
  <2>7. QED
    BY <2>4, <2>5, <2>6, ImageSize
<1>10. PICK g : g = Entries(S, key, ent)[key[y]]
  OBVIOUS
<1>11. g = ent[A]
  BY <1>4, <1>10 DEF Entries
<1>12. g.count = Cardinality(A) /\ g.figures = Amounts(S, A)
  <2>1. ent[A] = [figures |-> Amounts(S, A), count |-> Cardinality(A), first |-> Min(EndDays(A))]
    BY <1>1 DEF Groups
  <2>2. QED
    BY <1>11, <2>1
<1>13. PICK a : a = Aggregate(R, GroupOf(y, by))
  OBVIOUS
<1>14. /\ a.key = GroupOf(y, by).key /\ a.label = GroupOf(y, by).label
       /\ a.figures = SumOf(T) /\ a.count = Cardinality(T)
  BY <1>6, <1>13 DEF Aggregate
<1>15. GroupOf(y, by).key = key[y]
  BY SameGroup
<1>16. QED
  BY <1>1, <1>8, <1>9, <1>10, <1>12, <1>13, <1>14, <1>15, Zenon

\* The groups of the answer and those of the oracle.
SameGroups(AG, GT) ==
    /\ {g.key : g \in AG} = DOMAIN GT /\ Cardinality(AG) = Cardinality(DOMAIN GT)
    /\ \A g \in AG : g.count = GT[g.key].count /\ g.figures = GT[g.key].figures

LEMMA GroupsHold ==
    ASSUME NEW q, Asking(q), NEW S \in SUBSET q.work, NEW by \in Groupings
    PROVE  SameGroups({Aggregate(Rows(S, by), g) : g \in {r.group : r \in Rows(S, by)}}, GroupTally(S, by))
<1>1. PICK R, rho, key : R = Rows(S, by) /\ rho = Numbered(S, by) /\ key = [x \in S |-> OracleGroupOf(x, by)]
  OBVIOUS
<1>2. RowOfEach(S, by, R, rho)
  BY <1>1, RowsForm
<1>3. /\ rho \in [S -> R] /\ \A r \in R : \E x \in S : r = rho[x]
      /\ \A x \in S : rho[x].group = GroupOf(x, by) /\ x.wf \in Portfolio /\ x.end \in Int
      /\ IsFiniteSet(S)
  BY <1>2 DEF RowOfEach, Carried
<1>4. PICK GT : GT = GroupTally(S, by)
  OBVIOUS
<1>5. GT = Entries(S, key, Groups(S))
  BY <1>1, <1>3, <1>4, GroupsTallied
<1>6. DOMAIN GT = {key[x] : x \in S}
  BY <1>5 DEF Entries
<1>7. PICK AG : AG = {Aggregate(R, g) : g \in {r.group : r \in R}}
  OBVIOUS
<1>8. \A a \in AG : \E y \in S : a = Aggregate(R, GroupOf(y, by))
  BY <1>3, <1>7
<1>9. \A y \in S : Aggregate(R, GroupOf(y, by)) \in AG
  <2> TAKE y \in S
  <2>1. rho[y] \in R /\ rho[y].group = GroupOf(y, by)
    BY <1>3
  <2>2. QED
    BY <1>7, <2>1
<1>10. ASSUME NEW a, NEW y \in S, a = Aggregate(R, GroupOf(y, by))
       PROVE  a.key = key[y] /\ a.count = GT[key[y]].count /\ a.figures = GT[key[y]].figures
  <2>1. /\ Aggregate(Rows(S, by), GroupOf(y, by)).key = key[y]
        /\ Aggregate(Rows(S, by), GroupOf(y, by)).count = Entries(S, key, Groups(S))[key[y]].count
        /\ Aggregate(Rows(S, by), GroupOf(y, by)).figures = Entries(S, key, Groups(S))[key[y]].figures
    BY <1>1, GroupHolds
  <2>2. QED
    BY <1>1, <1>5, <1>10, <2>1, Zenon
<1>11. {a.key : a \in AG} = DOMAIN GT
  <2>1. \A a \in AG : a.key \in DOMAIN GT
    BY <1>6, <1>8, <1>10
  <2>2. ASSUME NEW k \in DOMAIN GT PROVE \E a \in AG : k = a.key
    <3>1. PICK y \in S : k = key[y]
      BY <1>6
    <3>2. QED
      BY <1>9, <1>10, <3>1
  <2>3. QED
    BY <2>1, <2>2
<1>12. \A a, b \in AG : a.key = b.key => a = b
  <2> TAKE a \in AG, b \in AG
  <2>1. PICK y \in S, z \in S : a = Aggregate(R, GroupOf(y, by)) /\ b = Aggregate(R, GroupOf(z, by))
    BY <1>8
  <2>2. a.key = key[y] /\ b.key = key[z]
    BY <1>10, <2>1
  <2>3. key[y] = OracleGroupOf(y, by) /\ key[z] = OracleGroupOf(z, by)
    BY <1>1
  <2>4. OracleGroupOf(y, by) = OracleGroupOf(z, by) => GroupOf(y, by) = GroupOf(z, by)
    BY <1>3, GroupOfKey
  <2>5. QED
    BY <2>1, <2>2, <2>3, <2>4
<1>13. Cardinality(AG) = Cardinality(DOMAIN GT)
  <2>1. IsFiniteSet(AG)
    <3>1. PICK h : h = [y \in S |-> Aggregate(R, GroupOf(y, by))]
      OBVIOUS
    <3>2. h \in [S -> AG] /\ \A a \in AG : \E y \in S : a = h[y]
      BY <1>8, <1>9, <3>1
    <3>3. QED
      BY <1>3, <3>2, ImageSize
  <2>2. PICK k, D : k = [a \in AG |-> a.key] /\ D = DOMAIN GT
    OBVIOUS
  <2>3. k \in [AG -> D] /\ (\A d \in D : \E a \in AG : d = k[a]) /\ \A a, b \in AG : k[a] = k[b] => a = b
    BY <1>11, <1>12, <2>2
  <2>4. Cardinality(D) = Cardinality(AG)
    BY <2>1, <2>3, ImageSize
  <2>5. QED
    BY <2>2, <2>4
<1>14. \A a \in AG : a.count = GT[a.key].count /\ a.figures = GT[a.key].figures
  BY <1>8, <1>10
<1>15. SameGroups(AG, GT)
  BY <1>11, <1>13, <1>14 DEF SameGroups
<1>16. QED
  BY <1>1, <1>4, <1>7, <1>15, Zenon

\* The chart of the answer and the periods of the oracle.
SameChart(CH, PT, CO) ==
    /\ [i \in DOMAIN CH |-> CH[i].period] = CO
    /\ \A i \in DOMAIN CH : CH[i].figures = PT[CH[i].period].figures

LEMMA ChartHolds ==
    ASSUME NEW q, Asking(q), NEW S \in SUBSET q.work, NEW by
    PROVE  SameChart(Charted(Rows(S, by), FirstSeen(Rows(S, by))), PeriodTally(S), ByFirst(PeriodTally(S)))
<1>1. PICK R, rho : R = Rows(S, by) /\ rho = Numbered(S, by)
  OBVIOUS
<1>2. RowOfEach(S, by, R, rho)
  BY <1>1, RowsForm
<1>3. /\ rho \in [S -> R] /\ \A r \in R : \E x \in S : r = rho[x]
      /\ \A x \in S : rho[x].period = x.code /\ x.end \in Int
      /\ IsFiniteSet(S) /\ Carried(S, R, rho)
  BY <1>2 DEF RowOfEach, Carried
<1>4. PICK PT : PT = PeriodTally(S)
  OBVIOUS
<1>5. PT = PeriodEntries(S)
  <2>1. PICK key : key = [x \in S |-> x.code]
    OBVIOUS
  <2>2. PeriodTally(S) = Entries(S, key, Groups(S))
    BY <1>3, <2>1, PeriodsTallied
  <2>3. QED
    BY <1>4, <2>1, <2>2, Zenon DEF PeriodEntries, Codes
<1>6. PICK L : L = FirstSeen(R)
  OBVIOUS
<1>7. L = ByFirst(PT) /\ \E n \in Nat : L \in [1 .. n -> {x.code : x \in S}]
  <2>1. FirstSeen(R) = ByFirst(PeriodEntries(S)) /\ \E n \in Nat : FirstSeen(R) \in [1 .. n -> {x.code : x \in S}]
    BY <1>1, ChartOrder
  <2>2. QED
    BY <1>5, <1>6, <2>1
<1>8. PICK CH : CH = Charted(R, L)
  OBVIOUS
<1>9. DOMAIN CH = DOMAIN L
  BY <1>8 DEF Charted
<1>10. \A i \in DOMAIN L : CH[i].period = L[i] /\ CH[i].figures = SumOf({r \in R : r.period = L[i]})
  BY <1>8 DEF Charted
<1>11. [i \in DOMAIN CH |-> CH[i].period] = L
  BY <1>7, <1>9, <1>10
<1>12. ASSUME NEW p \in {x.code : x \in S} PROVE SumOf({r \in R : r.period = p}) = PT[p].figures
  <2>1. PICK T \in SUBSET R : T = {r \in R : r.period = p}
    OBVIOUS
  <2>2. PICK A \in SUBSET S : A = {x \in S : x.code = p}
    OBVIOUS
  <2>3. Within(S, rho, T) = A
    BY <1>3, <2>1, <2>2 DEF Within
  <2>4. SumOf(T) = Amounts(S, Within(S, rho, T))
    BY <1>3, SumOfRows
  <2>5. PeriodEntries(S)[p].figures = Amounts(S, {x \in S : x.code = p})
    BY PeriodEntry
  <2>6. QED
    BY <1>5, <2>1, <2>2, <2>3, <2>4, <2>5
<1>13. \A i \in DOMAIN CH : CH[i].figures = PT[CH[i].period].figures
  <2> TAKE i \in DOMAIN CH
  <2>1. L[i] \in {x.code : x \in S}
    BY <1>7, <1>9
  <2>2. SumOf({r \in R : r.period = L[i]}) = PT[L[i]].figures
    BY <1>12, <2>1
  <2>3. QED
    BY <1>9, <1>10, <2>2
<1>14. SameChart(CH, PT, ByFirst(PT))
  BY <1>7, <1>11, <1>13 DEF SameChart
<1>15. QED
  BY <1>1, <1>4, <1>6, <1>8, <1>14, Zenon

LEMMA TaxFinancialHolds ==
    ASSUME NEW q, Asking(q), NEW f, NEW by \in Groupings
    PROVE  CheckTaxFinancial(q, f, by)
<1>1. PICK S : S = Carrying(q, f)
  OBVIOUS
<1>2. S \in SUBSET q.work /\ IsFiniteSet(S) /\ OracleCarrying(q, f) = S
  <2>1. {x \in OracleParticipating(q, f) : x.data # None /\ DOMAIN x.data # {}} = Carrying(q, f)
    BY CarryingForm
  <2>2. Carrying(q, f) \in SUBSET q.work /\ IsFiniteSet(Carrying(q, f))
    BY CarryingForm
  <2>3. QED
    BY <1>1, <2>1, <2>2, Zenon DEF OracleCarrying
<1>3. PICK R, rho : R = Rows(S, by) /\ rho = Numbered(S, by)
  OBVIOUS
<1>4. RowOfEach(S, by, R, rho)
  BY <1>2, <1>3, RowsForm
<1>5. /\ rho \in [S -> R] /\ \A x \in S : rho[x].id = x.id /\ rho[x].figures = Figures(x)
      /\ Carried(S, R, rho) /\ Named(R) /\ IsFiniteSet(R)
      /\ Cardinality(R) = Cardinality(S) /\ Cardinality(S) <= 5000
  BY <1>4 DEF RowOfEach, Carried
<1>6. PICK o : o = ByName(R)
  OBVIOUS
<1>7. Len(o) = Cardinality(R) /\ ToSet(o) = R /\ Page(o, 5000, 0) = o
  <2>1. Cardinality(R) <= 5000 /\ 5000 \in Nat
    BY <1>5
  <2>2. \A limit \in Nat : Cardinality(R) <= limit => Page(o, limit, 0) = o
    BY <1>5, <1>6, ByNameForm
  <2>3. Len(o) = Cardinality(R) /\ ToSet(o) = R
    BY <1>5, <1>6, ByNameForm
  <2>4. QED
    BY <2>1, <2>2, <2>3
<1>8. PICK AG, CH, Z, n : /\ AG = {Aggregate(R, g) : g \in {r.group : r \in R}}
                          /\ CH = Charted(R, FirstSeen(R)) /\ Z = SumOf(R) /\ n = Cardinality(R)
  OBVIOUS
<1>9. PICK got : got = TaxFinancial(q, Everything, f, by, ReportLimit, 0)
  OBVIOUS
<1>10. got = [rows |-> o, aggregated |-> AG, chart |-> CH, summary |-> Z, total |-> n]
  <2>1. got = FinancialPage(R, 5000, 0)
    <3>1. TaxFinancial(q, Everything, f, by, ReportLimit, 0) = FinancialPage(Rows(Carrying(q, f), by), ReportLimit, 0)
      BY Zenon DEF TaxFinancial, Carrying, Rows
    <3>2. QED
      BY <1>1, <1>3, <1>9, <3>1 DEF ReportLimit
  <2>2. FinancialPage(R, 5000, 0) =
               [rows |-> Page(ByName(R), 5000, 0),
                aggregated |-> {Aggregate(R, g) : g \in {r.group : r \in R}},
                chart |-> Charted(R, FirstSeen(R)), summary |-> SumOf(R), total |-> Cardinality(R)]
    BY FinancialForm
  <2>3. QED
    <3>1. Page(ByName(R), 5000, 0) = o
      BY <1>6, <1>7
    <3>2. QED
      BY <1>8, <2>1, <2>2, <3>1
<1>11. got.rows = o /\ got.aggregated = AG /\ got.chart = CH /\ got.summary = Z /\ got.total = n
  BY ONLY <1>10
<1>12. PICK W, GT, PT, CO, Y : /\ W = [x \in S |-> OracleFiguresOf(x)] /\ GT = GroupTally(S, by)
                               /\ PT = PeriodTally(S) /\ CO = ByFirst(PeriodTally(S)) /\ Y = FigureTally(S)
  OBVIOUS
<1>13. PICK want : want = OracleFinancial(q, f, by)
  OBVIOUS
<1>14. want = [rows |-> W, groups |-> GT, periods |-> PT, chartOrder |-> CO, summary |-> Y]
  <2>1. OracleFinancial(q, f, by) =
               [rows |-> [x \in OracleCarrying(q, f) |-> OracleFiguresOf(x)],
                groups |-> GroupTally(OracleCarrying(q, f), by),
                periods |-> PeriodTally(OracleCarrying(q, f)),
                chartOrder |-> ByFirst(PeriodTally(OracleCarrying(q, f))),
                summary |-> FigureTally(OracleCarrying(q, f))]
    BY OracleFinancialForm
  <2>2. QED
    BY <1>2, <1>12, <1>13, <2>1, Zenon
<1>15. want.rows = W /\ want.groups = GT /\ want.periods = PT /\ want.chartOrder = CO /\ want.summary = Y
  BY ONLY <1>14
<1>16. DOMAIN W = S /\ \A x \in S : W[x] = Figures(x)
  BY <1>12, OwnFigures
<1>17. Z = Y
  <2>1. Within(S, rho, R) = S
    BY <1>5 DEF Within
  <2>2. SumOf(R) = Amounts(S, Within(S, rho, R))
    BY <1>2, <1>5, SumOfRows
  <2>3. FigureTally(S) = Amounts(S, S)
    BY <1>2, FiguresTallied
  <2>4. QED
    BY <1>8, <1>12, <2>1, <2>2, <2>3
<1>18. SameGroups(AG, GT)
  BY <1>2, <1>3, <1>8, <1>12, GroupsHold
<1>19. SameChart(CH, PT, CO)
  BY <1>2, <1>3, <1>8, <1>12, ChartHolds
<1>20. \A x \in DOMAIN W : \E r \in ToSet(o) : r.id = x.id /\ r.figures = W[x]
  <2> TAKE x \in DOMAIN W
  <2>1. rho[x] \in ToSet(o) /\ rho[x].id = x.id /\ rho[x].figures = W[x]
    BY <1>5, <1>7, <1>16
  <2>2. QED
    BY <2>1
<1>21. n = Cardinality(DOMAIN W) /\ Len(o) = n
  BY <1>5, <1>7, <1>8, <1>16
<1>22. SameFinancials(got, want)
  BY <1>11, <1>15, <1>17, <1>18, <1>19, <1>20, <1>21 DEF SameFinancials, SameGroups, SameChart
<1>23. QED
  BY <1>9, <1>13, <1>22, Zenon DEF CheckTaxFinancial

(***************************************************************************)
(* compliance-heatmap.  Where an instance is shown.                        *)
(***************************************************************************)
LEMMA RowPlace ==
    ASSUME NEW w \in Portfolio
    PROVE  \E a, b \in Int : HeatmapRow(w) = [id |-> <<a>>, label |-> <<b>>]
<1>1. CASE w.entity = None
  <2>1. HeatmapRow(w) = [id |-> <<99>>, label |-> <<99>>]
    BY <1>1 DEF HeatmapRow, Unknown
  <2>2. 99 \in Int
    OBVIOUS
  <2>3. QED
    BY <2>1, <2>2, Zenon
<1>2. CASE w.entity # None
  <2>1. HeatmapRow(w) = [id |-> <<w.entity.id>>, label |-> <<w.entity.name>>]
    BY <1>2 DEF HeatmapRow
  <2>2. w.entity.id \in Int /\ w.entity.name \in Int
    BY <1>2, WorkflowForm
  <2>3. QED
    BY <2>1, <2>2, Zenon
<1>3. QED
  BY <1>1, <1>2

\* A row is known by its id, and by its label.
LEMMA RowKnown ==
    ASSUME NEW v \in Portfolio, NEW w \in Portfolio,
           HeatmapRow(v).id = HeatmapRow(w).id \/ HeatmapRow(v).label = HeatmapRow(w).label
    PROVE  HeatmapRow(v) = HeatmapRow(w)
<1>1. CASE v.entity = None /\ w.entity = None
  BY <1>1 DEF HeatmapRow
<1>2. CASE v.entity # None /\ w.entity # None
  <2>1. PICK a, b, c, d : a = v.entity.id /\ b = v.entity.name /\ c = w.entity.id /\ d = w.entity.name
    OBVIOUS
  <2>2. HeatmapRow(v) = [id |-> <<a>>, label |-> <<b>>] /\ HeatmapRow(w) = [id |-> <<c>>, label |-> <<d>>]
    BY <1>2, <2>1 DEF HeatmapRow
  <2>3. <<a>> = <<c>> \/ <<b>> = <<d>>
    BY <2>2
  <2>4. a = c \/ b = d
    BY <2>3
  <2>5. v.entity = w.entity
    BY <1>2, <2>1, <2>4, WorkflowForm
  <2>6. QED
    BY <2>5, Zenon DEF HeatmapRow
<1>3. ASSUME NEW x \in Portfolio, NEW y \in Portfolio, x.entity = None, y.entity # None
      PROVE  HeatmapRow(x).id # HeatmapRow(y).id /\ HeatmapRow(x).label # HeatmapRow(y).label
  <2>1. PICK c \in Int \ {99}, d \in Int \ {99} : c = y.entity.id /\ d = y.entity.name
    BY <1>3, WorkflowForm
  <2>2. HeatmapRow(x) = [id |-> <<99>>, label |-> <<99>>]
    BY <1>3 DEF HeatmapRow, Unknown
  <2>3. HeatmapRow(y) = [id |-> <<c>>, label |-> <<d>>]
    BY <1>3, <2>1 DEF HeatmapRow
  <2>4. <<99>> # <<c>> /\ <<99>> # <<d>>
    OBVIOUS
  <2>5. QED
    BY <2>2, <2>3, <2>4
<1>4. QED
  BY <1>1, <1>2, <1>3

\* The numbers an id of a column has.
Width(f, view) == IF view = "period" /\ f.year = None THEN 2 ELSE 1
\* Two texts differ at a place both have.
Apart(s, t) == \E j \in {1, 2} : j <= Len(s) /\ j <= Len(t) /\ s[j] # t[j]

\* What is known of the column of an instance.
ColForm(f, view, x) ==
    CASE view = "period" /\ f.year = None ->
            \E y, c \in Int : HeatmapCol(f, view, x) = [id |-> <<y, c>>, label |-> <<c, y>>]
      [] view = "period" /\ f.year # None ->
            \E c \in Int : HeatmapCol(f, view, x) = [id |-> <<c>>, label |-> <<c>>]
      [] view # "period" ->
            \/ HeatmapCol(f, view, x) = [id |-> <<99>>, label |-> <<99>>] /\ x.wf.obligation = None
            \/ /\ x.wf.obligation # None
               /\ \E a, b, c \in Int :
                    /\ a # 99 /\ b # 99 /\ HeatmapCol(f, view, x) = [id |-> <<a>>, label |-> <<b, c>>]
                    /\ a = x.wf.obligation.id /\ b = x.wf.obligation.name /\ c = x.wf.obligation.code

LEMMA ColPlace ==
    ASSUME NEW f, NEW view \in Views, NEW x, x.wf \in Portfolio, x.code \in Int
    PROVE  ColForm(f, view, x)
<1>1. CASE view = "period"
  <2>0. view # "tax-type"
    BY <1>1
  <2>1. CASE f.year = None
    <3>1. HeatmapCol(f, view, x) = [id |-> <<YearText(x.wf), x.code>>, label |-> <<x.code, YearText(x.wf)>>]
      BY <1>1, <2>0, <2>1, Zenon DEF HeatmapCol
    <3>2. YearText(x.wf) \in Int
      BY WorkflowForm DEF YearText
    <3>3. \E y, c \in Int : HeatmapCol(f, view, x) = [id |-> <<y, c>>, label |-> <<c, y>>]
      BY <3>1, <3>2, Zenon
    <3>4. QED
      BY <1>1, <2>1, <3>3, Zenon DEF ColForm
  <2>2. CASE f.year # None
    <3>1. HeatmapCol(f, view, x) = [id |-> <<x.code>>, label |-> <<x.code>>]
      BY <1>1, <2>0, <2>2, Zenon DEF HeatmapCol
    <3>2. \E c \in Int : HeatmapCol(f, view, x) = [id |-> <<c>>, label |-> <<c>>]
      BY <3>1, Zenon
    <3>3. QED
      BY <1>1, <2>2, <3>2, Zenon DEF ColForm
  <2>3. QED
    BY <2>1, <2>2
<1>2. CASE view # "period"
  <2>0. view = "tax-type"
    BY <1>2 DEF Views
  <2>1. CASE x.wf.obligation = None
    <3>1. HeatmapCol(f, view, x) = [id |-> <<99>>, label |-> <<99>>]
      BY <2>0, <2>1, Zenon DEF HeatmapCol, Unknown
    <3>2. QED
      BY <1>2, <2>1, <3>1, Zenon DEF ColForm
  <2>2. CASE x.wf.obligation # None
    <3>1. PICK a \in Int \ {99}, b \in Int \ {99}, c \in Int :
              a = x.wf.obligation.id /\ b = x.wf.obligation.name /\ c = x.wf.obligation.code
      BY <2>2, WorkflowForm
    <3>2. HeatmapCol(f, view, x) = [id |-> <<a>>, label |-> <<b, c>>]
      BY <2>0, <2>2, <3>1, Zenon DEF HeatmapCol
    <3>3. a \in Int /\ b \in Int /\ a # 99 /\ b # 99
      BY <3>1
    <3>4. QED
      BY <1>2, <2>2, <3>1, <3>2, <3>3, Zenon DEF ColForm
  <2>3. QED
    BY <2>1, <2>2
<1>3. QED
  BY <1>1, <1>2

LEMMA ColTexts ==
    ASSUME NEW f, NEW view \in Views, NEW x, x.wf \in Portfolio, x.code \in Int
    PROVE  /\ HeatmapCol(f, view, x).id \in Seq(Int) /\ HeatmapCol(f, view, x).label \in Seq(Int)
           /\ Len(HeatmapCol(f, view, x).id) = Width(f, view)
<1>1. PICK col : col = HeatmapCol(f, view, x)
  OBVIOUS
<1>2. ColForm(f, view, x)
  BY ColPlace
<1>3. CASE view = "period" /\ f.year = None
  <2>1. PICK y \in Int, c \in Int : col = [id |-> <<y, c>>, label |-> <<c, y>>]
    BY <1>1, <1>2, <1>3 DEF ColForm
  <2>2. <<y, c>> \in Seq(Int) /\ <<c, y>> \in Seq(Int) /\ Len(<<y, c>>) = 2
    OBVIOUS
  <2>3. col.id = <<y, c>> /\ col.label = <<c, y>>
    BY ONLY <2>1
  <2>4. Width(f, view) = 2
    BY <1>3 DEF Width
  <2>5. QED
    BY <1>1, <2>2, <2>3, <2>4, Zenon
<1>4. CASE view = "period" /\ f.year # None
  <2>1. PICK c \in Int : col = [id |-> <<c>>, label |-> <<c>>]
    BY <1>1, <1>2, <1>4 DEF ColForm
  <2>2. <<c>> \in Seq(Int) /\ Len(<<c>>) = 1
    OBVIOUS
  <2>3. col.id = <<c>> /\ col.label = <<c>>
    BY ONLY <2>1
  <2>4. Width(f, view) = 1
    BY <1>4 DEF Width
  <2>5. QED
    BY <1>1, <2>2, <2>3, <2>4, Zenon
<1>5. CASE view # "period"
  <2>1. col = [id |-> <<99>>, label |-> <<99>>] \/ \E a, b, c \in Int : col = [id |-> <<a>>, label |-> <<b, c>>]
    BY <1>1, <1>2, <1>5, Zenon DEF ColForm
  <2>2. CASE col = [id |-> <<99>>, label |-> <<99>>]
    BY <1>1, <1>5, <2>2 DEF Width
  <2>3. CASE \E a, b, c \in Int : col = [id |-> <<a>>, label |-> <<b, c>>]
    <3>1. PICK a \in Int, b \in Int, c \in Int : col = [id |-> <<a>>, label |-> <<b, c>>]
      BY <2>3
    <3>2. QED
      BY <1>1, <1>5, <3>1 DEF Width
  <2>4. QED
    BY <2>1, <2>2, <2>3
<1>6. QED
  BY <1>3, <1>4, <1>5

\* A column is known by its id, and the labels of two are apart.
LEMMA ColKnown ==
    ASSUME NEW f, NEW view \in Views, NEW x, x.wf \in Portfolio, x.code \in Int,
           NEW y, y.wf \in Portfolio, y.code \in Int,
           HeatmapCol(f, view, x) # HeatmapCol(f, view, y)
    PROVE  /\ HeatmapCol(f, view, x).id # HeatmapCol(f, view, y).id
           /\ Apart(HeatmapCol(f, view, x).label, HeatmapCol(f, view, y).label)
<1>1. PICK col, other : col = HeatmapCol(f, view, x) /\ other = HeatmapCol(f, view, y) /\ col # other
  OBVIOUS
<1>2. ColForm(f, view, x) /\ ColForm(f, view, y)
  BY ColPlace
<1>3. CASE view = "period" /\ f.year = None
  <2>1. PICK a \in Int, b \in Int : col = [id |-> <<a, b>>, label |-> <<b, a>>]
    BY <1>1, <1>2, <1>3 DEF ColForm
  <2>2. PICK c \in Int, d \in Int : other = [id |-> <<c, d>>, label |-> <<d, c>>]
    BY <1>1, <1>2, <1>3 DEF ColForm
  <2>3. a # c \/ b # d
    BY <1>1, <2>1, <2>2
  <2>4. <<a, b>> # <<c, d>>
    BY <2>3
  <2>5. Apart(<<b, a>>, <<d, c>>)
    BY <2>3 DEF Apart
  <2>6. QED
    BY <1>1, <2>1, <2>2, <2>4, <2>5
<1>4. CASE view = "period" /\ f.year # None
  <2>1. PICK a \in Int : col = [id |-> <<a>>, label |-> <<a>>]
    BY <1>1, <1>2, <1>4 DEF ColForm
  <2>2. PICK c \in Int : other = [id |-> <<c>>, label |-> <<c>>]
    BY <1>1, <1>2, <1>4 DEF ColForm
  <2>3. a # c
    BY <1>1, <2>1, <2>2
  <2>4. <<a>> # <<c>>
    BY <2>3
  <2>5. Apart(<<a>>, <<c>>)
    BY <2>3 DEF Apart
  <2>6. QED
    BY <1>1, <2>1, <2>2, <2>4, <2>5
<1>5. CASE view # "period"
  <2>1. \/ col = [id |-> <<99>>, label |-> <<99>>] /\ x.wf.obligation = None
        \/ /\ x.wf.obligation # None
           /\ \E a, b, c \in Int : /\ a # 99 /\ b # 99 /\ col = [id |-> <<a>>, label |-> <<b, c>>]
                /\ a = x.wf.obligation.id /\ b = x.wf.obligation.name /\ c = x.wf.obligation.code
    BY <1>1, <1>2, <1>5, Zenon DEF ColForm
  <2>2. \/ other = [id |-> <<99>>, label |-> <<99>>] /\ y.wf.obligation = None
        \/ /\ y.wf.obligation # None
           /\ \E a, b, c \in Int : /\ a # 99 /\ b # 99 /\ other = [id |-> <<a>>, label |-> <<b, c>>]
                /\ a = y.wf.obligation.id /\ b = y.wf.obligation.name /\ c = y.wf.obligation.code
    BY <1>1, <1>2, <1>5, Zenon DEF ColForm
  <2>3. CASE x.wf.obligation = None /\ y.wf.obligation = None
    BY <1>1, <2>1, <2>2, <2>3
  <2>4. CASE x.wf.obligation = None /\ y.wf.obligation # None
    <3>1. PICK a \in Int, b \in Int, c \in Int : a # 99 /\ b # 99 /\ other = [id |-> <<a>>, label |-> <<b, c>>]
      BY <2>2, <2>4
    <3>2. col = [id |-> <<99>>, label |-> <<99>>]
      BY <2>1, <2>4
    <3>3. <<99>> # <<a>> /\ Apart(<<99>>, <<b, c>>)
      BY <3>1 DEF Apart
    <3>4. QED
      BY <1>1, <3>1, <3>2, <3>3
  <2>5. CASE x.wf.obligation # None /\ y.wf.obligation = None
    <3>1. PICK a \in Int, b \in Int, c \in Int : a # 99 /\ b # 99 /\ col = [id |-> <<a>>, label |-> <<b, c>>]
      BY <2>1, <2>5
    <3>2. other = [id |-> <<99>>, label |-> <<99>>]
      BY <2>2, <2>5
    <3>3. <<a>> # <<99>> /\ Apart(<<b, c>>, <<99>>)
      BY <3>1 DEF Apart
    <3>4. QED
      BY <1>1, <3>1, <3>2, <3>3
  <2>6. CASE x.wf.obligation # None /\ y.wf.obligation # None
    <3>1. PICK a \in Int, b \in Int, c \in Int :
              /\ col = [id |-> <<a>>, label |-> <<b, c>>]
              /\ a = x.wf.obligation.id /\ b = x.wf.obligation.name /\ c = x.wf.obligation.code
      BY <2>1, <2>6
    <3>2. PICK d \in Int, e \in Int, g \in Int :
              /\ other = [id |-> <<d>>, label |-> <<e, g>>]
              /\ d = y.wf.obligation.id /\ e = y.wf.obligation.name /\ g = y.wf.obligation.code
      BY <2>2, <2>6
    <3>3. x.wf.obligation # y.wf.obligation
      <4>1. x.wf.obligation = y.wf.obligation => a = d /\ b = e /\ c = g
        BY <3>1, <3>2
      <4>2. QED
        BY <1>1, <3>1, <3>2, <4>1
    <3>4. a # d /\ (b # e \/ c # g)
      BY <2>6, <3>1, <3>2, <3>3, WorkflowForm
    <3>5. <<a>> # <<d>> /\ Apart(<<b, c>>, <<e, g>>)
      BY <3>4 DEF Apart
    <3>6. QED
      BY <1>1, <3>1, <3>2, <3>5
  <2>7. QED
    BY <2>3, <2>4, <2>5, <2>6
<1>6. QED
  BY <1>3, <1>4, <1>5

\* The order of texts is that of what is apart in them.
LEMMA OrderKept ==
    ASSUME NEW s \in Seq(Int), NEW t \in Seq(Int), NEW u \in Seq(Int), NEW v \in Seq(Int),
           Precedes(s, t), \E j \in 1 .. Len(s) : j <= Len(t) /\ s[j] # t[j]
    PROVE  Precedes(s \o u, t \o v)
<1>1. PICK i \in Nat : At(s, t, i)
  BY PrecedesForm
<1>2. i \in 1 .. Len(t) /\ i <= Len(s) + 1 /\ \A j \in 1 .. i - 1 : s[j] = t[j]
  BY <1>1 DEF At
<1>3. PICK j \in 1 .. Len(s) : j <= Len(t) /\ s[j] # t[j]
  OBVIOUS
<1>4. i # Len(s) + 1
  BY <1>2, <1>3
<1>5. i \in 1 .. Len(s) /\ s[i] < t[i]
  BY <1>1, <1>2, <1>4 DEF At
<1>6. PICK a, b : a = s \o u /\ b = t \o v
  OBVIOUS
<1>7. /\ a \in Seq(Int) /\ b \in Seq(Int) /\ Len(a) >= Len(s) /\ Len(b) >= Len(t)
      /\ \A k \in 1 .. Len(s) : a[k] = s[k]
      /\ \A k \in 1 .. Len(t) : b[k] = t[k]
  BY <1>6, SMTT(60)
<1>8. At(a, b, i)
  <2>1. PICK k, l, m, n : k = Len(s) /\ l = Len(t) /\ m = Len(a) /\ n = Len(b)
    OBVIOUS
  <2>2. k \in Nat /\ l \in Nat
    BY <2>1
  <2>3. m \in Nat /\ n \in Nat
    BY <1>7, <2>1
  <2>4. k <= m /\ l <= n /\ i \in 1 .. k /\ i \in 1 .. l
    BY <1>2, <1>5, <1>7, <2>1
  <2>5. i \in 1 .. n /\ i <= m + 1 /\ i \in 1 .. k /\ i \in 1 .. l
    BY ONLY <2>2, <2>3, <2>4
  <2>6. a[i] = s[i] /\ b[i] = t[i]
    BY <1>7, <2>1, <2>5
  <2>7. \A h \in 1 .. i - 1 : a[h] = b[h]
    <3> TAKE h \in 1 .. i - 1
    <3>1. h \in 1 .. k /\ h \in 1 .. l
      BY <2>2, <2>5
    <3>2. QED
      BY <1>2, <1>7, <2>1, <3>1
  <2>8. QED
    BY <1>5, <2>1, <2>5, <2>6, <2>7 DEF At
<1>9. QED
  BY <1>6, <1>7, <1>8, PrecedesForm

(***************************************************************************)
(* The cells.                                                              *)
(***************************************************************************)
Spot(f, view, x) == [row |-> HeatmapRow(x.wf), col |-> HeatmapCol(f, view, x)]
PlaceOf(f, view, x) == <<HeatmapRow(x.wf).id, HeatmapCol(f, view, x).id>>
Places(S, f, view) == [x \in S |-> PlaceOf(f, view, x)]

Ended(A) == Cardinality({x \in A : x.status = "completed"})
Worked(A) == Cardinality({x \in A : x.status \in {"in_progress", "in_review", "pending_approval"}})
InClass(q, A, class) == Cardinality({x \in A : ComplianceClass(q, x, x.due) = class})
FlowsOf(A) == {x.wf.id : x \in A}

CellIn(q, f, view, A, y) ==
    [row |-> HeatmapRow(y.wf), col |-> HeatmapCol(f, view, y),
     total |-> Cardinality(A), completed |-> Ended(A), overdue |-> InClass(q, A, "missed"),
     late |-> InClass(q, A, "late"), inProgress |-> Worked(A), workflows |-> FlowsOf(A),
     first |-> Min(EndDays(A))]
CellAt(q, S, f, view, cell) ==
    [row |-> cell.row, col |-> cell.col,
     total |-> Cardinality({x \in S : Spot(f, view, x) = cell}),
     completed |-> Ended({x \in S : Spot(f, view, x) = cell}),
     overdue |-> InClass(q, {x \in S : Spot(f, view, x) = cell}, "missed"),
     late |-> InClass(q, {x \in S : Spot(f, view, x) = cell}, "late"),
     inProgress |-> Worked({x \in S : Spot(f, view, x) = cell}),
     workflows |-> FlowsOf({x \in S : Spot(f, view, x) = cell}),
     first |-> Min(EndDays({x \in S : Spot(f, view, x) = cell}))]

LEMMA SamePlace ==
    ASSUME NEW f, NEW view \in Views, NEW x, x.wf \in Portfolio, x.code \in Int,
           NEW y, y.wf \in Portfolio, y.code \in Int
    PROVE  PlaceOf(f, view, x) = PlaceOf(f, view, y) <=> Spot(f, view, x) = Spot(f, view, y)
<1>1. PICK r, s, c, d : /\ r = HeatmapRow(x.wf) /\ s = HeatmapRow(y.wf)
                        /\ c = HeatmapCol(f, view, x) /\ d = HeatmapCol(f, view, y)
  OBVIOUS
<1>2. r.id = s.id => r = s
  BY <1>1, RowKnown
<1>3. c.id = d.id => c = d
  BY <1>1, ColKnown
<1>4. PlaceOf(f, view, x) = <<r.id, c.id>> /\ PlaceOf(f, view, y) = <<s.id, d.id>>
  BY <1>1 DEF PlaceOf
<1>5. Spot(f, view, x) = [row |-> r, col |-> c] /\ Spot(f, view, y) = [row |-> s, col |-> d]
  BY <1>1 DEF Spot
<1>6. <<r.id, c.id>> = <<s.id, d.id>> <=> r.id = s.id /\ c.id = d.id
  OBVIOUS
<1>7. [row |-> r, col |-> c] = [row |-> s, col |-> d] <=> r = s /\ c = d
  OBVIOUS
<1>8. QED
  BY <1>2, <1>3, <1>4, <1>5, <1>6, <1>7

LEMMA CellsForm ==
    ASSUME NEW q, Asking(q), NEW f, NEW view \in Views, NEW S, S = ComplianceFrom(q, Everything, f)
    PROVE  HeatmapCells(q, Everything, f, view) = {CellIn(q, f, view, Mates(S, Places(S, f, view), y), y) : y \in S}
<1>1. HeatmapCells(q, Everything, f, view) = {CellAt(q, S, f, view, cell) : cell \in {Spot(f, view, x) : x \in S}}
  BY SMTT(60) DEF HeatmapCells, CellAt, Spot, Ended, Worked, InClass, FlowsOf, EndDays, Count
<1>2. \A y \in S : CellAt(q, S, f, view, Spot(f, view, y)) = CellIn(q, f, view, Mates(S, Places(S, f, view), y), y)
  <2> TAKE y \in S
  <2>1. S \in SUBSET q.work
    BY DEF ComplianceFrom
  <2>2. \A x \in S : x.wf \in Portfolio /\ x.code \in Int
    BY <2>1, RowForm
  <2>3. {x \in S : Spot(f, view, x) = Spot(f, view, y)} = Mates(S, Places(S, f, view), y)
    <3>1. \A x \in S : Places(S, f, view)[x] = Places(S, f, view)[y] <=> Spot(f, view, x) = Spot(f, view, y)
      <4> TAKE x \in S
      <4>1. Places(S, f, view)[x] = PlaceOf(f, view, x) /\ Places(S, f, view)[y] = PlaceOf(f, view, y)
        BY DEF Places
      <4>2. PlaceOf(f, view, x) = PlaceOf(f, view, y) <=> Spot(f, view, x) = Spot(f, view, y)
        BY <2>2, SamePlace
      <4>3. QED
        BY <4>1, <4>2
    <3>2. QED
      BY <3>1 DEF Mates
  <2>4. Spot(f, view, y).row = HeatmapRow(y.wf) /\ Spot(f, view, y).col = HeatmapCol(f, view, y)
    BY DEF Spot
  <2>5. QED
    BY <2>3, <2>4, Zenon DEF CellAt, CellIn
<1>3. PICK at, in : /\ at = [cell \in {Spot(f, view, x) : x \in S} |-> CellAt(q, S, f, view, cell)]
                    /\ in = [y \in S |-> CellIn(q, f, view, Mates(S, Places(S, f, view), y), y)]
  OBVIOUS
<1>4. \A y \in S : at[Spot(f, view, y)] = in[y]
  BY <1>2, <1>3
<1>5. {at[cell] : cell \in {Spot(f, view, x) : x \in S}} = {in[y] : y \in S}
  BY <1>4
<1>6. {CellAt(q, S, f, view, cell) : cell \in {Spot(f, view, x) : x \in S}}
          = {at[cell] : cell \in {Spot(f, view, x) : x \in S}}
  BY <1>3
<1>7. {CellIn(q, f, view, Mates(S, Places(S, f, view), y), y) : y \in S} = {in[y] : y \in S}
  BY <1>3
<1>8. QED
  BY <1>1, <1>5, <1>6, <1>7, Zenon

(***************************************************************************)
(* The tally of the oracle.                                                *)
(***************************************************************************)
EntryIn(q, f, view, A) ==
    [rowLabel |-> HeatmapRow(Choice(A).wf).label, colLabel |-> HeatmapCol(f, view, Choice(A)).label,
     total |-> Cardinality(A), completed |-> Ended(A), overdue |-> InClass(q, A, "missed"),
     late |-> InClass(q, A, "late"), inProgress |-> Worked(A), workflows |-> FlowsOf(A),
     first |-> Min(EndDays(A))]
CellEntries(q, S, f, view) == [A \in SUBSET S |-> EntryIn(q, f, view, A)]

FreshCell(f, view, x) ==
    [rowLabel |-> OracleRow(x).label, colLabel |-> OracleColumn(f, view, x).label,
     total |-> 0, completed |-> 0, overdue |-> 0, late |-> 0, inProgress |-> 0,
     workflows |-> {}, first |-> x.end]
AddToCell(q, x, c) ==
    [c EXCEPT !.total = @ + 1,
              !.completed = @ + One(x.status = "completed"),
              !.overdue = @ + One(OracleClassify(q, x, x.due) = "missed"),
              !.late = @ + One(OracleClassify(q, x, x.due) = "late"),
              !.inProgress = @ + One(x.status \in {"in_progress", "in_review", "pending_approval"}),
              !.workflows = @ \cup {x.wf.id}, !.first = Least(@, x.end)]

\* Counting one more.
LEMMA OneMoreCounted ==
    ASSUME NEW q, Asking(q), NEW A \in SUBSET q.work, NEW x \in A, NEW B, B = A \ {x}
    PROVE  /\ Cardinality(A) = Cardinality(B) + 1
           /\ Ended(A) = Ended(B) + One(x.status = "completed")
           /\ InClass(q, A, "missed") = InClass(q, B, "missed") + One(OracleClassify(q, x, x.due) = "missed")
           /\ InClass(q, A, "late") = InClass(q, B, "late") + One(OracleClassify(q, x, x.due) = "late")
           /\ Worked(A) = Worked(B) + One(x.status \in {"in_progress", "in_review", "pending_approval"})
           /\ FlowsOf(A) = FlowsOf(B) \cup {x.wf.id}
           /\ Min(EndDays(A)) = IF B = {} THEN x.end ELSE Least(Min(EndDays(B)), x.end)
<1>1. \A S \in SUBSET A : IsFiniteSet(S)
  BY TableForm
<1>2. OracleClassify(q, x, x.due) = ComplianceClass(q, x, x.due)
  BY RowForm, SameClass
<1>3. Cardinality(A) = Cardinality(B) + 1
  <2>1. Cardinality(A) = Cardinality(A \ {x}) + One(x \in A)
    BY <1>1, CountStep
  <2>2. QED
    BY <2>1 DEF One
<1>4. Ended(A) = Ended(B) + One(x.status = "completed")
  <2>1. PICK T \in SUBSET A : T = {y \in A : y.status = "completed"}
    OBVIOUS
  <2>2. T \ {x} = {y \in B : y.status = "completed"} /\ (x \in T <=> x.status = "completed")
    BY <2>1
  <2>3. Cardinality(T) = Cardinality(T \ {x}) + One(x \in T)
    BY <1>1, CountStep
  <2>4. One(x \in T) = One(x.status = "completed")
    BY <2>2, Zenon DEF One
  <2>5. QED
    BY <2>1, <2>2, <2>3, <2>4 DEF Ended
<1>5. Worked(A) = Worked(B) + One(x.status \in {"in_progress", "in_review", "pending_approval"})
  <2>1. PICK T \in SUBSET A : T = {y \in A : y.status \in {"in_progress", "in_review", "pending_approval"}}
    OBVIOUS
  <2>2. T \ {x} = {y \in B : y.status \in {"in_progress", "in_review", "pending_approval"}}
    BY <2>1
  <2>3. x \in T <=> x.status \in {"in_progress", "in_review", "pending_approval"}
    BY <2>1
  <2>4. Cardinality(T) = Cardinality(T \ {x}) + One(x \in T)
    BY <1>1, CountStep
  <2>5. One(x \in T) = One(x.status \in {"in_progress", "in_review", "pending_approval"})
    BY <2>3, Zenon DEF One
  <2>6. QED
    BY <2>1, <2>2, <2>4, <2>5 DEF Worked
<1>6. ASSUME NEW class
      PROVE  InClass(q, A, class) = InClass(q, B, class) + One(OracleClassify(q, x, x.due) = class)
  <2>1. PICK T \in SUBSET A : T = {y \in A : ComplianceClass(q, y, y.due) = class}
    OBVIOUS
  <2>2. T \ {x} = {y \in B : ComplianceClass(q, y, y.due) = class}
        /\ (x \in T <=> OracleClassify(q, x, x.due) = class)
    BY <1>2, <2>1
  <2>3. Cardinality(T) = Cardinality(T \ {x}) + One(x \in T)
    BY <1>1, CountStep
  <2>4. One(x \in T) = One(OracleClassify(q, x, x.due) = class)
    BY <2>2, Zenon DEF One
  <2>5. QED
    BY <2>1, <2>2, <2>3, <2>4 DEF InClass
<1>7. FlowsOf(A) = FlowsOf(B) \cup {x.wf.id}
  BY DEF FlowsOf
<1>8. Min(EndDays(A)) = IF B = {} THEN x.end ELSE Least(Min(EndDays(B)), x.end)
  <2>1. \A y \in A : y.end \in Int
    BY RowForm
  <2>2. EndDays(A) = EndDays(B) \cup {x.end} /\ EndDays(B) \subseteq Int /\ x.end \in Int
        /\ (B = {} <=> EndDays(B) = {})
    BY <2>1 DEF EndDays
  <2>3. IsFiniteSet(EndDays(B))
    <3>1. PICK e, E : e = [y \in B |-> y.end] /\ E = EndDays(B)
      OBVIOUS
    <3>2. e \in [B -> E] /\ \A t \in E : \E y \in B : t = e[y]
      BY <3>1 DEF EndDays
    <3>3. IsFiniteSet(B)
      BY <1>1
    <3>4. IsFiniteSet(E)
      BY ONLY <3>2, <3>3, ImageSize
    <3>5. QED
      BY <3>1, <3>4
  <2>4. Min(EndDays(A)) = IF EndDays(B) = {} THEN x.end ELSE Least(Min(EndDays(B)), x.end)
    BY <2>2, <2>3, MinAdd
  <2>5. QED
    BY <2>2, <2>4
<1>9. QED
  BY <1>3, <1>4, <1>5, <1>6, <1>7, <1>8

Together(f, view, A, x) == \A y \in A : PlaceOf(f, view, y) = PlaceOf(f, view, x)

LEMMA EntryStep ==
    ASSUME NEW q, Asking(q), NEW f, NEW view \in Views, NEW A \in SUBSET q.work, NEW x \in A,
           Together(f, view, A, x)
    PROVE  EntryIn(q, f, view, A)
             = AddToCell(q, x, IF A \ {x} # {} THEN EntryIn(q, f, view, A \ {x}) ELSE FreshCell(f, view, x))
<1>1. PICK B : B = A \ {x}
  OBVIOUS
<1>2. PICK l, m : l = HeatmapRow(x.wf).label /\ m = HeatmapCol(f, view, x).label
  OBVIOUS
<1>3. \A C \in SUBSET A : C # {} => HeatmapRow(Choice(C).wf).label = l /\ HeatmapCol(f, view, Choice(C)).label = m
  <2> TAKE C \in SUBSET A
  <2> HAVE C # {}
  <2>1. PICK y \in A : y = Choice(C)
    BY DEF Choice
  <2>2. /\ x.wf \in Portfolio /\ y.wf \in Portfolio /\ x.code \in Int /\ y.code \in Int
    BY RowForm
  <2>3. Spot(f, view, y) = Spot(f, view, x)
    BY <2>2, SamePlace DEF Together
  <2>4. HeatmapRow(y.wf) = HeatmapRow(x.wf) /\ HeatmapCol(f, view, y) = HeatmapCol(f, view, x)
    BY <2>3 DEF Spot
  <2>5. QED
    BY <1>2, <2>1, <2>4, Zenon
<1>4. PICK n, a, b, c, d, w, e :
          /\ n = Cardinality(B) /\ a = Ended(B) /\ b = InClass(q, B, "missed") /\ c = InClass(q, B, "late")
          /\ d = Worked(B) /\ w = FlowsOf(B) /\ e = IF B = {} THEN x.end ELSE Min(EndDays(B))
  OBVIOUS
<1>5. PICK old : old = IF B # {} THEN EntryIn(q, f, view, B) ELSE FreshCell(f, view, x)
  OBVIOUS
<1>6. old = [rowLabel |-> l, colLabel |-> m, total |-> n, completed |-> a, overdue |-> b, late |-> c,
             inProgress |-> d, workflows |-> w, first |-> e]
  <2>1. CASE B # {}
    <3>1. HeatmapRow(Choice(B).wf).label = l /\ HeatmapCol(f, view, Choice(B)).label = m
      BY <1>1, <1>3, <2>1
    <3>2. e = Min(EndDays(B))
      BY <1>4, <2>1
    <3>3. old = EntryIn(q, f, view, B)
      BY <1>5, <2>1
    <3>4. QED
      BY <1>4, <3>1, <3>2, <3>3, Zenon DEF EntryIn
  <2>2. CASE B = {}
    <3>1. OracleRow(x).label = l /\ OracleColumn(f, view, x).label = m
      BY <1>2, SameCells
    <3>2. n = 0 /\ a = 0 /\ b = 0 /\ c = 0 /\ d = 0 /\ w = {} /\ e = x.end
      <4>1. Cardinality({}) = 0
        BY FS_EmptySet
      <4>2. \A T : T \in SUBSET B => Cardinality(T) = 0
        BY <2>2, <4>1
      <4>3. n = 0 /\ a = 0 /\ b = 0 /\ c = 0 /\ d = 0
        BY <1>4, <4>2 DEF Ended, InClass, Worked
      <4>4. QED
        BY <1>4, <2>2, <4>3 DEF FlowsOf
    <3>3. old = FreshCell(f, view, x)
      BY <1>5, <2>2
    <3>4. QED
      BY <3>1, <3>2, <3>3, Zenon DEF FreshCell
  <2>3. QED
    BY <2>1, <2>2
<1>7. PICK o1, o2, o3, o4 :
          /\ o1 = One(x.status = "completed") /\ o2 = One(OracleClassify(q, x, x.due) = "missed")
          /\ o3 = One(OracleClassify(q, x, x.due) = "late")
          /\ o4 = One(x.status \in {"in_progress", "in_review", "pending_approval"})
  OBVIOUS
<1>8. PICK k, u : k = x.wf.id /\ u = x.end
  OBVIOUS
<1>9. PICK new : new = [old EXCEPT !.total = @ + 1, !.completed = @ + o1, !.overdue = @ + o2,
                        !.late = @ + o3, !.inProgress = @ + o4, !.workflows = @ \cup {k},
                        !.first = Least(@, u)]
  OBVIOUS
<1>10. AddToCell(q, x, old) = new
  BY <1>7, <1>8, <1>9, Zenon DEF AddToCell
<1>11. new = [rowLabel |-> l, colLabel |-> m, total |-> n + 1, completed |-> a + o1, overdue |-> b + o2,
              late |-> c + o3, inProgress |-> d + o4, workflows |-> w \cup {k}, first |-> Least(e, u)]
  <2>1. /\ new.rowLabel = l /\ new.colLabel = m /\ new.total = n + 1 /\ new.completed = a + o1
        /\ new.overdue = b + o2 /\ new.late = c + o3 /\ new.inProgress = d + o4
        /\ new.workflows = w \cup {k} /\ new.first = Least(e, u)
    BY ONLY <1>6, <1>9
  <2>2. new = [z \in {"rowLabel", "colLabel", "total", "completed", "overdue", "late", "inProgress",
                      "workflows", "first"} |-> new[z]]
    BY ONLY <1>6, <1>9
  <2>3. QED
    BY ONLY <2>1, <2>2
<1>12. /\ Cardinality(A) = n + 1 /\ Ended(A) = a + o1 /\ InClass(q, A, "missed") = b + o2
       /\ InClass(q, A, "late") = c + o3 /\ Worked(A) = d + o4 /\ FlowsOf(A) = w \cup {k}
       /\ Min(EndDays(A)) = IF B = {} THEN x.end ELSE Least(Min(EndDays(B)), x.end)
  BY <1>1, <1>4, <1>7, <1>8, OneMoreCounted
<1>13. Min(EndDays(A)) = Least(e, u)
  BY <1>4, <1>8, <1>12 DEF Least
<1>14. HeatmapRow(Choice(A).wf).label = l /\ HeatmapCol(f, view, Choice(A)).label = m
  BY <1>3
<1>15. EntryIn(q, f, view, A) = new
  BY <1>11, <1>12, <1>13, <1>14, Zenon DEF EntryIn
<1>16. QED
  BY <1>1, <1>5, <1>10, <1>15, Zenon

NextCells(q, f, view, x, kx, t) ==
    [k \in DOMAIN t \cup {kx} |->
        IF k # kx THEN t[k]
        ELSE AddToCell(q, x, IF k \in DOMAIN t THEN t[k] ELSE FreshCell(f, view, x))]

CellOfNext(q, f, view, S, s, x) ==
    Entries(s, Places(S, f, view), CellEntries(q, S, f, view))
        = NextCells(q, f, view, x, Places(S, f, view)[x],
                    Entries(s \ {x}, Places(S, f, view), CellEntries(q, S, f, view)))

LEMMA CellsStep ==
    ASSUME NEW q, Asking(q), NEW f, NEW view \in Views, NEW S \in SUBSET q.work,
           NEW s \in SUBSET S, NEW x \in s
    PROVE  CellOfNext(q, f, view, S, s, x)
<1>1. PICK t : t = Entries(s \ {x}, Places(S, f, view), CellEntries(q, S, f, view))
  OBVIOUS
<1>2. PICK key : key = Places(S, f, view)
  OBVIOUS
<1>3. PICK M, kx, ent : M = Mates(s, key, x) /\ kx = key[x] /\ ent = CellEntries(q, S, f, view)
  OBVIOUS
<1>4. /\ Entries(s, key, ent) = [k \in DOMAIN t \cup {kx} |-> IF k # kx THEN t[k] ELSE ent[M]]
      /\ kx \in DOMAIN t <=> M \ {x} # {}
      /\ kx \in DOMAIN t => t[kx] = ent[M \ {x}]
  <2>1. t = Entries(s \ {x}, key, ent)
    BY <1>2, <1>1, <1>3
  <2>2. OneMore(s, x, key, ent, t)
    BY <2>1, TallyStep
  <2>3. QED
    BY <1>3, <2>2, Zenon DEF OneMore
<1>5. M \in SUBSET S /\ x \in M /\ M \in SUBSET q.work
  BY <1>3 DEF Mates
<1>6. Together(f, view, M, x)
  BY <1>2, <1>3, <1>5 DEF Mates, Places, Together
<1>7. ent[M] = AddToCell(q, x, IF M \ {x} # {} THEN ent[M \ {x}] ELSE FreshCell(f, view, x))
  <2>1. EntryIn(q, f, view, M)
             = AddToCell(q, x, IF M \ {x} # {} THEN EntryIn(q, f, view, M \ {x}) ELSE FreshCell(f, view, x))
    BY <1>5, <1>6, EntryStep
  <2>2. ent[M] = EntryIn(q, f, view, M) /\ ent[M \ {x}] = EntryIn(q, f, view, M \ {x})
    BY <1>3, <1>5 DEF CellEntries
  <2>3. QED
    BY <2>1, <2>2, Zenon
<1>8. ent[M] = AddToCell(q, x, IF kx \in DOMAIN t THEN t[kx] ELSE FreshCell(f, view, x))
  BY <1>4, <1>7, Zenon
<1>9. \A k : (IF k # kx THEN t[k] ELSE ent[M])
             = IF k # kx THEN t[k]
               ELSE AddToCell(q, x, IF k \in DOMAIN t THEN t[k] ELSE FreshCell(f, view, x))
  BY <1>8, Zenon
<1>10. Entries(s, key, ent) = NextCells(q, f, view, x, kx, t)
  BY <1>4, <1>9, Zenon DEF NextCells
<1>11. QED
  BY <1>2, <1>1, <1>3, <1>10 DEF CellOfNext

CellTally(q, f, view, S) ==
    Tally(S, LAMBDA x : <<OracleRow(x).key, OracleColumn(f, view, x).key>>,
          LAMBDA x : FreshCell(f, view, x), LAMBDA x, c : AddToCell(q, x, c))

LEMMA CellsTallied ==
    ASSUME NEW q, Asking(q), NEW f, NEW view \in Views, NEW S, S = ComplianceFrom(q, Everything, f)
    PROVE  OracleTallied(q, f, view) = Entries(S, Places(S, f, view), CellEntries(q, S, f, view))
<1> DEFINE kof(x) == <<OracleRow(x).key, OracleColumn(f, view, x).key>>
           count(x, t) == [k \in DOMAIN t \cup {kof(x)} |->
                              IF k # kof(x) THEN t[k]
                              ELSE AddToCell(q, x, IF k \in DOMAIN t THEN t[k] ELSE FreshCell(f, view, x))]
           Eq(F) == F = [s \in SUBSET S |-> IF s = {} THEN <<>>
                           ELSE count(CHOOSE x \in s : TRUE, F[s \ {CHOOSE x \in s : TRUE}])]
           G == CHOOSE F : Eq(F)
           H == [s \in SUBSET S |-> Entries(s, Places(S, f, view), CellEntries(q, S, f, view))]
<1>1. S \in SUBSET q.work /\ IsFiniteSet(S) /\ OracleParticipating(q, f) = S
  <2>1. S \in SUBSET q.work
    BY DEF ComplianceFrom
  <2>2. QED
    BY <2>1, TableForm, SameParticipants
<1>2. H[{}] = <<>>
  <2>1. PICK ent, key : ent = CellEntries(q, S, f, view) /\ key = Places(S, f, view)
    OBVIOUS
  <2>2. {key[x] : x \in {}} = {}
    OBVIOUS
  <2>3. H[{}] = Entries({}, key, ent)
    BY <2>1
  <2>4. [k \in {} |-> ent[{x \in {} : key[x] = k}]] = <<>>
    OBVIOUS
  <2>5. Entries({}, key, ent) = <<>>
    BY <2>2, <2>4, Zenon DEF Entries
  <2>6. QED
    BY <2>3, <2>5
<1>3. ASSUME NEW s \in SUBSET S, NEW x \in s PROVE H[s] = count(x, H[s \ {x}])
  <2>1. PICK t, key : t = Entries(s \ {x}, key, CellEntries(q, S, f, view)) /\ key = Places(S, f, view)
    OBVIOUS
  <2>2. Entries(s, key, CellEntries(q, S, f, view)) = NextCells(q, f, view, x, key[x], t)
    <3>1. Asking(q) /\ view \in Views /\ s \in SUBSET S /\ x \in s /\ S \in SUBSET q.work
      BY <1>1
    <3>2. t = Entries(s \ {x}, Places(S, f, view), CellEntries(q, S, f, view))
      BY <2>1
    <3> HIDE DEF H, kof
    <3>3. CellOfNext(q, f, view, S, s, x)
      BY <3>1, CellsStep
    <3>4. QED
      BY <2>1, <3>2, <3>3, Zenon DEF CellOfNext
  <2>3. key[x] = kof(x)
    <3>1. OracleRow(x).key = HeatmapRow(x.wf).id /\ OracleColumn(f, view, x).key = HeatmapCol(f, view, x).id
      BY SameCells
    <3>2. QED
      BY <2>1, <3>1 DEF Places, PlaceOf
  <2>4. H[s] = Entries(s, key, CellEntries(q, S, f, view)) /\ H[s \ {x}] = t
    BY <2>1
  <2> HIDE DEF H, kof
  <2>5. QED
    BY <2>2, <2>3, <2>4, SMTT(60) DEF NextCells
<1> HIDE DEF kof
<1>4. Eq(H)
  <2> HIDE DEF count
  <2>1. \A s \in SUBSET S : H[s] = IF s = {} THEN <<>>
              ELSE count(CHOOSE x \in s : TRUE, H[s \ {CHOOSE x \in s : TRUE}])
    <3> HIDE DEF H
    <3>1. \A s \in SUBSET S : s # {} => (CHOOSE x \in s : TRUE) \in s
      OBVIOUS
    <3>2. QED
      BY <1>2, <1>3, <3>1, Zenon
  <2>2. H = [s \in SUBSET S |-> H[s]]
    OBVIOUS
  <2> HIDE DEF H
  <2>3. QED
    BY <2>1, <2>2, Zenon
<1>5. CellTally(q, f, view, S) = G[S]
  BY Zenon DEF CellTally, Tally, FoldSet, MapThenFoldSet, kof
<1>6. OracleTallied(q, f, view) = CellTally(q, f, view, S)
  <2>1. OracleTallied(q, f, view) = CellTally(q, f, view, OracleParticipating(q, f))
    BY Zenon DEF OracleTallied, CellTally, FreshCell, AddToCell, Tally
  <2>2. QED
    BY <1>1, <2>1
<1> HIDE DEF count
<1>7. Eq(G)
  <2> HIDE DEF H, Eq
  <2> QED
    BY <1>4, Zenon
<1> HIDE DEF H, G
<1>8. G[{}] = H[{}]
  BY <1>2, <1>7
<1>9. \A s \in SUBSET S : \A x \in s : x = Choice(s) /\ G[s \ {x}] = H[s \ {x}] => G[s] = H[s]
  <2> SUFFICES ASSUME NEW s \in SUBSET S, NEW x \in s, x = Choice(s), G[s \ {x}] = H[s \ {x}]
               PROVE  G[s] = H[s]
    OBVIOUS
  <2>1. G[s] = count(x, G[s \ {x}])
    BY <1>7, Zenon DEF Choice
  <2>2. QED
    BY <1>3, <2>1
<1>10. G[S] = H[S]
  BY <1>1, <1>8, <1>9, FoldsAgree
<1>11. H[S] = Entries(S, Places(S, f, view), CellEntries(q, S, f, view))
  BY DEF H
<1>12. QED
  BY <1>5, <1>6, <1>10, <1>11, Zenon

(***************************************************************************)
(* The order of the rows.                                                  *)
(***************************************************************************)
LEMMA FirstPlace ==
    ASSUME NEW s \in Seq(Int), NEW t \in Seq(Int), Len(s) >= 1, Len(t) >= 1
    PROVE  /\ Precedes(s, t) => s[1] <= t[1]
           /\ s[1] < t[1] => Precedes(s, t)
<1>1. s[1] \in Int /\ t[1] \in Int
  OBVIOUS
<1>2. ASSUME Precedes(s, t) PROVE s[1] <= t[1]
  <2>1. PICK i \in Nat : At(s, t, i)
    BY <1>2, PrecedesForm
  <2>2. CASE i = 1
    BY <1>1, <2>1, <2>2 DEF At
  <2>3. CASE i # 1
    <3>1. i \in 1 .. Len(t) /\ \A j \in 1 .. i - 1 : s[j] = t[j]
      BY <2>1 DEF At
    <3>2. 1 \in 1 .. i - 1
      BY <2>3, <3>1
    <3>3. QED
      BY <1>1, <3>1, <3>2
  <2>4. QED
    BY <2>2, <2>3
<1>3. ASSUME s[1] < t[1] PROVE Precedes(s, t)
  <2>1. At(s, t, 1)
    BY <1>3 DEF At
  <2>2. QED
    BY <2>1, PrecedesForm
<1>4. QED
  BY <1>2, <1>3

\* Lists in the same order.
Follows(A, KA, B, KB, m) ==
    /\ m \in [A -> B] /\ \A b \in B : \E a \in A : b = m[a]
    /\ \A a, c \in A : m[a] = m[c] => a = c
    /\ \A a, c \in A : Precedes(KA[a], KA[c]) => Precedes(KB[m[a]], KB[m[c]])

LEMMA MappedOrder ==
    ASSUME NEW A, IsFiniteSet(A), NEW KA, Keys(A, KA), NEW B, NEW KB, Keys(B, KB),
           NEW m, Follows(A, KA, B, KB, m)
    PROVE  [i \in DOMAIN InOrder(A, KA) |-> m[InOrder(A, KA)[i]]] = InOrder(B, KB)
<1>1. m \in [A -> B] /\ \A b \in B : \E a \in A : b = m[a]
  BY DEF Follows
<1>2. \A a, c \in A : m[a] = m[c] => a = c
  BY DEF Follows
<1>3. IsFiniteSet(B) /\ Cardinality(B) = Cardinality(A)
  BY <1>1, <1>2, ImageSize
<1>4. PICK o, p : o = InOrder(A, KA) /\ p = InOrder(B, KB)
  OBVIOUS
<1>5. Sorted(ByKey(A, KA), A, o) /\ Sorted(ByKey(B, KB), B, p) /\ Orders(ByKey(B, KB), B)
  BY <1>3, <1>4, InOrderForm, KeysOrder
<1>6. PICK n : n = Cardinality(A)
  OBVIOUS
<1>7. o \in [1 .. n -> A] /\ \A i, j \in 1 .. n : i < j => <<o[i], o[j]>> \in ByKey(A, KA)
  BY <1>5, <1>6 DEF Sorted
<1>8. PICK g : g = [i \in DOMAIN o |-> m[o[i]]]
  OBVIOUS
<1>9. g \in [1 .. n -> B] /\ \A i \in 1 .. n : g[i] = m[o[i]] /\ o[i] \in A
  BY <1>1, <1>7, <1>8
<1>10. ASSUME NEW i \in 1 .. n, NEW j \in 1 .. n, i < j PROVE <<g[i], g[j]>> \in ByKey(B, KB)
  <2>1. PICK a \in A, c \in A : a = o[i] /\ c = o[j]
    BY <1>9
  <2>2. Precedes(KA[a], KA[c])
    BY <1>7, <1>10, <2>1 DEF ByKey
  <2>3. Precedes(KB[m[a]], KB[m[c]])
    BY <2>2 DEF Follows
  <2>4. m[a] \in B /\ m[c] \in B /\ g[i] = m[a] /\ g[j] = m[c]
    BY <1>1, <1>9, <2>1
  <2>5. QED
    BY <2>3, <2>4 DEF ByKey
<1>11. Sorted(ByKey(B, KB), B, g)
  <2>1. DOMAIN g = 1 .. n /\ Cardinality(B) = n
    BY <1>3, <1>6, <1>9
  <2>2. QED
    BY <1>9, <1>10, <2>1 DEF Sorted
<1>12. g = p
  BY <1>3, <1>5, <1>11, SortedUnique
<1>13. QED
  BY <1>4, <1>8, <1>12

\* Rows have one number for an id and one for a label, a label of their own.
Labeled(R) ==
    /\ \A r \in R : \E a, b \in Int : r = [id |-> <<a>>, label |-> <<b>>]
    /\ \A r, s \in R : r.id = s.id \/ r.label = s.label => r = s
LabelKeys(A) == [r \in A |-> r.label]
InLabel(A) == InOrder(A, LabelKeys(A))

LEMMA InLabelForm ==
    ASSUME NEW A, IsFiniteSet(A), Labeled(A)
    PROVE  /\ Keys(A, LabelKeys(A)) /\ Orders(ByKey(A, LabelKeys(A)), A)
           /\ Sorted(ByKey(A, LabelKeys(A)), A, InLabel(A))
           /\ \A r, s \in A : <<r, s>> \in ByKey(A, LabelKeys(A)) <=> Precedes(r.label, s.label)
<1>1. Keys(A, LabelKeys(A))
  <2>1. \A r \in A : r.label \in Seq(Int)
    <3> TAKE r \in A
    <3>1. PICK a \in Int, b \in Int : r = [id |-> <<a>>, label |-> <<b>>]
      BY DEF Labeled
    <3>2. r.label = <<b>> /\ <<b>> \in Seq(Int)
      BY <3>1
    <3>3. QED
      BY <3>2
  <2>2. \A r, s \in A : r.label = s.label => r = s
    BY DEF Labeled
  <2>3. QED
    BY <2>1, <2>2 DEF Keys, LabelKeys
<1>2. \A r, s \in A : <<r, s>> \in ByKey(A, LabelKeys(A)) <=> Precedes(r.label, s.label)
  BY DEF ByKey, LabelKeys
<1>3. QED
  BY <1>1, <1>2, InOrderForm, KeysOrder DEF InLabel

\* A row seen last.
LEMMA SeenStep ==
    ASSUME NEW R, IsFiniteSet(R), Labeled(R), NEW A \in SUBSET R, NEW r \in R,
           \A p \in A : ~Precedes(r.label, p.label), NEW w, w = InLabel(A)
    PROVE  (IF Contains(w, r) THEN w ELSE Append(w, r)) = InLabel(A \cup {r})
<1>1. IsFiniteSet(A) /\ Labeled(A)
  BY FS_Subset DEF Labeled
<1>2. Sorted(ByKey(A, LabelKeys(A)), A, w) /\ Orders(ByKey(A, LabelKeys(A)), A)
  BY <1>1, InLabelForm
<1>3. PICK n \in Nat : n = Cardinality(A)
  BY <1>1, FS_CardinalityType
<1>4. /\ w \in Seq(A) /\ Len(w) = n /\ DOMAIN w = 1 .. n /\ \A i \in 1 .. n : w[i] \in A
      /\ \A x \in A : \E i \in 1 .. n : w[i] = x
  BY <1>1, <1>2, <1>3, SortedForm
<1>5. Contains(w, r) <=> r \in A
  BY <1>4 DEF Contains
<1>6. CASE r \in A
  <2>1. A \cup {r} = A
    BY <1>6
  <2>2. QED
    BY <1>5, <1>6, <2>1
<1>7. CASE r \notin A
  <2>1. PICK B \in SUBSET R : B = A \cup {r}
    OBVIOUS
  <2>2. IsFiniteSet(B) /\ Labeled(B) /\ Cardinality(B) = n + 1
    <3>1. IsFiniteSet(B) /\ Labeled(B)
      BY <2>1, FS_Subset DEF Labeled
    <3>2. Cardinality(B) = n + 1
      BY <1>1, <1>3, <1>7, <2>1, FS_AddElement
    <3>3. QED
      BY <3>1, <3>2
  <2>3. PICK v : v = Append(w, r)
    OBVIOUS
  <2>4. v \in [1 .. n + 1 -> B] /\ \A i \in 1 .. n : v[i] = w[i] /\ v[n + 1] = r
    <3>1. v \in Seq(B) /\ Len(v) = n + 1
      BY <1>4, <2>1, <2>3
    <3>2. v[n + 1] = r /\ \A i \in 1 .. n : v[i] = w[i]
      BY <1>4, <2>3
    <3>3. QED
      BY <3>1, <3>2
  <2>5. v[n + 1] = r
    BY <1>4, <2>3
  <2>6. \A p \in A : Precedes(p.label, r.label)
    <3> TAKE p \in A
    <3>1. p.label \in Seq(Int) /\ r.label \in Seq(Int) /\ p.label # r.label
      <4>1. \A s \in R : \E a, b \in Int : s = [id |-> <<a>>, label |-> <<b>>]
        BY DEF Labeled
      <4>2. \A s \in R : s.label \in Seq(Int)
        <5> TAKE s \in R
        <5>1. PICK a \in Int, b \in Int : s = [id |-> <<a>>, label |-> <<b>>]
          BY <4>1
        <5>2. s.label = <<b>> /\ <<b>> \in Seq(Int)
          BY <5>1
        <5>3. QED
          BY <5>2
      <4>3. p # r
        BY <1>7
      <4>4. QED
        BY <4>2, <4>3 DEF Labeled
    <3>2. QED
      BY <3>1, TextOrder
  <2>7. ASSUME NEW i \in 1 .. n + 1, NEW j \in 1 .. n + 1, i < j
        PROVE  <<v[i], v[j]>> \in ByKey(B, LabelKeys(B))
    <3>1. i \in 1 .. n /\ v[i] = w[i] /\ w[i] \in A
      BY <1>4, <2>4, <2>7
    <3>2. CASE j = n + 1
      <4>1. Precedes(w[i].label, r.label) /\ v[j] = r
        BY <2>5, <2>6, <3>1, <3>2
      <4>2. w[i] \in B /\ r \in B
        BY <2>1, <3>1
      <4>3. <<w[i], r>> \in ByKey(B, LabelKeys(B))
        BY <2>2, <4>1, <4>2, InLabelForm
      <4>4. QED
        BY <3>1, <4>1, <4>3
    <3>3. CASE j # n + 1
      <4>1. j \in 1 .. n
        BY <3>3
      <4>2. v[j] = w[j] /\ w[j] \in A
        BY <1>4, <2>4, <4>1
      <4>3. <<w[i], w[j]>> \in ByKey(A, LabelKeys(A))
        BY <1>2, <1>4, <2>7, <3>1, <4>1 DEF Sorted
      <4>4. Precedes(w[i].label, w[j].label)
        BY <1>1, <3>1, <4>2, <4>3, InLabelForm
      <4>5. w[i] \in B /\ w[j] \in B
        BY <2>1, <3>1, <4>2
      <4>6. <<w[i], w[j]>> \in ByKey(B, LabelKeys(B))
        BY <2>2, <4>4, <4>5, InLabelForm
      <4>7. QED
        BY <3>1, <4>2, <4>6
    <3>4. QED
      BY <3>2, <3>3
  <2>8. Sorted(ByKey(B, LabelKeys(B)), B, v)
    <3>1. DOMAIN v = 1 .. n + 1
      BY <2>4
    <3>2. QED
      BY <2>2, <2>4, <2>7, <3>1 DEF Sorted
  <2>9. v = InLabel(B)
    <3>1. Sorted(ByKey(B, LabelKeys(B)), B, InLabel(B)) /\ Orders(ByKey(B, LabelKeys(B)), B)
      BY <2>2, InLabelForm
    <3>2. QED
      BY <2>2, <2>8, <3>1, SortedUnique
  <2>10. QED
    BY <1>5, <1>7, <2>1, <2>3, <2>9
<1>8. QED
  BY <1>6, <1>7

\* A walk over a list which keeps each row once.
Seen(I, L, F) ==
    F = [s \in SUBSET I |-> IF s = {} THEN <<>>
            ELSE IF Contains(F[s \ {Max(s)}], L[Max(s)].row) THEN F[s \ {Max(s)}]
                 ELSE Append(F[s \ {Max(s)}], L[Max(s)].row)]
RowsSeen(s, L) == {L[i].row : i \in s}
\* No row comes before one of an earlier place.
Upward(I, L, R) ==
    /\ \A i \in I : L[i].row \in R
    /\ \A i, j \in I : i < j => ~Precedes(L[j].row.label, L[i].row.label)

LEMMA SeenRows ==
    ASSUME NEW n \in Nat, NEW I, UpTo(I, n), NEW R, IsFiniteSet(R), Labeled(R), NEW L, Upward(I, L, R)
    PROVE  /\ \E F : Seen(I, L, F)
           /\ \A F : Seen(I, L, F) => F[I] = InLabel(RowsSeen(I, L))
<1> DEFINE H == [s \in SUBSET I |-> InLabel(RowsSeen(s, L))]
<1>1. I = 1 .. n /\ IsFiniteSet(I)
  <2>1. I = 1 .. n
    BY DEF UpTo
  <2>2. IsFiniteSet(1 .. n)
    BY FS_Interval
  <2>3. QED
    BY <2>1, <2>2
<1>2. IsFiniteSet(I)
  BY <1>1
<1>3. H[{}] = <<>>
  <2>1. RowsSeen({}, L) = {}
    BY DEF RowsSeen
  <2>2. InLabel({}) = <<>>
    <3>1. IsFiniteSet({}) /\ Cardinality({}) = 0 /\ Labeled({})
      BY FS_EmptySet DEF Labeled
    <3>2. Sorted(ByKey({}, LabelKeys({})), {}, InLabel({}))
      BY <3>1, InLabelForm
    <3>3. InLabel({}) \in [1 .. 0 -> {}]
      BY <3>1, <3>2 DEF Sorted
    <3>4. QED
      BY <3>3
  <2>3. H[{}] = InLabel(RowsSeen({}, L))
    OBVIOUS
  <2>4. QED
    BY <2>1, <2>2, <2>3
<1>4. ASSUME NEW s \in SUBSET I, s # {}
      PROVE  H[s] = IF Contains(H[s \ {Max(s)}], L[Max(s)].row) THEN H[s \ {Max(s)}]
                    ELSE Append(H[s \ {Max(s)}], L[Max(s)].row)
  <2>1. PICK m : m = Max(s)
    OBVIOUS
  <2>2. m \in s /\ \A y \in s : m >= y
    BY <1>1, <1>4, <2>1, MaxForm
  <2>3. PICK r, A, w : r = L[m].row /\ A = RowsSeen(s \ {m}, L) /\ w = InLabel(A)
    OBVIOUS
  <2>4. A \in SUBSET R /\ r \in R
    BY <2>2, <2>3 DEF Upward, RowsSeen
  <2>5. \A p \in A : ~Precedes(r.label, p.label)
    <3> TAKE p \in A
    <3>1. PICK i \in s \ {m} : p = L[i].row
      BY <2>3 DEF RowsSeen
    <3>2. i \in I /\ m \in I /\ i \in Int /\ m \in Int /\ i # m /\ m >= i
      BY <1>1, <2>2, <3>1
    <3>3. i < m
      BY <3>2
    <3>4. QED
      BY <2>3, <3>1, <3>2, <3>3 DEF Upward
  <2>6. (IF Contains(w, r) THEN w ELSE Append(w, r)) = InLabel(A \cup {r})
    BY <2>3, <2>4, <2>5, SeenStep
  <2>7. A \cup {r} = RowsSeen(s, L)
    BY <2>2, <2>3 DEF RowsSeen
  <2>8. H[s] = InLabel(RowsSeen(s, L)) /\ H[s \ {m}] = w
    BY <2>3
  <2> HIDE DEF H
  <2>9. QED
    BY <2>1, <2>3, <2>6, <2>7, <2>8
<1>5. Seen(I, L, H)
  <2>1. \A s \in SUBSET I : H[s] = IF s = {} THEN <<>>
            ELSE IF Contains(H[s \ {Max(s)}], L[Max(s)].row) THEN H[s \ {Max(s)}]
                 ELSE Append(H[s \ {Max(s)}], L[Max(s)].row)
    <3> HIDE DEF H
    <3> QED
      BY <1>3, <1>4, Zenon
  <2>2. QED
    BY <2>1, Zenon DEF Seen
<1>6. H[I] = InLabel(RowsSeen(I, L))
  OBVIOUS
<1> HIDE DEF H
<1>7. ASSUME NEW G, Seen(I, L, G) PROVE G[I] = H[I]
  <2> DEFINE P == {s \in SUBSET I : G[s] = H[s]}
  <2>1. {} \in P
    BY <1>5, <1>7 DEF Seen
  <2>2. ASSUME NEW s \in SUBSET I, s # {}, \A x \in s : s \ {x} \in P PROVE s \in P
    <3>1. Max(s) \in s
      BY <1>1, <2>2, MaxForm
    <3>2. G[s \ {Max(s)}] = H[s \ {Max(s)}]
      BY <2>2, <3>1
    <3>3. /\ G[s] = IF Contains(G[s \ {Max(s)}], L[Max(s)].row) THEN G[s \ {Max(s)}]
                    ELSE Append(G[s \ {Max(s)}], L[Max(s)].row)
          /\ H[s] = IF Contains(H[s \ {Max(s)}], L[Max(s)].row) THEN H[s \ {Max(s)}]
                    ELSE Append(H[s \ {Max(s)}], L[Max(s)].row)
      BY <1>5, <1>7, <2>2, Zenon DEF Seen
    <3>4. QED
      BY <2>2, <3>2, <3>3
  <2>3. \A s \in SUBSET I : s \in P
    <3> HIDE DEF P
    <3> QED
      BY <1>2, <2>1, <2>2, AllSubsets
  <2>4. QED
    BY <2>3
<1>8. QED
  BY <1>5, <1>6, <1>7

(***************************************************************************)
(* The grid.                                                               *)
(***************************************************************************)
At2(c) == <<c.row.id, c.col.id>>
\* A cell of the answer and the entry of the oracle.
Agreed(c, w) ==
    /\ w.rowLabel = c.row.label /\ w.colLabel = c.col.label /\ w.total = c.total
    /\ w.completed = c.completed /\ w.overdue = c.overdue /\ w.late = c.late
    /\ w.inProgress = c.inProgress /\ w.workflows = c.workflows /\ w.first = c.first

OneCell(f, view, c) ==
    /\ \E a, b \in Int : c.row = [id |-> <<a>>, label |-> <<b>>]
    /\ c.col.id \in Seq(Int) /\ c.col.label \in Seq(Int) /\ Len(c.col.id) = Width(f, view)
    /\ c.first \in Int /\ c.total \in Nat \ {0} /\ c.completed \in Nat
    /\ c.overdue \in Nat /\ c.late \in Nat
TwoCells(c, d) ==
    /\ c.row.id = d.row.id \/ c.row.label = d.row.label => c.row = d.row
    /\ c.col # d.col => c.col.id # d.col.id /\ Apart(c.col.label, d.col.label)
    /\ c.row = d.row /\ c.col = d.col => c = d
Gridded(f, view, C, T) ==
    /\ IsFiniteSet(C) /\ DOMAIN T = {At2(c) : c \in C}
    /\ \A c \in C : OneCell(f, view, c) /\ Agreed(c, T[At2(c)])
    /\ \A c, d \in C : TwoCells(c, d)

LEMMA JoinedAlike ==
    ASSUME NEW s \in Seq(Int), NEW t \in Seq(Int), NEW u \in Seq(Int), NEW v \in Seq(Int),
           Len(s) = Len(t), s \o u = t \o v
    PROVE  s = t
<1>1. PICK a : a = s \o u /\ a = t \o v
  OBVIOUS
<1>2. \A i \in 1 .. Len(s) : a[i] = s[i]
  BY <1>1
<1>3. \A i \in 1 .. Len(t) : a[i] = t[i]
  BY <1>1
<1>4. \A i \in 1 .. Len(s) : s[i] = t[i]
  BY <1>2, <1>3
<1>5. QED
  BY <1>4, SeqEqual

LEMMA JoinedAfter ==
    ASSUME NEW s \in Seq(Int), NEW u \in Seq(Int), NEW v \in Seq(Int), s \o u = s \o v
    PROVE  u = v
<1>1. PICK a : a = s \o u /\ a = s \o v
  OBVIOUS
<1>2. PICK k \in Nat, l \in Nat, m \in Nat : k = Len(s) /\ l = Len(u) /\ m = Len(v)
  OBVIOUS
<1>3. Len(a) = k + l
  BY <1>1, <1>2
<1>4. Len(a) = k + m
  BY <1>1, <1>2
<1>5. l = m
  BY <1>3, <1>4
<1>6. \A i \in 1 .. l : a[k + i] = u[i]
  BY <1>1, <1>2
<1>7. \A i \in 1 .. l : a[k + i] = v[i]
  BY <1>1, <1>2, <1>5
<1>8. \A i \in 1 .. l : u[i] = v[i]
  BY <1>6, <1>7
<1>9. Len(u) = Len(v)
  BY <1>2, <1>5
<1>10. \A i \in 1 .. Len(u) : u[i] = v[i]
  BY <1>2, <1>8
<1>11. QED
  BY <1>9, <1>10, SeqEqual

TextOf(c) == c.row.label \o <<c.first>> \o c.col.id \o c.row.id
OurCells(C) == Ordered(C, LAMBDA c : c.row.label \o <<c.first>> \o c.col.id \o c.row.id)
RowsOf(C) == {c.row : c \in C}

LEMMA TextForm ==
    ASSUME NEW f, NEW view, NEW c, OneCell(f, view, c)
    PROVE  \E a, b, e \in Int : /\ c.row = [id |-> <<a>>, label |-> <<b>>] /\ e = c.first
                                /\ TextOf(c) = (<<b, e>> \o c.col.id) \o <<a>>
                                /\ TextOf(c) \in Seq(Int) /\ TextOf(c)[1] = b /\ Len(TextOf(c)) >= 1
<1>1. PICK a \in Int, b \in Int : c.row = [id |-> <<a>>, label |-> <<b>>]
  BY DEF OneCell
<1>2. PICK e \in Int, i \in Seq(Int) : e = c.first /\ i = c.col.id
  BY DEF OneCell
<1>3. <<b>> \o <<e>> = <<b, e>>
  BY TextsJoin
<1>4. TextOf(c) = ((<<b>> \o <<e>>) \o i) \o <<a>>
  <2>1. c.row.label = <<b>> /\ c.row.id = <<a>>
    BY <1>1
  <2>2. QED
    BY <1>2, <2>1, Zenon DEF TextOf
<1>5. PICK p : p = <<b, e>> \o i
  OBVIOUS
<1>6. p \in Seq(Int) /\ p[1] = b /\ Len(p) >= 1
  <2>1. PICK h : h = <<b, e>>
    OBVIOUS
  <2>2. h \in Seq(Int) /\ Len(h) = 2 /\ h[1] = b
    BY <2>1
  <2>3. p \in Seq(Int) /\ Len(p) = 2 + Len(i) /\ p[1] = h[1]
    BY <1>5, <2>1, <2>2
  <2>4. Len(i) \in Nat
    OBVIOUS
  <2>5. QED
    BY <2>2, <2>3, <2>4
<1>7. PICK t : t = p \o <<a>>
  OBVIOUS
<1>8. t \in Seq(Int) /\ t[1] = p[1] /\ Len(t) >= 1
  <2>1. <<a>> \in Seq(Int) /\ Len(<<a>>) = 1
    OBVIOUS
  <2>2. t \in Seq(Int) /\ Len(t) = Len(p) + 1 /\ t[1] = p[1]
    BY <1>6, <1>7, <2>1
  <2>3. Len(p) \in Nat
    BY <1>6
  <2>4. QED
    BY <2>2, <2>3
<1>9. TextOf(c) = t
  BY <1>3, <1>4, <1>5, <1>7
<1>10. QED
  BY <1>1, <1>2, <1>5, <1>6, <1>7, <1>8, <1>9

LEMMA CellsOrdered ==
    ASSUME NEW f, NEW view, NEW C, NEW T, Gridded(f, view, C, T), NEW L, L = OurCells(C)
    PROVE  /\ \E n \in Nat : UpTo(DOMAIN L, n)
           /\ Upward(DOMAIN L, L, RowsOf(C)) /\ RowsSeen(DOMAIN L, L) = RowsOf(C)
<1>1. IsFiniteSet(C) /\ (\A c \in C : OneCell(f, view, c)) /\ \A c, d \in C : TwoCells(c, d)
  BY DEF Gridded
<1>2. PICK K : K = [c \in C |-> TextOf(c)]
  OBVIOUS
<1>3. Keys(C, K)
  <2>1. \A c \in C : TextOf(c) \in Seq(Int)
    BY <1>1, TextForm
  <2>2. ASSUME NEW c \in C, NEW d \in C, TextOf(c) = TextOf(d) PROVE c = d
    <3>1. OneCell(f, view, c) /\ OneCell(f, view, d)
      BY <1>1
    <3>2. PICK a, b, e \in Int :
              /\ c.row = [id |-> <<a>>, label |-> <<b>>] /\ e = c.first
              /\ TextOf(c) = (<<b, e>> \o c.col.id) \o <<a>>
              /\ TextOf(c) \in Seq(Int) /\ TextOf(c)[1] = b /\ Len(TextOf(c)) >= 1
      BY <3>1, TextForm
    <3>3. PICK k, l, m \in Int :
              /\ d.row = [id |-> <<k>>, label |-> <<l>>] /\ m = d.first
              /\ TextOf(d) = (<<l, m>> \o d.col.id) \o <<k>>
              /\ TextOf(d) \in Seq(Int) /\ TextOf(d)[1] = l /\ Len(TextOf(d)) >= 1
      BY <3>1, TextForm
    <3>4. PICK i \in Seq(Int), j \in Seq(Int) : i = c.col.id /\ j = d.col.id /\ Len(i) = Len(j)
      BY <1>1 DEF OneCell
    <3>5. PICK s, t, p, r : s = <<b, e>> /\ t = <<l, m>> /\ p = s \o i /\ r = t \o j
      OBVIOUS
    <3>6. s \in Seq(Int) /\ t \in Seq(Int) /\ Len(s) = 2 /\ Len(t) = 2
      BY <3>5
    <3>7. p \in Seq(Int) /\ r \in Seq(Int) /\ Len(p) = Len(r)
      <4>1. p \in Seq(Int) /\ Len(p) = Len(s) + Len(i)
        <5>1. s \in Seq(Int) /\ i \in Seq(Int) /\ p = s \o i
          BY <3>4, <3>5, <3>6
        <5>2. QED
          BY ONLY <5>1
      <4>2. r \in Seq(Int) /\ Len(r) = Len(t) + Len(j)
        <5>1. t \in Seq(Int) /\ j \in Seq(Int) /\ r = t \o j
          BY <3>4, <3>5, <3>6
        <5>2. QED
          BY ONLY <5>1
      <4>3. QED
        BY <3>4, <3>6, <4>1, <4>2
    <3>8. <<a>> \in Seq(Int) /\ <<k>> \in Seq(Int)
      OBVIOUS
    <3>9. p \o <<a>> = r \o <<k>>
      BY <2>2, <3>2, <3>3, <3>4, <3>5
    <3>10. p = r
      BY <3>7, <3>8, <3>9, JoinedAlike
    <3>11. s = t
      BY <3>4, <3>5, <3>6, <3>10, JoinedAlike
    <3>12. i = j
      BY <3>4, <3>5, <3>6, <3>10, <3>11, JoinedAfter
    <3>13. b = l
      BY <3>5, <3>11
    <3>14. c.row.label = d.row.label
      BY <3>2, <3>3, <3>13
    <3>15. c.row = d.row /\ c.col = d.col
      BY <1>1, <3>4, <3>12, <3>14 DEF TwoCells
    <3>16. QED
      BY <1>1, <3>15 DEF TwoCells
  <2>3. QED
    BY <1>2, <2>1, <2>2 DEF Keys
<1>4. L = InOrder(C, K)
  <2>1. \A s \in [1 .. Cardinality(C) -> C] :
            (\A i, j \in DOMAIN s : i < j => Precedes(K[s[i]], K[s[j]]))
            <=> (\A i, j \in DOMAIN s : i < j => Precedes(TextOf(s[i]), TextOf(s[j])))
    BY <1>2
  <2>2. QED
    BY <2>1, Zenon DEF Ordered, OurCells, InOrder, TextOf
<1>5. Sorted(ByKey(C, K), C, L) /\ Orders(ByKey(C, K), C)
  BY <1>1, <1>3, <1>4, InOrderForm, KeysOrder
<1>6. PICK n \in Nat : n = Cardinality(C)
  BY <1>1, FS_CardinalityType
<1>7. DOMAIN L = 1 .. n /\ (\A i \in 1 .. n : L[i] \in C) /\ \A c \in C : \E i \in 1 .. n : L[i] = c
  BY <1>1, <1>5, <1>6, SortedForm
<1>8. UpTo(DOMAIN L, n)
  BY <1>7 DEF UpTo
<1>9. \A i \in DOMAIN L : L[i].row \in RowsOf(C)
  BY <1>7 DEF RowsOf
<1>10. RowsSeen(DOMAIN L, L) = RowsOf(C)
  BY <1>7 DEF RowsSeen, RowsOf
<1>11. ASSUME NEW i \in DOMAIN L, NEW j \in DOMAIN L, i < j, Precedes(L[j].row.label, L[i].row.label)
       PROVE  FALSE
  <2>1. PICK c \in C, d \in C : c = L[i] /\ d = L[j]
    BY <1>7
  <2>2. Precedes(TextOf(c), TextOf(d))
    <3>1. <<L[i], L[j]>> \in ByKey(C, K)
      BY <1>5, <1>11 DEF Sorted
    <3>2. Precedes(K[c], K[d])
      BY <2>1, <3>1 DEF ByKey
    <3>3. QED
      BY <1>2, <3>2
  <2>3. OneCell(f, view, c) /\ OneCell(f, view, d)
    BY <1>1
  <2>4. PICK a, b, e \in Int :
            /\ c.row = [id |-> <<a>>, label |-> <<b>>] /\ e = c.first
            /\ TextOf(c) = (<<b, e>> \o c.col.id) \o <<a>>
            /\ TextOf(c) \in Seq(Int) /\ TextOf(c)[1] = b /\ Len(TextOf(c)) >= 1
    BY <2>3, TextForm
  <2>5. PICK k, l, m \in Int :
            /\ d.row = [id |-> <<k>>, label |-> <<l>>] /\ m = d.first
            /\ TextOf(d) = (<<l, m>> \o d.col.id) \o <<k>>
            /\ TextOf(d) \in Seq(Int) /\ TextOf(d)[1] = l /\ Len(TextOf(d)) >= 1
    BY <2>3, TextForm
  <2>6. b <= l
    BY <2>2, <2>4, <2>5, FirstPlace
  <2>7. Precedes(<<l>>, <<b>>)
    BY <1>11, <2>1, <2>4, <2>5
  <2>8. PICK s, t : s = <<l>> /\ t = <<b>>
    OBVIOUS
  <2>9. s \in Seq(Int) /\ t \in Seq(Int) /\ Len(s) >= 1 /\ Len(t) >= 1 /\ s[1] = l /\ t[1] = b
    BY <2>8
  <2>10. l <= b
    BY <2>7, <2>8, <2>9, FirstPlace
  <2>11. s = t
    BY <2>6, <2>8, <2>10
  <2>12. QED
    BY <2>7, <2>8, <2>9, <2>11, TextOrder
<1>12. Upward(DOMAIN L, L, RowsOf(C))
  BY <1>9, <1>11 DEF Upward
<1>13. QED
  BY <1>8, <1>10, <1>12

OurRows(C) ==
    FoldLeft(LAMBDA rows, c : IF Contains(rows, c.row) THEN rows ELSE Append(rows, c.row), <<>>, OurCells(C))
RowLabels(T) == [r \in {k[1] : k \in DOMAIN T} |-> T[CHOOSE k \in DOMAIN T : k[1] = r].rowLabel]
TheirRows(T) == SortedKeys(RowLabels(T), LAMBDA r : RowLabels(T)[r] \o r)

LEMMA RowsForGrid ==
    ASSUME NEW f, NEW view, NEW C, NEW T, Gridded(f, view, C, T)
    PROVE  IsFiniteSet(RowsOf(C)) /\ Labeled(RowsOf(C))
<1>1. IsFiniteSet(C) /\ (\A c \in C : OneCell(f, view, c)) /\ \A c, d \in C : TwoCells(c, d)
  BY DEF Gridded
<1>2. PICK R, g : R = RowsOf(C) /\ g = [c \in C |-> c.row]
  OBVIOUS
<1>3. g \in [C -> R] /\ \A r \in R : \E c \in C : r = g[c]
  BY <1>2 DEF RowsOf
<1>4. IsFiniteSet(R)
  BY ONLY <1>1, <1>3, ImageSize
<1>5. Labeled(R)
  <2>1. \A r \in R : \E a, b \in Int : r = [id |-> <<a>>, label |-> <<b>>]
    <3> TAKE r \in R
    <3>1. PICK c \in C : r = c.row
      BY <1>2 DEF RowsOf
    <3>2. \E a, b \in Int : c.row = [id |-> <<a>>, label |-> <<b>>]
      BY <1>1 DEF OneCell
    <3>3. QED
      BY <3>1, <3>2
  <2>2. ASSUME NEW r \in R, NEW s \in R, r.id = s.id \/ r.label = s.label PROVE r = s
    <3>1. PICK c \in C, d \in C : r = c.row /\ s = d.row
      BY <1>2 DEF RowsOf
    <3>2. c.row.id = d.row.id \/ c.row.label = d.row.label => c.row = d.row
      BY <1>1 DEF TwoCells
    <3>3. QED
      BY <2>2, <3>1, <3>2
  <2>3. QED
    BY <2>1, <2>2 DEF Labeled
<1>6. QED
  BY <1>2, <1>4, <1>5

LEMMA OurRowsForm ==
    ASSUME NEW f, NEW view, NEW C, NEW T, Gridded(f, view, C, T)
    PROVE  OurRows(C) = InLabel(RowsOf(C))
<1>1. PICK L, I : L = OurCells(C) /\ I = DOMAIN L
  OBVIOUS
<1>2. PICK n \in Nat : UpTo(I, n)
  BY <1>1, CellsOrdered
<1>3. Upward(I, L, RowsOf(C)) /\ RowsSeen(I, L) = RowsOf(C)
  BY <1>1, CellsOrdered
<1>4. IsFiniteSet(RowsOf(C)) /\ Labeled(RowsOf(C))
  BY RowsForGrid
<1> DEFINE G == CHOOSE F : Seen(I, L, F)
<1>5. Seen(I, L, G) /\ G[I] = InLabel(RowsSeen(I, L))
  <2>1. \E F : Seen(I, L, F)
    BY <1>2, <1>3, <1>4, SeenRows
  <2>2. Seen(I, L, G)
    BY <2>1, Zenon
  <2> HIDE DEF G
  <2>3. \A F : Seen(I, L, F) => F[I] = InLabel(RowsSeen(I, L))
    BY <1>2, <1>3, <1>4, SeenRows
  <2>4. QED
    BY <2>2, <2>3
<1>6. OurRows(C) = G[I]
  <2>1. OurRows(C) = (CHOOSE F : F = [s \in SUBSET I |-> IF s = {} THEN <<>>
            ELSE IF Contains(F[s \ {Max(s)}], L[Max(s)].row) THEN F[s \ {Max(s)}]
                 ELSE Append(F[s \ {Max(s)}], L[Max(s)].row)])[I]
    BY <1>1, Zenon DEF OurRows, FoldLeft, MapThenFoldSet
  <2>2. QED
    BY <2>1, Zenon DEF Seen
<1> HIDE DEF G
<1>7. QED
  BY <1>3, <1>5, <1>6

LEMMA RowOrder ==
    ASSUME NEW f, NEW view, NEW C, NEW T, Gridded(f, view, C, T)
    PROVE  [i \in DOMAIN OurRows(C) |-> OurRows(C)[i].id] = TheirRows(T)
<1>0. /\ \A c \in C : OneCell(f, view, c) /\ Agreed(c, T[At2(c)])
      /\ DOMAIN T = {At2(c) : c \in C}
      /\ \A c, d \in C : TwoCells(c, d)
  BY DEF Gridded
<1>1. PICK R, N : R = RowsOf(C) /\ N = {k[1] : k \in DOMAIN T}
  OBVIOUS
<1>2. IsFiniteSet(R) /\ Labeled(R)
  BY <1>1, RowsForGrid
<1>3. N = {r.id : r \in R}
  <2>1. \A c \in C : At2(c)[1] = c.row.id
    BY DEF At2
  <2>2. QED
    BY <1>0, <1>1, <2>1 DEF RowsOf
<1>4. PICK lab : lab = RowLabels(T)
  OBVIOUS
<1>5. DOMAIN lab = N /\ \A r \in R : lab[r.id] = r.label
  <2>1. DOMAIN lab = N
    BY <1>1, <1>4 DEF RowLabels
  <2>2. ASSUME NEW r \in R PROVE lab[r.id] = r.label
    <3>1. PICK k \in DOMAIN T : k = (CHOOSE j \in DOMAIN T : j[1] = r.id) /\ k[1] = r.id
      <4>1. \E j \in DOMAIN T : j[1] = r.id
        BY <1>1, <1>3
      <4>2. QED
        BY <4>1, Zenon
    <3>2. PICK c \in C : k = At2(c)
      BY <1>0
    <3>3. c.row.id = r.id
      BY <3>1, <3>2 DEF At2
    <3>4. PICK d \in C : r = d.row
      BY <1>1 DEF RowsOf
    <3>5. c.row = r
      BY <1>0, <3>3, <3>4 DEF TwoCells
    <3>6. T[k].rowLabel = r.label
      BY <1>0, <3>2, <3>5 DEF Agreed
    <3>7. r.id \in N
      BY <1>3
    <3>8. lab[r.id] = T[k].rowLabel
      BY <1>1, <1>4, <3>1, <3>7, Zenon DEF RowLabels
    <3>9. QED
      BY <3>6, <3>8
  <2>3. QED
    BY <2>1, <2>2
<1>6. PICK KB, m : KB = [k \in N |-> lab[k] \o k] /\ m = [r \in R |-> r.id]
  OBVIOUS
<1>7. ASSUME NEW r \in R
      PROVE  \E a, b \in Int : r = [id |-> <<a>>, label |-> <<b>>] /\ m[r] = <<a>> /\ KB[m[r]] = <<b, a>>
  <2>1. PICK a \in Int, b \in Int : r = [id |-> <<a>>, label |-> <<b>>]
    BY <1>2 DEF Labeled
  <2>2. m[r] = <<a>> /\ m[r] \in N /\ lab[m[r]] = <<b>>
    BY <1>3, <1>5, <1>6, <2>1
  <2>3. <<b>> \o <<a>> = <<b, a>>
    BY TextsJoin
  <2>4. KB[m[r]] = <<b, a>>
    BY <1>6, <2>2, <2>3
  <2>5. QED
    BY <2>1, <2>2, <2>4
<1>8. m \in [R -> N] /\ (\A k \in N : \E r \in R : k = m[r]) /\ \A r, s \in R : m[r] = m[s] => r = s
  BY <1>2, <1>3, <1>6 DEF Labeled
<1>9. Keys(N, KB)
  <2>1. \A k \in N : KB[k] \in Seq(Int) /\ \E a, b \in Int : k = <<a>> /\ KB[k] = <<b, a>>
    <3> TAKE k \in N
    <3>1. PICK r \in R : k = m[r]
      BY <1>8
    <3>2. PICK a \in Int, b \in Int : m[r] = <<a>> /\ KB[m[r]] = <<b, a>>
      BY <1>7
    <3>3. <<b, a>> \in Seq(Int)
      OBVIOUS
    <3>4. QED
      BY <3>1, <3>2, <3>3
  <2>2. ASSUME NEW k \in N, NEW l \in N, KB[k] = KB[l] PROVE k = l
    <3>1. PICK a \in Int, b \in Int : k = <<a>> /\ KB[k] = <<b, a>>
      BY <2>1
    <3>2. PICK c \in Int, d \in Int : l = <<c>> /\ KB[l] = <<d, c>>
      BY <2>1
    <3>3. a = c
      BY <2>2, <3>1, <3>2
    <3>4. QED
      BY <3>1, <3>2, <3>3
  <2>3. QED
    BY <1>6, <2>1, <2>2 DEF Keys
<1>10. ASSUME NEW r \in R, NEW s \in R, Precedes(LabelKeys(R)[r], LabelKeys(R)[s])
       PROVE  Precedes(KB[m[r]], KB[m[s]])
  <2>1. PICK a \in Int, b \in Int : r = [id |-> <<a>>, label |-> <<b>>] /\ KB[m[r]] = <<b, a>>
    BY <1>7
  <2>2. PICK c \in Int, d \in Int : s = [id |-> <<c>>, label |-> <<d>>] /\ KB[m[s]] = <<d, c>>
    BY <1>7
  <2>3. PICK t, u, v, w : t = <<b>> /\ u = <<d>> /\ v = <<b, a>> /\ w = <<d, c>>
    OBVIOUS
  <2>4. /\ t \in Seq(Int) /\ Len(t) >= 1 /\ t[1] = b /\ u \in Seq(Int) /\ Len(u) >= 1 /\ u[1] = d
        /\ v \in Seq(Int) /\ Len(v) >= 1 /\ v[1] = b /\ w \in Seq(Int) /\ Len(w) >= 1 /\ w[1] = d
    BY <2>3
  <2>5. Precedes(t, u)
    BY <1>10, <2>1, <2>2, <2>3 DEF LabelKeys
  <2>6. b <= d
    BY <2>4, <2>5, FirstPlace
  <2>7. b # d
    <3>1. b = d => t = u
      BY <2>3
    <3>2. QED
      BY <2>4, <2>5, <3>1, TextOrder
  <2>8. b < d
    BY <2>6, <2>7
  <2>9. Precedes(v, w)
    BY <2>4, <2>8, FirstPlace
  <2>10. QED
    BY <2>1, <2>2, <2>3, <2>9
<1>11. Follows(R, LabelKeys(R), N, KB, m)
  BY <1>8, <1>10 DEF Follows
<1>12. Keys(R, LabelKeys(R))
  BY <1>2, InLabelForm
<1>13. PICK o : o = InLabel(R)
  OBVIOUS
<1>14. [i \in DOMAIN o |-> m[o[i]]] = InOrder(N, KB)
  <2>1. o = InOrder(R, LabelKeys(R))
    BY <1>13 DEF InLabel
  <2>2. QED
    BY <1>2, <1>9, <1>11, <1>12, <2>1, MappedOrder
<1>15. \A i \in DOMAIN o : m[o[i]] = o[i].id
  <2>1. Sorted(ByKey(R, LabelKeys(R)), R, o)
    BY <1>2, <1>13, InLabelForm
  <2>2. \A i \in DOMAIN o : o[i] \in R
    BY <2>1 DEF Sorted
  <2>3. QED
    BY <1>6, <2>2
<1>16. InOrder(N, KB) = TheirRows(T)
  <2>1. \A s \in [1 .. Cardinality(N) -> N] :
            (\A i, j \in DOMAIN s : i < j => Precedes(KB[s[i]], KB[s[j]]))
            <=> (\A i, j \in DOMAIN s : i < j => Precedes(lab[s[i]] \o s[i], lab[s[j]] \o s[j]))
    BY <1>6
  <2>2. TheirRows(T) = Ordered(N, LAMBDA r : lab[r] \o r)
    BY <1>4, <1>5, Zenon DEF TheirRows, SortedKeys, Ordered
  <2>3. QED
    BY <2>1, <2>2, Zenon DEF Ordered, InOrder
<1>17. OurRows(C) = o
  BY <1>1, <1>13, OurRowsForm
<1>18. QED
  BY <1>14, <1>15, <1>16, <1>17

(***************************************************************************)
(* The order of the columns.                                               *)
(***************************************************************************)
ApartIn(p, r) == \E j \in 1 .. Len(p) : j <= Len(r) /\ p[j] # r[j]

LEMMA ApartAfter ==
    ASSUME NEW a \in Int, NEW b \in Int, NEW s \in Seq(Int), NEW t \in Seq(Int), Apart(s, t),
           NEW p, p = <<a>> \o s, NEW r, r = <<b>> \o t
    PROVE  p \in Seq(Int) /\ r \in Seq(Int) /\ ApartIn(p, r)
<1>1. PICK g \in Seq(Int), h \in Seq(Int) : g = <<a>> /\ h = <<b>> /\ Len(g) = 1 /\ Len(h) = 1
  <2>1. \A x \in Int : <<x>> \in Seq(Int) /\ Len(<<x>>) = 1
    OBVIOUS
  <2>2. QED
    BY <2>1
<1>2. p = g \o s /\ r = h \o t
  BY <1>1
<1>3. p \in Seq(Int) /\ Len(p) = Len(g) + Len(s)
  BY ONLY <1>1, <1>2
<1>4. r \in Seq(Int) /\ Len(r) = Len(h) + Len(t)
  BY ONLY <1>1, <1>2
<1>5. PICK k \in Nat, l \in Nat : k = Len(s) /\ l = Len(t)
  OBVIOUS
<1>6. Len(p) = 1 + k /\ Len(r) = 1 + l
  BY <1>1, <1>3, <1>4, <1>5
<1>7. PICK j \in {1, 2} : j <= k /\ j <= l /\ s[j] # t[j]
  BY <1>5 DEF Apart
<1>8. p[1 + j] = s[j] /\ r[1 + j] = t[j]
  <2>1. ASSUME NEW x \in Seq(Int), NEW y \in Seq(Int), Len(x) = 1, NEW z, z = x \o y, NEW i \in 1 .. Len(y)
        PROVE  z[1 + i] = y[i]
    <3>1. PICK n \in Nat : n = Len(y)
      OBVIOUS
    <3>2. \A e \in 1 .. Len(x) + Len(y) : z[e] = IF e <= Len(x) THEN x[e] ELSE y[e - Len(x)]
      BY <2>1, ConcatProperties
    <3>3. \A e \in 1 .. 1 + n : z[e] = IF e <= 1 THEN x[e] ELSE y[e - 1]
      BY <2>1, <3>1, <3>2
    <3>4. 1 + i \in 1 .. 1 + n /\ ~(1 + i <= 1) /\ (1 + i) - 1 = i
      BY <3>1
    <3>5. QED
      BY <3>3, <3>4
  <2>2. j \in 1 .. Len(s) /\ j \in 1 .. Len(t)
    BY <1>5, <1>7
  <2>3. QED
    BY <1>1, <1>2, <2>1, <2>2
<1>9. 1 + j \in 1 .. Len(p) /\ 1 + j <= Len(r)
  BY <1>6, <1>7
<1>10. QED
  BY <1>3, <1>4, <1>7, <1>8, <1>9 DEF ApartIn

LEMMA ApartStays ==
    ASSUME NEW p \in Seq(Int), NEW r \in Seq(Int), ApartIn(p, r), NEW u \in Seq(Int), NEW v \in Seq(Int)
    PROVE  p # r /\ p \o u # r \o v
<1>1. PICK j \in 1 .. Len(p) : j <= Len(r) /\ p[j] # r[j]
  BY DEF ApartIn
<1>2. j \in 1 .. Len(r)
  BY <1>1
<1>3. (p \o u)[j] = p[j] /\ (r \o v)[j] = r[j]
  BY <1>1, <1>2
<1>4. QED
  BY <1>1, <1>3

ColsOf(C) == {c.col : c \in C}
FirstIn(C, col) == Min({c.first : c \in {d \in C : d.col.id = col.id}})
OurCols(C) == Ordered({c.col : c \in C},
    LAMBDA col : <<Min({c.first : c \in {d \in C : d.col.id = col.id}})>> \o col.label)
ColLabels(T) == [c \in {k[2] : k \in DOMAIN T} |-> T[CHOOSE k \in DOMAIN T : k[2] = c].colLabel]
ColFirsts(T) ==
    [c \in {k[2] : k \in DOMAIN T} |-> Min({T[k].first : k \in {d \in DOMAIN T : d[2] = c}})]
TheirCols(T) == SortedKeys(ColLabels(T), LAMBDA c : <<ColFirsts(T)[c]>> \o ColLabels(T)[c] \o c)

\* The keys of the columns.
ColKey(C, col) == <<FirstIn(C, col)>> \o col.label

LEMMA ColsForm ==
    ASSUME NEW f, NEW view, NEW C, NEW T, Gridded(f, view, C, T)
    PROVE  /\ IsFiniteSet(ColsOf(C))
           /\ \A col \in ColsOf(C) : /\ FirstIn(C, col) \in Int
                                     /\ col.id \in Seq(Int) /\ col.label \in Seq(Int)
           /\ \A c, d \in ColsOf(C) : c # d => c.id # d.id /\ Apart(c.label, d.label)
<1>1. IsFiniteSet(C) /\ (\A c \in C : OneCell(f, view, c)) /\ \A c, d \in C : TwoCells(c, d)
  BY DEF Gridded
<1>2. PICK Q, g : Q = ColsOf(C) /\ g = [c \in C |-> c.col]
  OBVIOUS
<1>3. g \in [C -> Q] /\ \A r \in Q : \E c \in C : r = g[c]
  BY <1>2 DEF ColsOf
<1>4. IsFiniteSet(Q)
  BY ONLY <1>1, <1>3, ImageSize
<1>5. ASSUME NEW col \in Q
      PROVE  FirstIn(C, col) \in Int /\ col.id \in Seq(Int) /\ col.label \in Seq(Int)
  <2>1. PICK c \in C : col = c.col
    BY <1>2 DEF ColsOf
  <2>2. PICK D, N, h : D = {d \in C : d.col.id = col.id} /\ N = {d.first : d \in D} /\ h = [d \in D |-> d.first]
    OBVIOUS
  <2>3. IsFiniteSet(D)
    BY <1>1, <2>2, FS_Subset
  <2>4. h \in [D -> N] /\ \A n \in N : \E d \in D : n = h[d]
    BY <2>2
  <2>5. IsFiniteSet(N)
    BY ONLY <2>3, <2>4, ImageSize
  <2>6. N \subseteq Int
    BY <1>1, <2>2 DEF OneCell
  <2>7. c.first \in N
    BY <2>1, <2>2
  <2>8. Min(N) \in N
    BY <2>5, <2>6, <2>7, MinForm
  <2>9. FirstIn(C, col) = Min(N)
    BY <2>2, Zenon DEF FirstIn
  <2>10. col.id \in Seq(Int) /\ col.label \in Seq(Int)
    BY <1>1, <2>1 DEF OneCell
  <2>11. QED
    BY <2>6, <2>8, <2>9, <2>10
<1>6. ASSUME NEW r \in Q, NEW s \in Q, r # s PROVE r.id # s.id /\ Apart(r.label, s.label)
  <2>1. PICK c \in C, d \in C : r = c.col /\ s = d.col
    BY <1>2 DEF ColsOf
  <2>2. TwoCells(c, d)
    BY <1>1
  <2>3. QED
    BY <1>6, <2>1, <2>2 DEF TwoCells
<1>7. QED
  BY <1>2, <1>4, <1>5, <1>6

LEMMA ColFacts ==
    ASSUME NEW f, NEW view, NEW C, NEW T, Gridded(f, view, C, T)
    PROVE  /\ {k[2] : k \in DOMAIN T} = {col.id : col \in ColsOf(C)}
           /\ \A col \in ColsOf(C) : /\ ColLabels(T)[col.id] = col.label
                                     /\ ColFirsts(T)[col.id] = FirstIn(C, col)
<1>0. /\ \A c \in C : OneCell(f, view, c) /\ Agreed(c, T[At2(c)])
      /\ DOMAIN T = {At2(c) : c \in C}
      /\ \A c, d \in C : TwoCells(c, d)
  BY DEF Gridded
<1>1. PICK Q, N : Q = ColsOf(C) /\ N = {k[2] : k \in DOMAIN T}
  OBVIOUS
<1>2. \A c \in C : At2(c)[2] = c.col.id
  BY DEF At2
<1>3. N = {r.id : r \in Q}
  BY <1>0, <1>1, <1>2 DEF ColsOf
<1>4. ASSUME NEW r \in Q PROVE ColLabels(T)[r.id] = r.label
  <2>1. PICK k \in DOMAIN T : k = (CHOOSE j \in DOMAIN T : j[2] = r.id) /\ k[2] = r.id
    <3>1. \E j \in DOMAIN T : j[2] = r.id
      BY <1>1, <1>3
    <3>2. QED
      BY <3>1, Zenon
  <2>2. PICK c \in C : k = At2(c)
    BY <1>0
  <2>3. c.col.id = r.id
    BY <1>2, <2>1, <2>2
  <2>4. PICK d \in C : r = d.col
    BY <1>1 DEF ColsOf
  <2>5. c.col = r
    BY <1>0, <2>3, <2>4 DEF TwoCells
  <2>6. T[k].colLabel = r.label
    BY <1>0, <2>2, <2>5 DEF Agreed
  <2>7. r.id \in N
    BY <1>3
  <2>8. ColLabels(T)[r.id] = T[k].colLabel
    BY <1>1, <2>1, <2>7, Zenon DEF ColLabels
  <2>9. QED
    BY <2>6, <2>8
<1>5. ASSUME NEW r \in Q PROVE ColFirsts(T)[r.id] = FirstIn(C, r)
  <2>1. PICK X, Y : X = {T[k].first : k \in {d \in DOMAIN T : d[2] = r.id}}
                    /\ Y = {c.first : c \in {d \in C : d.col.id = r.id}}
    OBVIOUS
  <2>2. X = Y
    <3>1. \A c \in C : T[At2(c)].first = c.first
      BY <1>0 DEF Agreed
    <3>2. ASSUME NEW v \in X PROVE v \in Y
      <4>1. PICK k \in DOMAIN T : k[2] = r.id /\ v = T[k].first
        BY <2>1
      <4>2. PICK c \in C : k = At2(c)
        BY <1>0
      <4>3. QED
        BY <1>2, <2>1, <3>1, <4>1, <4>2
    <3>3. ASSUME NEW v \in Y PROVE v \in X
      <4>1. PICK c \in C : c.col.id = r.id /\ v = c.first
        BY <2>1
      <4>2. At2(c) \in DOMAIN T
        BY <1>0
      <4>3. QED
        BY <1>2, <2>1, <3>1, <4>1, <4>2
    <3>4. QED
      BY <3>2, <3>3
  <2>3. r.id \in N
    BY <1>3
  <2>4. ColFirsts(T)[r.id] = Min(X)
    BY <1>1, <2>1, <2>3, Zenon DEF ColFirsts
  <2>5. FirstIn(C, r) = Min(Y)
    BY <2>1, Zenon DEF FirstIn
  <2>6. QED
    BY <2>2, <2>4, <2>5
<1>6. QED
  BY <1>1, <1>3, <1>4, <1>5

LEMMA ColOrder ==
    ASSUME NEW f, NEW view, NEW C, NEW T, Gridded(f, view, C, T)
    PROVE  [i \in DOMAIN OurCols(C) |-> OurCols(C)[i].id] = TheirCols(T)
<1>1. PICK Q, N, lab, fst : /\ Q = ColsOf(C) /\ N = {k[2] : k \in DOMAIN T}
                            /\ lab = ColLabels(T) /\ fst = ColFirsts(T)
  OBVIOUS
<1>2. IsFiniteSet(Q)
  BY <1>1, ColsForm
<1>3. \A r \in Q : FirstIn(C, r) \in Int /\ r.id \in Seq(Int) /\ r.label \in Seq(Int)
  BY <1>1, ColsForm
<1>4. \A r, s \in Q : r # s => r.id # s.id /\ Apart(r.label, s.label)
  BY <1>1, ColsForm
<1>5. N = {r.id : r \in Q}
  BY <1>1, ColFacts
<1>6. \A r \in Q : lab[r.id] = r.label /\ fst[r.id] = FirstIn(C, r)
  BY <1>1, ColFacts
<1>7. PICK KA, KB, m : /\ KA = [r \in Q |-> ColKey(C, r)] /\ KB = [k \in N |-> (<<fst[k]>> \o lab[k]) \o k]
                       /\ m = [r \in Q |-> r.id]
  OBVIOUS
<1>8. m \in [Q -> N] /\ (\A k \in N : \E r \in Q : k = m[r]) /\ \A r, s \in Q : m[r] = m[s] => r = s
  BY <1>4, <1>5, <1>7
<1>9. ASSUME NEW r \in Q PROVE KA[r] \in Seq(Int) /\ KB[m[r]] = KA[r] \o r.id /\ KB[m[r]] \in Seq(Int)
  <2>1. PICK a \in Int, s \in Seq(Int), t \in Seq(Int) : a = FirstIn(C, r) /\ s = r.label /\ t = r.id
    BY <1>3
  <2>2. KA[r] = <<a>> \o s
    BY <1>7, <2>1 DEF ColKey
  <2>3. <<a>> \in Seq(Int)
    OBVIOUS
  <2>4. KA[r] \in Seq(Int)
    BY <2>2, <2>3
  <2>5. m[r] \in N /\ m[r] = t
    BY <1>7, <1>8, <2>1
  <2>6. lab[t] = s /\ fst[t] = a
    BY <1>6, <2>1
  <2>7. KB[t] = (<<a>> \o s) \o t
    BY <1>7, <2>5, <2>6
  <2>8. KB[m[r]] = KA[r] \o t
    BY <2>2, <2>5, <2>7
  <2>9. QED
    BY <2>1, <2>4, <2>8
<1>10. ASSUME NEW r \in Q, NEW s \in Q, r # s PROVE ApartIn(KA[r], KA[s])
  <2>1. PICK a \in Int, u \in Seq(Int) : a = FirstIn(C, r) /\ u = r.label
    BY <1>3
  <2>2. PICK b \in Int, v \in Seq(Int) : b = FirstIn(C, s) /\ v = s.label
    BY <1>3
  <2>3. KA[r] = <<a>> \o u /\ KA[s] = <<b>> \o v
    BY <1>7, <2>1, <2>2 DEF ColKey
  <2>4. Apart(u, v)
    BY <1>4, <1>10, <2>1, <2>2
  <2>5. QED
    BY <2>3, <2>4, ApartAfter
<1>11. Keys(Q, KA)
  <2>1. ASSUME NEW r \in Q, NEW s \in Q, KA[r] = KA[s] PROVE r = s
    <3>1. SUFFICES ASSUME r # s PROVE FALSE
      OBVIOUS
    <3>2. ApartIn(KA[r], KA[s])
      BY <1>10, <3>1
    <3>3. KA[r] \in Seq(Int) /\ KA[s] \in Seq(Int) /\ r.id \in Seq(Int)
      BY <1>3, <1>9
    <3>4. QED
      BY <2>1, <3>2, <3>3, ApartStays
  <2>2. QED
    BY <1>7, <1>9, <2>1 DEF Keys
<1>12. Keys(N, KB)
  <2>1. \A k \in N : KB[k] \in Seq(Int)
    BY <1>8, <1>9
  <2>2. ASSUME NEW k \in N, NEW l \in N, KB[k] = KB[l] PROVE k = l
    <3>1. PICK r \in Q, s \in Q : k = m[r] /\ l = m[s]
      BY <1>8
    <3>2. SUFFICES ASSUME r # s PROVE FALSE
      BY <3>1
    <3>3. ApartIn(KA[r], KA[s])
      BY <1>10, <3>2
    <3>4. KA[r] \in Seq(Int) /\ KA[s] \in Seq(Int) /\ r.id \in Seq(Int) /\ s.id \in Seq(Int)
      BY <1>3, <1>9
    <3>5. KA[r] \o r.id = KA[s] \o s.id
      BY <1>9, <2>2, <3>1
    <3>6. QED
      BY <3>3, <3>4, <3>5, ApartStays
  <2>3. QED
    BY <1>7, <2>1, <2>2 DEF Keys
<1>13. ASSUME NEW r \in Q, NEW s \in Q, Precedes(KA[r], KA[s]) PROVE Precedes(KB[m[r]], KB[m[s]])
  <2>1. PICK p \in Seq(Int), t \in Seq(Int), u \in Seq(Int), v \in Seq(Int) :
            p = KA[r] /\ t = KA[s] /\ u = r.id /\ v = s.id
    BY <1>3, <1>9
  <2>2. Precedes(p, t)
    BY <1>13, <2>1
  <2>3. p # t
    BY <2>2, TextOrder
  <2>4. r # s
    BY <2>1, <2>3
  <2>5. \E j \in 1 .. Len(p) : j <= Len(t) /\ p[j] # t[j]
    BY <1>10, <2>1, <2>4 DEF ApartIn
  <2>6. Precedes(p \o u, t \o v)
    BY <2>2, <2>5, OrderKept
  <2>7. QED
    BY <1>9, <2>1, <2>6
<1>14. Follows(Q, KA, N, KB, m)
  BY <1>8, <1>13 DEF Follows
<1>15. PICK o : o = InOrder(Q, KA)
  OBVIOUS
<1>16. [i \in DOMAIN o |-> m[o[i]]] = InOrder(N, KB)
  BY <1>2, <1>11, <1>12, <1>14, <1>15, MappedOrder
<1>17. \A i \in DOMAIN o : m[o[i]] = o[i].id
  <2>1. Orders(ByKey(Q, KA), Q)
    BY <1>11, KeysOrder
  <2>2. Sorted(ByKey(Q, KA), Q, o)
    BY <1>2, <1>11, <1>15, InOrderForm
  <2>3. \A i \in DOMAIN o : o[i] \in Q
    BY <2>2 DEF Sorted
  <2>4. QED
    BY <1>7, <2>3
<1>18. InOrder(N, KB) = TheirCols(T)
  <2>1. \A s \in [1 .. Cardinality(N) -> N] :
            (\A i, j \in DOMAIN s : i < j => Precedes(KB[s[i]], KB[s[j]]))
            <=> (\A i, j \in DOMAIN s : i < j =>
                    Precedes((<<fst[s[i]]>> \o lab[s[i]]) \o s[i], (<<fst[s[j]]>> \o lab[s[j]]) \o s[j]))
    BY <1>7
  <2>2. DOMAIN lab = N
    BY <1>1 DEF ColLabels
  <2>3. TheirCols(T) = Ordered(N, LAMBDA c : <<fst[c]>> \o lab[c] \o c)
    BY <1>1, <2>2, Zenon DEF TheirCols, SortedKeys, Ordered
  <2>4. QED
    BY <2>1, <2>3, Zenon DEF Ordered, InOrder
<1>19. OurCols(C) = o
  <2>1. \A s \in [1 .. Cardinality(Q) -> Q] :
            (\A i, j \in DOMAIN s : i < j => Precedes(KA[s[i]], KA[s[j]]))
            <=> (\A i, j \in DOMAIN s : i < j => Precedes(ColKey(C, s[i]), ColKey(C, s[j])))
    BY <1>7
  <2>2. OurCols(C) = Ordered(Q, LAMBDA col : ColKey(C, col))
    BY <1>1, Zenon DEF OurCols, ColsOf, ColKey, FirstIn, Ordered
  <2>3. QED
    BY <1>15, <2>1, <2>2, Zenon DEF Ordered, InOrder
<1>20. QED
  BY <1>16, <1>17, <1>18, <1>19

LEMMA CellFields ==
    ASSUME NEW q, NEW f, NEW view, NEW A, NEW y, NEW c, c = CellIn(q, f, view, A, y)
    PROVE  /\ c.row = HeatmapRow(y.wf) /\ c.col = HeatmapCol(f, view, y)
           /\ c.total = Cardinality(A) /\ c.completed = Ended(A) /\ c.overdue = InClass(q, A, "missed")
           /\ c.late = InClass(q, A, "late") /\ c.inProgress = Worked(A) /\ c.workflows = FlowsOf(A)
           /\ c.first = Min(EndDays(A))
  BY DEF CellIn

LEMMA EntryFields ==
    ASSUME NEW q, NEW f, NEW view, NEW A, NEW w, w = EntryIn(q, f, view, A)
    PROVE  /\ w.rowLabel = HeatmapRow(Choice(A).wf).label
           /\ w.colLabel = HeatmapCol(f, view, Choice(A)).label
           /\ w.total = Cardinality(A) /\ w.completed = Ended(A) /\ w.overdue = InClass(q, A, "missed")
           /\ w.late = InClass(q, A, "late") /\ w.inProgress = Worked(A) /\ w.workflows = FlowsOf(A)
           /\ w.first = Min(EndDays(A))
  BY DEF EntryIn

\* A cell is well formed.
LEMMA CellGood ==
    ASSUME NEW q, Asking(q), NEW f, NEW view \in Views, NEW A \in SUBSET q.work, NEW y \in A,
           NEW c, c = CellIn(q, f, view, A, y)
    PROVE  OneCell(f, view, c)
<1>1. /\ c.row = HeatmapRow(y.wf) /\ c.col = HeatmapCol(f, view, y)
      /\ c.total = Cardinality(A) /\ c.completed = Ended(A) /\ c.overdue = InClass(q, A, "missed")
      /\ c.late = InClass(q, A, "late") /\ c.first = Min(EndDays(A))
  BY CellFields
<1>2. y.wf \in Portfolio /\ y.code \in Int
  BY RowForm
<1>3. \E a, b \in Int : c.row = [id |-> <<a>>, label |-> <<b>>]
  BY <1>1, <1>2, RowPlace
<1>4. c.col.id \in Seq(Int) /\ c.col.label \in Seq(Int) /\ Len(c.col.id) = Width(f, view)
  BY <1>1, <1>2, ColTexts
<1>5. \A S \in SUBSET q.work : IsFiniteSet(S) /\ Cardinality(S) \in Nat
  BY TableForm
<1>6. Ended(A) \in Nat /\ InClass(q, A, "missed") \in Nat /\ InClass(q, A, "late") \in Nat
  <2>1. {x \in A : x.status = "completed"} \in SUBSET q.work
    OBVIOUS
  <2>2. \A class : {x \in A : ComplianceClass(q, x, x.due) = class} \in SUBSET q.work
    OBVIOUS
  <2>3. QED
    BY <1>5, <2>1, <2>2 DEF Ended, InClass
<1>7. Cardinality(A) \in Nat \ {0}
  <2>1. IsFiniteSet(A)
    BY <1>5
  <2>2. Cardinality(A) # 0
    BY <2>1, FS_EmptySet
  <2>3. QED
    BY <1>5, <2>2
<1>8. c.first \in Int
  <2>1. PICK E, g : E = EndDays(A) /\ g = [x \in A |-> x.end]
    OBVIOUS
  <2>2. g \in [A -> E] /\ \A e \in E : \E x \in A : e = g[x]
    BY <2>1 DEF EndDays
  <2>3. IsFiniteSet(A)
    BY <1>5
  <2>4. IsFiniteSet(E)
    BY ONLY <2>2, <2>3, ImageSize
  <2>5. \A x \in A : x.end \in Int
    BY RowForm
  <2>6. E \subseteq Int /\ y.end \in E
    BY <2>1, <2>5 DEF EndDays
  <2>7. Min(E) \in E
    BY <2>4, <2>6, MinForm
  <2>8. QED
    BY <1>1, <2>1, <2>6, <2>7
<1>9. QED
  BY <1>1, <1>3, <1>4, <1>6, <1>7, <1>8 DEF OneCell

\* The cells of two instances.
LEMMA TwoGood ==
    ASSUME NEW q, Asking(q), NEW f, NEW view \in Views, NEW S \in SUBSET q.work,
           NEW P, P = Places(S, f, view), NEW y \in S, NEW z \in S,
           NEW c, c = CellIn(q, f, view, Mates(S, P, y), y),
           NEW d, d = CellIn(q, f, view, Mates(S, P, z), z)
    PROVE  TwoCells(c, d)
<1>1. y.wf \in Portfolio /\ y.code \in Int /\ z.wf \in Portfolio /\ z.code \in Int
  BY RowForm
<1>2. c.row = HeatmapRow(y.wf) /\ c.col = HeatmapCol(f, view, y)
  BY CellFields
<1>3. d.row = HeatmapRow(z.wf) /\ d.col = HeatmapCol(f, view, z)
  BY CellFields
<1>4. c.row.id = d.row.id \/ c.row.label = d.row.label => c.row = d.row
  BY <1>1, <1>2, <1>3, RowKnown
<1>5. c.col # d.col => c.col.id # d.col.id /\ Apart(c.col.label, d.col.label)
  BY <1>1, <1>2, <1>3, ColKnown
<1>6. ASSUME c.row = d.row, c.col = d.col PROVE c = d
  <2>1. P[y] = <<c.row.id, c.col.id>> /\ P[z] = <<d.row.id, d.col.id>>
    BY <1>2, <1>3 DEF Places, PlaceOf
  <2>2. Mates(S, P, y) = Mates(S, P, z)
    BY <1>6, <2>1 DEF Mates
  <2>3. HeatmapRow(y.wf) = HeatmapRow(z.wf) /\ HeatmapCol(f, view, y) = HeatmapCol(f, view, z)
    BY <1>2, <1>3, <1>6
  <2>4. QED
    BY <2>2, <2>3 DEF CellIn
<1>7. QED
  BY <1>4, <1>5, <1>6 DEF TwoCells

\* The cell of an instance, and the entry of its place.
LEMMA CellAgrees ==
    ASSUME NEW q, Asking(q), NEW f, NEW view \in Views, NEW S \in SUBSET q.work,
           NEW P, P = Places(S, f, view), NEW y \in S,
           NEW c, c = CellIn(q, f, view, Mates(S, P, y), y),
           NEW T, T = Entries(S, P, CellEntries(q, S, f, view))
    PROVE  At2(c) = P[y] /\ P[y] \in DOMAIN T /\ Agreed(c, T[At2(c)])
<1>1. PICK A \in SUBSET S : A = Mates(S, P, y)
  BY DEF Mates
<1>2. /\ c.row = HeatmapRow(y.wf) /\ c.col = HeatmapCol(f, view, y)
      /\ c.total = Cardinality(A) /\ c.completed = Ended(A) /\ c.overdue = InClass(q, A, "missed")
      /\ c.late = InClass(q, A, "late") /\ c.inProgress = Worked(A) /\ c.workflows = FlowsOf(A)
      /\ c.first = Min(EndDays(A))
  BY <1>1, CellFields
<1>3. At2(c) = P[y]
  BY <1>2 DEF At2, Places, PlaceOf
<1>4. DOMAIN T = {P[x] : x \in S} /\ T[P[y]] = CellEntries(q, S, f, view)[{x \in S : P[x] = P[y]}]
  BY DEF Entries
<1>5. {x \in S : P[x] = P[y]} = A
  BY <1>1 DEF Mates
<1>6. PICK w : w = EntryIn(q, f, view, A)
  OBVIOUS
<1>7. T[P[y]] = w
  BY <1>4, <1>5, <1>6 DEF CellEntries
<1>8. /\ w.rowLabel = HeatmapRow(Choice(A).wf).label
      /\ w.colLabel = HeatmapCol(f, view, Choice(A)).label
      /\ w.total = Cardinality(A) /\ w.completed = Ended(A) /\ w.overdue = InClass(q, A, "missed")
      /\ w.late = InClass(q, A, "late") /\ w.inProgress = Worked(A) /\ w.workflows = FlowsOf(A)
      /\ w.first = Min(EndDays(A))
  BY <1>6, EntryFields
<1>9. PICK x \in A : x = Choice(A)
  <2>1. y \in A
    BY <1>1 DEF Mates
  <2>2. Choice(A) \in A
    BY <2>1, Zenon DEF Choice
  <2>3. QED
    BY <2>2
<1>10. HeatmapRow(x.wf) = HeatmapRow(y.wf) /\ HeatmapCol(f, view, x) = HeatmapCol(f, view, y)
  <2>1. x.wf \in Portfolio /\ x.code \in Int /\ y.wf \in Portfolio /\ y.code \in Int
    BY RowForm
  <2>2. P[x] = P[y]
    BY <1>1 DEF Mates
  <2>3. PlaceOf(f, view, x) = PlaceOf(f, view, y)
    BY <2>2 DEF Places
  <2>4. Spot(f, view, x) = Spot(f, view, y)
    BY <2>1, <2>3, SamePlace
  <2>5. QED
    BY <2>4 DEF Spot
<1>11. Agreed(c, w)
  BY <1>2, <1>8, <1>9, <1>10 DEF Agreed
<1>12. QED
  BY <1>3, <1>4, <1>7, <1>11

LEMMA GridHolds ==
    ASSUME NEW q, Asking(q), NEW f, NEW view \in Views
    PROVE  Gridded(f, view, HeatmapCells(q, Everything, f, view), OracleTallied(q, f, view))
<1>1. PICK S, P, C, T : /\ S = ComplianceFrom(q, Everything, f) /\ P = Places(S, f, view)
                        /\ C = HeatmapCells(q, Everything, f, view) /\ T = OracleTallied(q, f, view)
  OBVIOUS
<1>2. S \in SUBSET q.work
  BY <1>1 DEF ComplianceFrom
<1>3. IsFiniteSet(S)
  BY <1>2, TableForm
<1>4. C = {CellIn(q, f, view, Mates(S, P, y), y) : y \in S}
  BY <1>1, CellsForm
<1>5. T = Entries(S, P, CellEntries(q, S, f, view))
  BY <1>1, CellsTallied
<1>6. PICK at : at = [y \in S |-> CellIn(q, f, view, Mates(S, P, y), y)]
  OBVIOUS
<1>7. at \in [S -> C] /\ \A c \in C : \E y \in S : c = at[y]
  BY <1>4, <1>6
<1>8. \A y \in S : at[y] = CellIn(q, f, view, Mates(S, P, y), y)
  BY <1>6
<1>9. IsFiniteSet(C)
  BY ONLY <1>3, <1>7, ImageSize
<1>10. ASSUME NEW y \in S
       PROVE  /\ OneCell(f, view, at[y]) /\ At2(at[y]) = P[y] /\ P[y] \in DOMAIN T
              /\ Agreed(at[y], T[At2(at[y])])
  <2>1. PICK A : A = Mates(S, P, y)
    OBVIOUS
  <2>2. A \in SUBSET q.work /\ y \in A
    BY <1>2, <2>1 DEF Mates
  <2>3. at[y] = CellIn(q, f, view, A, y)
    BY <1>8, <2>1
  <2>4. OneCell(f, view, at[y])
    BY <2>2, <2>3, CellGood
  <2>5. QED
    BY <1>1, <1>2, <1>5, <1>8, <2>4, CellAgrees
<1>11. \A y, z \in S : TwoCells(at[y], at[z])
  BY <1>1, <1>2, <1>8, TwoGood
<1>12. \A c \in C : OneCell(f, view, c) /\ Agreed(c, T[At2(c)])
  BY <1>7, <1>10
<1>13. \A c, d \in C : TwoCells(c, d)
  BY <1>7, <1>11
<1>14. DOMAIN T = {At2(c) : c \in C}
  <2>1. DOMAIN T = {P[y] : y \in S}
    BY <1>5 DEF Entries
  <2>2. \A y \in S : at[y] \in C /\ P[y] = At2(at[y])
    BY <1>7, <1>10
  <2>3. QED
    BY <1>7, <2>1, <2>2
<1>15. Gridded(f, view, C, T)
  BY <1>9, <1>12, <1>13, <1>14 DEF Gridded
<1>16. QED
  BY <1>1, <1>15, Zenon

LEMMA SameStatusOf ==
    ASSUME NEW f, NEW view, NEW c, OneCell(f, view, c), NEW w, Agreed(c, w)
    PROVE  CellStatus(c) = OracleCellStatus(w)
<1>1. PICK t \in Nat \ {0}, o \in Nat, l \in Nat, e \in Nat :
          t = c.total /\ o = c.overdue /\ l = c.late /\ e = c.completed
  BY DEF OneCell
<1>2. t = w.total /\ o = w.overdue /\ l = w.late /\ e = w.completed
  BY <1>1 DEF Agreed
<1>3. OracleCellStatus(w) = IF o + l > 0 THEN "red" ELSE IF e = t THEN "green" ELSE "amber"
  BY <1>2, Zenon DEF OracleCellStatus
<1>4. CASE o > 0 \/ l > 0
  <2>1. CellStatus(c) = "red"
    BY <1>1, <1>4 DEF CellStatus
  <2>2. o + l > 0
    BY <1>4
  <2>3. QED
    BY <1>3, <2>1, <2>2
<1>5. CASE o = 0 /\ l = 0
  <2>1. CellStatus(c) = IF e = t THEN "green" ELSE "amber"
    BY <1>1, <1>5 DEF CellStatus
  <2>2. ~(o + l > 0)
    BY <1>5
  <2>3. QED
    BY <1>3, <2>1, <2>2
<1>6. QED
  BY <1>4, <1>5

\* As many cells as entries, and as many of each status.
SameCounts(C, T) ==
    /\ Cardinality(C) = Cardinality(DOMAIN T)
    /\ \A s : Cardinality({c \in C : CellStatus(c) = s})
                  = Cardinality({k \in DOMAIN T : OracleCellStatus(T[k]) = s})

LEMMA GridCounts ==
    ASSUME NEW f, NEW view, NEW C, NEW T, Gridded(f, view, C, T)
    PROVE  SameCounts(C, T)
<1>1. /\ IsFiniteSet(C) /\ DOMAIN T = {At2(c) : c \in C}
      /\ \A c \in C : OneCell(f, view, c) /\ Agreed(c, T[At2(c)])
      /\ \A c, d \in C : TwoCells(c, d)
  BY DEF Gridded
<1>2. PICK D, g : D = DOMAIN T /\ g = [c \in C |-> At2(c)]
  OBVIOUS
<1>3. g \in [C -> D] /\ \A d \in D : \E c \in C : d = g[c]
  BY <1>1, <1>2
<1>4. \A c, d \in C : g[c] = g[d] => c = d
  <2> TAKE c \in C, d \in C
  <2>1. g[c] = <<c.row.id, c.col.id>> /\ g[d] = <<d.row.id, d.col.id>>
    BY <1>2 DEF At2
  <2>2. TwoCells(c, d)
    BY <1>1
  <2>3. QED
    BY <2>1, <2>2 DEF TwoCells
<1>5. Cardinality(D) = Cardinality(C)
  BY <1>1, <1>3, <1>4, ImageSize
<1>6. ASSUME NEW s
      PROVE  Cardinality({c \in C : CellStatus(c) = s}) = Cardinality({k \in DOMAIN T : OracleCellStatus(T[k]) = s})
  <2>1. PICK A, B, h : /\ A = {c \in C : CellStatus(c) = s} /\ B = {k \in D : OracleCellStatus(T[k]) = s}
                       /\ h = [c \in A |-> g[c]]
    OBVIOUS
  <2>2. \A c \in C : OracleCellStatus(T[g[c]]) = CellStatus(c)
    <3> TAKE c \in C
    <3>1. OneCell(f, view, c) /\ Agreed(c, T[At2(c)])
      BY <1>1
    <3>2. PICK w : w = T[At2(c)]
      OBVIOUS
    <3>3. CellStatus(c) = OracleCellStatus(w)
      BY <3>1, <3>2, SameStatusOf
    <3>4. g[c] = At2(c)
      BY <1>2
    <3>5. QED
      BY <3>2, <3>3, <3>4
  <2>3. h \in [A -> B] /\ \A k \in B : \E c \in A : k = h[c]
    BY <1>3, <2>1, <2>2
  <2>4. \A c, d \in A : h[c] = h[d] => c = d
    BY <1>4, <2>1
  <2>5. IsFiniteSet(A)
    BY <1>1, <2>1, FS_Subset
  <2>6. Cardinality(B) = Cardinality(A)
    BY <2>3, <2>4, <2>5, ImageSize
  <2>7. QED
    BY <1>2, <2>1, <2>6
<1>7. QED
  BY <1>2, <1>5, <1>6 DEF SameCounts

OurSummary(C) ==
    [s \in {"green", "amber", "red"} |-> Cardinality({c \in C : CellStatus(c) = s})]
TheirSummary(T) ==
    [s \in {"green", "amber", "red"} |-> Cardinality({k \in DOMAIN T : OracleCellStatus(T[k]) = s})]

LEMMA HeatmapHolds ==
    ASSUME NEW q, Asking(q), NEW f, NEW view \in Views
    PROVE  CheckHeatmap(q, f, view)
<1>1. PICK C, T : C = HeatmapCells(q, Everything, f, view) /\ T = OracleTallied(q, f, view)
  OBVIOUS
<1>2. Gridded(f, view, C, T)
  BY <1>1, GridHolds
<1>3. PICK got : got = ComplianceHeatmap(q, Everything, f, view)
  OBVIOUS
<1>4. PICK want : want = OracleHeatmap(q, f, view)
  OBVIOUS
<1>5. PICK RO, CO, SU : RO = TheirRows(T) /\ CO = TheirCols(T) /\ SU = TheirSummary(T)
  OBVIOUS
<1>6. want = [cells |-> T, rowOrder |-> RO, colOrder |-> CO, summary |-> SU]
  <2>1. OracleHeatmap(q, f, view) = OracleGrid(T)
    BY <1>1, Zenon DEF OracleHeatmap
  <2>2. OracleGrid(T) = [cells |-> T, rowOrder |-> TheirRows(T), colOrder |-> TheirCols(T),
                         summary |-> TheirSummary(T)]
    BY Zenon DEF OracleGrid, TheirRows, TheirCols, TheirSummary, RowLabels, ColLabels, ColFirsts, Count
  <2>3. QED
    BY <1>4, <1>5, <2>1, <2>2, Zenon
<1>7. want.cells = T /\ want.rowOrder = RO /\ want.colOrder = CO /\ want.summary = SU
  BY ONLY <1>6
<1>8. Cardinality(C) = Cardinality(DOMAIN T)
  BY <1>2, GridCounts DEF SameCounts
<1>9. got = Grid(C)
  BY <1>1, <1>3, Zenon DEF ComplianceHeatmap
<1>10. CASE Cardinality(C) > MaxHeatmapCells
  <2>1. got = TooLarge
    BY <1>9, <1>10, Zenon DEF Grid
  <2>2. Cardinality(DOMAIN want.cells) > MaxHeatmapCells
    BY <1>7, <1>8, <1>10
  <2>3. SameHeatmap(got, want)
    BY <2>1, <2>2, Zenon DEF SameHeatmap
  <2>4. QED
    BY <1>3, <1>4, <2>3, Zenon DEF CheckHeatmap
<1>11. CASE ~(Cardinality(C) > MaxHeatmapCells)
  <2>1. PICK R, L, Z : R = OurRows(C) /\ L = OurCols(C) /\ Z = OurSummary(C)
    OBVIOUS
  <2>2. got = [rows |-> R, cols |-> L, cells |-> C, summary |-> Z]
    <3>1. got = HeatmapToJSON(C)
      BY <1>9, <1>11, Zenon DEF Grid
    <3>2. HeatmapToJSON(C) = [rows |-> OurRows(C), cols |-> OurCols(C), cells |-> C, summary |-> OurSummary(C)]
      BY Zenon DEF HeatmapToJSON, OurRows, OurCols, OurCells, OurSummary, Count
    <3>3. QED
      BY <2>1, <3>1, <3>2, Zenon
  <2>3. got.rows = R /\ got.cols = L /\ got.cells = C /\ got.summary = Z
    BY ONLY <2>2
  <2>4. got # TooLarge
    <3>1. DOMAIN got = {"rows", "cols", "cells", "summary"}
      BY ONLY <2>2
    <3>2. DOMAIN TooLarge = {"refused"}
      BY DEF TooLarge
    <3>3. QED
      BY <3>1, <3>2
  <2>5. Z = SU
    <3>1. \A s \in {"green", "amber", "red"} : Z[s] = SU[s]
      <4>1. SameCounts(C, T)
        BY <1>2, GridCounts
      <4>2. QED
        BY <1>5, <2>1, <4>1 DEF OurSummary, TheirSummary, SameCounts
    <3>2. QED
      BY <1>5, <2>1, <3>1 DEF OurSummary, TheirSummary
  <2>6. PICK K : K = {<<c.row.id, c.col.id>> : c \in C}
    OBVIOUS
  <2>7. K = DOMAIN T /\ Cardinality(C) = Cardinality(K)
    <3>1. K = {At2(c) : c \in C}
      BY <2>6 DEF At2
    <3>2. DOMAIN T = {At2(c) : c \in C}
      BY <1>2 DEF Gridded
    <3>3. QED
      BY <1>8, <3>1, <3>2
  <2>8. ASSUME NEW c \in C, NEW w, w = T[<<c.row.id, c.col.id>>]
        PROVE  /\ c.row.label = w.rowLabel /\ c.col.label = w.colLabel
               /\ \A n \in {"total", "completed", "overdue", "inProgress", "workflows"} : c[n] = w[n]
               /\ CellStatus(c) = OracleCellStatus(w)
    <3>1. OneCell(f, view, c) /\ Agreed(c, w)
      BY <1>2, <2>8 DEF Gridded, At2
    <3>2. CellStatus(c) = OracleCellStatus(w)
      BY <3>1, SameStatusOf
    <3>3. /\ c.total = w.total /\ c.completed = w.completed /\ c.overdue = w.overdue
          /\ c.inProgress = w.inProgress /\ c.workflows = w.workflows
      BY <3>1 DEF Agreed
    <3>4. c.row.label = w.rowLabel /\ c.col.label = w.colLabel
      BY <3>1 DEF Agreed
    <3>5. QED
      BY <3>2, <3>3, <3>4
  <2>9. [i \in DOMAIN R |-> R[i].id] = RO
    BY <1>2, <1>5, <2>1, RowOrder
  <2>10. [i \in DOMAIN L |-> L[i].id] = CO
    BY <1>2, <1>5, <2>1, ColOrder
  <2>11. ~(Cardinality(DOMAIN want.cells) > MaxHeatmapCells)
    BY <1>7, <1>8, <1>11
  <2>12. SameHeatmap(got, want)
    <3>1. got.summary = want.summary
      BY <1>7, <2>3, <2>5
    <3>2. {<<c.row.id, c.col.id>> : c \in got.cells} = K
      BY <2>3, <2>6
    <3>3. K = DOMAIN want.cells /\ Cardinality(got.cells) = Cardinality(K)
      BY <1>7, <2>3, <2>7
    <3>4. \A c \in got.cells :
              /\ c.row.label = want.cells[<<c.row.id, c.col.id>>].rowLabel
              /\ c.col.label = want.cells[<<c.row.id, c.col.id>>].colLabel
              /\ \A n \in {"total", "completed", "overdue", "inProgress", "workflows"} :
                     c[n] = want.cells[<<c.row.id, c.col.id>>][n]
              /\ CellStatus(c) = OracleCellStatus(want.cells[<<c.row.id, c.col.id>>])
      BY <1>7, <2>3, <2>8
    <3>5. [i \in DOMAIN got.rows |-> got.rows[i].id] = want.rowOrder
      BY <1>7, <2>3, <2>9
    <3>6. [i \in DOMAIN got.cols |-> got.cols[i].id] = want.colOrder
      BY <1>7, <2>3, <2>10
    <3>7. QED
      BY <2>4, <2>11, <3>1, <3>2, <3>3, <3>4, <3>5, <3>6, Zenon DEF SameHeatmap
  <2>13. QED
    BY <1>3, <1>4, <2>12, Zenon DEF CheckHeatmap
<1>12. QED
  BY <1>10, <1>11

(***************************************************************************)
(* The reminders.                                                          *)
(***************************************************************************)
\* What a section of a digest says of some work.
SectionSays(section, S) ==
    /\ section.count = Cardinality(S) /\ section.count = Len(section.tasks) + section.omitted
    /\ ToSet(section.tasks) \subseteq S /\ Cardinality(ToSet(section.tasks)) = Len(section.tasks)
    /\ \A i \in DOMAIN section.tasks, x \in S :
          section.tasks[i].due <= x.due \/ \E j \in 1 .. i - 1 : section.tasks[j] = x

\* Work in the order of a digest.
ByDue(S) == Ordered(S, LAMBDA x : <<x.due, x.name, x.id>>)

LEMMA ByDueForm ==
    ASSUME NEW q, Asking(q), NEW S \in SUBSET q.work, NEW o, o = ByDue(S)
    PROVE  /\ Cardinality(S) \in Nat /\ o \in Seq(S) /\ Len(o) = Cardinality(S)
           /\ \A i, j \in 1 .. Cardinality(S) : /\ o[i] = o[j] => i = j
                                                /\ i < j => o[i].due <= o[j].due
           /\ \A x \in S : \E i \in 1 .. Cardinality(S) : o[i] = x
<1>1. PICK K : K = [x \in S |-> <<x.due, x.name, x.id>>]
  OBVIOUS
<1>2. \A x \in S : x.due \in Int /\ x.name \in Int /\ x.id \in Int
  BY RowForm
<1>3. IsFiniteSet(S)
  BY TableForm
<1>4. Keys(S, K)
  <2>1. K \in [S -> Seq(Int)]
    BY <1>1, <1>2
  <2>2. ASSUME NEW a \in S, NEW b \in S, K[a] = K[b] PROVE a = b
    <3>1. a.id = b.id
      BY <1>1, <2>2
    <3>2. QED
      BY <3>1, TableForm
  <2>3. QED
    BY <2>1, <2>2 DEF Keys
<1>5. o = InOrder(S, K)
  <2>1. \A s \in [1 .. Cardinality(S) -> S] :
            (\A i, j \in DOMAIN s : i < j => Precedes(K[s[i]], K[s[j]]))
            <=> (\A i, j \in DOMAIN s : i < j =>
                    Precedes(<<s[i].due, s[i].name, s[i].id>>, <<s[j].due, s[j].name, s[j].id>>))
    BY <1>1
  <2>2. QED
    BY <2>1, Zenon DEF Ordered, ByDue, InOrder
<1>6. Sorted(ByKey(S, K), S, o) /\ Orders(ByKey(S, K), S)
  BY <1>3, <1>4, <1>5, InOrderForm, KeysOrder
<1>7. /\ Cardinality(S) \in Nat /\ o \in Seq(S) /\ Len(o) = Cardinality(S)
      /\ DOMAIN o = 1 .. Cardinality(S) /\ \A i \in DOMAIN o : o[i] \in S
      /\ \A i, j \in DOMAIN o : o[i] = o[j] => i = j
      /\ \A x \in S : \E i \in DOMAIN o : o[i] = x
  BY <1>3, <1>6, SortedForm
<1>8. ASSUME NEW i \in DOMAIN o, NEW j \in DOMAIN o, i < j PROVE o[i].due <= o[j].due
  <2>1. PICK x \in S, y \in S : x = o[i] /\ y = o[j]
    BY <1>7
  <2>2. <<x, y>> \in ByKey(S, K)
    BY <1>6, <1>8, <2>1 DEF Sorted
  <2>3. Precedes(K[x], K[y])
    BY <2>2 DEF ByKey
  <2>4. PICK a \in Seq(Int), b \in Seq(Int) : a = K[x] /\ b = K[y]
    BY <1>4 DEF Keys
  <2>5. Len(a) >= 1 /\ a[1] = x.due
    BY <1>1, <1>2, <2>4
  <2>6. Len(b) >= 1 /\ b[1] = y.due
    BY <1>1, <1>2, <2>4
  <2>7. a[1] <= b[1]
    BY <2>3, <2>4, <2>5, <2>6, FirstPlace
  <2>8. QED
    BY <2>1, <2>5, <2>6, <2>7
<1>9. QED
  BY <1>7, <1>8

\* A section tells the first to be due of the work it is about, and how much
\* there is.
LEMMA SectionTells ==
    ASSUME NEW q, Asking(q), NEW S \in SUBSET q.work
    PROVE  SectionSays(Section(S), S)
<1>1. PICK o, n, limit, told : /\ o = ByDue(S) /\ n = Cardinality(S) /\ limit = MaxTasksPerBucket
                               /\ told = Page(o, limit, 0)
  OBVIOUS
<1>2. /\ n \in Nat /\ o \in Seq(S) /\ Len(o) = n
      /\ \A i, j \in 1 .. n : (o[i] = o[j] => i = j) /\ (i < j => o[i].due <= o[j].due)
      /\ \A x \in S : \E i \in 1 .. n : o[i] = x
  BY <1>1, ByDueForm
<1>3. limit \in Nat \ {0}
  BY <1>1, RemindersAssumption
<1>4. PICK k \in Nat : k = Least(limit, n) /\ k <= n
  BY <1>2, <1>3 DEF Least
<1>5. told = SubSeq(o, 1, k)
  <2>1. told = SubSeq(o, 0 + 1, Least(0 + limit, n))
    BY <1>1, <1>2, Zenon DEF Page
  <2>2. 0 + 1 = 1 /\ 0 + limit = limit
    BY <1>3
  <2>3. QED
    BY <1>4, <2>1, <2>2
<1>6. Len(told) = k /\ DOMAIN told = 1 .. k /\ \A i \in 1 .. k : told[i] = o[i]
  BY <1>2, <1>4, <1>5
<1>7. PICK more : more = (IF n > limit THEN n - limit ELSE 0)
  OBVIOUS
<1>8. n = k + more
  BY <1>2, <1>3, <1>4, <1>7 DEF Least
<1>9. PICK sec : sec = Section(S)
  OBVIOUS
<1>10. sec = [count |-> n, tasks |-> told, omitted |-> more]
  <2>1. sec = [count |-> Len(o), tasks |-> Page(o, MaxTasksPerBucket, 0),
               omitted |-> IF Len(o) > MaxTasksPerBucket THEN Len(o) - MaxTasksPerBucket ELSE 0]
    BY <1>1, <1>9, Zenon DEF Section, ByDue
  <2>2. QED
    BY <1>1, <1>2, <1>7, <2>1
<1>11. sec.count = n /\ sec.tasks = told /\ sec.omitted = more
  BY ONLY <1>10
<1>12. \A i \in 1 .. n : o[i] \in S
  BY <1>2
<1>13. ToSet(told) \subseteq S
  <2>1. \A i \in 1 .. k : i \in 1 .. n
    BY <1>2, <1>4
  <2>2. ToSet(told) = {told[i] : i \in 1 .. k}
    BY <1>6 DEF ToSet
  <2>3. QED
    BY <1>6, <1>12, <2>1, <2>2
<1>14. Cardinality(ToSet(told)) = k
  <2>1. PICK A, B, g : A = 1 .. k /\ B = ToSet(told) /\ g = [i \in A |-> told[i]]
    OBVIOUS
  <2>2. IsFiniteSet(A) /\ Cardinality(A) = k
    <3>1. 1 \in Int /\ k \in Int
      BY <1>4
    <3>2. IsFiniteSet(1 .. k)
      BY ONLY <3>1, FS_Interval
    <3>3. Cardinality(1 .. k) = IF 1 > k THEN 0 ELSE k - 1 + 1
      BY ONLY <3>1, FS_Interval, Zenon
    <3>4. QED
      BY <1>4, <2>1, <3>2, <3>3
  <2>3. g \in [A -> B] /\ \A b \in B : \E i \in A : b = g[i]
    BY <1>6, <2>1 DEF ToSet
  <2>4. \A i, j \in A : g[i] = g[j] => i = j
    BY <1>2, <1>4, <1>6, <2>1
  <2>5. Cardinality(B) = Cardinality(A)
    BY <2>2, <2>3, <2>4, ImageSize
  <2>6. QED
    BY <2>1, <2>2, <2>5
<1>15. ASSUME NEW i \in DOMAIN told, NEW x \in S
       PROVE  told[i].due <= x.due \/ \E j \in 1 .. i - 1 : told[j] = x
  <2>1. PICK h \in 1 .. n : o[h] = x
    BY <1>2
  <2>2. i \in 1 .. k /\ i \in 1 .. n /\ told[i] = o[i]
    BY <1>2, <1>4, <1>6, <1>15
  <2>3. CASE h < i
    BY <1>6, <2>1, <2>2, <2>3
  <2>4. CASE h = i
    <3>1. x.due \in Int
      BY RowForm
    <3>2. QED
      BY <2>1, <2>2, <2>4, <3>1
  <2>5. CASE i < h
    BY <1>2, <2>1, <2>2, <2>5
  <2>6. QED
    BY <2>1, <2>2, <2>3, <2>4, <2>5
<1>16. SectionSays(sec, S)
  <2>1. sec.count = Cardinality(S) /\ sec.count = Len(sec.tasks) + sec.omitted
    BY <1>1, <1>6, <1>8, <1>11
  <2>2. ToSet(sec.tasks) \subseteq S /\ Cardinality(ToSet(sec.tasks)) = Len(sec.tasks)
    BY <1>6, <1>11, <1>13, <1>14
  <2>3. \A i \in DOMAIN sec.tasks, x \in S :
            sec.tasks[i].due <= x.due \/ \E j \in 1 .. i - 1 : sec.tasks[j] = x
    BY <1>11, <1>15
  <2>4. QED
    BY <2>1, <2>2, <2>3 DEF SectionSays
<1>17. QED
  BY <1>9, <1>16

\* What the tiles open of the work of a person, but for archived workflows.
Rest(q, u, window) ==
    {x \in ToSet(Listed(q, [NoTaskFilter EXCEPT !.assignee = u, !.due = window]).rows) :
        x.wf.status # "archived"}

LEMMA RestForm ==
    ASSUME NEW q, Asking(q), NEW u \in DOMAIN Team, NEW window \in {"overdue", "today"}
    PROVE  Rest(q, u, window) = {x \in q.work : /\ x.assignee = u /\ x.wf.status # "archived"
                                                /\ DueWindow(q, x, window)}
<1>1. PICK f : f = [NoTaskFilter EXCEPT !.assignee = u, !.due = window]
  OBVIOUS
<1>2. /\ f.workflow = None /\ f.entity = None /\ f.assignee = u /\ f.obligation = None
      /\ f.taxType = None /\ f.years = {} /\ f.period = None /\ f.status = None
      /\ f.category = None /\ f.due = window /\ f.from = None /\ f.to = None
  BY <1>1 DEF NoTaskFilter
<1>3. u # None /\ u # "unassigned" /\ window # None
  BY RemindersAssumption, ReportsAssumption
<1>4. ASSUME NEW x
      PROVE  TaskFilterWhere(q, Everything, f, x) <=> x.assignee = u /\ DueWindow(q, x, window)
  <2>1. InScope(Everything, x.wf)
    BY DEF InScope, In, Everything
  <2>2. None \notin {"unassigned", "open"}
    BY ReportsAssumption
  <2>3. (CASE f.assignee = None -> TRUE [] f.assignee = "unassigned" -> x.assignee = None
           [] OTHER -> x.assignee = f.assignee) <=> x.assignee = u
    BY <1>2, <1>3
  <2>4. (CASE f.status = None -> TRUE [] f.status = "open" -> Open(x) [] OTHER -> x.status = f.status)
    BY <1>2, <2>2
  <2>5. f.due # None => DueWindow(q, x, f.due) <=> DueWindow(q, x, window)
    BY <1>2
  <2> HIDE <1>1
  <2>6. QED
    BY <1>2, <1>3, <2>1, <2>3, <2>4 DEF TaskFilterWhere
<1>5. PICK S \in SUBSET q.work : S = {x \in q.work : TaskFilterWhere(q, Everything, f, x)}
  OBVIOUS
<1>6. Listed(q, f).rows = Page(Feed(S), ReportLimit, 0)
  BY <1>5, Zenon DEF Listed, ListTaskInstances, Feed
<1>7. ToSet(Listed(q, f).rows) = S
  BY <1>6, FeedWhole
<1>8. Rest(q, u, window) = {x \in S : x.wf.status # "archived"}
  BY <1>1, <1>7, Zenon DEF Rest
<1>9. QED
  BY <1>4, <1>5, <1>8

Reached(q) == {x.assignee : x \in DueTasks(q, Today(q))}
Assigned(q, u) == {x \in DueTasks(q, Today(q)) : x.assignee = u}
DigestOf(q, u) == BuildPayload(TenantDay(q), Assigned(q, u))
Message(q, u) ==
    [to |-> u, key |-> <<TenantDay(q).date, u>>, dueAt |-> TenantDay(q).midnight + SendHour,
     payload |-> DigestOf(q, u)]
Digested(q) == {v \in Reached(q) : DigestOf(q, v).total > 0}

LEMMA DayForm ==
    ASSUME NEW q, Asking(q)
    PROVE  /\ TenantDay(q).date = Today(q) /\ TenantDay(q).hour \in 0 .. 23
           /\ TenantDay(q).hour = (q.now + q.zone) % 24
           /\ TenantDay(q).midnight = q.now - TenantDay(q).hour
<1>1. q.now \in Int /\ q.zone \in Int
  BY TableForm
<1>2. PICK h : h = (q.now + q.zone) % 24
  OBVIOUS
<1>3. h \in 0 .. 23
  BY <1>1, <1>2
<1>4. QED
  BY <1>2, <1>3 DEF TenantDay, Today

LEMMA PassForm ==
    ASSUME NEW q, Asking(q)
    PROVE  ReminderPass(q) = IF TenantDay(q).hour < SendHour THEN {} ELSE {Message(q, u) : u \in Digested(q)}
<1>1. PICK day : day = TenantDay(q)
  OBVIOUS
<1>2. PICK digests : digests = BuildDigests(day, DueTasks(q, day.date))
  OBVIOUS
<1>3. day.date = Today(q)
  BY <1>1, DayForm
<1>4. digests = [u \in Reached(q) |-> DigestOf(q, u)]
  BY <1>1, <1>2, <1>3, Zenon DEF BuildDigests, Reached, DigestOf, Assigned
<1>5. DOMAIN digests = Reached(q) /\ \A u \in Reached(q) : digests[u] = DigestOf(q, u)
  BY <1>4
<1>6. {v \in DOMAIN digests : digests[v].total > 0} = Digested(q)
  BY <1>5 DEF Digested
<1>7. {[to |-> u, key |-> <<day.date, u>>, dueAt |-> day.midnight + SendHour, payload |-> digests[u]]
           : u \in Digested(q)} = {Message(q, u) : u \in Digested(q)}
  <2>1. \A u \in Digested(q) :
            [to |-> u, key |-> <<day.date, u>>, dueAt |-> day.midnight + SendHour, payload |-> digests[u]]
            = Message(q, u)
    BY <1>1, <1>5, Zenon DEF Message, Digested
  <2>2. QED
    BY <2>1
<1>8. ReminderPass(q) = IF day.hour < SendHour THEN {} ELSE
          {[to |-> u, key |-> <<day.date, u>>, dueAt |-> day.midnight + SendHour, payload |-> digests[u]]
              : u \in {v \in DOMAIN digests : digests[v].total > 0}}
  BY <1>1, <1>2, Zenon DEF ReminderPass
<1>9. QED
  BY <1>1, <1>6, <1>7, <1>8

\* What a digest says is due is what the tiles open.
LEMMA DigestForm ==
    ASSUME NEW q, Asking(q), NEW u \in DOMAIN Team, Team[u].status = "active", Team[u].kind = "human",
           NEW p, p = DigestOf(q, u)
    PROVE  /\ SectionSays(p.overdue, Rest(q, u, "overdue")) /\ SectionSays(p.dueToday, Rest(q, u, "today"))
           /\ Rest(q, u, "overdue") \cup Rest(q, u, "today") # {} => u \in Digested(q)
<1>1. PICK day, S : day = TenantDay(q) /\ S = Assigned(q, u)
  OBVIOUS
<1>2. day.date = Today(q) /\ Today(q) \in Int
  BY <1>1, DayForm, TableForm
<1>3. LeadDays \in Nat
  BY RemindersAssumption
<1>4. S = {x \in q.work : /\ Open(x) /\ x.wf.status # "archived" /\ x.assignee = u
                          /\ x.due <= Today(q) + LeadDays}
  BY <1>1 DEF Assigned, DueTasks
<1>5. \A x \in q.work : x.due \in Int
  BY RowForm
<1>6. PICK A, B, C : /\ A = {x \in S : DaysUntil(day, x) < 0} /\ B = {x \in S : DaysUntil(day, x) = 0}
                     /\ C = {x \in S : DaysUntil(day, x) > 0 /\ DaysUntil(day, x) <= LeadDays}
  OBVIOUS
<1>7. A \in SUBSET q.work /\ B \in SUBSET q.work /\ C \in SUBSET q.work
  BY <1>4, <1>6
<1>8. Rest(q, u, "overdue") = A
  <2>1. Rest(q, u, "overdue") = {x \in q.work : /\ x.assignee = u /\ x.wf.status # "archived"
                                                /\ DueWindow(q, x, "overdue")}
    BY RestForm
  <2>2. \A x \in q.work : DueWindow(q, x, "overdue") <=> Open(x) /\ x.due < Today(q)
    BY DEF DueWindow
  <2>3. \A x \in q.work : x.due < Today(q) <=> x.due <= Today(q) + LeadDays /\ DaysUntil(day, x) < 0
    BY <1>2, <1>3, <1>5 DEF DaysUntil
  <2>4. QED
    BY <1>4, <1>6, <2>1, <2>2, <2>3
<1>9. Rest(q, u, "today") = B
  <2>1. Rest(q, u, "today") = {x \in q.work : /\ x.assignee = u /\ x.wf.status # "archived"
                                              /\ DueWindow(q, x, "today")}
    BY RestForm
  <2>2. \A x \in q.work : DueWindow(q, x, "today") <=> Open(x) /\ x.due = Today(q)
    BY DEF DueWindow
  <2>3. \A x \in q.work : x.due = Today(q) <=> x.due <= Today(q) + LeadDays /\ DaysUntil(day, x) = 0
    BY <1>2, <1>3, <1>5 DEF DaysUntil
  <2>4. QED
    BY <1>4, <1>6, <2>1, <2>2, <2>3
<1>10. p = [date |-> day.date, total |-> Cardinality(A \cup B \cup C),
            overdue |-> Section(A), dueToday |-> Section(B), dueSoon |-> Section(C)]
  BY <1>1, <1>6, Zenon DEF DigestOf, BuildPayload
<1>11. PICK n, a, b, c, d : /\ n = Cardinality(A \cup B \cup C) /\ a = Section(A) /\ b = Section(B)
                            /\ c = Section(C) /\ d = day.date
  OBVIOUS
<1>12. p = [date |-> d, total |-> n, overdue |-> a, dueToday |-> b, dueSoon |-> c]
  BY <1>10, <1>11, Zenon
<1>13. p.total = n /\ p.overdue = a /\ p.dueToday = b
  BY ONLY <1>12
<1>14. SectionSays(a, A) /\ SectionSays(b, B)
  BY <1>7, <1>11, SectionTells
<1>15. ASSUME A \cup B # {} PROVE u \in Digested(q)
  <2>1. PICK x \in S : x \in A \cup B
    BY <1>6, <1>15
  <2>2. u \in Reached(q)
    BY <1>1, <2>1 DEF Assigned, Reached
  <2>3. PICK D \in SUBSET q.work : D = A \cup B \cup C
    BY <1>7
  <2>4. IsFiniteSet(D) /\ Cardinality(D) \in Nat
    BY TableForm
  <2>5. D # {}
    BY <2>1, <2>3
  <2>6. Cardinality(D) # 0
    BY <2>4, <2>5, FS_EmptySet
  <2>7. p.total > 0
    BY <1>11, <1>13, <2>3, <2>4, <2>6
  <2>8. QED
    BY <2>2, <2>7 DEF Digested
<1>16. QED
  BY <1>8, <1>9, <1>13, <1>14, <1>15

LEMMA DigestsHold == ASSUME NEW q, Asking(q) PROVE DigestsTellTheTiles(q)
<1>1. PICK sent : sent = ReminderPass(q)
  OBVIOUS
<1>2. PICK day, early : day = TenantDay(q) /\ early = (day.hour < SendHour)
  OBVIOUS
<1>3. day.date = Today(q) /\ day.hour \in 0 .. 23 /\ day.midnight = q.now - day.hour
  BY <1>2, DayForm
<1>4. day.hour = (q.now + q.zone) % 24
  BY <1>2, DayForm
<1>5. q.now \in Int /\ SendHour \in 1 .. 23
  BY TableForm, RemindersAssumption
<1>6. sent = IF early THEN {} ELSE {Message(q, u) : u \in Digested(q)}
  BY <1>1, <1>2, PassForm
<1>7. \A u \in Digested(q) : /\ u \in DOMAIN Team /\ Team[u].status = "active" /\ Team[u].kind = "human"
  BY DEF Digested, Reached, DueTasks
<1>8. ASSUME NEW u, NEW m, m = Message(q, u)
      PROVE  /\ m.to = u /\ m.key = <<day.date, u>> /\ m.dueAt = day.midnight + SendHour
             /\ m.payload = DigestOf(q, u)
  <2>1. PICK k, t, p : k = <<day.date, u>> /\ t = day.midnight + SendHour /\ p = DigestOf(q, u)
    OBVIOUS
  <2>2. m = [to |-> u, key |-> k, dueAt |-> t, payload |-> p]
    BY <1>2, <1>8, <2>1, Zenon DEF Message
  <2>3. m.to = u /\ m.key = k /\ m.dueAt = t /\ m.payload = p
    BY ONLY <2>2
  <2>4. QED
    BY <2>1, <2>3
<1>9. ASSUME NEW m \in sent
      PROVE  /\ SectionSays(m.payload.overdue, Rest(q, m.to, "overdue"))
             /\ SectionSays(m.payload.dueToday, Rest(q, m.to, "today"))
             /\ m.dueAt <= q.now /\ q.now < m.dueAt + 24 /\ m.key = <<Today(q), m.to>>
  <2>1. ~early /\ \E u \in Digested(q) : m = Message(q, u)
    BY <1>6
  <2>2. PICK u \in Digested(q) : m = Message(q, u)
    BY <2>1
  <2>3. /\ m.to = u /\ m.key = <<day.date, u>> /\ m.dueAt = day.midnight + SendHour
        /\ m.payload = DigestOf(q, u)
    BY <1>8, <2>2
  <2>4. SectionSays(m.payload.overdue, Rest(q, u, "overdue")) /\ SectionSays(m.payload.dueToday, Rest(q, u, "today"))
    BY <1>7, <2>3, DigestForm
  <2>5. SendHour <= day.hour
    <3>1. ~(day.hour < SendHour)
      BY <1>2, <2>1, Zenon
    <3>2. QED
      BY <1>3, <1>5, <3>1
  <2>6. m.dueAt <= q.now /\ q.now < m.dueAt + 24
    BY <1>3, <1>5, <2>3, <2>5
  <2>7. QED
    BY <1>3, <2>3, <2>4, <2>6
<1>10. ASSUME NEW m \in sent, NEW n \in sent, m.to = n.to PROVE m = n
  <2>1. PICK u, v : m = Message(q, u) /\ n = Message(q, v)
    BY <1>6
  <2>2. m.to = u /\ n.to = v
    BY <1>8, <2>1
  <2>3. QED
    BY <1>10, <2>1, <2>2
<1>11. ASSUME NEW u \in DOMAIN Team, ~early, Team[u] = [status |-> "active", kind |-> "human"],
              Rest(q, u, "overdue") \cup Rest(q, u, "today") # {}
       PROVE  \E m \in sent : m.to = u
  <2>1. Team[u].status = "active" /\ Team[u].kind = "human"
    BY <1>11
  <2>2. u \in Digested(q)
    BY <1>11, <2>1, DigestForm
  <2>3. Message(q, u) \in sent
    BY <1>6, <1>11, <2>2
  <2>4. Message(q, u).to = u
    BY <1>8
  <2>5. QED
    BY <2>3, <2>4
<1>12. early <=> (q.now + q.zone) % 24 < SendHour
  BY <1>2, <1>4
<1>13. TellsTheTiles(q, sent)
  <2>1. /\ \A m \in sent : /\ SectionSays(m.payload.overdue, Rest(q, m.to, "overdue"))
                           /\ SectionSays(m.payload.dueToday, Rest(q, m.to, "today"))
                           /\ m.dueAt <= q.now /\ q.now < m.dueAt + 24 /\ m.key = <<Today(q), m.to>>
        /\ \A m, n \in sent : m.to = n.to => m = n
        /\ \A u \in DOMAIN Team :
              (~((q.now + q.zone) % 24 < SendHour) /\ Team[u] = [status |-> "active", kind |-> "human"]
                      /\ Rest(q, u, "overdue") \cup Rest(q, u, "today") # {})
                  => \E m \in sent : m.to = u
    BY <1>9, <1>10, <1>11, <1>12
  <2>2. QED
    BY <2>1, Zenon DEF TellsTheTiles, SectionSays, Rest
<1>14. QED
  BY <1>1, <1>13, Zenon DEF DigestsTellTheTiles

(***************************************************************************)
(* A scope narrows every answer alike.                                     *)
(***************************************************************************)
\* A question of fewer instances.
Narrowed(q, W) == [about |-> "reports", zone |-> q.zone, now |-> q.now, work |-> W]

LEMMA SameDay ==
    ASSUME NEW q, NEW W, NEW x, NEW deadline, NEW window
    PROVE  /\ Today(Narrowed(q, W)) = Today(q)
           /\ ComplianceClass(Narrowed(q, W), x, deadline) = ComplianceClass(q, x, deadline)
           /\ DueWindow(Narrowed(q, W), x, window) = DueWindow(q, x, window)
<1>1. Narrowed(q, W).zone = q.zone /\ Narrowed(q, W).now = q.now
  BY DEF Narrowed
<1> HIDE DEF Narrowed
<1>2. Today(Narrowed(q, W)) = Today(q) /\ \A i : CivilDate(Narrowed(q, W), i) = CivilDate(q, i)
  BY <1>1 DEF Today, CivilDate
<1>3. WeekEndOf(Narrowed(q, W)) = WeekEndOf(q)
  BY <1>2 DEF WeekEndOf
<1>4. QED
  BY <1>2, <1>3 DEF ComplianceClass, DueWindow

\* What there is of an entity.
Mine(q, e) == Narrowed(q, {x \in q.work : InScope(Only({e}), x.wf)})

LEMMA SameSelection ==
    ASSUME NEW q, NEW e, NEW f
    PROVE  /\ ComplianceFrom(Mine(q, e), Everything, f) = ComplianceFrom(q, Only({e}), f)
           /\ {x \in Mine(q, e).work : TaskFilterWhere(Mine(q, e), Everything, f, x)}
                  = {x \in q.work : TaskFilterWhere(q, Only({e}), f, x)}
           /\ ExportTasks(Mine(q, e), Everything, f) = ExportTasks(q, Only({e}), f)
<1>1. Mine(q, e).work = {x \in q.work : InScope(Only({e}), x.wf)}
  BY DEF Mine, Narrowed
<1>2. \A w : InScope(Everything, w)
  BY DEF InScope, In, Everything
<1>3. ComplianceFrom(Mine(q, e), Everything, f) = ComplianceFrom(q, Only({e}), f)
  BY <1>1, <1>2 DEF ComplianceFrom
<1>4. \A x : DueWindow(Mine(q, e), x, f.due) = DueWindow(q, x, f.due)
  BY SameDay DEF Mine
<1>5. \A x : TaskFilterWhere(Mine(q, e), Everything, f, x) /\ InScope(Only({e}), x.wf)
                  <=> TaskFilterWhere(q, Only({e}), f, x)
  <2> HIDE DEF Mine
  <2> QED
  BY <1>2, <1>4 DEF TaskFilterWhere
<1>6. ExportTasks(Mine(q, e), Everything, f) = ExportTasks(q, Only({e}), f)
  BY <1>1, <1>2 DEF ExportTasks, ExportFilter
<1>7. QED
  BY <1>1, <1>3, <1>5, <1>6

LEMMA SameHeatmaps ==
    ASSUME NEW q, NEW e, NEW f, NEW view
    PROVE  ComplianceHeatmap(Mine(q, e), Everything, f, view)
               = ComplianceHeatmap(q, Only({e}), f, view)
<1> DEFINE n == Mine(q, e)
           from == ComplianceFrom(q, Only({e}), f)
<1>1. ComplianceFrom(n, Everything, f) = from
  BY SameSelection
<1>2. \A x : ComplianceClass(n, x, x.due) = ComplianceClass(q, x, x.due)
  BY SameDay DEF Mine
<1>3. \A of : /\ {x \in of : ComplianceClass(n, x, x.due) = "missed"}
                     = {x \in of : ComplianceClass(q, x, x.due) = "missed"}
              /\ {x \in of : ComplianceClass(n, x, x.due) = "late"}
                     = {x \in of : ComplianceClass(q, x, x.due) = "late"}
  BY <1>2
<1>4. HeatmapCells(n, Everything, f, view) = HeatmapCells(q, Only({e}), f, view)
  <2> HIDE DEF n, from
  <2> DEFINE cellOf(x) == [row |-> HeatmapRow(x.wf), col |-> HeatmapCol(f, view, x)]
             of(cell) == {x \in from : cellOf(x) = cell}
             shown(p, cell) ==
                 [row |-> cell.row, col |-> cell.col,
                  total |-> Cardinality(of(cell)),
                  completed |-> Cardinality({x \in of(cell) : x.status = "completed"}),
                  overdue |-> Cardinality({x \in of(cell) : ComplianceClass(p, x, x.due) = "missed"}),
                  late |-> Cardinality({x \in of(cell) : ComplianceClass(p, x, x.due) = "late"}),
                  inProgress |-> Cardinality({x \in of(cell) :
                      x.status \in {"in_progress", "in_review", "pending_approval"}}),
                  workflows |-> {x.wf.id : x \in of(cell)},
                  first |-> Min({x.end : x \in of(cell)})]
  <2>1. HeatmapCells(n, Everything, f, view) = {shown(n, cell) : cell \in {cellOf(x) : x \in from}}
    BY <1>1, SMTT(60) DEF HeatmapCells, Count
  <2>2. HeatmapCells(q, Only({e}), f, view) = {shown(q, cell) : cell \in {cellOf(x) : x \in from}}
    BY Zenon DEF HeatmapCells, Count, from
  <2>3. \A cell : shown(n, cell) = shown(q, cell)
    BY <1>3, Zenon
  <2> HIDE DEF shown
  <2>4. QED
    BY <2>1, <2>2, <2>3
<1>5. QED
  BY <1>4 DEF ComplianceHeatmap

LEMMA SameStatus ==
    ASSUME NEW q, NEW e, NEW f
    PROVE  ComplianceStatus(Mine(q, e), Everything, f, None, ReportLimit, 0)
               = ComplianceStatus(q, Only({e}), f, None, ReportLimit, 0)
<1> DEFINE n == Mine(q, e)
<1>1. ComplianceFrom(n, Everything, f) = ComplianceFrom(q, Only({e}), f)
  BY SameSelection
<1>2. \A x : ComplianceClass(n, x, x.filing) = ComplianceClass(q, x, x.filing)
  BY SameDay DEF Mine
<1>3. \A x : ComplianceRow(n, x) = ComplianceRow(q, x)
  <2> HIDE DEF n
  <2> QED
    BY <1>2, Zenon DEF ComplianceRow
<1>4. {ComplianceRow(n, x) : x \in ComplianceFrom(n, Everything, f)}
          = {ComplianceRow(q, x) : x \in ComplianceFrom(q, Only({e}), f)}
  <2> HIDE DEF n
  <2> QED
    BY <1>1, <1>3
<1>5. QED
  BY <1>4, Zenon DEF ComplianceStatus

LEMMA SameFigures ==
    ASSUME NEW q, NEW e, NEW f, NEW by
    PROVE  TaxFinancial(Mine(q, e), Everything, f, by, ReportLimit, 0)
               = TaxFinancial(q, Only({e}), f, by, ReportLimit, 0)
<1>1. ComplianceFrom(Mine(q, e), Everything, f) = ComplianceFrom(q, Only({e}), f)
  BY SameSelection
<1> HIDE DEF Mine
<1>2. QED
  BY <1>1, Zenon DEF TaxFinancial

LEMMA SameTasks ==
    ASSUME NEW q, NEW e, NEW f
    PROVE  /\ TaskSummary(Mine(q, e), Everything, f) = TaskSummary(q, Only({e}), f)
           /\ ListTaskInstances(Mine(q, e), Everything, f, ReportLimit, 0)
                  = ListTaskInstances(q, Only({e}), f, ReportLimit, 0)
<1> DEFINE n == Mine(q, e)
<1>1. {x \in n.work : TaskFilterWhere(n, Everything, f, x)}
          = {x \in q.work : TaskFilterWhere(q, Only({e}), f, x)}
  BY SameSelection
<1>2. Today(n) = Today(q) /\ \A x, window : DueWindow(n, x, window) = DueWindow(q, x, window)
  BY SameDay DEF Mine
<1>3. \A found, window : {x \in found : DueWindow(n, x, window)} = {x \in found : DueWindow(q, x, window)}
  BY <1>2
<1> HIDE DEF n
<1>4. \A found : Tiles(n, found) = Tiles(q, found)
  BY <1>2, <1>3, Zenon DEF Tiles, Count
<1>5. TaskSummary(n, Everything, f) = TaskSummary(q, Only({e}), f)
  BY <1>1, <1>4, Zenon DEF TaskSummary
<1>6. ListTaskInstances(n, Everything, f, ReportLimit, 0) = ListTaskInstances(q, Only({e}), f, ReportLimit, 0)
  BY <1>1, Zenon DEF ListTaskInstances
<1>7. QED
  BY <1>5, <1>6 DEF n

AllAnswers(p, scope) ==
    <<[view \in Views |-> ComplianceHeatmap(p, scope, NoFilter, view)],
      ComplianceStatus(p, scope, NoFilter, None, ReportLimit, 0),
      [by \in Groupings |-> TaxFinancial(p, scope, NoFilter, by, ReportLimit, 0)],
      TaskSummary(p, scope, NoTaskFilter),
      ListTaskInstances(p, scope, NoTaskFilter, ReportLimit, 0),
      ExportTasks(p, scope, NoExportFilter), ExportTaxData(p, scope, NoExportFilter)>>

LEMMA AlwaysNarrowed ==
    ASSUME NEW q, NEW zone, NEW now, NEW work, q = [about |-> "reports", zone |-> zone, now |-> now, work |-> work]
    PROVE  ScopedAsNarrowed(q)
<1>0. \A e : [q EXCEPT !.work = {x \in q.work : InScope(Only({e}), x.wf)}] = Mine(q, e)
  <2> TAKE e
  <2> DEFINE V == {x \in q.work : InScope(Only({e}), x.wf)}
  <2>1. Mine(q, e) = [about |-> "reports", zone |-> zone, now |-> now, work |-> V]
    BY DEF Mine, Narrowed
  <2> HIDE DEF V
  <2>2. [q EXCEPT !.work = V] = [about |-> "reports", zone |-> zone, now |-> now, work |-> V]
    OBVIOUS
  <2>3. QED
    BY <2>1, <2>2 DEF V
<1> SUFFICES ASSUME NEW e \in PortfolioIds("entity")
             PROVE  AllAnswers(q, Only({e}))
                        = AllAnswers([q EXCEPT !.work = {x \in q.work : InScope(Only({e}), x.wf)}], Everything)
  BY Zenon DEF ScopedAsNarrowed, AllAnswers
<1>1. \A view \in Views : ComplianceHeatmap(Mine(q, e), Everything, NoFilter, view)
                               = ComplianceHeatmap(q, Only({e}), NoFilter, view)
  BY SameHeatmaps
<1>2. \A by \in Groupings : TaxFinancial(Mine(q, e), Everything, NoFilter, by, ReportLimit, 0)
                                 = TaxFinancial(q, Only({e}), NoFilter, by, ReportLimit, 0)
  BY SameFigures
<1>3. /\ ExportTasks(Mine(q, e), Everything, NoExportFilter) = ExportTasks(q, Only({e}), NoExportFilter)
      /\ ExportTaxData(Mine(q, e), Everything, NoExportFilter) = ExportTaxData(q, Only({e}), NoExportFilter)
  <2>1. ExportTasks(Mine(q, e), Everything, NoExportFilter) = ExportTasks(q, Only({e}), NoExportFilter)
    BY SameSelection
  <2> HIDE DEF Mine
  <2>2. QED
    BY <2>1, Zenon DEF ExportTaxData
<1>4. /\ TaskSummary(Mine(q, e), Everything, NoTaskFilter) = TaskSummary(q, Only({e}), NoTaskFilter)
      /\ ListTaskInstances(Mine(q, e), Everything, NoTaskFilter, ReportLimit, 0)
             = ListTaskInstances(q, Only({e}), NoTaskFilter, ReportLimit, 0)
  BY SameTasks
<1>5. ComplianceStatus(Mine(q, e), Everything, NoFilter, None, ReportLimit, 0)
          = ComplianceStatus(q, Only({e}), NoFilter, None, ReportLimit, 0)
  BY SameStatus
<1>6. AllAnswers(Mine(q, e), Everything) = AllAnswers(q, Only({e}))
  BY <1>1, <1>2, <1>3, <1>4, <1>5, Zenon DEF AllAnswers
<1>7. QED
  BY <1>0, <1>6

\* A filter that has neither a status nor a window, and what it is with them.
Filter(f) ==
    /\ f = [workflow |-> f.workflow, entity |-> f.entity, assignee |-> f.assignee,
            obligation |-> f.obligation, taxType |-> f.taxType, years |-> f.years,
            period |-> f.period, status |-> f.status, category |-> f.category,
            due |-> f.due, from |-> f.from, to |-> f.to]
    /\ f.status = None /\ f.due = None

LEMMA FilterForm == ASSUME NEW f \in TaskFilters PROVE Filter(f)
<1>1. \E field \in {"assignee", "years", "taxType", "category"} : \E v :
         f = NoTaskFilter \/ f = [NoTaskFilter EXCEPT ![field] = v]
  BY Zenon DEF TaskFilters, OneOf
<1> PICK field \in {"assignee", "years", "taxType", "category"} : \E v :
         f = NoTaskFilter \/ f = [NoTaskFilter EXCEPT ![field] = v]
  BY <1>1
<1> PICK v : f = NoTaskFilter \/ f = [NoTaskFilter EXCEPT ![field] = v]
  OBVIOUS
<1>2. CASE f = NoTaskFilter
  BY <1>2 DEF Filter, NoTaskFilter
<1>3. CASE f = [NoTaskFilter EXCEPT ![field] = v]
  <2>1. CASE field = "assignee"
    BY <1>3, <2>1 DEF Filter, NoTaskFilter
  <2>2. CASE field = "years"
    BY <1>3, <2>2 DEF Filter, NoTaskFilter
  <2>3. CASE field = "taxType"
    BY <1>3, <2>3 DEF Filter, NoTaskFilter
  <2>4. CASE field = "category"
    BY <1>3, <2>4 DEF Filter, NoTaskFilter
  <2>5. QED
    BY <2>1, <2>2, <2>3, <2>4
<1>4. QED
  BY <1>2, <1>3

LEMMA Drilled ==
    ASSUME NEW q, NEW f, Filter(f), NEW s, NEW d, NEW x
    PROVE  TaskFilterWhere(q, Everything, [f EXCEPT !.status = s, !.due = d], x)
               <=> /\ TaskFilterWhere(q, Everything, f, x)
                   /\ CASE s = None -> TRUE [] s = "open" -> Open(x) [] OTHER -> x.status = s
                   /\ d # None => DueWindow(q, x, d)
<1>1. PICK g : g = [f EXCEPT !.status = s, !.due = d]
  OBVIOUS
<1>2. /\ g.workflow = f.workflow /\ g.entity = f.entity /\ g.assignee = f.assignee
      /\ g.obligation = f.obligation /\ g.taxType = f.taxType /\ g.years = f.years
      /\ g.period = f.period /\ g.category = f.category /\ g.from = f.from /\ g.to = f.to
      /\ g.status = s /\ g.due = d
  BY <1>1 DEF Filter
<1>3. f.status = None /\ f.due = None
  BY DEF Filter
<1>4. (CASE f.status = None -> TRUE [] f.status = "open" -> Open(x) [] OTHER -> x.status = f.status) = TRUE
  BY <1>3, ReportsAssumption
<1> DEFINE asks(h) == CASE h.status = None -> TRUE [] h.status = "open" -> Open(x) [] OTHER -> x.status = h.status
           rest(h) == /\ InScope(Everything, x.wf)
                      /\ h.workflow # None => x.wf.id = h.workflow
                      /\ h.entity # None => x.wf.entity # None /\ x.wf.entity.id = h.entity
                      /\ CASE h.assignee = None -> TRUE
                           [] h.assignee = "unassigned" -> x.assignee = None
                           [] OTHER -> x.assignee = h.assignee
                      /\ h.obligation # None => x.wf.obligation # None /\ x.wf.obligation.id = h.obligation
                      /\ h.taxType # None => TemplateOf(x.wf) = h.taxType
                      /\ h.years # {} => x.wf.year \in h.years
                      /\ h.period # None => x.code = h.period
                      /\ h.category # None => x.wf.category = h.category
                      /\ h.from # None => x.due >= h.from
                      /\ h.to # None => x.due <= h.to
<1>5. rest(g) = rest(f)
  <2> HIDE <1>1
  <2> QED
    BY <1>2, Zenon
<1>6. asks(f) = TRUE /\ asks(g) = CASE s = None -> TRUE [] s = "open" -> Open(x) [] OTHER -> x.status = s
  BY <1>2, <1>4
<1>7. \A h : TaskFilterWhere(q, Everything, h, x)
                 <=> rest(h) /\ asks(h) /\ (h.due # None => DueWindow(q, x, h.due))
  BY Zenon DEF TaskFilterWhere
<1> HIDE DEF rest, asks
<1>8. TaskFilterWhere(q, Everything, f, x) <=> rest(f)
  BY <1>3, <1>6, <1>7
<1>9. TaskFilterWhere(q, Everything, g, x) <=> rest(f) /\ asks(g) /\ (d # None => DueWindow(q, x, d))
  BY <1>2, <1>5, <1>7
<1>10. QED
  BY <1>1, <1>6, <1>8, <1>9, Zenon

\* The sets that a tile counts, and that the list shows.
LEMMA TilesAlwaysOpen == ASSUME NEW q PROVE TilesDrillDown(q)
<1> SUFFICES ASSUME NEW f \in TaskFilters
             PROVE  Opens(TaskSummary(q, Everything, f),
                          LAMBDA s, d : Listed(q, [f EXCEPT !.status = s, !.due = d]).total)
  BY Zenon DEF TilesDrillDown
<1> DEFINE found == {x \in q.work : TaskFilterWhere(q, Everything, f, x)}
           total(s, d) == Listed(q, [f EXCEPT !.status = s, !.due = d]).total
           tile == TaskSummary(q, Everything, f)
<1>1. Filter(f)
  BY FilterForm
<1>2. None \notin Statuses /\ None \notin {"open", "overdue", "today", "this_week"}
  BY ReportsAssumption
<1>3. \A s, d : total(s, d) = Cardinality({x \in q.work :
                     TaskFilterWhere(q, Everything, [f EXCEPT !.status = s, !.due = d], x)})
  BY DEF Listed, ListTaskInstances
<1> HIDE DEF total
<1>4. total(None, None) = Cardinality(found)
  <2>1. {x \in q.work : TaskFilterWhere(q, Everything, [f EXCEPT !.status = None, !.due = None], x)} = found
    <3>1. \A x : TaskFilterWhere(q, Everything, [f EXCEPT !.status = None, !.due = None], x)
                     <=> TaskFilterWhere(q, Everything, f, x)
      BY <1>1, <1>2, Drilled
    <3>2. QED
      BY <3>1
  <2>2. QED
    BY <1>3, <2>1
<1>5. total("open", None) = Cardinality({x \in found : Open(x)})
  <2>1. {x \in q.work : TaskFilterWhere(q, Everything, [f EXCEPT !.status = "open", !.due = None], x)}
            = {x \in found : Open(x)}
    <3>1. \A x : TaskFilterWhere(q, Everything, [f EXCEPT !.status = "open", !.due = None], x)
                     <=> TaskFilterWhere(q, Everything, f, x) /\ Open(x)
      BY <1>1, <1>2, Drilled
    <3>2. QED
      BY <3>1
  <2>2. QED
    BY <1>3, <2>1
<1>6. ASSUME NEW s \in Statuses PROVE total(s, None) = Cardinality({x \in found : x.status = s})
  <2>1. s # None /\ s # "open"
    BY <1>2 DEF Statuses
  <2>2. {x \in q.work : TaskFilterWhere(q, Everything, [f EXCEPT !.status = s, !.due = None], x)}
            = {x \in found : x.status = s}
    <3>1. \A x : TaskFilterWhere(q, Everything, [f EXCEPT !.status = s, !.due = None], x)
                     <=> TaskFilterWhere(q, Everything, f, x) /\ x.status = s
      <4> TAKE x
      <4>1. TaskFilterWhere(q, Everything, [f EXCEPT !.status = s, !.due = None], x)
               <=> /\ TaskFilterWhere(q, Everything, f, x)
                   /\ CASE s = None -> TRUE [] s = "open" -> Open(x) [] OTHER -> x.status = s
                   /\ None # None => DueWindow(q, x, None)
        BY <1>1, Drilled
      <4>2. (CASE s = None -> TRUE [] s = "open" -> Open(x) [] OTHER -> x.status = s) = (x.status = s)
        BY <2>1
      <4>3. QED
        BY <4>1, <4>2, Zenon
    <3>2. QED
      BY <3>1
  <2>3. QED
    BY <1>3, <2>2
<1>7. ASSUME NEW d \in {"overdue", "today", "this_week"}
      PROVE  total(None, d) = Cardinality({x \in found : DueWindow(q, x, d)})
  <2>1. d # None
    BY <1>2
  <2>2. {x \in q.work : TaskFilterWhere(q, Everything, [f EXCEPT !.status = None, !.due = d], x)}
            = {x \in found : DueWindow(q, x, d)}
    <3>1. \A x : TaskFilterWhere(q, Everything, [f EXCEPT !.status = None, !.due = d], x)
                     <=> TaskFilterWhere(q, Everything, f, x) /\ DueWindow(q, x, d)
      BY <1>1, <1>2, <2>1, Drilled
    <3>2. QED
      BY <3>1
  <2>3. QED
    BY <1>3, <2>2
<1>8. /\ tile.total = Cardinality(found) /\ tile.active = Cardinality({x \in found : Open(x)})
      /\ \A s \in Statuses : tile.byStatus[s] = Cardinality({x \in found : x.status = s})
      /\ tile.overdue = Cardinality({x \in found : DueWindow(q, x, "overdue")})
      /\ tile.dueToday = Cardinality({x \in found : DueWindow(q, x, "today")})
      /\ tile.dueThisWeek = Cardinality({x \in found : DueWindow(q, x, "this_week")})
  BY DEF TaskSummary, Tiles, Count
<1> HIDE DEF tile, found
<1>9. Opens(tile, total)
  BY <1>4, <1>5, <1>6, <1>7, <1>8 DEF Opens
<1>10. QED
  BY <1>9, Zenon DEF tile, total

AskedOfReports ==
    \/ asked = Nothing
    \/ \E c \in Clocks, W \in TaskSets :
          asked = [about |-> "reports", zone |-> c.zone, now |-> c.now, work |-> W]

LEMMA ReportsAsked == ReportsSpec => []AskedOfReports
<1>1. asked = Nothing => AskedOfReports
  BY DEF AskedOfReports
<1>2. AskedOfReports /\ [AskReports]_asked => AskedOfReports'
  BY DEF AskedOfReports, AskReports
<1>3. QED
  BY <1>1, <1>2, PTL DEF ReportsSpec

LEMMA QuestionForm ==
    ASSUME AskedOfReports, asked.about = "reports"
    PROVE  Asking(asked)
<1>1. asked # Nothing
  BY DEF Nothing
<1>2. QED
  BY <1>1 DEF AskedOfReports, Asking

(***************************************************************************)
(* What `seed-demo verify' recomputes from the instances, the repository   *)
(* answers (oracle_reports.go, verify_reports.go): for any work of a       *)
(* tenant and any clock and zone, under any filter, view, class and        *)
(* grouping.                                                               *)
(***************************************************************************)
LEMMA AlwaysVerified == ASSUME NEW q, Asking(q) PROVE Verified(q)
<1>1. \A f \in ReportFilters : \A view \in Views : CheckHeatmap(q, f, view)
  BY HeatmapHolds
<1>2. \A f \in ReportFilters : \A status \in Classes \cup {None} : CheckCompliance(q, f, status)
  BY ComplianceHolds
<1>3. \A f \in ReportFilters : \A by \in Groupings : CheckTaxFinancial(q, f, by)
  BY TaxFinancialHolds
<1>4. CheckCompliancePaging(q, 1)
  BY CompliancePagingHolds
<1>5. \A f \in ExportFilters(q) : CheckExport(q, f)
  BY ExportFilterForm, ExportHolds
<1>6. CheckWorkflowStats(q)
  BY WorkflowStatsHolds
<1>7. CheckTaskSummary(q)
  BY TaskSummaryHolds
<1>8. CheckDashboard(q)
  BY DashboardHolds
<1>9. QED
  BY <1>1, <1>2, <1>3, <1>4, <1>5, <1>6, <1>7, <1>8, Zenon DEF Verified

(***************************************************************************)
(* A part of ReportsAgree.  reportScopeWhere, taskFilterWhere and the      *)
(* filter of export-raw narrow every statement alike: whatever work there  *)
(* is, a reader with the scope of an entity is answered, by every report,  *)
(* tile, list and export, what a reader of everything would be answered of *)
(* a tenant that has the work of that entity only.                         *)
(***************************************************************************)
THEOREM ScopedReadersSeeTheirs ==
    ReportsSpec => [](asked.about = "reports" => ScopedAsNarrowed(asked))
<1>1. AskedOfReports => (asked.about = "reports" => ScopedAsNarrowed(asked))
  <2> SUFFICES ASSUME AskedOfReports, asked.about = "reports" PROVE ScopedAsNarrowed(asked)
    OBVIOUS
  <2>1. PICK c \in Clocks, W \in TaskSets :
            asked = [about |-> "reports", zone |-> c.zone, now |-> c.now, work |-> W]
    BY DEF AskedOfReports, Nothing
  <2>2. QED
    BY <2>1, AlwaysNarrowed
<1>2. QED
  BY <1>1, ReportsAsked, PTL

(***************************************************************************)
(* A part of ReportsAgree.  A tile of the dashboard opens the list that    *)
(* taskFilterWhere selects with the status or the window of the tile: both *)
(* count the same instances, under any filter of the task list.            *)
(***************************************************************************)
THEOREM TilesOpenWhatTheyCount ==
    ReportsSpec => [](asked.about = "reports" => TilesDrillDown(asked))
<1>1. asked.about = "reports" => TilesDrillDown(asked)
  BY TilesAlwaysOpen
<1>2. QED
  BY <1>1, PTL

(***************************************************************************)
(* A part of ReportsAgree.  A pass of the reminders (tenantDaysSQL,        *)
(* dueTasksSQL, BuildDigests) tells each person, at most once and within   *)
(* the day, the first to be due of what the tiles of that day open for     *)
(* them, and how much there is; and it leaves out no one who has any.      *)
(***************************************************************************)
THEOREM RemindersTellTheTiles ==
    ReportsSpec => [](asked.about = "reports" => DigestsTellTheTiles(asked))
<1>1. AskedOfReports => (asked.about = "reports" => DigestsTellTheTiles(asked))
  <2> SUFFICES ASSUME AskedOfReports, asked.about = "reports" PROVE DigestsTellTheTiles(asked)
    OBVIOUS
  <2>1. Asking(asked)
    BY QuestionForm
  <2>2. QED
    BY <2>1, DigestsHold
<1>2. QED
  BY <1>1, ReportsAsked, PTL

(***************************************************************************)
(* Every report, tile, list, export and reminder tells one story of the    *)
(* work of a tenant (ADR-0021), whatever the work, the clock and the zone: *)
(* the statements of the repository answer what the oracle recomputes row  *)
(* by row, a tile opens the list it counts, a scope narrows every answer   *)
(* alike, and the reminders tell the tiles.                                *)
(***************************************************************************)
THEOREM ReportsTellOneStory == ReportsSpec => []ReportsAgree
<1>1. AskedOfReports => ReportsAgree
  <2> SUFFICES ASSUME AskedOfReports, asked.about = "reports"
               PROVE  /\ Verified(asked) /\ TilesDrillDown(asked)
                      /\ ScopedAsNarrowed(asked) /\ DigestsTellTheTiles(asked)
    BY DEF ReportsAgree
  <2>1. Asking(asked)
    BY QuestionForm
  <2>2. Verified(asked) /\ DigestsTellTheTiles(asked)
    BY <2>1, AlwaysVerified, DigestsHold
  <2>3. ScopedAsNarrowed(asked)
    BY <2>1, AlwaysNarrowed DEF Asking
  <2>4. TilesDrillDown(asked)
    BY TilesAlwaysOpen
  <2>5. QED
    BY <2>2, <2>3, <2>4
<1>2. QED
  BY <1>1, ReportsAsked, PTL

=============================================================================
