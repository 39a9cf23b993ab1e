------------------------------ MODULE Scheduler ------------------------------
(***************************************************************************)
(* platform/scheduler: the recurring work every API process is ready to do *)
(* and one of them does, elected by a Postgres advisory lock that lives in *)
(* a session the process keeps pinned.                                     *)
(*                                                                         *)
(* Time is discrete.  Deciding, starting and giving up on a job take none; *)
(* a probe of the lease and a run of a job take as long as they like.  The *)
(* answer to a probe is acted on when the server gives it.                 *)
(***************************************************************************)
EXTENDS Integers

CONSTANTS
    Procs,           \* API processes of one deployment
    NoProc,
    NJobs,           \* registered jobs, in registration order
    Wedging,         \* jobs that may ignore their cancellation for ever
    Interval, Timeout, Grace, ProbeInterval,
    Survivor,        \* a process that is neither stopped nor killed, or NoProc
    MaxFaults        \* stops, crashes, lost sessions and failed probes

Jobs == 1 .. NJobs

ASSUME SchedulerAssumption ==
    /\ NoProc \notin Procs /\ Survivor \in Procs \cup {NoProc}
    /\ NJobs \in Nat /\ Wedging \subseteq Jobs
    /\ Interval \in Nat \ {0} /\ ProbeInterval \in Nat \ {0}
    /\ Timeout \in Nat \ {0} /\ Grace \in Nat \ {0}
    /\ MaxFaults \in Nat

VARIABLES
    phase,      \* phase[p]: the process is up, cancelled, or down
    loop,       \* loop[p]: where Run is
    turn,       \* turn[p]: the job the step considers or waits for
    leader,     \* leader[p]: the cached answer of the last probe
    pinned,     \* pinned[p]: AdvisoryLease.conn is set
    lock,       \* the process whose session holds the advisory lock
    orphan,     \* the client of that session is gone; Postgres has yet to notice
    nextProbe,  \* ticks left to the next probe
    nextRun,    \* nextRun[p][j]: ticks left until j is due
    budget,     \* ticks left to the job waited for
    running,    \* running[p][j]: the job's flag
    copies,     \* copies[p][j]: goroutines inside the job
    \* history and bound
    lost,       \* lost[p]: ticks since the session p believes in went, or -1
    faults

leaseVars == <<pinned, lock, orphan, lost>>
jobVars == <<nextRun, budget, running, copies>>
vars == <<phase, loop, turn, leader, nextProbe, leaseVars, jobVars, faults>>

\* The latest a job can start after its process lost the lease: the cached
\* answer expires, and the jobs before it in the turn take all they may.
LateBy(j) == ProbeInterval - 1 + (j - 1) * (Timeout + Grace)
MaxLate == LateBy(NJobs)

InTurn(p) == loop[p] \in {"turn", "running", "grace"}
Awaited(p, j) == loop[p] \in {"running", "grace"} /\ turn[p] = j

LoopOK ==
    /\ phase \in [Procs -> {"up", "stopping", "down"}]
    /\ loop \in [Procs -> {"waiting", "probing", "turn", "running", "grace", "returned"}]
    /\ turn \in [Procs -> Nat \ {0}]
    /\ \A p \in Procs : loop[p] \in {"running", "grace"} => turn[p] \in Jobs

LeaseOK ==
    /\ leader \in [Procs -> BOOLEAN] /\ pinned \in [Procs -> BOOLEAN]
    /\ lock \in Procs \cup {NoProc} /\ orphan \in BOOLEAN
    /\ orphan => lock # NoProc
    /\ lost \in [Procs -> Int] /\ faults \in Nat

JobsOK ==
    /\ nextProbe \in [Procs -> 0 .. ProbeInterval]
    /\ nextRun \in [Procs -> [Jobs -> 0 .. Interval]]
    /\ budget \in [Procs -> Nat]
    /\ running \in [Procs -> [Jobs -> BOOLEAN]]
    /\ copies \in [Procs -> [Jobs -> Nat]]

TypeOK == LoopOK /\ LeaseOK /\ JobsOK

Init ==
    /\ phase = [p \in Procs |-> "up"] /\ loop = [p \in Procs |-> "waiting"]
    /\ turn = [p \in Procs |-> 1]
    /\ leader = [p \in Procs |-> FALSE] /\ pinned = [p \in Procs |-> FALSE]
    /\ lock = NoProc /\ orphan = FALSE
    /\ nextProbe = [p \in Procs |-> 0]
    /\ nextRun = [p \in Procs |-> [j \in Jobs |-> 0]]
    /\ budget = [p \in Procs |-> 0]
    /\ running = [p \in Procs |-> [j \in Jobs |-> FALSE]]
    /\ copies = [p \in Procs |-> [j \in Jobs |-> 0]]
    /\ lost = [p \in Procs |-> -1] /\ faults = 0

-----------------------------------------------------------------------------
(***************************************************************************)
(* Leadership: AdvisoryLease, and the probe of it in holdsLease.           *)
(***************************************************************************)
Fault == faults < MaxFaults /\ faults' = faults + 1
\* The pinned session still answers, so it still owns the lock.
Alive(p) == pinned[p] /\ lock = p /\ ~orphan

\* The probe is due: holdsLease calls Acquire.
BeginProbe(p) ==
    /\ phase[p] # "down" /\ loop[p] = "waiting" /\ nextProbe[p] = 0
    /\ loop' = [loop EXCEPT ![p] = "probing"]
    /\ nextProbe' = [nextProbe EXCEPT ![p] = ProbeInterval]
    /\ UNCHANGED <<phase, turn, leader, leaseVars, jobVars, faults>>

\* holdsLease records the answer; a leader goes on to its jobs.
Told(p, held) ==
    /\ leader' = [leader EXCEPT ![p] = held]
    /\ loop' = [loop EXCEPT ![p] = IF held THEN "turn" ELSE "waiting"]
    /\ turn' = [turn EXCEPT ![p] = 1]
    /\ lost' = [lost EXCEPT ![p] = -1]
    /\ UNCHANGED <<phase, nextProbe, jobVars>>

PingAnswers(p) ==
    /\ loop[p] = "probing" /\ phase[p] = "up" /\ Alive(p)
    /\ Told(p, TRUE)
    /\ UNCHANGED <<pinned, lock, orphan, faults>>

\* A cancelled context, a dead session or the network: the connection is
\* dropped, and a session that was still alive is left for Postgres to end.
PingFails(p) ==
    /\ loop[p] = "probing" /\ pinned[p]
    /\ IF Alive(p) /\ phase[p] = "up" THEN Fault ELSE UNCHANGED faults
    /\ pinned' = [pinned EXCEPT ![p] = FALSE]
    /\ orphan' = (orphan \/ Alive(p))
    /\ UNCHANGED <<phase, loop, turn, leader, nextProbe, lock, lost, jobVars>>

\* pg_try_advisory_lock on a fresh connection.
ElectionWon(p) ==
    /\ loop[p] = "probing" /\ phase[p] = "up" /\ ~pinned[p] /\ lock = NoProc
    /\ lock' = p /\ pinned' = [pinned EXCEPT ![p] = TRUE]
    /\ Told(p, TRUE)
    /\ UNCHANGED <<orphan, faults>>

\* Seeded fault: a lost election is not recorded.
ElectionLostUnnoticed(p) ==
    /\ loop[p] = "probing" /\ phase[p] = "up" /\ ~pinned[p] /\ lock # NoProc
    /\ Told(p, leader[p])
    /\ UNCHANGED <<pinned, lock, orphan, faults>>
ElectionLost(p) ==
    /\ loop[p] = "probing" /\ phase[p] = "up" /\ ~pinned[p] /\ lock # NoProc
    /\ Told(p, FALSE)
    /\ UNCHANGED <<pinned, lock, orphan, faults>>

\* The connection or the statement fails; the lock may have been taken by a
\* session that ends with the failure.
ElectionError(p) ==
    /\ loop[p] = "probing" /\ ~pinned[p]
    /\ IF phase[p] = "up" THEN Fault ELSE UNCHANGED faults
    /\ \/ UNCHANGED <<lock, orphan>>
       \/ lock = NoProc /\ lock' = p /\ orphan' = TRUE
    /\ Told(p, FALSE)
    /\ UNCHANGED pinned

\* releaseLease as Run returns: a leader unlocks, if its session still can.
Release(p) ==
    /\ phase[p] = "stopping" /\ loop[p] = "waiting"
    /\ loop' = [loop EXCEPT ![p] = "returned"]
    /\ IF leader[p]
       THEN /\ lock' = IF Alive(p) THEN NoProc ELSE lock
            /\ pinned' = [pinned EXCEPT ![p] = FALSE]
            /\ leader' = [leader EXCEPT ![p] = FALSE]
            /\ lost' = [lost EXCEPT ![p] = -1]
       ELSE UNCHANGED <<lock, pinned, leader, lost>>
    /\ UNCHANGED <<phase, turn, nextProbe, orphan, jobVars, faults>>

-----------------------------------------------------------------------------
(***************************************************************************)
(* A turn of the loop: step, runJob and awaitJob.                          *)
(***************************************************************************)
Startable(p, j) == nextRun[p][j] = 0 /\ ~running[p][j]

\* Seeded fault: a leader is not probed again.
BeginTurnUnprobed(p) ==
    /\ phase[p] # "down" /\ loop[p] = "waiting" /\ leader[p]
    /\ \E j \in Jobs : Startable(p, j)
    /\ loop' = [loop EXCEPT ![p] = "turn"] /\ turn' = [turn EXCEPT ![p] = 1]
    /\ UNCHANGED <<phase, leader, nextProbe, leaseVars, jobVars, faults>>
\* Between probes the cached answer stands.  A turn that finds nothing to
\* start changes nothing.
BeginTurn(p) ==
    /\ phase[p] # "down" /\ loop[p] = "waiting" /\ nextProbe[p] > 0 /\ leader[p]
    /\ \E j \in Jobs : Startable(p, j)
    /\ loop' = [loop EXCEPT ![p] = "turn"] /\ turn' = [turn EXCEPT ![p] = 1]
    /\ UNCHANGED <<phase, leader, nextProbe, leaseVars, jobVars, faults>>

\* The first job from turn[p] on that is due and not running.
StartJob(p, j) ==
    /\ loop[p] = "turn" /\ phase[p] = "up"
    /\ turn[p] <= j /\ Startable(p, j)
    /\ \A k \in Jobs : turn[p] <= k /\ k < j => ~Startable(p, k)
    /\ nextRun' = [nextRun EXCEPT ![p][j] = Interval]
    /\ budget' = [budget EXCEPT ![p] = Timeout]
    /\ running' = [running EXCEPT ![p][j] = TRUE]
    /\ copies' = [copies EXCEPT ![p][j] = @ + 1]
    /\ loop' = [loop EXCEPT ![p] = "running"] /\ turn' = [turn EXCEPT ![p] = j]
    /\ UNCHANGED <<phase, leader, nextProbe, leaseVars, faults>>

EndTurn(p) ==
    /\ loop[p] = "turn"
    /\ phase[p] = "stopping" \/ \A j \in Jobs : turn[p] <= j => ~Startable(p, j)
    /\ loop' = [loop EXCEPT ![p] = "waiting"] /\ turn' = [turn EXCEPT ![p] = 1]
    /\ UNCHANGED <<phase, leader, nextProbe, leaseVars, jobVars, faults>>

\* The job returns, fails or panics: safeRun makes these one to the loop.  The
\* flag falls and, if the loop still waits for it, the turn goes on.
JobReturns(p, j) ==
    /\ copies[p][j] > 0
    /\ copies' = [copies EXCEPT ![p][j] = @ - 1]
    /\ running' = [running EXCEPT ![p][j] = FALSE]
    /\ IF Awaited(p, j)
       THEN /\ loop' = [loop EXCEPT ![p] = "turn"] /\ turn' = [turn EXCEPT ![p] = j + 1]
            /\ budget' = [budget EXCEPT ![p] = 0]
       ELSE UNCHANGED <<loop, turn, budget>>
    /\ UNCHANGED <<phase, leader, nextProbe, nextRun, leaseVars, faults>>

\* The run context is done, by its timeout or by the stop of the process.
CutOff(p) ==
    /\ loop[p] = "running" /\ (budget[p] = 0 \/ phase[p] = "stopping")
    /\ loop' = [loop EXCEPT ![p] = "grace"] /\ budget' = [budget EXCEPT ![p] = Grace]
    /\ UNCHANGED <<phase, turn, leader, nextProbe, nextRun, running, copies, leaseVars, faults>>

\* Seeded fault: the loop waits for the job, however long it takes.
AbandonNever(p) == FALSE /\ UNCHANGED vars
\* The grace is over: the loop goes on and leaves the flag up.
Abandon(p) ==
    /\ loop[p] = "grace" /\ budget[p] = 0
    /\ loop' = [loop EXCEPT ![p] = "turn"] /\ turn' = [turn EXCEPT ![p] = @ + 1]
    /\ UNCHANGED <<phase, leader, nextProbe, leaseVars, jobVars, faults>>

-----------------------------------------------------------------------------
(***************************************************************************)
(* Processes, the server and time.                                         *)
(***************************************************************************)
\* A signal: the context is cancelled once the HTTP server has drained.
RequestStop(p) ==
    /\ phase[p] = "up" /\ p # Survivor /\ Fault
    /\ phase' = [phase EXCEPT ![p] = "stopping"]
    /\ UNCHANGED <<loop, turn, leader, nextProbe, leaseVars, jobVars>>

\* The end of a process takes its goroutines and its sessions with it.
Ends(p) ==
    /\ phase' = [phase EXCEPT ![p] = "down"] /\ loop' = [loop EXCEPT ![p] = "waiting"]
    /\ turn' = [turn EXCEPT ![p] = 1]
    /\ leader' = [leader EXCEPT ![p] = FALSE] /\ pinned' = [pinned EXCEPT ![p] = FALSE]
    /\ orphan' = (orphan \/ Alive(p))
    /\ nextProbe' = [nextProbe EXCEPT ![p] = 0]
    /\ nextRun' = [nextRun EXCEPT ![p] = [j \in Jobs |-> 0]]
    /\ budget' = [budget EXCEPT ![p] = 0]
    /\ running' = [running EXCEPT ![p] = [j \in Jobs |-> FALSE]]
    /\ copies' = [copies EXCEPT ![p] = [j \in Jobs |-> 0]]
    /\ lost' = [lost EXCEPT ![p] = -1]
    /\ UNCHANGED lock

Exit(p) == phase[p] = "stopping" /\ loop[p] = "returned" /\ Ends(p) /\ UNCHANGED faults
Crash(p) == phase[p] # "down" /\ p # Survivor /\ Fault /\ Ends(p)

Start(p) ==
    /\ phase[p] = "down"
    /\ phase' = [phase EXCEPT ![p] = "up"]
    /\ UNCHANGED <<loop, turn, leader, nextProbe, leaseVars, jobVars, faults>>

\* The server ends the session of a process that does not know yet.
SessionLost(p) ==
    /\ Alive(p) /\ Fault
    /\ lock' = NoProc
    /\ lost' = [lost EXCEPT ![p] = 0]
    /\ UNCHANGED <<phase, loop, turn, leader, nextProbe, pinned, orphan, jobVars>>

\* Postgres notices that the client of a session is gone.
Reap ==
    /\ orphan /\ lock' = NoProc /\ orphan' = FALSE
    /\ UNCHANGED <<phase, loop, turn, leader, nextProbe, pinned, lost, jobVars, faults>>

Down(n) == IF n > 0 THEN n - 1 ELSE 0

\* Nothing that takes no time is pending.
Settled(p) ==
    /\ loop[p] # "turn"
    /\ loop[p] \in {"running", "grace"} => budget[p] > 0
    /\ loop[p] = "running" => phase[p] = "up"

Tick ==
    /\ \A p \in Procs : Settled(p)
    /\ nextProbe' = [p \in Procs |-> Down(nextProbe[p])]
    /\ nextRun' = [p \in Procs |-> [j \in Jobs |-> Down(nextRun[p][j])]]
    /\ budget' = [p \in Procs |-> Down(budget[p])]
    /\ lost' = [p \in Procs |-> IF lost[p] < 0 \/ lost[p] > MaxLate THEN lost[p] ELSE lost[p] + 1]
    /\ UNCHANGED <<phase, loop, turn, leader, pinned, lock, orphan, running, copies, faults>>

-----------------------------------------------------------------------------
Probe(p) ==
    PingAnswers(p) \/ PingFails(p) \/ ElectionWon(p) \/ ElectionLost(p) \/ ElectionError(p)

LoopStep(p) ==
    \/ BeginProbe(p) \/ Probe(p) \/ BeginTurn(p) \/ (\E j \in Jobs : StartJob(p, j))
    \/ EndTurn(p) \/ CutOff(p) \/ Abandon(p) \/ Release(p)

Next ==
    \/ \E p \in Procs : \/ LoopStep(p) \/ \E j \in Jobs : JobReturns(p, j)
                        \/ RequestStop(p) \/ Exit(p) \/ Crash(p) \/ Start(p) \/ SessionLost(p)
    \/ Reap \/ Tick

Spec == Init /\ [][Next]_vars

\* The loop's ticker fires, time passes, Postgres reaps, a process that has
\* wound up exits, and a job that can be told to stop returns some day.  The
\* select of a cancelled Run does not pick the ticker for ever.
Fairness ==
    /\ WF_vars(Tick) /\ WF_vars(Reap)
    /\ \A p \in Procs :
          /\ WF_vars(LoopStep(p)) /\ SF_vars(Release(p)) /\ WF_vars(Exit(p))
          /\ \A j \in Jobs \ Wedging : WF_vars(JobReturns(p, j))

FairSpec == Spec /\ Fairness

-----------------------------------------------------------------------------
\* At most one process is doing scheduled work, those aside that have lost their
\* session and not noticed yet (the contract of the package, schedulerLease).
OneRunner ==
    \A p, q \in Procs :
        InTurn(p) /\ InTurn(q) /\ lost[p] < 0 /\ lost[q] < 0 => p = q

\* A job starts only in the process whose session holds the lock (step), with
\* the same exception.
StartsUnderLease ==
    [][\A p \in Procs, j \in Jobs :
         copies'[p][j] > copies[p][j] /\ lost[p] < 0 => lock = p /\ ~orphan]_copies

\* However long it overran, a job never runs twice in one process (runJob).
NoPileUp == \A p \in Procs, j \in Jobs : copies[p][j] <= 1

\* A Run that returned has nothing pinned: releaseLease looks at the cached
\* answer alone, so that answer has to follow the connection.
HandsBack == \A p \in Procs : loop[p] = "returned" => ~pinned[p]

\* When a session is lost under its process, work outlives the lease by one
\* probe interval and the jobs ahead in the turn, and no longer (holdsLease).
StaleStartsBounded ==
    [][\A p \in Procs, j \in Jobs :
         copies'[p][j] > copies[p][j] => lost[p] <= MaxLate]_copies

\* A job that ends when it is told to keeps being run, whatever the other jobs
\* and processes do, as long as one process stays (runJob, Run).
WorkGoesOn == \A j \in Jobs \ Wedging : []<>(\E p \in Procs : copies[p][j] > 0)

=============================================================================
