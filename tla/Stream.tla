------------------------------- MODULE Stream -------------------------------
(***************************************************************************)
(* The retention of the authentication stream (platform/securityevent,     *)
(* migration 35).  security_events is append-only and partitioned by UTC   *)
(* month: all that can ever be removed is a whole partition.  A month      *)
(* without one lands in security_events_default, which is never dropped.   *)
(*                                                                         *)
(* Months are numbered from the deployment of the table.  A pass of the    *)
(* job is one statement: what is cut off leaves nothing behind, so a pass  *)
(* that is cut off, one that is not the leader's, and a job that is        *)
(* switched off are all a month in which no Maintain happens.  Waiting for *)
(* the table is bounded by lock_timeout; the first statement that gets its *)
(* lock keeps it for the rest of the pass.                                 *)
(***************************************************************************)
EXTENDS Integers, FiniteSets

CONSTANTS
    CreatedAhead,    \* months the first migration creates ahead
    Windows, Aheads, \* values the settings are given, good and bad
    Followed,        \* the months whose events are followed
    MaxReconfigured, \* how often the settings change
    MaxBusy,         \* statements of half a pass that may find the table busy
    Horizon          \* the last month

\* Settings are whole numbers, whether or not they will be accepted.
ASSUME StreamAssumption ==
    /\ CreatedAhead \in Nat /\ Windows \subseteq Int /\ Aheads \subseteq Int
    /\ Followed \subseteq Int /\ Horizon \in Nat

VARIABLES
    month,           \* now(), and the clock of every process within a month of it
    parts,           \* the months with a partition of their own
    rows,            \* followed months with events in their partition
    stray,           \* followed months with events in security_events_default
    window, ahead,   \* the settings of the running process
    report,          \* what the last pass of this month returned
    reconfigured

streamVars == <<month, parts, rows, stray, window, ahead, report, reconfigured>>

MinRetentionMonths == 12
MaxRetentionMonths == 120
MaxMonthsAhead == 60

\* The settings boot only if config accepts them; the function has its own copy of the bounds.
Accepted(w, a) ==
    w \in MinRetentionMonths .. MaxRetentionMonths /\ a \in 1 .. MaxMonthsAhead

NoReport == [window |-> 0, ahead |-> 0, deferred |-> {}, blocked |-> {}]
Reported == report # NoReport

StreamInit ==
    /\ month = 0 /\ parts = 0 .. CreatedAhead
    /\ rows = {} /\ stray = {}
    /\ window \in Windows /\ ahead \in Aheads
    /\ report = NoReport /\ reconfigured = 0

\* A month passes, with or without maintenance in it.
MonthPasses ==
    /\ month < Horizon
    /\ month' = month + 1 /\ report' = NoReport
    /\ UNCHANGED <<parts, rows, stray, window, ahead, reconfigured>>

\* A redeployment with other settings.
Reconfigure ==
    /\ reconfigured < MaxReconfigured
    /\ \E w \in Windows, a \in Aheads :
          <<w, a>> # <<window, ahead>> /\ window' = w /\ ahead' = a
    /\ reconfigured' = reconfigured + 1
    /\ UNCHANGED <<month, parts, rows, stray, report>>

\* Record: the process stamps the event with its own clock, Postgres routes it.
\* At the turn of a month that clock may be on the other side of it.
RecordEvent ==
    \E m \in Followed \cap (month - 1 .. month + 1) :
       /\ IF m \in parts THEN rows' = rows \cup {m} /\ UNCHANGED stray
                         ELSE stray' = stray \cup {m} /\ UNCHANGED rows
       /\ UNCHANGED <<month, parts, window, ahead, report, reconfigured>>

Cutoff == month - window
\* Seeded fault: the loop starts at the current month, so gaps do not heal.
MissingFromNow == (month .. month + ahead) \ parts
\* Seeded fault: a partition goes when it begins, not when it ends, before the cutoff.
ExpiredByStart(ps) == {m \in ps : m <= Cutoff}
\* The months the loop wants a partition for, and the partitions it drops.
Missing == (Cutoff .. month + ahead) \ parts
Expired(ps) == {m \in ps : m + 1 <= Cutoff}

\* CREATE TABLE ... PARTITION OF fails if the default partition has a row of the month.
Blocked(ms) == ms \cap stray

\* The first n statements of a half of the pass time out; each half goes by month.
FirstOf(ms, n) == {m \in ms : Cardinality({k \in ms : k < m}) < n}

\* A creation that succeeds keeps the lock, and the drops need not wait for it.
Maintained(busy, again) ==
    LET late == FirstOf(Missing, busy)
        tried == Missing \ late
        kept == IF tried \subseteq stray THEN FirstOf(Expired(parts), again) ELSE {}
        dropped == Expired(parts) \ kept
    IN  /\ parts' = (parts \cup (tried \ Blocked(tried))) \ dropped
        /\ rows' = rows \ dropped
        /\ report' = [window |-> window, ahead |-> ahead,
                      deferred |-> late \cup kept, blocked |-> Blocked(tried)]

Maintain ==
    /\ Accepted(window, ahead)
    /\ \E busy, again \in 0 .. MaxBusy : Maintained(busy, again)
    /\ UNCHANGED <<month, stray, window, ahead, reconfigured>>

StreamNext == MonthPasses \/ Reconfigure \/ RecordEvent \/ Maintain

StreamSpec == StreamInit /\ [][StreamNext]_streamVars

----------------------------------------------------------------------------
StreamTypeOK ==
    /\ month \in 0 .. Horizon /\ parts \subseteq Int
    /\ rows \subseteq Followed /\ stray \subseteq Followed
    /\ window \in Windows /\ ahead \in Aheads

\* What a pass says of the table is so: every month of its window and run-ahead has a
\* partition and nothing older has one, but for what it reports as deferred or blocked; and
\* events that landed outside the partitions are of months it reported.
ReportIsTrue ==
    LET said == report.deferred \cup report.blocked
        promised == month - report.window .. month + report.ahead
    IN  Reported => /\ promised \subseteq parts \cup said
                    /\ \A m \in parts : m < month - report.window => m \in said
                    /\ stray \cap promised \subseteq said

\* Of a month in which an event left, the youngest possible row is older than the floor.
OnlyTheOldLeaves ==
    \A m \in rows \cup stray :
       m \notin rows' \cup stray' => m + 1 + MinRetentionMonths <= month

\* A month begins to land in the default partition only while no pass of the current
\* month has provided for it: a run-ahead of one month is enough for clocks that disagree.
StraysOnlyUnmaintained ==
    \A m \in stray' \ stray : ~Reported \/ m \in report.deferred

\* The retention of migration 35: nothing leaves before its time, whatever the settings become
\* and however many passes are missed; what a pass reports is true; nothing goes astray behind
\* the back of a pass.  (Before the first step nothing is reported.)
StreamAges == [][OnlyTheOldLeaves /\ StraysOnlyUnmaintained /\ ReportIsTrue']_streamVars

=============================================================================
