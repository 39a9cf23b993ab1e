----------------------------- MODULE Frontdoor -----------------------------
(***************************************************************************)
(* What a request meets before its handler (delivery/httpkit): who called  *)
(* (clientaddr), the budget of that address (ratelimit/memory.go) and the  *)
(* bound on concurrent password checks (ratelimit/gate.go); and what the   *)
(* stream of authentication events records of the caller.                  *)
(*                                                                         *)
(* Tokens are counted in 1/Window of a request: a bucket gains Limit of    *)
(* them per unit of time, a request costs Window.  A bucket is full at an  *)
(* instant counted in 1/Limit of a unit.  `credit' is the bucket the rule  *)
(* speaks of: it refills by the clock and is never forgotten.              *)
(***************************************************************************)
EXTENDS Integers, FiniteSets

CONSTANTS
    Knocks,              \* requests under way at the same time
    Callers,             \* addresses with a budget
    Limit, Burst, Window,\* the anonymous rule
    MaxKeys, SweepEvery, \* of the memory store
    MaxConcurrent, MaxQueued, MaxWait, \* of the gate
    MaxStall,            \* how long a request may wait for the mutex
    MaxTime              \* the clock stops there

\* What config/ratelimit.go and the constructors accept; a server has finitely many requests
\* under way.
ASSUME FrontdoorAssumption ==
    /\ IsFiniteSet(Knocks)
    /\ Limit \in Nat /\ Burst \in Nat /\ Window \in Nat
    /\ MaxKeys \in Nat /\ SweepEvery \in Nat
    /\ MaxConcurrent \in Nat \ {0} /\ MaxQueued \in Nat /\ MaxWait \in Nat
    /\ MaxStall \in Nat /\ MaxTime \in Nat

VARIABLES
    clock,
    buckets, lastSweep,  \* MemoryStore
    way,                 \* how far each request has come
    slots, waiting,      \* Gate
    \* history
    credit,              \* the buckets of the rule
    stalled              \* addresses charged by a clock that was read before a wait

doorVars == <<clock, buckets, lastSweep, way, slots, waiting, credit, stalled>>

Capacity == Burst * Window
Outside == [at |-> "outside"]

FrontdoorInit ==
    /\ clock = 0 /\ lastSweep = 0
    /\ buckets = [c \in {} |-> 0]
    /\ way = [r \in Knocks |-> Outside]
    /\ slots = 0 /\ waiting = 0
    /\ credit = [c \in Callers |-> Capacity]
    /\ stalled = {}

Least(m, n) == IF m < n THEN m ELSE n

Goes(r, record) == way' = [way EXCEPT ![r] = record]
LeavesGate == UNCHANGED <<slots, waiting>>
LeavesStore == UNCHANGED <<buckets, lastSweep, credit, stalled>>

\* ByAddress: Take reads the clock, then waits for the mutex.  A request whose address
\* would be everybody's (Client.Identifies) is not charged.
Arrive(r) ==
    /\ way[r] = Outside
    /\ \/ \E c \in Callers : Goes(r, [at |-> "clocked", from |-> c, now |-> clock])
       \/ Goes(r, [at |-> "admitted"])
    /\ UNCHANGED clock /\ LeavesStore /\ LeavesGate

\* maybeSweep: buckets that are full again are forgotten.
Swept(now) ==
    IF Cardinality(DOMAIN buckets) < MaxKeys /\ now - lastSweep < SweepEvery
    THEN buckets
    ELSE [c \in {k \in DOMAIN buckets : now * Limit < buckets[k].full} |-> buckets[c]]
SweptAt(now) ==
    IF Cardinality(DOMAIN buckets) < MaxKeys /\ now - lastSweep < SweepEvery
    THEN lastSweep ELSE now

\* The bucket of an address at the instant its request read: created full, or refilled.
Refilled(bs, c, now) ==
    IF c \notin DOMAIN bs THEN [tokens |-> Capacity, last |-> now, full |-> now * Limit]
    ELSE IF now > bs[c].last
    THEN [bs[c] EXCEPT !.tokens = Least(Capacity, @ + (now - bs[c].last) * Limit),
                       !.last = now]
    ELSE bs[c]

\* Seeded fault: a bucket counts as full when one more request fits.
ChargedFullTooSoon(b, now) ==
    LET left == IF b.tokens >= Window THEN b.tokens - Window ELSE b.tokens
    IN  [b EXCEPT !.tokens = left, !.full = now * Limit + (Window - left)]
Charged(b, now) ==
    LET left == IF b.tokens >= Window THEN b.tokens - Window ELSE b.tokens
    IN  [b EXCEPT !.tokens = left, !.full = now * Limit + (Capacity - left)]

Take(r) ==
    /\ way[r].at = "clocked"
    /\ LET c == way[r].from
           now == way[r].now
           bs == Swept(now)
           b == Refilled(bs, c, now)
           allowed == b.tokens >= Window
       IN  /\ buckets' = [k \in DOMAIN bs \cup {c} |-> IF k = c THEN Charged(b, now) ELSE bs[k]]
           /\ lastSweep' = SweptAt(now)
           /\ credit' = [credit EXCEPT ![c] = IF allowed THEN @ - Window ELSE @]
           /\ stalled' = IF now < clock THEN stalled \cup {c} ELSE stalled
           /\ Goes(r, IF allowed THEN [at |-> "admitted"] ELSE Outside)
    /\ UNCHANGED clock /\ LeavesGate

\* Gate.Acquire: a free slot is taken at once.
TakesSlot(r) ==
    /\ way[r].at = "admitted" /\ slots < MaxConcurrent
    /\ slots' = slots + 1
    /\ Goes(r, [at |-> "verifying"])
    /\ UNCHANGED <<clock, waiting>> /\ LeavesStore
FindsNoSlot(r) ==
    /\ way[r].at = "admitted" /\ slots = MaxConcurrent
    /\ Goes(r, [at |-> "joining"])
    /\ UNCHANGED clock /\ LeavesStore /\ LeavesGate
\* It counts itself in, and is turned away if that is one too many.
Joins(r) ==
    /\ way[r].at = "joining"
    /\ waiting' = waiting + 1
    /\ Goes(r, IF waiting + 1 > MaxQueued THEN [at |-> "leaving", ok |-> FALSE]
                                          ELSE [at |-> "queued", since |-> clock])
    /\ UNCHANGED <<clock, slots>> /\ LeavesStore
\* The select: a slot, the timer, or a client that has gone.
Granted(r) ==
    /\ way[r].at = "queued" /\ slots < MaxConcurrent
    /\ slots' = slots + 1
    /\ Goes(r, [at |-> "leaving", ok |-> TRUE])
    /\ UNCHANGED <<clock, waiting>> /\ LeavesStore
TimesOut(r) ==
    /\ way[r].at = "queued" /\ clock - way[r].since >= MaxWait
    /\ Goes(r, [at |-> "leaving", ok |-> FALSE])
    /\ UNCHANGED clock /\ LeavesStore /\ LeavesGate
Disconnects(r) ==
    /\ way[r].at = "queued"
    /\ Goes(r, [at |-> "leaving", ok |-> FALSE])
    /\ UNCHANGED clock /\ LeavesStore /\ LeavesGate
\* Seeded fault: a client that disconnects while it has a slot leaves it taken.
LeavesWithoutRelease(r) ==
    /\ way[r].at = "leaving"
    /\ waiting' = waiting - 1
    /\ Goes(r, Outside)
    /\ UNCHANGED <<clock, slots>> /\ LeavesStore
\* The deferred decrement; then the handler, or 429.
Leaves(r) ==
    /\ way[r].at = "leaving"
    /\ waiting' = waiting - 1
    /\ Goes(r, IF way[r].ok THEN [at |-> "verifying"] ELSE Outside)
    /\ UNCHANGED <<clock, slots>> /\ LeavesStore
\* The handler returned, whatever it answered and whether or not the client is still there.
Returns(r) ==
    /\ way[r].at = "verifying"
    /\ slots' = IF slots > 0 THEN slots - 1 ELSE slots
    /\ Goes(r, Outside)
    /\ UNCHANGED <<clock, waiting>> /\ LeavesStore

TimePasses ==
    /\ clock < MaxTime
    /\ \A r \in Knocks : way[r].at = "clocked" => clock - way[r].now < MaxStall
    /\ clock' = clock + 1
    /\ credit' = [c \in Callers |-> Least(Capacity, credit[c] + Limit)]
    /\ UNCHANGED <<buckets, lastSweep, way, stalled>> /\ LeavesGate

FrontdoorNext ==
    \/ \E r \in Knocks :
          \/ Arrive(r) \/ Take(r)
          \/ TakesSlot(r) \/ FindsNoSlot(r) \/ Joins(r)
          \/ Granted(r) \/ TimesOut(r) \/ Disconnects(r)
          \/ Leaves(r) \/ Returns(r)
    \/ TimePasses

FrontdoorSpec == FrontdoorInit /\ [][FrontdoorNext]_doorVars

----------------------------------------------------------------------------
Ways ==
    {Outside}
    \cup [at : {"clocked"}, from : Callers, now : Nat]
    \cup [at : {"admitted", "joining", "verifying"}]
    \cup [at : {"queued"}, since : Nat]
    \cup [at : {"leaving"}, ok : BOOLEAN]
Buckets == [tokens : 0 .. Capacity, last : Nat, full : Int]

DoorTypeOK ==
    /\ clock \in 0 .. MaxTime /\ lastSweep \in 0 .. MaxTime
    /\ DOMAIN buckets \subseteq Callers /\ \A c \in DOMAIN buckets : buckets[c] \in Buckets
    /\ way \in [Knocks -> Ways]
    /\ slots \in 0 .. MaxConcurrent /\ waiting \in Nat
    /\ credit \in [Callers -> Int] /\ stalled \subseteq Callers

\* What a bucket holds by now; one that was forgotten is full.
LeftTo(c) ==
    IF c \notin DOMAIN buckets THEN Capacity
    ELSE Least(Capacity, buckets[c].tokens + (clock - buckets[c].last) * Limit)

\* MemoryStore forgets buckets, and finds each at another time than it left it.  No address
\* notices: what is left to it is what the rule leaves it, so it is neither admitted
\* beyond the rule nor refused within it.  Not of an address charged by a clock that was read
\* before its request waited for the mutex.
BudgetExact == \A c \in Callers \ stalled : credit[c] = LeftTo(c)

At(stages) == {r \in Knocks : way[r].at \in stages}

\* The gate loses no slot and no place in its queue, whether a wait ends with a slot,
\* by the timer or because the client left: each slot is held by a request that has it, and the
\* count of the waiting is of requests that wait or are about to leave.
GateExact ==
    /\ slots = Cardinality(At({"verifying"}) \cup {r \in At({"leaving"}) : way[r].ok})
    /\ slots <= MaxConcurrent
    /\ waiting = Cardinality(At({"queued", "leaving"}))
    /\ Cardinality(At({"queued"})) <= MaxQueued

\* Both limits in front of the handlers (ratelimit/memory.go, gate.go) are exact.
DoorHolds == BudgetExact /\ GateExact

=============================================================================
