------------------------------- MODULE Outbox -------------------------------
(***************************************************************************)
(* The transactional outbox of platform/outbox: producers queue messages   *)
(* on their own transaction, delivery passes (Dispatcher.DeliverDue) claim *)
(* what is due under a lease, try the transport once per message and write *)
(* the outcome down.  Several processes may run passes at the same time:   *)
(* the scheduler elects one, but the queue has to be right without it.     *)
(*                                                                         *)
(* Time is relative: wait[m] is next_attempt_at - NOW() and lease[r] what  *)
(* is left of the lease the pass of r claimed under.                       *)
(***************************************************************************)
EXTENDS Naturals, FiniteSets

CONSTANTS
    Messages,     \* row identities, each used by at most one Enqueue
    Runners,      \* processes that run delivery passes
    Keys,         \* dedupe keys of one tenant
    NoKey, NoMsg,
    Actored,      \* messages some user caused: the only ones MarkDead audits
    MaxAttempts,  \* Backoff.MaxAttempts
    BatchSize,    \* Settings.BatchSize
    Lease,        \* Settings.ClaimLease, in ticks
    Delays,       \* what Backoff.Delay can return, in ticks
    Punctual,     \* TRUE: every pass ends inside its lease, as Settings intends
    MaxFaults     \* bound: crashes, failed writes and passes cut short

ASSUME OutboxAssumption ==
    /\ MaxAttempts \in Nat \ {0} /\ BatchSize \in Nat \ {0}
    /\ Lease \in Nat \ {0}
    /\ Delays \subseteq Nat \ {0} /\ Delays # {}
    /\ MaxFaults \in Nat /\ Punctual \in BOOLEAN
    /\ Actored \subseteq Messages
    /\ NoKey \notin Keys /\ NoMsg \notin Messages

VARIABLES
    \* the table outbox_messages
    status, attempts, wait, key,
    \* one pass per runner
    claim,        \* claim[r][m]: Message.Attempts of m in r's batch, 0 if not in it
    lease,
    reached,      \* reached[r]: the pass has settled a message (rest is shorter than msgs)
    sending, outcome,   \* the message whose fate r knows and has not written
    \* a producer between the INSERT that conflicted and the SELECT by key
    lookup, receipt,
    \* history
    accepted,     \* messages the transport took at least once
    tries,        \* attempts that reached deliver, per message, up to MaxAttempts
    undeliverable,\* messages with a notification.undeliverable audit entry
    exhausted,    \* messages given up on with their attempts spent
    faults

rowVars  == <<status, attempts, wait, key>>
passVars == <<claim, lease, reached, sending, outcome>>
prodVars == <<lookup, receipt>>
histVars == <<accepted, tries, undeliverable, exhausted>>
vars     == <<rowVars, passVars, prodVars, histVars, faults>>

Statuses == {"absent", "pending", "sent", "dead", "pruned"}
Outcomes == {"accepted", "permanent", "retryable"}
NoClaims == [m \in Messages |-> 0]
Receipts == {"none", "found", "error"}

TypeOK ==
    /\ status \in [Messages -> Statuses]
    /\ attempts \in [Messages -> Nat]
    /\ wait \in [Messages -> Nat]
    /\ key \in [Messages -> Keys \cup {NoKey}]
    /\ claim \in [Runners -> [Messages -> Nat]]
    /\ lease \in [Runners -> Nat]
    /\ reached \in [Runners -> BOOLEAN]
    /\ sending \in [Runners -> Messages \cup {NoMsg}]
    /\ outcome \in [Runners -> Outcomes \cup {"none"}]
    /\ lookup \in Keys \cup {NoKey} /\ receipt \in Receipts
    /\ accepted \subseteq Messages /\ undeliverable \subseteq Messages
    /\ exhausted \subseteq Messages
    /\ tries \in [Messages -> Nat]
    /\ faults \in Nat

Init ==
    /\ status = [m \in Messages |-> "absent"]
    /\ attempts = [m \in Messages |-> 0]
    /\ wait = [m \in Messages |-> 0]
    /\ key = [m \in Messages |-> NoKey]
    /\ claim = [r \in Runners |-> NoClaims]
    /\ lease = [r \in Runners |-> 0]
    /\ reached = [r \in Runners |-> FALSE]
    /\ sending = [r \in Runners |-> NoMsg]
    /\ outcome = [r \in Runners |-> "none"]
    /\ lookup = NoKey /\ receipt = "none"
    /\ accepted = {} /\ undeliverable = {} /\ exhausted = {}
    /\ tries = [m \in Messages |-> 0]
    /\ faults = 0

-----------------------------------------------------------------------------
(***************************************************************************)
(* Producers: Queue.Enqueue.                                               *)
(***************************************************************************)
Queued(k) == {m \in Messages : k # NoKey /\ key[m] = k}

\* The INSERT took: the row is pending, due now or at a chosen later instant.
EnqueueInsert(m, k) ==
    /\ status[m] = "absent" /\ Queued(k) = {}
    /\ status' = [status EXCEPT ![m] = "pending"]
    /\ key' = [key EXCEPT ![m] = k]
    /\ \E due \in {0} \cup Delays : wait' = [wait EXCEPT ![m] = due]
    /\ UNCHANGED <<attempts, passVars, prodVars, histVars, faults>>

\* ON CONFLICT DO NOTHING returned no row: a second statement will look it up.
EnqueueConflict(k) ==
    /\ lookup = NoKey /\ Queued(k) # {}
    /\ lookup' = k
    /\ UNCHANGED <<rowVars, passVars, receipt, histVars, faults>>

\* The SELECT by key, under its own READ COMMITTED snapshot.
EnqueueResolve(k) ==
    /\ lookup = k
    /\ receipt' = IF Queued(k) = {} THEN "error" ELSE "found"
    /\ lookup' = NoKey
    /\ UNCHANGED <<rowVars, passVars, histVars, faults>>

-----------------------------------------------------------------------------
(***************************************************************************)
(* A delivery pass.                                                        *)
(***************************************************************************)
Held(r) == {m \in Messages : claim[r][m] # 0}

\* Seeded fault: a claim that skips messages whose attempts are spent.
DueWithAttemptsLeft ==
    {m \in Messages : status[m] = "pending" /\ wait[m] = 0 /\ attempts[m] < MaxAttempts}

Due == {m \in Messages : status[m] = "pending" /\ wait[m] = 0}

\* Seeded fault: the claim charges the attempt and forgets the lease.
NotHidden == 0
HiddenFor == Lease

\* Store.ClaimDue: charge the attempt and push the schedule out by the lease.
Claim(r, S) ==
    /\ Held(r) = {} /\ S # {} /\ S \subseteq Due
    /\ Cardinality(S) <= BatchSize
    /\ S # Due => Cardinality(S) = BatchSize
    /\ attempts' = [m \in Messages |-> IF m \in S THEN attempts[m] + 1 ELSE attempts[m]]
    /\ wait' = [m \in Messages |-> IF m \in S THEN HiddenFor ELSE wait[m]]
    /\ claim' = [claim EXCEPT ![r] = [m \in Messages |-> IF m \in S THEN attempts[m] + 1 ELSE 0]]
    /\ lease' = [lease EXCEPT ![r] = Lease]
    /\ reached' = [reached EXCEPT ![r] = FALSE]
    /\ UNCHANGED <<status, key, sending, outcome, prodVars, histVars, faults>>

\* deliver up to the transport's answer.  A refusal, a silent window and a
\* payload that will not open are all retryable; silence may hide an acceptance.
Send(r, m, o) ==
    /\ m \in Held(r) /\ outcome[r] = "none"
    /\ Punctual => lease[r] > 0
    /\ sending' = [sending EXCEPT ![r] = m]
    /\ outcome' = [outcome EXCEPT ![r] = o]
    /\ \/ o # "permanent" /\ accepted' = accepted \cup {m}
       \/ o # "accepted" /\ UNCHANGED accepted
    /\ tries' = [tries EXCEPT ![m] = IF @ < MaxAttempts THEN @ + 1 ELSE @]
    /\ UNCHANGED <<rowVars, claim, lease, reached, prodVars, undeliverable, exhausted, faults>>

\* WHERE id = $1 AND status = 'pending', of every statement that settles.
Open(m) == status[m] = "pending"

\* r has no more to do with the message whose fate it knew.
Forget(r) ==
    /\ claim' = [claim EXCEPT ![r][sending[r]] = 0]
    /\ sending' = [sending EXCEPT ![r] = NoMsg]
    /\ outcome' = [outcome EXCEPT ![r] = "none"]
    /\ reached' = [reached EXCEPT ![r] = TRUE]
    /\ UNCHANGED lease

Delivered(r) == outcome[r] = "accepted"

MarkSent(r) == LET m == sending[r] IN
    /\ Delivered(r)
    /\ status' = [status EXCEPT ![m] = IF Open(m) THEN "sent" ELSE @]
    /\ Forget(r)
    /\ UNCHANGED <<attempts, wait, key, prodVars, histVars, faults>>

GivesUp(r) ==
    \/ outcome[r] = "permanent"
    \/ outcome[r] = "retryable" /\ claim[r][sending[r]] >= MaxAttempts

\* The notification.undeliverable entry, if somebody is there to attribute it to.
Entry(r) == {sending[r]} \cap Actored

\* The UPDATE is guarded by status = 'pending'; the audit entry on the same
\* transaction is not.  A dead row gives its dedupe key back.
MarkDead(r) == LET m == sending[r] IN
    /\ GivesUp(r)
    /\ status' = [status EXCEPT ![m] = IF Open(m) THEN "dead" ELSE @]
    /\ key' = [key EXCEPT ![m] = IF Open(m) THEN NoKey ELSE @]
    /\ undeliverable' = undeliverable \cup Entry(r)
    /\ exhausted' = IF outcome[r] = "retryable" /\ Open(m)
                    THEN exhausted \cup {m} ELSE exhausted
    /\ Forget(r)
    /\ UNCHANGED <<attempts, wait, prodVars, accepted, tries, faults>>

Reschedule(r) == LET m == sending[r] IN
    /\ outcome[r] = "retryable" /\ ~GivesUp(r)
    /\ \E d \in Delays : wait' = [wait EXCEPT ![m] = IF Open(m) THEN d ELSE @]
    /\ Forget(r)
    /\ UNCHANGED <<status, attempts, key, prodVars, histVars, faults>>

Settle(r) == MarkSent(r) \/ MarkDead(r) \/ Reschedule(r)

Drop(r) ==
    /\ claim' = [claim EXCEPT ![r] = NoClaims]
    /\ sending' = [sending EXCEPT ![r] = NoMsg]
    /\ outcome' = [outcome EXCEPT ![r] = "none"]
    /\ UNCHANGED <<lease, reached>>

\* Seeded fault: the release matches any pending row of the batch.
ReleasedById(r) == {m \in Held(r) : Open(m)}
\* The rows Store.ReleaseClaim matches: still pending, still carrying the
\* attempt count this runner's claim gave them.
Released(r) == {m \in Held(r) : Open(m) /\ attempts[m] = claim[r][m]}

\* Seeded fault: the lease is dropped and the charge kept.
KeepCharge(n) == n
Refund(n) == n - 1

\* Hand back what the pass holds.  due_at is in the past by then.
Release(r) ==
    /\ Held(r) # {} /\ outcome[r] = "none"
    /\ attempts' = [m \in Messages |-> IF m \in Released(r) THEN Refund(attempts[m]) ELSE attempts[m]]
    /\ wait' = [m \in Messages |-> IF m \in Released(r) THEN 0 ELSE wait[m]]
    /\ Drop(r)
    /\ UNCHANGED <<status, key, prodVars, tries, undeliverable, exhausted>>

\* The pass has no window left for another message.
OutOfBudget(r) == reached[r] /\ Release(r) /\ UNCHANGED <<accepted, faults>>

\* Shutdown, or a first window too small to be fair: a send that is cut short is
\* charged to nobody, though it may have got through.
CutShort(r) ==
    /\ faults < MaxFaults /\ faults' = faults + 1
    /\ \/ UNCHANGED accepted
       \/ \E m \in Held(r) : accepted' = accepted \cup {m}
    /\ Release(r)

-----------------------------------------------------------------------------
(***************************************************************************)
(* Failures, the prune job and the passage of time.                        *)
(***************************************************************************)
\* The write of an outcome failed: the claim stays spent, the lease runs out.
SettleFails(r) ==
    /\ outcome[r] # "none" /\ faults < MaxFaults
    /\ faults' = faults + 1
    /\ Forget(r)
    /\ UNCHANGED <<rowVars, prodVars, histVars>>

\* The process dies, or its ReleaseClaim fails: nothing it knew survives.
Crash(r) ==
    /\ Held(r) # {} /\ faults < MaxFaults
    /\ faults' = faults + 1
    /\ Drop(r)
    /\ UNCHANGED <<rowVars, prodVars, histVars>>

\* Seeded fault: the prune looks at the age of a row alone.
PrunableByAge(m) == status[m] \in {"pending", "sent", "dead"}
Prunable(m) == status[m] \in {"sent", "dead"}

\* Dispatcher.PruneSettled, for the settled rows past their retention.
Prune(S) ==
    /\ S # {} /\ \A m \in S : Prunable(m)
    /\ status' = [m \in Messages |-> IF m \in S THEN "pruned" ELSE status[m]]
    /\ key' = [m \in Messages |-> IF m \in S THEN NoKey ELSE key[m]]
    /\ UNCHANGED <<attempts, wait, passVars, prodVars, histVars, faults>>

Minus1(n) == IF n = 0 THEN 0 ELSE n - 1

\* Settings.withDefaults keeps BatchBudget inside the lease; a Punctual system
\* lets no lease run out while its pass still holds something.
Tick ==
    /\ \/ \E m \in Messages : wait[m] > 0
       \/ \E r \in Runners : lease[r] > 0
    /\ Punctual => \A r \in Runners : Held(r) # {} => lease[r] > 1
    /\ wait' = [m \in Messages |-> Minus1(wait[m])]
    /\ lease' = [r \in Runners |-> Minus1(lease[r])]
    /\ UNCHANGED <<status, attempts, key, claim, reached, sending, outcome, prodVars, histVars, faults>>

-----------------------------------------------------------------------------
StartPass(r) == \E S \in SUBSET Due : Claim(r, S)
Deliver(r)   == (\E m \in Messages, o \in Outcomes : Send(r, m, o)) \/ Settle(r)
Fault(r)     == CutShort(r) \/ SettleFails(r) \/ Crash(r)

Next ==
    \/ \E m \in Messages, k \in Keys \cup {NoKey} : EnqueueInsert(m, k)
    \/ \E k \in Keys : EnqueueConflict(k) \/ EnqueueResolve(k)
    \/ \E r \in Runners : StartPass(r) \/ Deliver(r) \/ OutOfBudget(r) \/ Fault(r)
    \/ \E S \in SUBSET Messages : Prune(S)
    \/ Tick

Spec == Init /\ [][Next]_vars

\* Time passes; some process is elected and starts passes; a pass that is under
\* way goes on unless the process dies.
Fairness ==
    /\ WF_vars(Tick)
    /\ WF_vars(\E r \in Runners : StartPass(r))
    /\ \A r \in Runners : WF_vars(Deliver(r))

FairSpec == Spec /\ Fairness

-----------------------------------------------------------------------------
(***************************************************************************)
(* What must hold however late a pass is.                                  *)
(***************************************************************************)
\* The fate a pass knows is that of a message of its own batch.
PassOK == \A r \in Runners : outcome[r] # "none" => sending[r] \in Held(r)

\* Two passes that hold one message carry different attempt counts, and none
\* above the row's: what makes ReleaseClaim's attempts guard free of ABA.
ClaimsDistinct ==
    \A m \in Messages, r \in Runners :
        /\ claim[r][m] <= attempts[m]
        /\ \A q \in Runners \ {r} : claim[r][m] = claim[q][m] => claim[r][m] = 0

\* The state machine of outbox_messages: a settled row is final, and a row is
\* deleted only once settled.  A late outcome of a stale pass changes neither.
SettledIsFinal ==
    [][\A m \in Messages :
          /\ status[m] \in {"sent", "dead"} => status'[m] \in {status[m], "pruned"}
          /\ status[m] = "pending" => status'[m] \in {"pending", "sent", "dead"}
          /\ status[m] = "pruned" => status'[m] = "pruned"
          /\ status[m] # "pending" /\ status[m] # "absent"
                => wait'[m] <= wait[m] /\ attempts'[m] = attempts[m]]_rowVars

\* A row says sent only if the transport took the message (Store.MarkSent).
SentWasAccepted == \A m \in Messages : status[m] = "sent" => m \in accepted

\* A refund takes back only the charge of the claim that is handed back.
RefundsOwnCharge ==
    [][\A m \in Messages : attempts'[m] < attempts[m] =>
          \E r \in Runners :
             /\ claim[r][m] = attempts[m] /\ claim'[r][m] = 0
             /\ \A q \in Runners : claim'[q][m] <= attempts'[m]]_<<attempts, claim>>

\* A tenant is told of every message given up on that a user caused (MarkDead).
DeadIsAudited ==
    \A m \in Actored : status[m] = "dead" => m \in undeliverable

(***************************************************************************)
(* What the lease adds as long as passes end inside it.                    *)
(***************************************************************************)
\* No message is in two batches at once, and one in a batch is still pending.
OneHolder ==
    Punctual => \A r \in Runners, m \in Messages : claim[r][m] # 0 =>
        /\ status[m] = "pending" /\ claim[r][m] = attempts[m]
        /\ \A q \in Runners \ {r} : claim[q][m] = 0

\* "Commits with the fact, or neither does": an undeliverable entry is never
\* about a message that the queue says was sent (Store.MarkDead).
UndeliverableIsDead ==
    \A m \in undeliverable : status[m] \in {"dead", "pruned"}

PunctualUndeliverableIsDead == Punctual => UndeliverableIsDead

\* A message is given up on for its attempts only if deliver really tried it,
\* less the attempts that faults consumed: an unreached message is not charged.
ExhaustedWasTried ==
    Punctual => \A m \in exhausted : tries[m] + faults >= MaxAttempts

(***************************************************************************)
(* The promise to producers.                                               *)
(***************************************************************************)
FateOf ==
    [m \in Messages |->
        CASE status[m] = "absent"  -> "unborn"
          [] status[m] = "pending" -> "owed"
          [] status[m] = "sent"    -> "delivered"
          [] status[m] = "dead"    -> "abandoned"
          [] status[m] = "pruned"  -> "forgotten"]

Promise == INSTANCE OutboxPromise WITH fate <- FateOf, taken <- accepted

\* However late, lost or repeated its steps, the queue keeps OutboxPromise
\* (package doc of outbox.go: nothing owed is lost, a redelivery is possible).
KeepsPromise == Promise!Spec

\* Everything owed is settled one day (liveness of the delivery loop).
EverySettles ==
    \A m \in Messages : status[m] = "pending" ~> status[m] # "pending"

\* And what is given up on has been tried (the claim charges a whole batch at once).
EverySettlesTried == EverySettles /\ []ExhaustedWasTried

=============================================================================
