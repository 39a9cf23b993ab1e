--------------------------- MODULE PlatformProofs ---------------------------
(***************************************************************************)
(* Theorems about four services of src/platform: the outbox, for any set   *)
(* of messages, runners and keys; the front door, for any number of        *)
(* requests and addresses, any budget and any gate; the stream, which      *)
(* keeps what was recorded of them, for any settings and number of months; *)
(* and the attribution of callers, whatever headers they may send.         *)
(***************************************************************************)
EXTENDS Outbox, Frontdoor, Stream, Attribution, FiniteSetTheorems, SequenceTheorems, TLAPS

(***************************************************************************)
(* The outbox.                                                             *)
(***************************************************************************)
USE DEF Statuses, Outcomes, Receipts

\* The variables keep their types: in particular a refund never takes an
\* attempt count below zero (Store.ReleaseClaim).
LEMMA InitTypeOK == Init => TypeOK /\ PassOK
  BY OutboxAssumption DEF Init, TypeOK, PassOK, NoClaims

LEMMA NextTypeOK == TypeOK /\ PassOK /\ [Next]_vars => TypeOK' /\ PassOK'
<1> SUFFICES ASSUME TypeOK, PassOK, [Next]_vars PROVE TypeOK' /\ PassOK'
  OBVIOUS
<1> USE OutboxAssumption DEF TypeOK, PassOK, Held
<1>1. ASSUME NEW m \in Messages, NEW k \in Keys \cup {NoKey}, EnqueueInsert(m, k)
      PROVE  TypeOK' /\ PassOK'
  BY <1>1 DEF EnqueueInsert, passVars, prodVars, histVars
<1>2. ASSUME NEW k \in Keys, EnqueueConflict(k) PROVE TypeOK' /\ PassOK'
  BY <1>2 DEF EnqueueConflict, rowVars, passVars, histVars
<1>3. ASSUME NEW k \in Keys, EnqueueResolve(k) PROVE TypeOK' /\ PassOK'
  BY <1>3 DEF EnqueueResolve, rowVars, passVars, histVars
<1>4. ASSUME NEW r \in Runners, NEW S \in SUBSET Due, Claim(r, S) PROVE TypeOK' /\ PassOK'
  BY <1>4 DEF Claim, HiddenFor, prodVars, histVars
<1>5. ASSUME NEW r \in Runners, NEW m \in Messages, NEW o \in Outcomes, Send(r, m, o)
      PROVE  TypeOK' /\ PassOK'
  BY <1>5 DEF Send, rowVars, prodVars
<1>6. ASSUME NEW r \in Runners, MarkSent(r) PROVE TypeOK' /\ PassOK'
  BY <1>6 DEF MarkSent, Forget, prodVars, histVars
<1>7. ASSUME NEW r \in Runners, MarkDead(r) PROVE TypeOK' /\ PassOK'
  BY <1>7, ZenonT(120) DEF MarkDead, Forget, Entry, prodVars
<1>8. ASSUME NEW r \in Runners, Reschedule(r) PROVE TypeOK' /\ PassOK'
  BY <1>8 DEF Reschedule, Forget, prodVars, histVars
<1>9. ASSUME NEW r \in Runners, OutOfBudget(r) \/ CutShort(r) PROVE TypeOK' /\ PassOK'
  <2>1. Release(r) /\ accepted' \subseteq Messages /\ faults' \in Nat
    BY <1>9 DEF OutOfBudget, CutShort, Held
  <2>2. attempts' \in [Messages -> Nat]
    BY <2>1 DEF Release, Released, Refund, Held
  <2>3. QED
    BY <2>1, <2>2 DEF Release, Drop, NoClaims, prodVars
<1>10. ASSUME NEW r \in Runners, SettleFails(r) PROVE TypeOK' /\ PassOK'
  BY <1>10 DEF SettleFails, Forget, rowVars, prodVars, histVars
<1>11. ASSUME NEW r \in Runners, Crash(r) PROVE TypeOK' /\ PassOK'
  BY <1>11 DEF Crash, Drop, NoClaims, rowVars, prodVars, histVars
<1>12. ASSUME NEW S \in SUBSET Messages, Prune(S) PROVE TypeOK' /\ PassOK'
  BY <1>12 DEF Prune, passVars, prodVars, histVars
<1>13. CASE Tick
  BY <1>13 DEF Tick, Minus1, prodVars, histVars
<1>14. CASE UNCHANGED vars
  BY <1>14 DEF vars, rowVars, passVars, prodVars, histVars
<1> HIDE DEF TypeOK, PassOK, Held
<1>15. QED
  BY <1>1, <1>2, <1>3, <1>4, <1>5, <1>6, <1>7, <1>8, <1>9, <1>10, <1>11, <1>12, <1>13, <1>14, SMTT(60)
  DEF Next, StartPass, Deliver, Settle, Fault

THEOREM TypeCorrect == Spec => []TypeOK
<1>1. QED
  BY InitTypeOK, NextTypeOK, PTL DEF Spec

-----------------------------------------------------------------------------
(***************************************************************************)
(* However late a pass is.  LateInv adds to the claims' distinctness that  *)
(* a pass which believes in an acceptance saw one.                         *)
(***************************************************************************)
AcceptanceSeen == \A r \in Runners : outcome[r] = "accepted" => sending[r] \in accepted

LateInv == ClaimsDistinct /\ AcceptanceSeen /\ SentWasAccepted /\ DeadIsAudited

LEMMA InitLateInv == Init => LateInv
<1> SUFFICES ASSUME Init PROVE LateInv
  OBVIOUS
<1>1. ClaimsDistinct
  BY DEF Init, ClaimsDistinct, NoClaims
<1>2. AcceptanceSeen /\ SentWasAccepted /\ DeadIsAudited
  BY OutboxAssumption DEF Init, AcceptanceSeen, SentWasAccepted, DeadIsAudited
<1>3. QED
  BY <1>1, <1>2 DEF LateInv

\* What an amount that is not yet reached leaves room for.
LEMMA BelowByOne ==
  ASSUME NEW a \in Nat, NEW c \in Nat, c <= a, c # a
  PROVE  c <= a - 1
  OBVIOUS

LEMMA NextClaimsDistinct ==
  TypeOK /\ PassOK /\ ClaimsDistinct /\ [Next]_vars => ClaimsDistinct'
<1> SUFFICES ASSUME TypeOK, PassOK, ClaimsDistinct, [Next]_vars PROVE ClaimsDistinct'
  OBVIOUS
<1> USE OutboxAssumption DEF TypeOK, ClaimsDistinct
<1>1. ASSUME NEW r \in Runners, NEW S \in SUBSET Due, Claim(r, S) PROVE ClaimsDistinct'
  BY <1>1 DEF Claim
<1>2. ASSUME NEW r \in Runners, Forget(r), UNCHANGED attempts, sending[r] \in Messages
      PROVE  ClaimsDistinct'
  BY <1>2 DEF Forget
<1>3. ASSUME NEW r \in Runners, Settle(r) \/ SettleFails(r) PROVE ClaimsDistinct'
  <2>1. Forget(r) /\ UNCHANGED attempts /\ outcome[r] # "none"
    BY <1>3 DEF Settle, MarkSent, MarkDead, Reschedule, SettleFails, Delivered, GivesUp, rowVars
  <2>2. QED
    BY <2>1, <1>2 DEF PassOK, Held
<1>4. ASSUME NEW r \in Runners, Release(r) PROVE ClaimsDistinct'
  <2>1. claim' = [claim EXCEPT ![r] = [m \in Messages |-> 0]]
    BY <1>4 DEF Release, Drop, NoClaims
  <2>2. ASSUME NEW m \in Messages, NEW q \in Runners \ {r} PROVE claim[q][m] <= attempts'[m]
    <3>1. CASE m \in Released(r)
      <4>1. attempts'[m] = attempts[m] - 1
        BY <3>1, <1>4 DEF Release, Refund
      <4>2. claim[q][m] <= attempts[m] /\ claim[q][m] # attempts[m]
        BY <3>1 DEF Released, Held
      <4>3. claim[q][m] \in Nat /\ attempts[m] \in Nat
        OBVIOUS
      <4>4. claim[q][m] <= attempts[m] - 1
        BY <4>2, <4>3, BelowByOne
      <4>5. QED
        BY <4>1, <4>4
    <3>2. CASE m \notin Released(r)
      BY <3>2, <1>4 DEF Release
    <3>3. QED
      BY <3>1, <3>2
  <2>3. ASSUME NEW m \in Messages PROVE attempts'[m] \in Nat /\ claim'[r][m] = 0
    <3>1. m \in Released(r) => attempts[m] # 0
      BY DEF Released, Held
    <3>2. QED
      BY <3>1, <2>1, <1>4 DEF Release, Refund
  <2>4. \A m \in Messages, q \in Runners \ {r} : claim'[q][m] = claim[q][m]
    BY <2>1
  <2>5. ASSUME NEW m \in Messages, NEW q \in Runners
        PROVE  /\ claim'[q][m] <= attempts'[m]
               /\ \A p \in Runners \ {q} : claim'[q][m] = claim'[p][m] => claim'[q][m] = 0
    <3>1. CASE q = r
      BY <3>1, <2>3, <2>4
    <3>2. CASE q # r
      <4>1. claim'[q][m] = claim[q][m]
        BY <3>2, <2>4
      <4>2. \A p \in Runners \ {q} : p # r => claim'[p][m] = claim[p][m]
        BY <2>4
      <4>3. QED
        BY <3>2, <4>1, <4>2, <2>2, <2>3
    <3>3. QED
      BY <3>1, <3>2
  <2>6. QED
    BY <2>5
<1>5. ASSUME NEW r \in Runners, Crash(r) PROVE ClaimsDistinct'
  BY <1>5 DEF Crash, Drop, NoClaims, rowVars
<1>6. ASSUME UNCHANGED <<attempts, claim>> PROVE ClaimsDistinct'
  BY <1>6
<1>7. QED
  BY <1>1, <1>3, <1>4, <1>5, <1>6
  DEF Next, StartPass, Deliver, Fault, OutOfBudget, CutShort, EnqueueInsert, EnqueueConflict,
      EnqueueResolve, Send, Prune, Tick, vars, rowVars, passVars

LEMMA NextLateInv == TypeOK /\ PassOK /\ LateInv /\ [Next]_vars => LateInv'
<1> SUFFICES ASSUME TypeOK, PassOK, LateInv, [Next]_vars PROVE LateInv'
  OBVIOUS
<1> USE DEF TypeOK, AcceptanceSeen, SentWasAccepted, DeadIsAudited
<1>1. ClaimsDistinct'
  BY NextClaimsDistinct DEF LateInv
<1> DEFINE Rest == AcceptanceSeen /\ SentWasAccepted /\ DeadIsAudited
<1>2. ASSUME NEW m \in Messages, NEW k \in Keys \cup {NoKey}, EnqueueInsert(m, k) PROVE Rest'
  BY <1>2 DEF LateInv, EnqueueInsert, passVars, histVars
<1>3. ASSUME NEW r \in Runners, NEW m \in Messages, NEW o \in Outcomes, Send(r, m, o) PROVE Rest'
  BY <1>3 DEF LateInv, Send, rowVars
<1>4. ASSUME NEW r \in Runners, MarkSent(r) PROVE Rest'
  BY <1>4 DEF LateInv, MarkSent, Delivered, Forget, histVars
<1>5. ASSUME NEW r \in Runners, MarkDead(r) PROVE Rest'
  BY <1>5 DEF LateInv, MarkDead, Entry, Forget
<1>6. ASSUME NEW r \in Runners, Reschedule(r) \/ SettleFails(r) PROVE Rest'
  BY <1>6 DEF LateInv, Reschedule, SettleFails, Forget, rowVars, histVars
<1>7. ASSUME NEW r \in Runners, OutOfBudget(r) \/ CutShort(r) PROVE Rest'
  BY <1>7 DEF LateInv, OutOfBudget, CutShort, Release, Drop
<1>8. ASSUME NEW r \in Runners, Crash(r) PROVE Rest'
  BY <1>8 DEF LateInv, Crash, Drop, rowVars, histVars
<1>9. ASSUME NEW S \in SUBSET Messages, Prune(S) PROVE Rest'
  <2>1. \A m \in Messages : status'[m] \in {status[m], "pruned"}
    BY <1>9 DEF Prune
  <2>2. QED
    BY <1>9, <2>1, OutboxAssumption DEF LateInv, Prune, passVars, histVars
<1>10. ASSUME UNCHANGED <<status, sending, outcome, histVars>> PROVE Rest'
  BY <1>10 DEF LateInv, histVars
<1>11. Rest'
  BY <1>2, <1>3, <1>4, <1>5, <1>6, <1>7, <1>8, <1>9, <1>10
  DEF Next, StartPass, Deliver, Settle, Fault, EnqueueConflict, EnqueueResolve, Claim, Tick,
      vars, rowVars, passVars
<1>12. QED
  BY <1>1, <1>11 DEF LateInv

\* A late ReleaseClaim cannot confuse two claims of one message, a row says sent
\* only after an acceptance, and every dead row a user caused was audited.
THEOREM LateCorrect == Spec => [](ClaimsDistinct /\ SentWasAccepted /\ DeadIsAudited)
<1>1. LateInv => ClaimsDistinct /\ SentWasAccepted /\ DeadIsAudited
  BY DEF LateInv
<1>2. QED
  BY <1>1, InitTypeOK, NextTypeOK, InitLateInv, NextLateInv, PTL DEF Spec

-----------------------------------------------------------------------------
(***************************************************************************)
(* The action properties.  Both follow from what a single step may do in a *)
(* state that satisfies the invariants above.                              *)
(***************************************************************************)
LEMMA StepSettledIsFinal ==
  ASSUME TypeOK, PassOK, [Next]_vars, NEW m \in Messages
  PROVE  /\ status[m] \in {"sent", "dead"} => status'[m] \in {status[m], "pruned"}
         /\ status[m] = "pending" => status'[m] \in {"pending", "sent", "dead"}
         /\ status[m] = "pruned" => status'[m] = "pruned"
         /\ status[m] # "pending" /\ status[m] # "absent"
               => wait'[m] <= wait[m] /\ attempts'[m] = attempts[m]
<1> DEFINE Final == /\ status[m] \in {"sent", "dead"} => status'[m] \in {status[m], "pruned"}
                    /\ status[m] = "pending" => status'[m] \in {"pending", "sent", "dead"}
                    /\ status[m] = "pruned" => status'[m] = "pruned"
                    /\ status[m] # "pending" /\ status[m] # "absent"
                          => wait'[m] <= wait[m] /\ attempts'[m] = attempts[m]
<1> USE DEF TypeOK, Open
<1>1. ASSUME NEW n \in Messages, NEW k \in Keys \cup {NoKey}, EnqueueInsert(n, k) PROVE Final
  BY <1>1 DEF EnqueueInsert
<1>2. ASSUME NEW r \in Runners, NEW S \in SUBSET Due, Claim(r, S) PROVE Final
  BY <1>2 DEF Claim, Due
<1>3. ASSUME NEW r \in Runners, MarkSent(r) PROVE Final
  BY <1>3 DEF MarkSent
<1>4. ASSUME NEW r \in Runners, MarkDead(r) PROVE Final
  BY <1>4 DEF MarkDead
<1>5. ASSUME NEW r \in Runners, Reschedule(r) PROVE Final
  BY <1>5 DEF Reschedule
<1>6. ASSUME NEW r \in Runners, Release(r) PROVE Final
  BY <1>6 DEF Release, Released
<1>7. ASSUME NEW S \in SUBSET Messages, Prune(S) PROVE Final
  BY <1>7 DEF Prune, Prunable
<1>8. CASE Tick
  BY <1>8 DEF Tick, Minus1
<1>9. ASSUME UNCHANGED <<status, attempts, wait>> PROVE Final
  BY <1>9
<1>10. QED
  BY <1>1, <1>2, <1>3, <1>4, <1>5, <1>6, <1>7, <1>8, <1>9
  DEF Next, StartPass, Deliver, Settle, Fault, OutOfBudget, CutShort, EnqueueConflict,
      EnqueueResolve, Send, SettleFails, Crash, vars, rowVars

\* The rows of outbox_messages only move forward: no outcome that arrives late
\* reopens or rewrites a settled row, and only settled rows are deleted.
THEOREM SettledStaysSettled == Spec => SettledIsFinal
<1>1. TypeOK /\ PassOK /\ [Next]_vars
        => [\A m \in Messages :
              /\ status[m] \in {"sent", "dead"} => status'[m] \in {status[m], "pruned"}
              /\ status[m] = "pending" => status'[m] \in {"pending", "sent", "dead"}
              /\ status[m] = "pruned" => status'[m] = "pruned"
              /\ status[m] # "pending" /\ status[m] # "absent"
                    => wait'[m] <= wait[m] /\ attempts'[m] = attempts[m]]_rowVars
  BY StepSettledIsFinal
<1>2. QED
  BY <1>1, InitTypeOK, NextTypeOK, PTL DEF Spec, SettledIsFinal

LEMMA StepRefundsOwnCharge ==
  ASSUME TypeOK, PassOK, ClaimsDistinct, [Next]_vars,
         NEW m \in Messages, attempts'[m] < attempts[m]
  PROVE  \E r \in Runners :
            /\ claim[r][m] = attempts[m] /\ claim'[r][m] = 0
            /\ \A q \in Runners : claim'[q][m] <= attempts'[m]
<1> USE DEF TypeOK
<1>1. PICK r \in Runners : Release(r)
  <2>1. ASSUME NEW r \in Runners, NEW S \in SUBSET Due, Claim(r, S) PROVE FALSE
    BY <2>1 DEF Claim
  <2>2. ASSUME UNCHANGED attempts PROVE FALSE
    BY <2>2
  <2>3. QED
    BY <2>1, <2>2
    DEF Next, StartPass, Deliver, Settle, MarkSent, MarkDead, Reschedule, Fault, OutOfBudget,
        CutShort, EnqueueInsert, EnqueueConflict, EnqueueResolve, Send, SettleFails, Crash,
        Prune, Tick, vars, rowVars
<1>2. m \in Released(r)
  BY <1>1 DEF Release
<1>3. claim[r][m] = attempts[m] /\ claim'[r][m] = 0
  BY <1>1, <1>2 DEF Release, Released, Drop, NoClaims
<1>4. ClaimsDistinct'
  BY NextClaimsDistinct
<1>5. QED
  BY <1>3, <1>4 DEF ClaimsDistinct

\* Store.ReleaseClaim: a runner that comes back late takes back the charge of
\* its own claim or none, never the one another runner is working under.
THEOREM RefundIsOwn == Spec => RefundsOwnCharge
<1>1. TypeOK /\ PassOK /\ LateInv /\ [Next]_vars
        => [\A m \in Messages : attempts'[m] < attempts[m] =>
              \E r \in Runners :
                 /\ claim[r][m] = attempts[m] /\ claim'[r][m] = 0
                 /\ \A q \in Runners : claim'[q][m] <= attempts'[m]]_<<attempts, claim>>
  BY StepRefundsOwnCharge DEF LateInv
<1>2. QED
  BY <1>1, InitTypeOK, NextTypeOK, InitLateInv, NextLateInv, PTL DEF Spec, RefundsOwnCharge

-----------------------------------------------------------------------------
(***************************************************************************)
(* Passes that end inside their lease.  OneHolder is not inductive: that a *)
(* message becomes due only after its holder's lease has run out, and that *)
(* a holder's lease has not, is what keeps a second claim away from it.    *)
(***************************************************************************)
LeaseCovers ==
    \A r \in Runners, m \in Messages : claim[r][m] # 0 =>
        /\ status[m] = "pending" /\ claim[r][m] = attempts[m]
        /\ \A q \in Runners \ {r} : claim[q][m] = 0
        /\ lease[r] > 0 /\ wait[m] >= lease[r]

PunctualInv == LeaseCovers /\ UndeliverableIsDead

LEMMA InitPunctualInv == Init => PunctualInv
  BY DEF Init, PunctualInv, LeaseCovers, UndeliverableIsDead, NoClaims

LEMMA NextPunctualInv ==
  Punctual /\ TypeOK /\ PassOK /\ PunctualInv /\ [Next]_vars => PunctualInv'
<1> SUFFICES ASSUME Punctual, TypeOK, PassOK, PunctualInv, [Next]_vars PROVE PunctualInv'
  OBVIOUS
<1> USE OutboxAssumption DEF TypeOK, PunctualInv, LeaseCovers, UndeliverableIsDead
<1>1. ASSUME NEW m \in Messages, NEW k \in Keys \cup {NoKey}, EnqueueInsert(m, k)
      PROVE  PunctualInv'
  <2>1. \A r \in Runners : claim[r][m] = 0
    BY <1>1 DEF EnqueueInsert
  <2>2. QED
    BY <1>1, <2>1 DEF EnqueueInsert, passVars, histVars
<1>2. ASSUME NEW r \in Runners, NEW S \in SUBSET Due, Claim(r, S) PROVE PunctualInv'
  <2>1. \A m \in S : m \in Messages /\ status[m] = "pending" /\ \A q \in Runners : claim[q][m] = 0
    BY DEF Due
  <2>2. claim'[r] = [m \in Messages |-> IF m \in S THEN attempts[m] + 1 ELSE 0]
    BY <1>2 DEF Claim
  <2>3. \A q \in Runners \ {r} : claim'[q] = claim[q] /\ lease'[q] = lease[q]
    BY <1>2 DEF Claim
  <2>4. \A m \in Messages \ S : attempts'[m] = attempts[m] /\ wait'[m] = wait[m]
    BY <1>2 DEF Claim
  <2>5. \A m \in S : attempts'[m] = attempts[m] + 1 /\ wait'[m] = Lease
    BY <1>2 DEF Claim, HiddenFor, Due
  <2>6. status' = status /\ undeliverable' = undeliverable /\ lease'[r] = Lease
    BY <1>2 DEF Claim, histVars
  <2>7. ASSUME NEW m \in S
        PROVE  /\ claim'[r][m] = attempts'[m] /\ wait'[m] = lease'[r] /\ lease'[r] > 0
               /\ status'[m] = "pending" /\ \A q \in Runners \ {r} : claim'[q][m] = 0
    BY <2>1, <2>2, <2>3, <2>5, <2>6
  <2>8. ASSUME NEW m \in Messages \ S
        PROVE  /\ claim'[r][m] = 0
               /\ attempts'[m] = attempts[m] /\ wait'[m] = wait[m] /\ status'[m] = status[m]
    BY <2>2, <2>4, <2>6
  <2>9. LeaseCovers'
    <3>1. SUFFICES ASSUME NEW q \in Runners, NEW m \in Messages, claim'[q][m] # 0
                   PROVE  /\ status'[m] = "pending" /\ claim'[q][m] = attempts'[m]
                          /\ \A p \in Runners \ {q} : claim'[p][m] = 0
                          /\ lease'[q] > 0 /\ wait'[m] >= lease'[q]
      OBVIOUS
    <3>2. CASE m \in S
      BY <3>1, <3>2, <2>6, <2>7
    <3>3. CASE m \notin S
      <4>1. q # r /\ claim'[r][m] = 0
        BY <3>1, <3>3, <2>8
      <4>2. claim[q][m] # 0 /\ claim'[q][m] = claim[q][m] /\ lease'[q] = lease[q]
        BY <3>1, <4>1, <2>3
      <4>3. \A p \in Runners \ {q} : claim'[p][m] = 0
        BY <4>1, <4>2, <2>3
      <4>4. QED
        BY <3>3, <4>2, <4>3, <2>8
    <3>4. QED
      BY <3>2, <3>3
  <2>10. QED
    BY <2>6, <2>9
<1>3. ASSUME NEW r \in Runners, NEW m \in Messages, NEW o \in Outcomes, Send(r, m, o)
      PROVE  PunctualInv'
  BY <1>3 DEF Send, rowVars
<1>4. ASSUME NEW r \in Runners, outcome[r] # "none"
      PROVE  sending[r] \in Messages /\ claim[r][sending[r]] # 0
  BY <1>4 DEF PassOK, Held
<1>5. ASSUME NEW r \in Runners, MarkSent(r) PROVE PunctualInv'
  BY <1>5, <1>4 DEF MarkSent, Delivered, Forget, histVars, Open
<1>6. ASSUME NEW r \in Runners, MarkDead(r) PROVE PunctualInv'
  <2>1. sending[r] \in Messages /\ claim[r][sending[r]] # 0
    BY <1>6, <1>4 DEF MarkDead, GivesUp
  <2>2. status' = [status EXCEPT ![sending[r]] = "dead"]
    BY <1>6, <2>1, ZenonT(120) DEF MarkDead, Open
  <2>3. UndeliverableIsDead'
    BY <1>6, <2>1, <2>2 DEF MarkDead, Entry
  <2>4. LeaseCovers'
    BY <1>6, <2>1, <2>2 DEF MarkDead, Forget
  <2>5. QED
    BY <2>3, <2>4
<1>7. ASSUME NEW r \in Runners, Reschedule(r) PROVE PunctualInv'
  BY <1>7, <1>4 DEF Reschedule, Forget, histVars
<1>8. ASSUME NEW r \in Runners, Release(r) PROVE PunctualInv'
  <2>1. claim'[r] = NoClaims /\ \A q \in Runners \ {r} : claim'[q] = claim[q]
    BY <1>8 DEF Release, Drop
  <2>2. \A m \in Messages \ Held(r) : attempts'[m] = attempts[m] /\ wait'[m] = wait[m]
    BY <1>8 DEF Release, Released
  <2>3. \A m \in Held(r), q \in Runners \ {r} : claim[q][m] = 0
    BY DEF Held
  <2>4. UNCHANGED <<status, undeliverable, lease>>
    BY <1>8 DEF Release, Drop
  <2>5. ASSUME NEW q \in Runners, NEW m \in Messages, claim'[q][m] # 0
        PROVE  q # r /\ claim'[q][m] = claim[q][m] /\ m \notin Held(r)
    BY <2>1, <2>3, <2>5 DEF NoClaims
  <2>6. LeaseCovers'
    BY <2>1, <2>2, <2>4, <2>5 DEF NoClaims
  <2>7. QED
    BY <2>4, <2>6
<1>9. ASSUME NEW r \in Runners, SettleFails(r) PROVE PunctualInv'
  BY <1>9, <1>4 DEF SettleFails, Forget, rowVars, histVars
<1>10. ASSUME NEW r \in Runners, Crash(r) PROVE PunctualInv'
  BY <1>10 DEF Crash, Drop, NoClaims, rowVars, histVars
<1>11. ASSUME NEW S \in SUBSET Messages, Prune(S) PROVE PunctualInv'
  BY <1>11 DEF Prune, Prunable, passVars, histVars
<1>12. CASE Tick
  <2>1. \A r \in Runners, m \in Messages : claim[r][m] # 0 => lease[r] > 1
    BY <1>12 DEF Tick, Held
  <2>2. status' = status /\ attempts' = attempts /\ claim' = claim /\ undeliverable' = undeliverable
    BY <1>12 DEF Tick, histVars
  <2>3. \A r \in Runners : lease[r] > 1 => lease'[r] = lease[r] - 1
    BY <1>12 DEF Tick, Minus1
  <2>4. \A m \in Messages : wait[m] > 0 => wait'[m] = wait[m] - 1
    BY <1>12 DEF Tick, Minus1
  <2>5. LeaseCovers'
    <3>1. SUFFICES ASSUME NEW r \in Runners, NEW m \in Messages, claim[r][m] # 0
                   PROVE  lease'[r] > 0 /\ wait'[m] >= lease'[r]
      BY <2>2
    <3>2. lease[r] > 1 /\ wait[m] >= lease[r] /\ lease[r] \in Nat /\ wait[m] \in Nat
      BY <3>1, <2>1
    <3>3. lease'[r] = lease[r] - 1 /\ wait'[m] = wait[m] - 1
      BY <3>2, <2>3, <2>4
    <3>4. QED
      BY <3>2, <3>3
  <2>6. QED
    BY <2>2, <2>5
<1>13. ASSUME UNCHANGED <<rowVars, claim, lease, undeliverable>> PROVE PunctualInv'
  BY <1>13 DEF rowVars
<1> HIDE DEF TypeOK, PunctualInv, LeaseCovers, UndeliverableIsDead
<1>14. QED
  BY <1>1, <1>2, <1>3, <1>5, <1>6, <1>7, <1>8, <1>9, <1>10, <1>11, <1>12, <1>13, SMTT(60)
  DEF Next, StartPass, Deliver, Settle, Fault, OutOfBudget, CutShort, EnqueueConflict,
      EnqueueResolve, vars, passVars, histVars

\* Settings.withDefaults keeps a pass inside its lease: then no message is in
\* two batches, and no undeliverable entry is about a message that was sent.
THEOREM LeaseIsEnough == Spec => [](OneHolder /\ PunctualUndeliverableIsDead)
<1> DEFINE IInv == TypeOK /\ PassOK /\ (Punctual => PunctualInv)
<1>1. Init => IInv
  BY InitTypeOK, InitPunctualInv
<1>2. IInv /\ [Next]_vars => IInv'
  BY NextTypeOK, NextPunctualInv
<1>3. IInv => OneHolder /\ PunctualUndeliverableIsDead
  BY DEF PunctualInv, LeaseCovers, OneHolder, PunctualUndeliverableIsDead
<1>4. QED
  BY <1>1, <1>2, <1>3, PTL DEF Spec

-----------------------------------------------------------------------------
(***************************************************************************)
(* The refinement.  A pass only ever holds messages that were enqueued, so *)
(* what the transport takes late is still something that was once owed.    *)
(***************************************************************************)
HeldIsQueued == \A r \in Runners, m \in Messages : claim[r][m] # 0 => status[m] # "absent"

LEMMA InitHeldIsQueued == Init => HeldIsQueued
  BY DEF Init, HeldIsQueued, NoClaims

LEMMA NextHeldIsQueued ==
  TypeOK /\ PassOK /\ HeldIsQueued /\ [Next]_vars => HeldIsQueued'
<1> SUFFICES ASSUME TypeOK, PassOK, HeldIsQueued, [Next]_vars PROVE HeldIsQueued'
  OBVIOUS
<1> USE DEF TypeOK, HeldIsQueued
<1>1. \A m \in Messages : status[m] # "absent" => status'[m] # "absent"
  BY StepSettledIsFinal
<1>2. ASSUME NEW r \in Runners, NEW S \in SUBSET Due, Claim(r, S) PROVE HeldIsQueued'
  BY <1>2 DEF Claim, Due
<1>3. ASSUME NEW r \in Runners, Forget(r) PROVE HeldIsQueued'
  BY <1>3, <1>1 DEF Forget
<1>4. ASSUME NEW r \in Runners, Drop(r) PROVE HeldIsQueued'
  BY <1>4, <1>1 DEF Drop, NoClaims
<1>5. ASSUME UNCHANGED claim PROVE HeldIsQueued'
  BY <1>5, <1>1
<1>6. QED
  BY <1>2, <1>3, <1>4, <1>5, ZenonT(120)
  DEF Next, StartPass, Deliver, Settle, MarkSent, MarkDead, Reschedule, Fault, OutOfBudget,
      CutShort, Release, SettleFails, Crash, EnqueueInsert, EnqueueConflict, EnqueueResolve,
      Send, Prune, Tick, vars, passVars

\* FateOf reads the status column and nothing else.
LEMMA FateOfUpdate ==
  ASSUME TypeOK, TypeOK', NEW m \in Messages, NEW s \in Statuses,
         status' = [status EXCEPT ![m] = s]
  PROVE  FateOf' = [FateOf EXCEPT ![m] = CASE s = "absent"  -> "unborn"
                                           [] s = "pending" -> "owed"
                                           [] s = "sent"    -> "delivered"
                                           [] s = "dead"    -> "abandoned"
                                           [] s = "pruned"  -> "forgotten"]
  BY DEF TypeOK, FateOf

LEMMA StepPromise ==
  ASSUME TypeOK, PassOK, LateInv, HeldIsQueued, TypeOK', [Next]_vars
  PROVE  [Promise!Next]_<<FateOf, accepted>>
<1> DEFINE Kept == [Promise!Next]_<<FateOf, accepted>>
<1> USE DEF TypeOK
<1>1. \A m \in Messages :
        /\ status[m] = "absent"  <=> FateOf[m] = "unborn"
        /\ status[m] = "pending" <=> FateOf[m] = "owed"
        /\ status[m] \in {"sent", "dead"} <=> FateOf[m] \in {"delivered", "abandoned"}
  BY DEF FateOf
<1>2. ASSUME UNCHANGED <<status, accepted>> PROVE Kept
  BY <1>2 DEF FateOf
<1>3. ASSUME NEW m \in Messages, status[m] # "absent", accepted' = accepted \cup {m},
             UNCHANGED status
      PROVE  Kept
  <2>1. UNCHANGED FateOf
    BY <1>3 DEF FateOf
  <2>2. Promise!Take(m)
    BY <1>1, <1>3, <2>1 DEF Promise!Take
  <2>3. QED
    BY <2>2 DEF Promise!Next
<1>4. ASSUME NEW m \in Messages, NEW k \in Keys \cup {NoKey}, EnqueueInsert(m, k) PROVE Kept
  <2>1. FateOf' = [FateOf EXCEPT ![m] = "owed"]
    BY <1>4, FateOfUpdate DEF EnqueueInsert
  <2>2. Promise!Owe(m)
    BY <1>1, <1>4, <2>1 DEF EnqueueInsert, Promise!Owe, histVars
  <2>3. QED
    BY <2>2 DEF Promise!Next
<1>5. ASSUME NEW r \in Runners, outcome[r] # "none"
      PROVE  sending[r] \in Messages /\ status[sending[r]] # "absent"
  BY <1>5 DEF PassOK, Held, HeldIsQueued
<1>6. ASSUME NEW r \in Runners, NEW m \in Messages, NEW o \in Outcomes, Send(r, m, o) PROVE Kept
  <2>1. status[m] # "absent" /\ UNCHANGED status
    BY <1>6 DEF Send, Held, HeldIsQueued, rowVars
  <2>2. accepted' = accepted \cup {m} \/ UNCHANGED accepted
    BY <1>6 DEF Send
  <2>3. QED
    BY <2>1, <2>2, <1>2, <1>3
<1>7. ASSUME NEW r \in Runners, CutShort(r) PROVE Kept
  <2>1. UNCHANGED status /\ \A m \in Held(r) : m \in Messages /\ status[m] # "absent"
    BY <1>7 DEF CutShort, Release, Held, HeldIsQueued
  <2>2. UNCHANGED accepted \/ \E m \in Held(r) : accepted' = accepted \cup {m}
    BY <1>7 DEF CutShort
  <2>3. QED
    BY <2>1, <2>2, <1>2, <1>3
<1>8. ASSUME NEW r \in Runners, MarkSent(r) PROVE Kept
  <2>1. sending[r] \in Messages /\ sending[r] \in accepted /\ UNCHANGED accepted
    BY <1>5, <1>8 DEF MarkSent, Delivered, LateInv, AcceptanceSeen, histVars
  <2>2. CASE status[sending[r]] = "pending"
    <3>1. FateOf' = [FateOf EXCEPT ![sending[r]] = "delivered"]
      BY <1>8, <2>1, <2>2, FateOfUpdate DEF MarkSent, Open
    <3>2. Promise!Close(sending[r])
      BY <1>1, <2>1, <2>2, <3>1 DEF Promise!Close
    <3>3. QED
      BY <2>1, <3>2 DEF Promise!Next
  <2>3. CASE status[sending[r]] # "pending"
    BY <1>2, <1>8, <2>1, <2>3 DEF MarkSent, Open
  <2>4. QED
    BY <2>2, <2>3
<1>9. ASSUME NEW r \in Runners, MarkDead(r) PROVE Kept
  <2>1. sending[r] \in Messages /\ UNCHANGED accepted
    BY <1>5, <1>9 DEF MarkDead, GivesUp
  <2>2. CASE status[sending[r]] = "pending"
    <3>1. FateOf' = [FateOf EXCEPT ![sending[r]] = "abandoned"]
      BY <1>9, <2>1, <2>2, FateOfUpdate DEF MarkDead, Open
    <3>2. Promise!Close(sending[r])
      BY <1>1, <2>1, <2>2, <3>1 DEF Promise!Close
    <3>3. QED
      BY <2>1, <3>2 DEF Promise!Next
  <2>3. CASE status[sending[r]] # "pending"
    BY <1>2, <1>9, <2>1, <2>3 DEF MarkDead, Open
  <2>4. QED
    BY <2>2, <2>3
<1>10. ASSUME NEW S \in SUBSET Messages, Prune(S) PROVE Kept
  <2>1. \A m \in S : FateOf[m] \in {"delivered", "abandoned"}
    BY <1>1, <1>10 DEF Prune, Prunable
  <2>2. FateOf' = [m \in Messages |-> IF m \in S THEN "forgotten" ELSE FateOf[m]]
    BY <1>10 DEF Prune, FateOf
  <2>3. Promise!Forget(S)
    BY <1>10, <2>1, <2>2 DEF Prune, Promise!Forget, histVars
  <2>4. QED
    BY <2>3 DEF Promise!Next
<1>11. QED
  BY <1>2, <1>4, <1>6, <1>7, <1>8, <1>9, <1>10
  DEF Next, StartPass, Claim, Deliver, Settle, Reschedule, Fault, OutOfBudget, Release,
      SettleFails, Crash, EnqueueConflict, EnqueueResolve, Tick, vars, rowVars, histVars

\* The queue implements OutboxPromise whatever the passes do and however late:
\* nothing owed is lost, and delivered means that the transport took it.
THEOREM OutboxKeepsPromise == Spec => KeepsPromise
<1> DEFINE IInv == TypeOK /\ PassOK /\ LateInv /\ HeldIsQueued
<1>1. Init => IInv /\ Promise!Init
  <2>1. Init => Promise!Init
    BY DEF Init, Promise!Init, FateOf
  <2>2. QED
    BY <2>1, InitTypeOK, InitLateInv, InitHeldIsQueued
<1>2. IInv /\ [Next]_vars => IInv' /\ [Promise!Next]_<<FateOf, accepted>>
  BY NextTypeOK, NextLateInv, NextHeldIsQueued, StepPromise
<1>3. QED
  BY <1>1, <1>2, PTL DEF Spec, KeepsPromise, Promise!Spec

(***************************************************************************)
(* The gate: who has a slot, who is counted as waiting, and what one       *)
(* request that moves does to both.                                        *)
(***************************************************************************)
HasSlot(w) == w.at = "verifying" \/ (w.at = "leaving" /\ w.ok)
Counted(w) == w.at \in {"queued", "leaving"}

Holders  == {r \in Knocks : HasSlot(way[r])}
InQueue  == {r \in Knocks : Counted(way[r])}
Queueing == {r \in Knocks : way[r].at = "queued"}

Bit(b) == IF b THEN 1 ELSE 0

GateInv ==
    /\ slots = Cardinality(Holders) /\ slots <= MaxConcurrent
    /\ waiting = Cardinality(InQueue) /\ Cardinality(Queueing) <= MaxQueued

LEMMA GateIsExact == GateInv <=> GateExact
<1>1. Holders = At({"verifying"}) \cup {r \in At({"leaving"}) : way[r].ok}
  BY DEF Holders, HasSlot, At
<1>2. InQueue = At({"queued", "leaving"}) /\ Queueing = At({"queued"})
  BY DEF InQueue, Counted, Queueing, At
<1>3. QED
  BY <1>1, <1>2 DEF GateInv, GateExact

\* Requests are finitely many, so every set of them can be counted.
LEMMA KnocksCount ==
    ASSUME NEW S \in SUBSET Knocks
    PROVE  IsFiniteSet(S) /\ Cardinality(S) \in Nat
  BY FrontdoorAssumption, FS_Subset, FS_CardinalityType

\* One request joins or leaves a set of requests.
LEMMA OneCounts ==
    ASSUME NEW S \in SUBSET Knocks, NEW T \in SUBSET Knocks, NEW r \in Knocks, NEW b \in BOOLEAN,
           T = IF b THEN S \cup {r} ELSE S \ {r}
    PROVE  Cardinality(T) = Cardinality(S) + Bit(b) - Bit(r \in S)
<1>1. IsFiniteSet(S) /\ Cardinality(S) \in Nat
  BY KnocksCount
<1>2. CASE b
  <2>1. Cardinality(T) = IF r \in S THEN Cardinality(S) ELSE Cardinality(S) + 1
    BY <1>1, <1>2, FS_AddElement
  <2>2. QED
    BY <2>1, <1>1, <1>2 DEF Bit
<1>3. CASE ~b
  <2>1. Cardinality(T) = IF r \in S THEN Cardinality(S) - 1 ELSE Cardinality(S)
    BY <1>1, <1>3, FS_RemoveElement
  <2>2. QED
    BY <2>1, <1>1, <1>3 DEF Bit
<1>4. QED
  BY <1>2, <1>3

\* A request moves: both counts follow it, and nobody queues who made them too many.
LEMMA GateFollows ==
    ASSUME DoorTypeOK, GateInv, NEW r \in Knocks, NEW w \in Ways, Goes(r, w),
           slots' = slots + Bit(HasSlot(w)) - Bit(HasSlot(way[r])), slots' <= MaxConcurrent,
           waiting' = waiting + Bit(Counted(w)) - Bit(Counted(way[r])),
           w.at = "queued" => waiting' <= MaxQueued
    PROVE  GateInv' /\ slots' \in 0 .. MaxConcurrent /\ waiting' \in Nat /\ way' \in [Knocks -> Ways]
<1>1. way' \in [Knocks -> Ways] /\ way'[r] = w /\ \A q \in Knocks \ {r} : way'[q] = way[q]
  BY DEF Goes, DoorTypeOK
<1>2. HasSlot(w) \in BOOLEAN /\ Counted(w) \in BOOLEAN
  BY DEF HasSlot, Counted
<1>3. Holders' = IF HasSlot(w) THEN Holders \cup {r} ELSE Holders \ {r}
  BY <1>1 DEF Holders
<1>4. InQueue' = IF Counted(w) THEN InQueue \cup {r} ELSE InQueue \ {r}
  BY <1>1 DEF InQueue
<1>5. Holders \subseteq Knocks /\ Holders' \subseteq Knocks
  BY DEF Holders
<1>6. InQueue \subseteq Knocks /\ InQueue' \subseteq Knocks
  BY DEF InQueue
<1>7. Queueing \subseteq Knocks /\ Queueing' \subseteq Knocks /\ Queueing' \subseteq InQueue'
  BY DEF Queueing, InQueue, Counted
<1>8. slots' = Cardinality(Holders')
  <2>1. Cardinality(Holders') = Cardinality(Holders) + Bit(HasSlot(w)) - Bit(r \in Holders)
    BY <1>2, <1>3, <1>5, OneCounts
  <2>2. r \in Holders <=> HasSlot(way[r])
    BY DEF Holders
  <2>3. QED
    BY <2>1, <2>2 DEF GateInv, Bit
<1>9. waiting' = Cardinality(InQueue')
  <2>1. Cardinality(InQueue') = Cardinality(InQueue) + Bit(Counted(w)) - Bit(r \in InQueue)
    BY <1>2, <1>4, <1>6, OneCounts
  <2>2. r \in InQueue <=> Counted(way[r])
    BY DEF InQueue
  <2>3. QED
    BY <2>1, <2>2 DEF GateInv, Bit
<1>10. Cardinality(Queueing') <= MaxQueued
  <2>1. Cardinality(Queueing') \in Nat /\ Cardinality(Queueing) \in Nat
        /\ Cardinality(InQueue') \in Nat
    BY <1>6, <1>7, KnocksCount
  <2>2. CASE w.at = "queued"
    <3>1. Cardinality(Queueing') <= Cardinality(InQueue')
      BY <1>6, <1>7, KnocksCount, FS_Subset
    <3>2. QED
      BY <2>1, <2>2, <3>1, <1>9, FrontdoorAssumption
  <2>3. CASE w.at # "queued"
    <3>1. Queueing' \subseteq Queueing
      BY <2>3, <1>1 DEF Queueing
    <3>2. Cardinality(Queueing') <= Cardinality(Queueing)
      BY <3>1, <1>7, KnocksCount, FS_Subset
    <3>3. QED
      BY <2>1, <3>2, FrontdoorAssumption DEF GateInv
  <2>4. QED
    BY <2>2, <2>3
<1>11. slots' \in 0 .. MaxConcurrent /\ waiting' \in Nat
  <2>1. Cardinality(Holders') \in Nat /\ Cardinality(InQueue') \in Nat
    BY <1>5, <1>6, KnocksCount
  <2>2. QED
    BY <2>1, <1>8, <1>9, FrontdoorAssumption
<1>12. QED
  BY <1>1, <1>8, <1>9, <1>10, <1>11 DEF GateInv

(***************************************************************************)
(* The budget.  Of an address whose requests never waited, `full' is the   *)
(* instant at which its bucket will hold all it can.                       *)
(***************************************************************************)
Timely ==
    /\ \A c \in DOMAIN buckets : buckets[c].last <= clock
    /\ \A r \in Knocks : way[r].at = "clocked" => way[r].now <= clock
FullIsWhenFull ==
    \A c \in DOMAIN buckets \ stalled :
        buckets[c].full = buckets[c].last * Limit + (Capacity - buckets[c].tokens)

IInv == DoorTypeOK /\ GateInv /\ Timely /\ FullIsWhenFull /\ BudgetExact

LEMMA Numbers ==
    /\ Capacity \in Nat /\ Limit \in Nat /\ Window \in Nat
    /\ \A a, b \in Int : (a - b) * Limit = a * Limit - b * Limit
    /\ \A a \in Int : a * Limit \in Int /\ (a + 1) * Limit = a * Limit + Limit
    /\ \A a, b \in Int : a <= b => a * Limit <= b * Limit
<1> DEFINE L == Limit
<1>1. L \in Nat /\ Window \in Nat /\ Burst \in Nat
  BY FrontdoorAssumption
<1>2. Capacity \in Nat
  BY <1>1 DEF Capacity
<1> HIDE DEF L
<1>3. \A a, b \in Int : (a - b) * L = a * L - b * L
  BY <1>1
<1>4. \A a \in Int : a * L \in Int /\ (a + 1) * L = a * L + L
  BY <1>1
<1>5. \A a, b \in Int : a <= b => a * L <= b * L
  BY <1>1
<1>6. QED
  BY <1>1, <1>2, <1>3, <1>4, <1>5 DEF L

\* A step that leaves the store alone, by a request that reads no clock.
LEMMA StoreStays ==
    ASSUME IInv, NEW r \in Knocks, NEW w \in Ways, Goes(r, w), LeavesStore, UNCHANGED clock,
           w.at = "clocked" => w.now <= clock
    PROVE  Timely' /\ FullIsWhenFull' /\ BudgetExact'
<1>1. way'[r] = w /\ \A q \in Knocks \ {r} : way'[q] = way[q]
  BY DEF Goes, IInv, DoorTypeOK
<1>2. Timely'
  BY <1>1 DEF IInv, Timely, LeavesStore
<1>3. FullIsWhenFull' /\ BudgetExact'
  BY DEF IInv, FullIsWhenFull, BudgetExact, LeftTo, LeavesStore
<1>4. QED
  BY <1>2, <1>3

\* A sweep forgets only buckets that are full, and changes none.
LEMMA SweptWereFull ==
    ASSUME IInv, NEW now \in Nat, now <= clock
    PROVE  /\ DOMAIN Swept(now) \subseteq DOMAIN buckets
           /\ \A k \in DOMAIN Swept(now) : Swept(now)[k] = buckets[k]
           /\ \A k \in DOMAIN buckets \ stalled : k \notin DOMAIN Swept(now) => LeftTo(k) = Capacity
<1>1. DOMAIN Swept(now) \subseteq DOMAIN buckets /\ \A k \in DOMAIN Swept(now) : Swept(now)[k] = buckets[k]
  BY DEF Swept
<1>2. ASSUME NEW k \in DOMAIN buckets \ stalled, k \notin DOMAIN Swept(now)
      PROVE  LeftTo(k) = Capacity
  <2> DEFINE t == buckets[k].tokens
             l == buckets[k].last
  <2>1. t \in 0 .. Capacity /\ l \in Nat /\ buckets[k].full \in Int
    BY DEF IInv, DoorTypeOK, Buckets
  <2>2. clock \in Nat /\ l <= clock
    BY FrontdoorAssumption DEF IInv, DoorTypeOK, Timely
  <2>3. ~ (now * Limit < buckets[k].full)
    BY <1>2 DEF Swept
  <2>4. buckets[k].full = l * Limit + (Capacity - t)
    BY DEF IInv, FullIsWhenFull
  <2> HIDE DEF t, l
  <2>5. now * Limit <= clock * Limit /\ (clock - l) * Limit = clock * Limit - l * Limit
        /\ now * Limit \in Int /\ clock * Limit \in Int /\ l * Limit \in Int /\ Capacity \in Nat
    BY <2>1, <2>2, Numbers
  <2>6. ~ (t + (clock - l) * Limit < Capacity)
    BY <2>1, <2>3, <2>4, <2>5
  <2>7. Least(Capacity, t + (clock - l) * Limit) = Capacity
    BY <2>1, <2>5, <2>6 DEF Least
  <2>8. QED
    BY <2>7 DEF LeftTo, t, l
<1>3. QED
  BY <1>1, <1>2

\* A bucket that was forgotten or refilled is one again; at the present, with what is left.
LEMMA RefillsToTheRule ==
    ASSUME IInv, NEW c \in Callers, NEW now \in Nat, now <= clock
    PROVE  LET b == Refilled(Swept(now), c, now)
           IN  /\ b \in Buckets /\ b.last <= clock
               /\ now = clock /\ c \notin stalled => b.tokens = credit[c] /\ b.last = clock
<1> DEFINE bs == Swept(now)
           b == Refilled(bs, c, now)
           t == bs[c].tokens
           l == bs[c].last
<1>0. clock \in Nat /\ Capacity \in Nat /\ Limit \in Nat /\ \A a \in Int : a * Limit \in Int
  BY FrontdoorAssumption, Numbers DEF IInv, DoorTypeOK
<1>1. CASE c \notin DOMAIN bs
  <2>1. b = [tokens |-> Capacity, last |-> now, full |-> now * Limit]
    BY <1>1 DEF Refilled
  <2>2. c \notin stalled => credit[c] = Capacity
    <3>1. c \in DOMAIN buckets /\ c \notin stalled => LeftTo(c) = Capacity
      BY <1>1, SweptWereFull
    <3>2. c \notin DOMAIN buckets => LeftTo(c) = Capacity
      BY DEF LeftTo
    <3>3. QED
      BY <3>1, <3>2 DEF IInv, BudgetExact
  <2>3. QED
    BY <2>1, <2>2, <1>0 DEF Buckets
<1>2. CASE c \in DOMAIN bs
  <2>1. c \in DOMAIN buckets /\ bs[c] = buckets[c] /\ bs[c] \in Buckets /\ l <= clock
    BY <1>2, SweptWereFull DEF IInv, DoorTypeOK, Timely
  <2>2. t \in 0 .. Capacity /\ l \in Nat /\ bs[c].full \in Int
    BY <2>1 DEF Buckets
  <2>3. c \notin stalled => credit[c] = Least(Capacity, t + (clock - l) * Limit)
    BY <2>1 DEF IInv, BudgetExact, LeftTo
  <2>4. CASE now > l
    <3>1. b = [bs[c] EXCEPT !.tokens = Least(Capacity, t + (now - l) * Limit), !.last = now]
      BY <1>2, <2>4 DEF Refilled
    <3>2. b \in [tokens : {Least(Capacity, t + (now - l) * Limit)}, last : {now}, full : Int]
      BY <3>1, <2>1 DEF Buckets
    <3> HIDE DEF bs, b, t, l
    <3>3. (now - l) * Limit \in Nat
      BY <2>2, <2>4, <1>0
    <3>4. Least(Capacity, t + (now - l) * Limit) \in 0 .. Capacity
      BY <3>3, <2>2, <1>0 DEF Least
    <3>5. b.tokens = Least(Capacity, t + (now - l) * Limit) /\ b.last = now /\ b \in Buckets
      BY <3>2, <3>4 DEF Buckets
    <3>6. QED
      BY <3>5, <2>3 DEF b, bs
  <2>5. CASE ~ (now > l)
    <3>1. b = bs[c]
      BY <1>2, <2>5 DEF Refilled
    <3>2. now = clock => l = clock
      BY <2>1, <2>2, <2>5, <1>0
    <3>3. now = clock /\ c \notin stalled => t = credit[c]
      <4> HIDE DEF t, l
      <4>1. now = clock => (clock - l) * Limit = 0
        BY <3>2, <2>2, <1>0
      <4>2. QED
        BY <4>1, <2>2, <2>3, <1>0 DEF Least
    <3>4. QED
      BY <2>1, <3>1, <3>2, <3>3
  <2>6. QED
    BY <2>4, <2>5
<1>3. QED
  BY <1>1, <1>2

\* A charge costs a request or, when none is left, nothing.
LEMMA ChargesOnce ==
    ASSUME NEW b \in Buckets, NEW now \in Nat
    PROVE  LET left == IF b.tokens >= Window THEN b.tokens - Window ELSE b.tokens
           IN  /\ Charged(b, now) \in Buckets
               /\ Charged(b, now).tokens = left /\ Charged(b, now).last = b.last
               /\ Charged(b, now).full = now * Limit + (Capacity - left)
<1> DEFINE left == IF b.tokens >= Window THEN b.tokens - Window ELSE b.tokens
<1>1. left \in 0 .. Capacity
  BY Numbers DEF Buckets
<1>2. now * Limit + (Capacity - left) \in Int
  BY <1>1, Numbers
<1> HIDE DEF left
<1>3. Charged(b, now) = [b EXCEPT !.tokens = left, !.full = now * Limit + (Capacity - left)]
  BY DEF Charged, left
<1>4. QED
  BY <1>1, <1>2, <1>3 DEF Buckets, left

LEMMA TakeStep ==
    ASSUME IInv, NEW r \in Knocks, Take(r)
    PROVE  IInv'
<1> DEFINE c == way[r].from
           now == way[r].now
           bs == Swept(now)
           b == Refilled(bs, c, now)
           w == IF b.tokens >= Window THEN [at |-> "admitted"] ELSE Outside
<1>1. c \in Callers /\ now \in Nat /\ now <= clock /\ clock \in 0 .. MaxTime
  BY DEF Take, IInv, DoorTypeOK, Ways, Outside, Timely
<1>2. /\ b \in Buckets /\ b.last <= clock
      /\ now = clock /\ c \notin stalled => b.tokens = credit[c] /\ b.last = clock
  BY <1>1, RefillsToTheRule
<1>3. /\ Charged(b, now) \in Buckets /\ Charged(b, now).last = b.last
      /\ Charged(b, now).tokens = IF b.tokens >= Window THEN b.tokens - Window ELSE b.tokens
      /\ Charged(b, now).full = now * Limit + (Capacity - Charged(b, now).tokens)
  BY <1>1, <1>2, ChargesOnce, SMTT(60)
<1>4. /\ DOMAIN bs \subseteq DOMAIN buckets
      /\ \A k \in DOMAIN bs : bs[k] = buckets[k]
      /\ \A k \in DOMAIN buckets \ stalled : k \notin DOMAIN bs => LeftTo(k) = Capacity
  BY <1>1, SweptWereFull
<1>5. /\ buckets' = [k \in DOMAIN bs \cup {c} |-> IF k = c THEN Charged(b, now) ELSE bs[k]]
      /\ lastSweep' = SweptAt(now)
      /\ credit' = [credit EXCEPT ![c] = IF b.tokens >= Window THEN @ - Window ELSE @]
      /\ stalled' = IF now < clock THEN stalled \cup {c} ELSE stalled
      /\ Goes(r, w) /\ clock' = clock
  BY DEF Take
<1>6. w \in Ways /\ w.at # "clocked"
  BY DEF Ways, Outside
<1> HIDE DEF c, now, bs, b, w
<1>7. /\ DOMAIN buckets' = DOMAIN bs \cup {c} /\ buckets'[c] = Charged(b, now)
      /\ \A k \in DOMAIN bs \ {c} : buckets'[k] = buckets[k]
  BY <1>4, <1>5
<1>8. GateInv' /\ slots' \in 0 .. MaxConcurrent /\ waiting' \in Nat /\ way' \in [Knocks -> Ways]
  <2>1. ~ HasSlot(w) /\ ~ Counted(w) /\ w.at # "queued" /\ ~ HasSlot(way[r]) /\ ~ Counted(way[r])
    BY DEF w, HasSlot, Counted, Outside, Take
  <2>2. slots' = slots /\ waiting' = waiting
    BY DEF Take, LeavesGate
  <2>3. QED
    BY <1>5, <1>6, <2>1, <2>2, GateFollows DEF IInv, DoorTypeOK, Bit
<1>9. DoorTypeOK'
  <2>1. lastSweep' \in 0 .. MaxTime
    <3>1. lastSweep \in 0 .. MaxTime /\ now \in 0 .. MaxTime
      BY <1>1, FrontdoorAssumption DEF IInv, DoorTypeOK
    <3>2. lastSweep' = lastSweep \/ lastSweep' = now
      BY <1>5, Zenon DEF SweptAt
    <3>3. QED
      BY <3>1, <3>2
  <2>2. DOMAIN buckets' \subseteq Callers /\ \A k \in DOMAIN buckets' : buckets'[k] \in Buckets
    BY <1>1, <1>3, <1>4, <1>7 DEF IInv, DoorTypeOK
  <2>3. credit' \in [Callers -> Int] /\ stalled' \subseteq Callers
    <3>1. credit' \in [Callers -> Int]
      BY <1>1, <1>5, Numbers DEF IInv, DoorTypeOK
    <3>2. stalled' \subseteq Callers
      BY <1>1, <1>5 DEF IInv, DoorTypeOK
    <3>3. QED
      BY <3>1, <3>2
  <2>4. Capacity' = Capacity
    BY DEF Capacity
  <2>5. QED
    BY <1>1, <1>5, <1>8, <2>1, <2>2, <2>3 DEF DoorTypeOK, Buckets
<1>10. Timely'
  <2>1. \A k \in DOMAIN buckets' : buckets'[k].last <= clock'
    BY <1>2, <1>3, <1>4, <1>5, <1>7 DEF IInv, Timely
  <2>2. \A q \in Knocks : way'[q].at = "clocked" => way'[q].now <= clock'
    BY <1>5, <1>6 DEF Goes, IInv, DoorTypeOK, Timely
  <2>3. QED
    BY <2>1, <2>2 DEF Timely
\* Unless it is excepted, the address was charged by the present time.
<1>11. ASSUME c \notin stalled'
       PROVE  now = clock /\ c \notin stalled /\ buckets'[c].last = clock /\ b.tokens = credit[c]
  BY <1>1, <1>2, <1>3, <1>5, <1>7, <1>11
<1>12. FullIsWhenFull'
  <2>1. ASSUME NEW k \in DOMAIN buckets' \ stalled'
        PROVE  buckets'[k].full = buckets'[k].last * Limit + (Capacity - buckets'[k].tokens)
    <3>1. CASE k = c
      BY <1>3, <1>7, <1>11, <2>1, <3>1
    <3>2. CASE k # c
      <4>1. k \in DOMAIN buckets \ stalled /\ buckets'[k] = buckets[k]
        BY <1>4, <1>5, <1>7, <3>2
      <4>2. QED
        BY <4>1 DEF IInv, FullIsWhenFull
    <3>3. QED
      BY <3>1, <3>2
  <2>2. QED
    BY <2>1 DEF FullIsWhenFull, Capacity
<1>13. BudgetExact'
  <2>1. ASSUME NEW k \in Callers \ stalled'
        PROVE  credit'[k] = LeftTo(k)'
    <3>1. CASE k = c
      <4>1. credit'[k] = IF b.tokens >= Window THEN b.tokens - Window ELSE b.tokens
        BY <1>1, <1>5, <1>11, <2>1, <3>1 DEF IInv, DoorTypeOK
      <4>2. credit'[k] = buckets'[k].tokens /\ buckets'[k].tokens \in 0 .. Capacity
        BY <1>3, <1>7, <3>1, <4>1 DEF Buckets
      <4>3. (clock' - buckets'[k].last) * Limit = 0
        <5>1. clock' - buckets'[k].last = 0
          BY <1>1, <1>5, <1>11, <2>1, <3>1
        <5>2. QED
          BY <5>1, Numbers
      <4>4. LeftTo(k)' = Least(Capacity, buckets'[k].tokens + (clock' - buckets'[k].last) * Limit)
        BY <1>7, <3>1 DEF LeftTo, Least, Capacity
      <4>5. LeftTo(k)' = Least(Capacity, buckets'[k].tokens + 0)
        BY <4>3, <4>4, Zenon
      <4>6. Least(Capacity, buckets'[k].tokens + 0) = buckets'[k].tokens
        <5>1. Capacity \in Nat
          BY Numbers
        <5>2. QED
          BY <5>1, <4>2 DEF Least
      <4>7. QED
        BY <4>2, <4>5, <4>6
    <3>2. CASE k # c
      <4>1. credit'[k] = credit[k] /\ k \notin stalled
        BY <1>5, <2>1, <3>2 DEF IInv, DoorTypeOK
      <4>2. credit[k] = LeftTo(k)
        BY <4>1, <2>1 DEF IInv, BudgetExact
      <4>3. CASE k \in DOMAIN bs
        <5>1. k \in DOMAIN buckets /\ k \in DOMAIN buckets' /\ buckets'[k] = buckets[k]
          BY <1>4, <1>7, <3>2, <4>3
        <5>2. QED
          BY <5>1, <4>1, <4>2, <1>5 DEF LeftTo, Least, Capacity
      <4>4. CASE k \notin DOMAIN bs
        <5>1. k \notin DOMAIN buckets' /\ LeftTo(k)' = Capacity
          BY <1>7, <3>2, <4>4 DEF LeftTo, Capacity
        <5>2. LeftTo(k) = Capacity
          BY <1>4, <4>1, <4>4 DEF LeftTo
        <5>3. QED
          BY <5>1, <5>2, <4>1, <4>2
      <4>5. QED
        BY <4>3, <4>4
    <3>3. QED
      BY <3>1, <3>2
  <2>2. QED
    BY <2>1 DEF BudgetExact
<1>14. QED
  BY <1>8, <1>9, <1>10, <1>12, <1>13 DEF IInv

LEMMA TimeStep ==
    ASSUME IInv, TimePasses
    PROVE  IInv'
<1>1. clock \in Nat /\ clock' = clock + 1 /\ clock' \in 0 .. MaxTime
  BY FrontdoorAssumption DEF IInv, DoorTypeOK, TimePasses
<1>2. /\ UNCHANGED <<buckets, lastSweep, way, stalled, slots, waiting>>
      /\ credit' = [c \in Callers |-> Least(Capacity, credit[c] + Limit)]
  BY DEF TimePasses, LeavesGate
<1>3. Capacity \in Nat /\ Limit \in Nat /\ Window \in Nat
  BY Numbers
<1>4. DoorTypeOK'
  <2>1. credit' \in [Callers -> Int]
    BY <1>2, <1>3 DEF IInv, DoorTypeOK, Least
  <2>2. QED
    BY <1>1, <1>2, <2>1 DEF IInv, DoorTypeOK, Buckets, Capacity
<1>5. GateInv' /\ FullIsWhenFull'
  BY <1>2 DEF IInv, GateInv, Holders, InQueue, Queueing, FullIsWhenFull, Capacity
<1>6. Timely'
  <2>1. \A c \in DOMAIN buckets : buckets[c].last \in Nat
    BY DEF IInv, DoorTypeOK, Buckets
  <2>2. \A r \in Knocks : way[r].at = "clocked" => way[r].now \in Nat
    BY DEF IInv, DoorTypeOK, Ways, Outside
  <2>3. QED
    BY <1>1, <1>2, <2>1, <2>2 DEF IInv, Timely
<1>7. BudgetExact'
  <2>1. ASSUME NEW c \in Callers \ stalled
        PROVE  credit'[c] = LeftTo(c)'
    <3>1. credit[c] = LeftTo(c) /\ credit'[c] = Least(Capacity, credit[c] + Limit)
      BY <1>2 DEF IInv, BudgetExact
    <3>2. CASE c \notin DOMAIN buckets
      <4>1. LeftTo(c) = Capacity /\ LeftTo(c)' = Capacity
        BY <1>2, <3>2 DEF LeftTo, Capacity
      <4>2. QED
        BY <1>3, <3>1, <4>1 DEF Least
    <3>3. CASE c \in DOMAIN buckets
      <4> DEFINE t == buckets[c].tokens
                 l == buckets[c].last
                 earned == (clock - l) * Limit
      <4>1. t \in Nat /\ l \in Nat
        BY <3>3, <1>3 DEF IInv, DoorTypeOK, Buckets
      <4>2. earned \in Int /\ (clock' - l) * Limit = earned + Limit
        <5>1. clock - l \in Int /\ clock' - l = (clock - l) + 1
          BY <1>1, <4>1
        <5>2. QED
          BY <5>1, Numbers
      <4>3. credit[c] = Least(Capacity, t + earned)
        BY <3>1, <3>3 DEF LeftTo
      <4>4. LeftTo(c)' = Least(Capacity, t + (earned + Limit))
        <5>1. LeftTo(c)' = Least(Capacity, t + (clock' - l) * Limit)
          BY <1>2, <3>3 DEF LeftTo, Least, Capacity
        <5>2. QED
          BY <5>1, <4>2, Zenon
      <4> HIDE DEF t, l, earned
      <4>5. QED
        BY <1>3, <3>1, <4>1, <4>2, <4>3, <4>4 DEF Least
    <3>4. QED
      BY <3>2, <3>3
  <2>2. QED
    BY <2>1, <1>2 DEF BudgetExact
<1>8. QED
  BY <1>4, <1>5, <1>6, <1>7 DEF IInv

\* A step at the gate, or on the way to it: what the request must bring with it.
LEMMA GateStep ==
    ASSUME IInv, NEW r \in Knocks, NEW w \in Ways, Goes(r, w), LeavesStore, UNCHANGED clock,
           w.at = "clocked" => w.now <= clock,
           slots' = slots + Bit(HasSlot(w)) - Bit(HasSlot(way[r])), slots' <= MaxConcurrent,
           waiting' = waiting + Bit(Counted(w)) - Bit(Counted(way[r])),
           w.at = "queued" => waiting' <= MaxQueued
    PROVE  IInv'
<1>1. GateInv' /\ slots' \in 0 .. MaxConcurrent /\ waiting' \in Nat /\ way' \in [Knocks -> Ways]
  BY GateFollows DEF IInv
<1>2. Timely' /\ FullIsWhenFull' /\ BudgetExact'
  BY StoreStays
<1>3. DoorTypeOK'
  BY <1>1 DEF IInv, DoorTypeOK, LeavesStore, Buckets, Capacity
<1>4. QED
  BY <1>1, <1>2, <1>3 DEF IInv

LEMMA RequestStep ==
    ASSUME IInv, NEW r \in Knocks, Arrive(r) \/ TakesSlot(r) \/ FindsNoSlot(r) \/ Joins(r)
                                     \/ Granted(r) \/ TimesOut(r) \/ Disconnects(r)
                                     \/ Leaves(r) \/ Returns(r)
    PROVE  IInv'
<1> USE DEF HasSlot, Counted, Bit, Outside, LeavesGate
<1>1. /\ way[r] \in Ways /\ slots \in 0 .. MaxConcurrent /\ waiting \in Nat /\ clock \in Nat
      /\ MaxConcurrent \in Nat /\ MaxQueued \in Nat
  BY FrontdoorAssumption DEF IInv, DoorTypeOK
<1>2. CASE Arrive(r)
  <2>1. PICK w \in {[at |-> "admitted"]} \cup [at : {"clocked"}, from : Callers, now : {clock}] :
            Goes(r, w)
    BY <1>2 DEF Arrive
  <2>2. w \in Ways /\ w.at \in {"admitted", "clocked"} /\ (w.at = "clocked" => w.now <= clock)
    BY <2>1, <1>1 DEF Ways
  <2>3. QED
    BY <1>1, <1>2, <2>1, <2>2, GateStep DEF Arrive
<1>3. CASE TakesSlot(r)
  <2>1. [at |-> "verifying"] \in Ways
    BY DEF Ways
  <2>2. QED
    BY <1>1, <1>3, <2>1, GateStep DEF TakesSlot
<1>4. CASE FindsNoSlot(r)
  <2>1. [at |-> "joining"] \in Ways
    BY DEF Ways
  <2>2. QED
    BY <1>1, <1>4, <2>1, GateStep DEF FindsNoSlot
<1>5. CASE Joins(r)
  <2>1. [at |-> "leaving", ok |-> FALSE] \in Ways /\ [at |-> "queued", since |-> clock] \in Ways
    BY <1>1 DEF Ways
  <2>2. CASE waiting + 1 > MaxQueued
    BY <1>1, <1>5, <2>1, <2>2, GateStep DEF Joins
  <2>3. CASE ~ (waiting + 1 > MaxQueued)
    BY <1>1, <1>5, <2>1, <2>3, GateStep DEF Joins
  <2>4. QED
    BY <2>2, <2>3
<1>6. CASE Granted(r)
  <2>1. [at |-> "leaving", ok |-> TRUE] \in Ways
    BY DEF Ways
  <2>2. QED
    BY <1>1, <1>6, <2>1, GateStep DEF Granted
<1>7. CASE TimesOut(r) \/ Disconnects(r)
  <2>1. [at |-> "leaving", ok |-> FALSE] \in Ways
    BY DEF Ways
  <2>2. QED
    BY <1>1, <1>7, <2>1, GateStep DEF TimesOut, Disconnects
<1>8. CASE Leaves(r)
  <2>1. [at |-> "verifying"] \in Ways /\ Outside \in Ways
    BY DEF Ways
  <2>2. CASE way[r].ok
    BY <1>1, <1>8, <2>1, <2>2, GateStep DEF Leaves
  <2>3. CASE ~ way[r].ok
    BY <1>1, <1>8, <2>1, <2>3, GateStep DEF Leaves
  <2>4. QED
    BY <2>2, <2>3
\* The slot that is given back is one that was taken.
<1>9. CASE Returns(r)
  <2>1. r \in Holders /\ Holders \subseteq Knocks
    BY <1>9 DEF Returns, Holders
  <2>2. IsFiniteSet(Holders) /\ Cardinality(Holders) \in Nat
    BY <2>1, KnocksCount
  <2>3. Cardinality(Holders) # 0
    BY <2>1, <2>2, FS_EmptySet
  <2>4. slots > 0
    BY <1>1, <2>2, <2>3 DEF IInv, GateInv
  <2>5. Outside \in Ways
    BY DEF Ways
  <2>6. QED
    BY <1>1, <1>9, <2>4, <2>5, GateStep DEF Returns
<1>10. QED
  BY <1>2, <1>3, <1>4, <1>5, <1>6, <1>7, <1>8, <1>9

(***************************************************************************)
(* The theorems.                                                           *)
(***************************************************************************)
LEMMA InitIInv == FrontdoorInit => IInv
<1> SUFFICES ASSUME FrontdoorInit PROVE IInv
  OBVIOUS
<1>1. clock = 0 /\ DOMAIN buckets = {} /\ slots = 0 /\ waiting = 0 /\ Capacity \in Nat
      /\ \A r \in Knocks : way[r] = Outside
  BY Numbers DEF FrontdoorInit
<1>2. DoorTypeOK
  BY <1>1, FrontdoorAssumption DEF FrontdoorInit, DoorTypeOK, Ways
<1>3. Holders = {} /\ InQueue = {} /\ Queueing = {}
  BY <1>1 DEF Holders, InQueue, Queueing, HasSlot, Counted, Outside
<1>4. GateInv
  BY <1>1, <1>3, FS_EmptySet, FrontdoorAssumption DEF GateInv
<1>5. Timely /\ FullIsWhenFull /\ BudgetExact
  BY <1>1 DEF FrontdoorInit, Timely, FullIsWhenFull, BudgetExact, LeftTo, Outside
<1>6. QED
  BY <1>2, <1>4, <1>5 DEF IInv

LEMMA StepIInv == IInv /\ [FrontdoorNext]_doorVars => IInv'
<1> SUFFICES ASSUME IInv, [FrontdoorNext]_doorVars PROVE IInv'
  OBVIOUS
<1>1. ASSUME NEW r \in Knocks, Take(r)
      PROVE  IInv'
  BY <1>1, TakeStep
<1>2. CASE TimePasses
  BY <1>2, TimeStep
<1>3. CASE UNCHANGED doorVars
  BY <1>3 DEF doorVars, IInv, DoorTypeOK, Buckets, Capacity, GateInv, Holders, InQueue, Queueing,
              Timely, FullIsWhenFull, BudgetExact, LeftTo, Least
<1>4. QED
  BY <1>1, <1>2, <1>3, RequestStep DEF FrontdoorNext

\* Type correctness of the budget and the gate (ratelimit/memory.go, gate.go): slots
\* stay between nothing and all, whatever request moves next, and no bucket holds more
\* than its burst.
THEOREM DoorTypeCorrect == FrontdoorSpec => []DoorTypeOK
<1>1. IInv => DoorTypeOK
  BY DEF IInv
<1>2. QED
  BY InitIInv, StepIInv, <1>1, PTL DEF FrontdoorSpec

\* The gate of password checks (Gate.Acquire, Release) and the budget of an address
\* (MemoryStore.Take, maybeSweep) are exact: no slot or place in the queue is lost or invented, and
\* forgetting buckets changes nobody's budget.
THEOREM DoorIsExact == FrontdoorSpec => []DoorHolds
<1>1. IInv => DoorHolds
  BY GateIsExact DEF IInv, DoorHolds
<1>2. QED
  BY InitIInv, StepIInv, <1>1, PTL DEF FrontdoorSpec

(***************************************************************************)
(* The stream of authentication events.                                    *)
(***************************************************************************)
ReportOK ==
    Reported =>
        /\ report.window \in Int /\ report.window >= MinRetentionMonths
        /\ report.ahead \in Int /\ report.ahead >= 1
        /\ report.blocked \subseteq stray
StreamIInv == StreamTypeOK /\ ReportOK /\ ReportIsTrue /\ stray \cap parts = {}

LEMMA InitStream == StreamInit => StreamIInv
  BY StreamAssumption
  DEF StreamInit, StreamIInv, StreamTypeOK, ReportOK, ReportIsTrue, Reported

\* What one pass creates, drops and says.
LEMMA PassStep ==
    ASSUME StreamIInv, Maintain
    PROVE  StreamIInv' /\ OnlyTheOldLeaves /\ StraysOnlyUnmaintained
<1>1. PICK busy, again \in 0 .. MaxBusy : Maintained(busy, again)
  BY DEF Maintain
<1> DEFINE late == FirstOf(Missing, busy)
           tried == Missing \ late
           kept == IF tried \subseteq stray THEN FirstOf(Expired(parts), again) ELSE {}
           dropped == Expired(parts) \ kept
<1>2. /\ parts' = (parts \cup (tried \ stray)) \ dropped
      /\ rows' = rows \ dropped
      /\ report' = [window |-> window, ahead |-> ahead,
                    deferred |-> late \cup kept, blocked |-> tried \cap stray]
      /\ UNCHANGED <<month, stray, window, ahead, reconfigured>>
  BY <1>1 DEF Maintain, Maintained, Blocked
<1>3. /\ month \in Int /\ window \in Int /\ ahead \in Int /\ parts \subseteq Int
      /\ window >= MinRetentionMonths /\ ahead >= 1 /\ Cutoff \in Int
  BY StreamAssumption
  DEF StreamIInv, StreamTypeOK, Maintain, Accepted, Cutoff, MinRetentionMonths
<1>4. late \subseteq Missing /\ kept \subseteq Expired(parts)
  BY DEF FirstOf
<1>5. /\ Missing = (Cutoff .. month + ahead) \ parts
      /\ \A m \in dropped : m \in parts /\ m + 1 <= Cutoff
  BY DEF Missing, Expired
<1>6. \A m \in parts : m + 1 <= Cutoff => m \in dropped \cup kept
  BY DEF Expired
<1> HIDE DEF late, tried, kept, dropped
<1>7. tried = Missing \ late
  BY DEF tried
<1>8. StreamTypeOK' /\ ReportOK'
  <2>1. StreamTypeOK'
    <3>1. Missing \subseteq Int
      BY <1>5
    <3>2. parts' \subseteq Int
      BY <1>2, <1>3, <1>7, <3>1
    <3>3. rows' \subseteq Followed
      BY <1>2 DEF StreamIInv, StreamTypeOK
    <3>4. QED
      BY <1>2, <3>2, <3>3 DEF StreamIInv, StreamTypeOK
  <2>2. ReportOK'
    BY <1>2, <1>3 DEF ReportOK
  <2>3. QED
    BY <2>1, <2>2
<1>9. (stray \cap parts)' = {}
  BY <1>2 DEF StreamIInv
<1>10. ReportIsTrue'
  <2> DEFINE said == report'.deferred \cup report'.blocked
             promised == month' - report'.window .. month' + report'.ahead
  <2>1. said = late \cup kept \cup (tried \cap stray) /\ promised = Cutoff .. month + ahead
    BY <1>2 DEF Cutoff
  <2> HIDE DEF said, promised
  <2>2. promised \subseteq parts' \cup said
    <3>1. ASSUME NEW m \in promised
          PROVE  m \in parts' \cup said
      <4>1. m \in Int /\ m >= Cutoff /\ m \notin dropped
        BY <1>3, <1>5, <2>1
      <4>2. m \in parts \/ m \in Missing
        BY <1>5, <2>1
      <4>3. QED
        BY <1>2, <1>7, <2>1, <4>1, <4>2
    <3>2. QED
      BY <3>1
  <2>3. \A m \in parts' : m < Cutoff => m \in said
    <3>1. ASSUME NEW m \in parts', m < Cutoff
          PROVE  m \in said
      <4>1. m \in parts /\ m \notin dropped
        BY <1>2, <1>3, <1>5, <1>7, <3>1
      <4>2. m + 1 <= Cutoff
        BY <1>3, <3>1, <4>1
      <4>3. QED
        BY <1>6, <2>1, <4>1, <4>2
    <3>2. QED
      BY <3>1
  <2>4. stray \cap promised \subseteq said
    BY <1>5, <1>7, <2>1 DEF StreamIInv
  <2>5. month' - report'.window = Cutoff
    BY <1>2 DEF Cutoff
  <2>6. QED
    BY <1>2, <2>2, <2>3, <2>4, <2>5 DEF ReportIsTrue, said, promised
<1>11. OnlyTheOldLeaves
  <2>1. ASSUME NEW m \in dropped
        PROVE  m + 1 + MinRetentionMonths <= month
    <3>1. m \in Int /\ m + 1 <= Cutoff
      BY <1>3, <1>5
    <3>2. QED
      BY <1>3, <3>1 DEF Cutoff, MinRetentionMonths
  <2>2. QED
    BY <1>2, <2>1 DEF OnlyTheOldLeaves
<1>12. StraysOnlyUnmaintained
  BY <1>2 DEF StraysOnlyUnmaintained
<1>13. QED
  BY <1>8, <1>9, <1>10, <1>11, <1>12 DEF StreamIInv

\* An event that misses its partition is of a month the last pass deferred: no other month
\* within reach of a clock is without one.
LEMMA RecordStep ==
    ASSUME StreamIInv, RecordEvent
    PROVE  StreamIInv' /\ OnlyTheOldLeaves /\ StraysOnlyUnmaintained
<1>1. PICK m \in Followed \cap (month - 1 .. month + 1) :
         /\ IF m \in parts THEN rows' = rows \cup {m} /\ UNCHANGED stray
                           ELSE stray' = stray \cup {m} /\ UNCHANGED rows
         /\ UNCHANGED <<month, parts, window, ahead, report, reconfigured>>
  BY DEF RecordEvent
<1>2. month \in Int /\ m \in Int
  BY <1>1, StreamAssumption DEF StreamIInv, StreamTypeOK
<1>3. Reported => m \in month - report.window .. month + report.ahead
  BY <1>1, <1>2 DEF StreamIInv, ReportOK, MinRetentionMonths
<1>4. Reported /\ m \notin parts => m \in report.deferred \cup report.blocked
  BY <1>3 DEF StreamIInv, ReportIsTrue
<1>5. StreamTypeOK' /\ ReportOK' /\ (stray \cap parts)' = {}
  BY <1>1 DEF StreamIInv, StreamTypeOK, ReportOK, Reported
<1>6. ReportIsTrue'
  BY <1>1, <1>4 DEF StreamIInv, ReportIsTrue, Reported
<1>7. OnlyTheOldLeaves
  BY <1>1 DEF OnlyTheOldLeaves
<1>8. StraysOnlyUnmaintained
  BY <1>1, <1>4 DEF StraysOnlyUnmaintained, StreamIInv, ReportOK
<1>9. QED
  BY <1>5, <1>6, <1>7, <1>8 DEF StreamIInv

LEMMA StepStream ==
    StreamIInv /\ [StreamNext]_streamVars =>
        StreamIInv' /\ (UNCHANGED streamVars \/ (OnlyTheOldLeaves /\ StraysOnlyUnmaintained))
<1> SUFFICES ASSUME StreamIInv, [StreamNext]_streamVars
             PROVE  StreamIInv' /\ (UNCHANGED streamVars \/ (OnlyTheOldLeaves /\ StraysOnlyUnmaintained))
  OBVIOUS
<1> USE DEF StreamIInv, StreamTypeOK, ReportOK, ReportIsTrue, Reported, OnlyTheOldLeaves,
            StraysOnlyUnmaintained
<1>1. CASE MonthPasses
  BY <1>1, StreamAssumption DEF MonthPasses
<1>2. CASE Reconfigure
  BY <1>2 DEF Reconfigure
<1>3. CASE RecordEvent
  BY <1>3, RecordStep
<1>4. CASE Maintain
  BY <1>4, PassStep
<1>5. CASE UNCHANGED streamVars
  BY <1>5 DEF streamVars
<1>6. QED
  BY <1>1, <1>2, <1>3, <1>4, <1>5 DEF StreamNext

\* Type correctness of the stream's partitions (migration 35).
THEOREM StreamTypeCorrect == StreamSpec => []StreamTypeOK
<1>1. StreamIInv => StreamTypeOK
  BY DEF StreamIInv
<1>2. QED
  BY InitStream, StepStream, <1>1, PTL DEF StreamSpec

\* The retention of migration 35 and its job: whatever the settings become and however many
\* passes are missed, nothing leaves before its time, a pass reports the truth, and no event
\* goes astray behind its back.
THEOREM StreamKeepsItsAge == StreamSpec => StreamAges
<1>1. StreamIInv /\ [StreamNext]_streamVars =>
          [OnlyTheOldLeaves /\ StraysOnlyUnmaintained /\ ReportIsTrue']_streamVars
  BY StepStream DEF StreamIInv
<1>2. StreamIInv /\ [StreamNext]_streamVars => StreamIInv'
  BY StepStream
<1>3. QED
  BY InitStream, <1>1, <1>2, PTL DEF StreamSpec, StreamAges

(***************************************************************************)
(* Who called.                                                             *)
(***************************************************************************)
\* A request of a caller, from any address along any way in.
CallerAsked(q) ==
    /\ q.path \in Paths /\ q.sent \in Headers /\ q.origin \in {Client, Proxied, NotAnAddress}
    /\ q.trusted \in Trusts /\ (q.origin = NotAnAddress => q.path = <<>>)

\* The last address of a chain that is not one of ours, where ours follow it.
LEMMA ForeignLast ==
    ASSUME NEW A, NEW chain \in Seq(A), NEW trusted, NEW k \in 1 .. Len(chain), chain[k] \notin trusted,
           \A j \in 1 .. Len(chain) : j > k => chain[j] \in trusted
    PROVE  FirstForeign(chain, trusted) = chain[k]
<1> DEFINE foreign == {i \in 1 .. Len(chain) : chain[i] \notin trusted}
<1>1. k \in foreign /\ \A j \in foreign : k >= j
  OBVIOUS
<1>2. PICK i : i = CHOOSE m \in foreign : \A j \in foreign : m >= j
  OBVIOUS
<1>3. i \in foreign /\ \A j \in foreign : i >= j
  BY <1>1, <1>2
<1>4. i = k
  BY <1>1, <1>3
<1>5. QED
  BY <1>1, <1>2, <1>4 DEF FirstForeign

\* The chain, where the hops are those of a self-hosted edition and append.
LEMMA ChainForm ==
    ASSUME NEW q, CallerAsked(q), NEW l, l = Len(q.sent)
    PROVE  /\ l \in Nat /\ q.sent \in Seq(Ours \cup {Client, Proxied, NotAnAddress})
           /\ q.path = <<Web>> /\ Web \in q.appends =>
                 ForwardedChain(q) = Append(q.sent, q.origin)
           /\ q.path = <<Balancer, Web>> /\ {Balancer, Web} \subseteq q.appends =>
                 ForwardedChain(q) = Append(Append(q.sent, q.origin), Balancer)
<1> DEFINE A == Ours \cup {Client, Proxied, NotAnAddress}
<1>1. q.sent \in Seq(A) /\ q.origin \in A /\ Balancer \in A
  BY AttributionAssumption DEF CallerAsked, Ours
<1> HIDE DEF A
<1>2. l \in Nat
  BY <1>1
<1>3. ASSUME q.path = <<Web>>, Web \in q.appends
      PROVE  ForwardedChain(q) = Append(q.sent, q.origin)
  <2>1. Appended(q, 1) = <<q.origin>> /\ Appended(q, 2) = <<>> /\ Appended(q, 3) = <<>>
    BY <1>3 DEF Appended, PeerOf
  <2>2. q.sent \o <<q.origin>> = Append(q.sent, q.origin)
    BY <1>1
  <2>3. \A s \in Seq(A) : s \o <<>> = s
    OBVIOUS
  <2>4. Append(q.sent, q.origin) \in Seq(A)
    BY <1>1
  <2>5. QED
    BY <2>1, <2>2, <2>3, <2>4 DEF ForwardedChain
<1>4. ASSUME q.path = <<Balancer, Web>>, {Balancer, Web} \subseteq q.appends
      PROVE  ForwardedChain(q) = Append(Append(q.sent, q.origin), Balancer)
  <2>1. Appended(q, 1) = <<q.origin>> /\ Appended(q, 2) = <<Balancer>> /\ Appended(q, 3) = <<>>
    BY <1>4 DEF Appended, PeerOf
  <2>2. \A s \in Seq(A), x \in A : s \o <<x>> = Append(s, x)
    OBVIOUS
  <2>3. \A s \in Seq(A) : s \o <<>> = s
    OBVIOUS
  <2>4. Append(q.sent, q.origin) \in Seq(A) /\ Append(Append(q.sent, q.origin), Balancer) \in Seq(A)
    BY <1>1
  <2>5. QED
    BY <1>1, <2>1, <2>2, <2>3, <2>4, ZenonT(120) DEF ForwardedChain
<1>5. QED
  BY <1>1, <1>2, <1>3, <1>4 DEF A

LEMMA PathForm ==
    ASSUME NEW q, CallerAsked(q)
    PROVE  /\ q.path = <<>> =>
                 LastOr(q.path, q.origin) = q.origin /\ OnPath(q) = {}
           /\ q.path # <<>> =>
                 /\ LastOr(q.path, q.origin) = Web /\ Web \in OnPath(q)
                 /\ q.path = <<Web>> \/ q.path = <<Balancer, Web>> \/ Cdn \in OnPath(q)
                 /\ Cdn \notin OnPath(q) => (q.path = <<Web>> => OnPath(q) = {Web})
                       /\ (q.path = <<Balancer, Web>> => OnPath(q) = {Balancer, Web})
<1>1. CASE q.path = <<>>
  BY <1>1 DEF LastOr, OnPath
<1>2. CASE q.path = <<Web>>
  BY <1>2 DEF LastOr, OnPath
<1>3. CASE q.path = <<Balancer, Web>>
  <2>1. OnPath(q) = {Balancer, Web}
    BY <1>3 DEF OnPath
  <2>2. LastOr(q.path, q.origin) = Web
    BY <1>3 DEF LastOr
  <2>3. QED
    BY <1>3, <2>1, <2>2
<1>4. CASE q.path = <<Cdn, Balancer, Web>>
  <2>1. OnPath(q) = {Cdn, Balancer, Web}
    BY <1>4 DEF OnPath
  <2>2. LastOr(q.path, q.origin) = Web
    BY <1>4 DEF LastOr
  <2>3. QED
    BY <1>4, <2>1, <2>2
<1>5. QED
  BY <1>1, <1>2, <1>3, <1>4 DEF CallerAsked, Paths

LEMMA CallersAreNamed ==
    ASSUME NEW q, CallerAsked(q) PROVE CallerNamed(q, Resolve(q))
<1> DEFINE peer == LastOr(q.path, q.origin)
           client == Resolve(q)
<1>1. q.origin \in {Client, Proxied, NotAnAddress} /\ q.trusted \subseteq Ours
      /\ NotAnAddress \notin Ours /\ Web \in Ours /\ q.origin \notin Ours /\ Cdn \notin {Balancer, Web}
  BY AttributionAssumption DEF CallerAsked, Trusts, Ours
<1>2. CASE q.path = <<>>
  <2>1. peer = q.origin /\ OnPath(q) = {}
    BY <1>2, PathForm
  <2>2. q.origin # NotAnAddress => client = Resolved(q.origin, "peer")
    BY <1>1, <2>1 DEF Resolve
  <2>3. QED
    BY <1>2, <2>2 DEF CallerNamed, Identifies, Resolved
<1>3. CASE q.path # <<>>
  <2>1. peer = Web /\ Web \in OnPath(q) /\ q.origin # NotAnAddress
    BY <1>3, PathForm DEF CallerAsked
  <2>2. Web \notin q.trusted => client = Resolved(Web, "peer")
    BY <1>1, <2>1 DEF Resolve
  <2>3. client \in {Resolved(Web, "peer"), Resolved(Web, "proxy")} \/ client.source = "forwarded"
    BY <1>1, <2>1 DEF Resolve, ByViewerHeader, ByChain, Resolved
  <2>4. q.edge /\ Web \in q.trusted =>
           client = IF Cdn \in OnPath(q) THEN Resolved(q.origin, "forwarded") ELSE Resolved(Web, "proxy")
    BY <1>1, <2>1 DEF Resolve, ByViewerHeader, OnPath
  <2>5. ASSUME Described(q), ~q.edge PROVE client = Resolved(q.origin, "forwarded")
    <3>1. Cdn \notin OnPath(q) /\ OnPath(q) \subseteq q.trusted /\ OnPath(q) \subseteq q.appends
      BY <2>5 DEF Described
    <3>2. client = ByChain(q, Web)
      BY <1>1, <2>1, <2>5, <3>1 DEF Resolve
    <3>3. FirstForeign(ForwardedChain(q), q.trusted) = q.origin
      <4> DEFINE A == Ours \cup {Client, Proxied, NotAnAddress}
                 l == Len(q.sent)
      <4>1. q.sent \in Seq(A) /\ l \in Nat /\ q.origin \in A /\ Balancer \in A
        BY <1>1, ChainForm DEF Ours
      <4>0. Append(q.sent, q.origin) \in Seq(A) /\ Append(Append(q.sent, q.origin), Balancer) \in Seq(A)
        <5> HIDE DEF A
        <5>1. Append(q.sent, q.origin) \in Seq(A)
          BY <4>1
        <5>2. QED
          BY <4>1, <5>1
      <4>2. CASE q.path = <<Web>>
        <5>1. ForwardedChain(q) = Append(q.sent, q.origin)
          BY <2>1, <3>1, <4>2, ChainForm
        <5>2. PICK chain \in Seq(A) : chain = Append(q.sent, q.origin)
          BY <4>0
        <5>3. Len(chain) = l + 1 /\ chain[l + 1] = q.origin
          BY <4>1, <5>2
        <5>4. q.origin \notin q.trusted
          BY <1>1
        <5> HIDE DEF A
        <5>5. FirstForeign(chain, q.trusted) = chain[l + 1]
          BY <4>1, <5>3, <5>4, ForeignLast
        <5>6. QED
          BY <5>1, <5>2, <5>3, <5>5
      <4>3. CASE q.path = <<Balancer, Web>>
        <5>1. OnPath(q) = {Balancer, Web}
          BY <1>3, <3>1, <4>3, PathForm
        <5>2. ForwardedChain(q) = Append(Append(q.sent, q.origin), Balancer)
          BY <3>1, <4>3, <5>1, ChainForm
        <5>3. PICK chain \in Seq(A) : chain = Append(Append(q.sent, q.origin), Balancer)
          BY <4>0
        <5>4. Len(chain) = l + 2 /\ chain[l + 1] = q.origin /\ chain[l + 2] = Balancer
          BY <4>1, <5>3
        <5>5. q.origin \notin q.trusted /\ Balancer \in q.trusted
          BY <1>1, <3>1, <5>1
        <5> HIDE DEF A
        <5>6. FirstForeign(chain, q.trusted) = chain[l + 1]
          BY <4>1, <5>4, <5>5, ForeignLast
        <5>7. QED
          BY <5>2, <5>3, <5>4, <5>6
      <4>4. QED
        BY <1>3, <3>1, <4>2, <4>3, PathForm
    <3>4. QED
      BY <2>1, <3>2, <3>3 DEF ByChain
  <2>6. Described(q) => client = Resolved(q.origin, "forwarded")
    <3>1. Described(q) => Web \in q.trusted
      BY <1>1, <2>1 DEF Described
    <3>2. QED
      BY <2>4, <2>5, <3>1 DEF Described
  <2>7. Described(q) => client.addr = q.origin /\ Identifies(client)
    BY <2>6 DEF Identifies, Resolved
  <2>8. OnPath(q) \subseteq q.trusted /\ ~Identifies(client) => client.source = "proxy" /\ client.addr \in Ours
    BY <1>1, <2>1, <2>3 DEF Identifies, Resolved
  <2>9. q.edge /\ Web \in q.trusted => client.addr \in {q.origin, Web}
    BY <2>4 DEF Resolved
  <2>10. QED
    BY <2>7, <2>8, <2>9 DEF CallerNamed
<1>4. QED
  BY <1>2, <1>3

\* What is recorded of it.
KnownWho(who) ==
    /\ who.tenant \in {"", "t"} /\ who.principal \in {"", "u"}
    /\ who.tenant = "t" <=> who.principal = "u"
Landing(e) == Validates(e) /\ KnownWho(e.who)

LEMMA WhosKnown ==
    /\ KnownWho(Unidentified) /\ KnownWho(Account) /\ KnownWho(InSession)
    /\ KnownWho([Account EXCEPT !.actor = "admin"])
    /\ KnownWho(ByAddressOf(Account)) /\ KnownWho(ByAddressOf(Unidentified))
<1>1. KnownWho(Unidentified) /\ KnownWho(ByAddressOf(Unidentified))
  BY DEF KnownWho, Unidentified, ByAddressOf
<1>2. KnownWho(Account) /\ KnownWho(ByAddressOf(Account)) /\ KnownWho([Account EXCEPT !.actor = "admin"])
  BY DEF KnownWho, Account, Unidentified, ByAddressOf
<1>3. KnownWho(InSession)
  BY DEF KnownWho, InSession, Account, Unidentified
<1>4. QED
  BY <1>1, <1>2, <1>3

LEMMA NotedLanding ==
    ASSUME NEW event \in KnownEvents, NEW result \in {"success", "failure"}, NEW method \in Methods,
           NEW reason \in KnownReasons \cup {""}, result = "failure" => reason # "",
           NEW who, KnownWho(who)
    PROVE  Landing(Noted(event, result, method, reason, who))
<1>1. PICK e : e = Noted(event, result, method, reason, who)
  OBVIOUS
<1>2. e.event = event /\ e.outcome = result /\ e.method = method /\ e.reason = reason /\ e.who = who
  BY <1>1 DEF Noted
<1>3. QED
  BY <1>1, <1>2 DEF Landing, Validates

LEMMA EventsLanding == ASSUME NEW e \in Events PROVE Landing(e)
<1>1. CASE e \in LoginEvents
  <2>1. CASE e = Noted("auth.lockout.engaged", "failure", "password", "bad_credential", Account)
    BY <2>1, WhosKnown, NotedLanding DEF KnownEvents, KnownReasons, Methods
  <2>2. CASE e = Noted("auth.login.succeeded", "success", "password", "", InSession)
    BY <2>2, WhosKnown, NotedLanding DEF KnownEvents, KnownReasons, Methods
  <2>3. CASE \E known \in BOOLEAN, capable \in BOOLEAN, charge \in {"failed", "refused", "allowed"} :
               e = Noted("auth.login.failed", "failure", "password",
                         LoginRefusalReason(known, capable, charge),
                         ByAddressOf(IF known THEN Account ELSE Unidentified))
    <3>1. PICK known \in BOOLEAN, capable \in BOOLEAN, charge \in {"failed", "refused", "allowed"} :
               e = Noted("auth.login.failed", "failure", "password",
                         LoginRefusalReason(known, capable, charge),
                         ByAddressOf(IF known THEN Account ELSE Unidentified))
      BY <2>3
    <3>2. PICK reason : reason = LoginRefusalReason(known, capable, charge)
      OBVIOUS
    <3>3. PICK who : who = ByAddressOf(IF known THEN Account ELSE Unidentified)
      OBVIOUS
    <3>4. reason \in KnownReasons /\ reason # ""
      BY <3>2 DEF LoginRefusalReason, KnownReasons
    <3>5. KnownWho(who)
      BY <3>3, WhosKnown
    <3>6. QED
      BY <3>1, <3>2, <3>3, <3>4, <3>5, NotedLanding DEF KnownEvents, Methods
  <2> DEFINE Failed(known, capable, charge) ==
               Noted("auth.login.failed", "failure", "password",
                     LoginRefusalReason(known, capable, charge),
                     ByAddressOf(IF known THEN Account ELSE Unidentified))
             Engaged == Noted("auth.lockout.engaged", "failure", "password", "bad_credential", Account)
             Succeeded == Noted("auth.login.succeeded", "success", "password", "", InSession)
  <2>4. LoginEvents = {Failed(known, capable, charge) : known \in BOOLEAN, capable \in BOOLEAN,
                                               charge \in {"failed", "refused", "allowed"}}
                     \cup {Engaged, Succeeded}
    BY DEF LoginEvents
  <2>5. (\E known \in BOOLEAN, capable \in BOOLEAN, charge \in {"failed", "refused", "allowed"} :
           e = Failed(known, capable, charge)) => Landing(e)
    BY <2>3
  <2>6. e = Engaged \/ e = Succeeded => Landing(e)
    BY <2>1, <2>2
  <2> HIDE DEF Failed, Engaged, Succeeded
  <2>7. \/ \E known \in BOOLEAN, capable \in BOOLEAN, charge \in {"failed", "refused", "allowed"} :
             e = Failed(known, capable, charge)
        \/ e = Engaged \/ e = Succeeded
    BY <1>1, <2>4
  <2>8. QED
    BY <2>5, <2>6, <2>7
<1>2. CASE e \in MfaEvents
  <2>1. PICK event, result, reason, who :
           /\ e = Noted(event, result, "totp", reason, who)
           /\ event \in KnownEvents /\ reason \in KnownReasons \cup {""}
           /\ result = "success" \/ (result = "failure" /\ reason # "")
           /\ who \in {Account, InSession, Unidentified}
    BY <1>2 DEF MfaEvents, KnownEvents, KnownReasons
  <2>2. KnownWho(who)
    BY <2>1, WhosKnown
  <2>3. QED
    BY <2>1, <2>2, NotedLanding DEF Methods
<1>3. CASE e \in SessionEvents
  <2>1. PICK event, reason, who :
           /\ e = Noted(event, "success", "session", reason, who)
           /\ event \in KnownEvents /\ reason \in KnownReasons
           /\ who \in {InSession, Account, [Account EXCEPT !.actor = "admin"]}
    BY <1>3 DEF SessionEvents, KnownEvents, KnownReasons
  <2>2. KnownWho(who)
    BY <2>1, WhosKnown
  <2>3. QED
    BY <2>1, <2>2, NotedLanding DEF Methods
<1>4. CASE e \in TokenEvents
  <2>1. PICK reason, who :
           /\ e = Noted("auth.token.rejected", "failure", "api_token", reason, who)
           /\ reason \in KnownReasons /\ reason # "" /\ who \in {InSession, Unidentified}
    BY <1>4 DEF TokenEvents, KnownReasons
  <2>2. KnownWho(who)
    BY <2>1, WhosKnown
  <2>3. QED
    BY <2>1, <2>2, NotedLanding DEF KnownEvents, Methods
<1>5. CASE e \in InviteEvents
  <2>1. CASE e = Noted("auth.invite.accepted", "success", "invite_token", "", Account)
    BY <2>1, WhosKnown, NotedLanding DEF KnownEvents, Methods
  <2>2. CASE e # Noted("auth.invite.accepted", "success", "invite_token", "", Account)
    <3>1. PICK reason, who :
             /\ e = Noted("auth.invite.rejected", "failure", "invite_token", reason, who)
             /\ reason \in KnownReasons /\ reason # "" /\ who \in {Account, Unidentified}
      BY <1>5, <2>2 DEF InviteEvents, KnownReasons
    <3>2. KnownWho(who)
      BY <3>1, WhosKnown
    <3>3. QED
      BY <3>1, <3>2, NotedLanding DEF KnownEvents, Methods
  <2>3. QED
    BY <2>1, <2>2
<1>6. QED
  BY <1>1, <1>2, <1>3, <1>4, <1>5 DEF Events

LEMMA EventsLand ==
    ASSUME NEW e \in Events, NEW client, NEW keyed \in BOOLEAN,
           client \in {Resolved(Client, "peer"), Resolved(Client, "forwarded"),
                      Resolved(Web, "proxy"), Nowhere}
    PROVE  EventLands(e, Row(e, Bound(client), keyed), keyed)
<1> DEFINE bound == Bound(client)
           row == Row(e, bound, keyed)
<1>1. /\ bound.source \in {"", "peer", "forwarded", "proxy"}
      /\ bound.addr = NotAnAddress <=> bound.source = ""
  <2>1. client.addr \in {Client, Web, NotAnAddress} /\ (client.source = "nowhere" <=> client.addr = NotAnAddress)
        /\ client.source \in {"nowhere", "peer", "forwarded", "proxy"}
    <3>1. Client # NotAnAddress /\ Web # NotAnAddress
      BY AttributionAssumption DEF Ours
    <3>2. CASE client = Resolved(Client, "peer")
      BY <3>1, <3>2 DEF Resolved
    <3>3. CASE client = Resolved(Client, "forwarded")
      BY <3>1, <3>3 DEF Resolved
    <3>4. CASE client = Resolved(Web, "proxy")
      BY <3>1, <3>4 DEF Resolved
    <3>5. CASE client = Nowhere
      BY <3>5 DEF Nowhere, Resolved
    <3>6. QED
      BY <3>2, <3>3, <3>4, <3>5
  <2>2. CASE client.source = "nowhere"
    BY <2>2 DEF Bound
  <2>3. CASE client.source # "nowhere"
    BY <2>1, <2>3 DEF Bound
  <2>4. QED
    BY <2>2, <2>3
<1>2. /\ row.ip = NotAnAddress <=> row.source = ""
      /\ row.source \in {"", "peer", "forwarded", "proxy"}
  BY <1>1 DEF Row
<1>3. /\ Validates(e) /\ e.who.tenant \in {"", "t"} /\ e.who.principal \in {"", "u"}
      /\ e.who.tenant = "t" <=> e.who.principal = "u"
  BY EventsLanding DEF Landing, KnownWho
<1>4. /\ row.tenant = e.who.tenant /\ row.principal = e.who.principal /\ row.event = e.event
      /\ row.outcome = e.outcome /\ row.method = e.method /\ row.digest = DigestOf(e, keyed)
  BY DEF Row
<1> HIDE DEF row, bound
<1>5. Storable(row)
  BY <1>2, <1>3, <1>4 DEF Storable, Validates, DigestOf
<1>6. row.principal # "" => row \in List({row}, [AnyRow EXCEPT !.principal = "u", !.tenant = "t"])
  <2>1. PICK f : f = [AnyRow EXCEPT !.principal = "u", !.tenant = "t"]
    OBVIOUS
  <2>2. /\ DOMAIN f = {"tenant", "principal", "digest", "event"}
        /\ f.tenant = "t" /\ f.principal = "u" /\ f.digest = "" /\ f.event = ""
    BY <2>1 DEF AnyRow
  <2>3. row.principal # "" => \A column \in DOMAIN f : f[column] # "" => row[column] = f[column]
    BY <1>3, <1>4, <2>2
  <2>4. QED
    BY <2>1, <2>3 DEF List
<1>7. (keyed /\ e.who.subject # "" /\ row.principal = "") =>
          row \in List({row}, [AnyRow EXCEPT !.digest = "digest", !.event = e.event])
  <2>1. PICK f : f = [AnyRow EXCEPT !.digest = "digest", !.event = e.event]
    OBVIOUS
  <2>2. /\ DOMAIN f = {"tenant", "principal", "digest", "event"}
        /\ f.tenant = "" /\ f.principal = "" /\ f.digest = "digest" /\ f.event = e.event
    BY <2>1 DEF AnyRow
  <2>3. keyed /\ e.who.subject # "" /\ row.principal = "" =>
           \A column \in DOMAIN f : f[column] # "" => row[column] = f[column]
    BY <1>4, <2>2 DEF DigestOf
  <2>4. QED
    BY <2>1, <2>3 DEF List
<1>8. \A tenant \in {"t", "other", ""} :
          TenantReads({row}, tenant) # {} <=> tenant = "t" /\ row.principal # ""
  BY <1>3, <1>4 DEF TenantReads
<1>9. QED
  BY <1>2, <1>3, <1>5, <1>6, <1>7, <1>8 DEF EventLands, row, bound

\* Whatever a request brings with it along the ways in, and whatever is recorded
\* of it (Resolve, forwardedChain, stamp): the chain is read past our own hops to
\* the address that connected to the first of them, however long the header its
\* caller began, and every event of a call site lands in the stream.
AskedOfCallers ==
    \/ asked = Nothing
    \/ CallerAsked(asked) /\ asked.about = "caller"
    \/ /\ asked.about = "event" /\ asked.event \in Events /\ asked.keyed \in BOOLEAN
       /\ asked.client \in {Resolved(Client, "peer"), Resolved(Client, "forwarded"),
                             Resolved(Web, "proxy"), Nowhere}

THEOREM CallersAlwaysNamed == AttributionSpec => []CallersNamed
<1>1. asked = Nothing => AskedOfCallers
  BY DEF AskedOfCallers
<1>2. AskedOfCallers /\ [AskCaller \/ AskEvent]_asked => AskedOfCallers'
  <2> SUFFICES ASSUME AskedOfCallers, [AskCaller \/ AskEvent]_asked PROVE AskedOfCallers'
    OBVIOUS
  <2>1. CASE AskCaller
    BY <2>1 DEF AskCaller, AskedOfCallers, CallerAsked
  <2>2. CASE AskEvent
    BY <2>2 DEF AskEvent, AskedOfCallers
  <2>3. CASE UNCHANGED asked
    BY <2>3 DEF AskedOfCallers, CallerAsked
  <2>4. QED
    BY <2>1, <2>2, <2>3
<1>3. AskedOfCallers => CallersNamed
  BY CallersAreNamed, EventsLand DEF AskedOfCallers, CallersNamed, Nothing
<1>4. QED
  BY <1>1, <1>2, <1>3, PTL DEF AttributionSpec
=============================================================================
