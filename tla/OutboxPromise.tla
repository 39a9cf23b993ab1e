---------------------------- MODULE OutboxPromise ----------------------------
(***************************************************************************)
(* What the outbox promises a producer, without leases, attempts, passes   *)
(* or time: an owed message is in the end delivered or abandoned, never    *)
(* both and never forgotten while it is owed, and delivered means that the *)
(* transport took it.  Taking it more than once is allowed (at least once).*)
(***************************************************************************)
CONSTANT Messages

VARIABLES fate, taken

Fates == {"unborn", "owed", "delivered", "abandoned", "forgotten"}

Init == fate = [m \in Messages |-> "unborn"] /\ taken = {}

Owe(m) ==
    /\ fate[m] = "unborn"
    /\ fate' = [fate EXCEPT ![m] = "owed"]
    /\ UNCHANGED taken

\* A late copy may reach the transport even after the message is settled.
Take(m) ==
    /\ fate[m] # "unborn"
    /\ taken' = taken \cup {m}
    /\ UNCHANGED fate

Close(m) ==
    /\ fate[m] = "owed"
    /\ \/ m \in taken /\ fate' = [fate EXCEPT ![m] = "delivered"]
       \/ fate' = [fate EXCEPT ![m] = "abandoned"]
    /\ UNCHANGED taken

Forget(S) ==
    /\ \A m \in S : fate[m] \in {"delivered", "abandoned"}
    /\ fate' = [m \in Messages |-> IF m \in S THEN "forgotten" ELSE fate[m]]
    /\ UNCHANGED taken

Next ==
    \/ \E m \in Messages : Owe(m) \/ Take(m) \/ Close(m)
    \/ \E S \in SUBSET Messages : Forget(S)

Spec == Init /\ [][Next]_<<fate, taken>>

=============================================================================
