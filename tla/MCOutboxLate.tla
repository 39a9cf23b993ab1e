---------------------------- MODULE MCOutboxLate ----------------------------
(***************************************************************************)
(* Late answers of mail servers: one message, three runners.  And, sharing *)
(* nothing with it, the budget of an address and the gate in front of the  *)
(* handlers: a behaviour is of one `world'.                                *)
(***************************************************************************)
EXTENDS MCOutbox, Frontdoor

VARIABLE world

LateInit == Init /\ FrontdoorInit /\ world \in {"outbox", "door"}

LateNext ==
    \/ world = "outbox" /\ Next /\ UNCHANGED <<doorVars, world>>
    \/ world = "door" /\ FrontdoorNext /\ UNCHANGED <<vars, world>>

LateSpec == LateInit /\ [][LateNext]_<<vars, doorVars, world>>

\* Runners, their requests and callers differ only by name, and no property names one.
LateSymmetry == Symmetry \cup Permutations(Callers)
=============================================================================
