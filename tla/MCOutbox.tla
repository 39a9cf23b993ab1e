------------------------------ MODULE MCOutbox ------------------------------
(* The outbox on small sets of messages and runners. *)
EXTENDS Outbox, TLC

\* Runners differ only by name, and no property names one.
Symmetry == Permutations(Runners)
=============================================================================
