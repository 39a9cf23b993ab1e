----------------------------- MODULE MCMembers -----------------------------
(* Member administration of a tenant with two people and a machine. *)
EXTENDS Members, TLC

\* Requests and credentials differ only by name, and no property names one.
Symmetry == Permutations(Procs) \cup Permutations(Creds)
=============================================================================
