--------------------------- MODULE MCTaskApproval ---------------------------
(* Small instances of TaskApproval for TLC. *)
EXTENDS TaskApproval, TLC

MCSymmetry == Permutations(People) \cup Permutations(Requests) \cup Permutations(Contents)

=============================================================================
