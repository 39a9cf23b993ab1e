------------------------------ MODULE MCSignIn ------------------------------
(* Small instances of SignIn for TLC. *)
EXTENDS SignIn, TLC

MCSymmetry == Permutations(Logins) \cup Permutations(Coders)

=============================================================================
