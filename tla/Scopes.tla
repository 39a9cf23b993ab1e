------------------------------- MODULE Scopes -------------------------------
(***************************************************************************)
(* What a read is narrowed to (platform/authz, ReadScope): everything, or  *)
(* the entities below the grants of the caller.  Access says which scope a *)
(* caller has, the reports apply the one they are given.                   *)
(***************************************************************************)

CONSTANT None  \* NULL: no entity, no value

Everything == [all |-> TRUE, only |-> {}]
Only(S) == [all |-> FALSE, only |-> S]

\* EntityPredicate and WorkflowPredicate: NULL is in no narrowed scope.
In(scope, e) == scope.all \/ e \in scope.only
=============================================================================
