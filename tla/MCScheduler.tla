---------------------------- MODULE MCScheduler ----------------------------
(* A small instance of Scheduler for TLC: two processes, two jobs. *)
EXTENDS Scheduler
=============================================================================
