----------------------------- MODULE Questions -----------------------------
(***************************************************************************)
(* Pure parts of the program (calendars, access, reports, reminders) keep  *)
(* no state.  They are modelled as operators, and a run checks them by     *)
(* putting a question to them: `asked' holds what a request asks, and      *)
(* the properties hold the answer to what it must be.  A behaviour asks    *)
(* one.                                                                    *)
(***************************************************************************)

VARIABLE asked

Nothing == [about |-> "nothing"]
=============================================================================
