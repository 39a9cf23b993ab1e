---------------------------- MODULE MCDocuments ----------------------------
(* Two documents, one of them attached to the task instance; and files that *)
(* are uploaded to be imported, their cells and their rows.                 *)
EXTENDS Documents, MCSheets, MCValues, MCDrafts

\* A behaviour reads a file, or goes on as the requests do.
MCNext ==
    \/ asked = Nothing /\ Next /\ UNCHANGED asked
    \/ store = {} /\ faults = 0 /\ (\A q \in Requests : req[q] = Fresh)
       /\ purge.at = "none" /\ instance = "open"
       /\ (AskFile \/ AskCell \/ AskImport) /\ UNCHANGED vars
MCInit == Init /\ asked = Nothing
MCSpec == MCInit /\ [][MCNext]_<<vars, asked>> /\ Fairness
=============================================================================
