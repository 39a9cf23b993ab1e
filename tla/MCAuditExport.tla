--------------------------- MODULE MCAuditExport ---------------------------
(* A small instance of AuditExport for TLC, and archives to read. *)
EXTENDS AuditExport, Segments

\* Builds: before the cut-over of 2026-09-12, before records were sealed, then
\* before entries named a credential, and today's.
Builds == {[version |-> 1, seals |-> FALSE], [version |-> 2, seals |-> FALSE],
           [version |-> 2, seals |-> TRUE], [version |-> 3, seals |-> TRUE]}
Event(do, build) == [do |-> do, version |-> build.version, seals |-> build.seals]

\* What is done, by one build, then by another, then by a third.
MCHistories ==
    {[n \in DOMAIN doings |-> Event(doings[n], IF n < 3 THEN b1 ELSE IF n < turn THEN b2 ELSE b3)] :
        doings \in {<<"write", "cut", "write", "write", "cut">>,
                    <<"write", "write", "write", "cut", "cut">>,
                    <<"write", "cut", "write", "cut", "write", "cut">>,
                    <<"write", "write", "cut", "write", "cut", "cut">>},
        turn \in 4 .. 6, b1 \in Builds, b2 \in Builds, b3 \in Builds}
MCSegmentCaps == {2, 3}

\* A hash.  Were the numbers of two texts to collide, a difference would go unseen
\* and ArchivesVerify fail: no pair that matters does.
MCSha(text) ==
    LET h[n \in 0 .. Len(text)] ==
            IF n = 0 THEN 1 ELSE ((h[n - 1] * 30011 + text[n] + 9) % 46337) + 1
    IN  h[Len(text)]

\* A behaviour reads an archive, or goes on as the exporters do.
MCNext ==
    \/ asked = Nothing /\ Next /\ UNCHANGED asked
    \/ log = <<>> /\ lock = Free /\ faults = 0 /\ left = [x \in Exporters |-> 0]
       /\ format = [x \in Exporters |-> 1] /\ AskSegments /\ UNCHANGED vars
MCInit == Init /\ asked = Nothing
MCSpec == MCInit /\ [][MCNext]_<<vars, asked>> /\ Fairness
=============================================================================
