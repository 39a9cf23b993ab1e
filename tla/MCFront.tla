------------------------------ MODULE MCFront ------------------------------
(***************************************************************************)
(* Small instances of the approval flow; and of what is recorded of every  *)
(* request: questions about who called, and the stream of authentication   *)
(* events over the months.  They share nothing: a behaviour is of one      *)
(* `world'.                                                                *)
(***************************************************************************)
EXTENDS MCTaskApproval, Stream, Attribution

VARIABLE world

MCHeaders == {<<>>} \cup [1 .. 1 -> {Client, Proxied, Web, NotAnAddress}]
                   \cup [1 .. 2 -> {Client, Proxied, Web, NotAnAddress}]

Worlds == {"approval", "stream", "attribution"}

FrontInit ==
    /\ Init /\ StreamInit /\ asked = Nothing
    /\ world \in Worlds
    /\ world # "stream" => window = MinRetentionMonths /\ ahead = 1

FrontNext ==
    \/ world = "approval" /\ Next /\ UNCHANGED <<streamVars, asked, world>>
    \/ world = "stream" /\ StreamNext /\ UNCHANGED <<vars, asked, world>>
    \/ /\ world = "attribution" /\ (AskCaller \/ AskEvent)
       /\ UNCHANGED <<vars, streamVars, world>>

FrontSpec == FrontInit /\ [][FrontNext]_<<vars, streamVars, asked, world>>
=============================================================================
