------------------------------ MODULE Members ------------------------------
(***************************************************************************)
(* Member administration of one tenant (modules/identity): who holds       *)
(* tenant_admin, who is invited, active or disabled, and which credentials *)
(* are live.  A request is one READ COMMITTED transaction: it loads the    *)
(* member without a lock, decides, and writes later.  Its writes show at   *)
(* its commit; until then it holds the row locks its UPDATEs took.         *)
(*                                                                         *)
(* An UPDATE by user id changes the rows it saw when it began: `seen' is   *)
(* that snapshot, and a row another transaction inserts is not in it.      *)
(* A spent, revoked or expired credential is Gone, its identity free again.*)
(***************************************************************************)
EXTENDS FiniteSets

CONSTANTS
    Humans, Services,  \* users.kind
    Founder,           \* the admin cmd/seed-admin provisions
    Creds,             \* rows of invite_tokens, sessions and api_tokens
    Procs,             \* requests under way at the same time
    Nobody, None       \* no user; no credential or request

ASSUME MembersAssumption ==
    /\ Founder \in Humans /\ Humans \cap Services = {}
    /\ Nobody \notin Humans \cup Services
    /\ None \notin Creds \cup Procs

VARIABLES
    status, password,  \* users
    admin,             \* humans with a tenant-wide tenant_admin row in user_grants
    cred,              \* the live credentials
    req,               \* the requests under way
    guard,             \* who holds the advisory lock of LockAdminGuard
    \* history
    raced,             \* credentials minted while their user's others were being ended
    stale              \* an enable or a rename landed on a status it had not loaded

userVars == <<status, password, admin>>
history  == <<raced, stale>>
vars == <<userVars, cred, req, guard, history>>

Users == Humans \cup Services
Statuses == {"absent", "invited", "active", "disabled"}

Gone == [kind |-> "gone", user |-> Nobody]
Credentials == [kind : {"invite", "session", "token"}, user : Users]

Idle == [op |-> "idle"]
GrantOps == {"promote", "demote", "remove"}
MintOps == {"reissue", "issue", "login"}
Ops == {"disable", "enable", "accept"} \cup GrantOps \cup MintOps
Requests ==
    [op : Ops, user : Users, at : {"loaded", "guarded", "taken", "counted", "marked", "activated"},
     before : Statuses,       \* the status an enable loaded
     write : Statuses \cup {"admin", "plain"},
     cred : Creds \cup {None}, seen : SUBSET Creds,
     late : BOOLEAN]          \* a mint, a disable or an accept of the user committed since

TypeOK ==
    /\ status \in [Users -> Statuses]
    /\ password \subseteq Humans /\ admin \subseteq Humans
    /\ cred \in [Creds -> Credentials \cup {Gone}]
    /\ req \in [Procs -> Requests \cup {Idle}]
    /\ guard \in Procs \cup {None}
    /\ raced \subseteq Creds /\ stale \in BOOLEAN

Init ==
    /\ status = [u \in Users |-> IF u = Founder THEN "active" ELSE "absent"]
    /\ password = {Founder} /\ admin = {Founder}
    /\ cred = [c \in Creds |-> Gone]
    /\ req = [p \in Procs |-> Idle]
    /\ guard = None
    /\ raced = {} /\ stale = FALSE

-----------------------------------------------------------------------------
(***************************************************************************)
(* What a request reads and locks.                                         *)
(***************************************************************************)
Doing(p, op, at) == req[p].op = op /\ req[p].at = at
About(p, u) == req[p] # Idle /\ req[p].user = u

\* CountActiveTenantAdmins, by the grants G: active, human, tenant-wide tenant_admin.
ActiveAmong(G) == {u \in G : status[u] = "active"}
Admins == ActiveAmong(admin)

CredsOf(u) == {c \in Creds : cred[c].user = u}
InvitesOf(u) == {c \in CredsOf(u) : cred[c].kind = "invite"}

\* The row of u in users, locked by an UPDATE that has not committed.
HasRow(q, u) ==
    About(q, u) /\ (Doing(q, "disable", "taken") \/ Doing(q, "disable", "counted")
                      \/ Doing(q, "accept", "activated"))
\* The invite_tokens rows a request has updated and not committed.
Locks(q) ==
    CASE Doing(q, "disable", "counted") -> req[q].seen
      [] Doing(q, "accept", "marked") \/ Doing(q, "accept", "activated") -> {req[q].cred}
      [] OTHER -> {}

\* Seeded fault: nothing serialises the requests that can take an admin away.
GuardIgnored == TRUE
GuardFree == guard = None

RowFree(p, u) == \A q \in Procs \ {p} : ~HasRow(q, u)
CredsFree(p, S) == \A q \in Procs \ {p} : Locks(q) \cap S = {}

Loads(p, op, u, write, c) ==
    /\ req[p] = Idle
    /\ req' = [req EXCEPT ![p] = [op |-> op, user |-> u, at |-> "loaded",
                                  before |-> IF op = "enable" THEN status[u] ELSE "absent",
                                  write |-> write, cred |-> c, seen |-> {}, late |-> FALSE]]
    /\ UNCHANGED <<userVars, cred, guard, history>>

\* The transaction of p ends, with its locks.
Ends(p) == req' = [req EXCEPT ![p] = Idle]
\* It ends with a change the mints under way for u have not seen.
EndsFor(p, u) ==
    req' = [q \in Procs |-> IF q = p THEN Idle
                            ELSE IF About(q, u) /\ req[q].op \in MintOps
                            THEN [req[q] EXCEPT !.late = TRUE] ELSE req[q]]

\* Seeded fault: a lock of the session, which outlives the transaction.
KeptGuard(p) == guard
Freed(p) == IF guard = p THEN None ELSE guard

\* The request fails, is cancelled, or Postgres picks it to break a deadlock.
RollBack(p) ==
    /\ req[p] # Idle /\ Ends(p) /\ guard' = Freed(p)
    /\ UNCHANGED <<userVars, cred, history>>

-----------------------------------------------------------------------------
(***************************************************************************)
(* Invites: Invite, ReissueInvite; service accounts; sign-in.              *)
(***************************************************************************)
\* Identities nobody but p has a reference to.
Mintable(p) ==
    {c \in Creds : /\ cred[c] = Gone
                   /\ \A q \in Procs \ {p} : req[q] # Idle => c \notin {req[q].cred} \cup req[q].seen}

\* Invite: the row, its first grant and its token on one transaction.
Invite(u) ==
    /\ Admins # {} /\ status[u] = "absent"
    /\ status' = [status EXCEPT ![u] = "invited"]
    /\ admin' \in {admin, admin \cup {u}}
    /\ \E c \in Mintable(None) : cred' = [cred EXCEPT ![c] = [kind |-> "invite", user |-> u]]
    /\ UNCHANGED <<password, req, guard, history>>

\* CreateServiceAccount: never with tenant_admin.
CreateServiceAccount(u) ==
    /\ Admins # {} /\ status[u] = "absent"
    /\ status' = [status EXCEPT ![u] = "active"]
    /\ UNCHANGED <<password, admin, cred, req, guard, history>>

\* Seeded fault: a reissue leaves the earlier invites alone.
RevokesNothing(u) == {}
\* RevokeUnusedForUser: the invites it sees.
Unused(u) == InvitesOf(u)

LoadReissue(p, u) ==
    /\ Admins # {} /\ status[u] = "invited"
    /\ Loads(p, "reissue", u, "invited", None)

LoadIssue(p, u) ==
    /\ Admins # {} /\ status[u] = "active"
    /\ Loads(p, "issue", u, "active", None)

\* Login's look-up; the lockout and the second factor are SignIn's.
LoadLogin(p, u) ==
    /\ status[u] = "active" /\ u \in password
    /\ Loads(p, "login", u, "active", None)

\* RevokeUnusedForUser begins, and waits for the rows it saw.
ReissueRevokes(p) ==
    /\ Doing(p, "reissue", "loaded")
    /\ req' = [req EXCEPT ![p].at = "taken", ![p].seen = Unused(req[p].user)]
    /\ UNCHANGED <<userVars, cred, guard, history>>

Kind(op) == CASE op = "reissue" -> "invite" [] op = "issue" -> "token" [] op = "login" -> "session"

\* Is somebody ending what u holds, on a snapshot taken already?
BeingEnded(u) ==
    \E q \in Procs : About(q, u) /\ req[q].op \in {"disable", "accept"}
                       /\ req[q].at \in {"taken", "counted", "activated"}

Without(S) == [c \in Creds |-> IF c \in S THEN Gone ELSE cred[c]]

\* The mint and its commit.  A login updates the row of users first.
Mint(p) == LET u == req[p].user
               ended == req[p].seen \cap InvitesOf(u) IN
    /\ \/ Doing(p, "reissue", "taken") /\ CredsFree(p, req[p].seen)
       \/ Doing(p, "issue", "loaded")
       \/ Doing(p, "login", "loaded") /\ RowFree(p, u)
    /\ \E c \in Mintable(p) :
          /\ cred' = [Without(ended) EXCEPT
                        ![c] = [kind |-> Kind(req[p].op), user |-> u]]
          /\ raced' = (raced \ ended)
                        \cup (IF req[p].late \/ BeingEnded(u) THEN {c} ELSE {})
    /\ EndsFor(p, u)
    /\ UNCHANGED <<userVars, guard, stale>>

\* Bound: the model is out of identities.
CannotMint(p) ==
    /\ req[p].op \in MintOps /\ Mintable(p) = {} /\ Ends(p)
    /\ UNCHANGED <<userVars, cred, guard, history>>

\* RevokeToken, Logout, or the clock.
EndCredential(c) ==
    /\ cred[c] # Gone /\ \A q \in Procs : c \notin Locks(q)
    /\ cred' = Without({c}) /\ raced' = raced \ {c}
    /\ UNCHANGED <<userVars, req, guard, stale>>

-----------------------------------------------------------------------------
(***************************************************************************)
(* AcceptInvite: MarkAccepted, Activate, RevokeUnusedForUser, commit.      *)
(***************************************************************************)
LoadAccept(p, c) ==
    /\ cred[c].kind = "invite" /\ cred[c].user \in Humans /\ status[cred[c].user] = "invited"
    /\ Loads(p, "accept", cred[c].user, "active", c)

MarkAccepted(p) == LET c == req[p].cred IN
    /\ Doing(p, "accept", "loaded") /\ CredsFree(p, {c})
    /\ IF c \in InvitesOf(req[p].user)
       THEN req' = [req EXCEPT ![p].at = "marked"]
       ELSE Ends(p)
    /\ UNCHANGED <<userVars, cred, guard, history>>

\* Seeded fault: the UPDATE of Activate names the id alone.
ActivatesAnyway(u) == TRUE
StillInvited(u) == status[u] = "invited"

\* Activate holds the row from here; the siblings are those live by now.
Activate(p) == LET u == req[p].user IN
    /\ Doing(p, "accept", "marked") /\ RowFree(p, u)
    /\ IF StillInvited(u)
       THEN req' = [req EXCEPT ![p].at = "activated", ![p].seen = Unused(u) \ {req[p].cred}]
       ELSE Ends(p)
    /\ UNCHANGED <<userVars, cred, guard, history>>

FinishAccept(p) == LET u == req[p].user
                       spent == {req[p].cred} \cup (req[p].seen \cap InvitesOf(u)) IN
    /\ Doing(p, "accept", "activated") /\ CredsFree(p, req[p].seen)
    /\ status' = [status EXCEPT ![u] = "active"]
    /\ password' = password \cup {u}
    /\ cred' = Without(spent) /\ raced' = raced \ spent
    /\ EndsFor(p, u)
    /\ UNCHANGED <<admin, guard, stale>>

-----------------------------------------------------------------------------
(***************************************************************************)
(* UpdateMember.                                                           *)
(***************************************************************************)
\* A caller can never disable itself.
LoadDisable(p, u) ==
    /\ Admins \ {u} # {} /\ status[u] # "absent"
    /\ Loads(p, "disable", u, "disabled", None)

\* Seeded fault: disabling forgets the outstanding invites.
SessionsAndTokens(u) == CredsOf(u) \ InvitesOf(u)
Ended(u) == CredsOf(u)

\* LockAdminGuard.
GuardDisable(p) ==
    /\ Doing(p, "disable", "loaded") /\ GuardFree
    /\ guard' = p
    /\ req' = [req EXCEPT ![p].at = "guarded"]
    /\ UNCHANGED <<userVars, cred, history>>

\* Under it the row of the member, and the sight of its credentials.
TakeDisable(p) == LET u == req[p].user IN
    /\ Doing(p, "disable", "guarded") /\ RowFree(p, u)
    /\ req' = [req EXCEPT ![p].at = "taken", ![p].seen = Ended(u)]
    /\ UNCHANGED <<userVars, cred, guard, history>>

\* The last-admin guard, on the transaction's own view; nobody left: roll back.
CountForDisable(p) == LET u == req[p].user IN
    /\ Doing(p, "disable", "taken") /\ CredsFree(p, req[p].seen)
    /\ \/ /\ Admins \ {u} # {}
          /\ req' = [req EXCEPT ![p].at = "counted"] /\ UNCHANGED guard
       \/ Admins \ {u} = {} /\ Ends(p) /\ guard' = Freed(p)
    /\ UNCHANGED <<userVars, cred, history>>

CommitDisable(p) == LET u == req[p].user
                        ended == req[p].seen \cap CredsOf(u) IN
    /\ Doing(p, "disable", "counted")
    /\ status' = [status EXCEPT ![u] = "disabled"]
    /\ cred' = Without(ended) /\ raced' = raced \ ended
    /\ EndsFor(p, u) /\ guard' = Freed(p)
    /\ UNCHANGED <<password, admin, stale>>

\* Seeded fault: whoever is enabled becomes active.
Reactivated(u) == "active"
\* An invited member is activated by its invite only; a human without a
\* password goes back to invited.
Enabled(u) == IF u \in Services \/ u \in password THEN "active" ELSE "invited"

LoadEnable(p, u) ==
    /\ Admins # {} /\ status[u] \in {"active", "disabled"}
    /\ Loads(p, "enable", u, Enabled(u), None)

\* UpdateNameStatus names the id alone: whatever the status has become.
WriteEnable(p) == LET u == req[p].user IN
    /\ Doing(p, "enable", "loaded") /\ RowFree(p, u)
    /\ status' = [status EXCEPT ![u] = req[p].write]
    /\ stale' = (stale \/ status[u] # req[p].before)
    /\ Ends(p)
    /\ UNCHANGED <<password, admin, cred, guard, raced>>

-----------------------------------------------------------------------------
(***************************************************************************)
(* SetRole, AddGrant, RemoveGrant.                                         *)
(***************************************************************************)
\* What the change leaves the member with.  Nothing keeps a role from being
\* granted twice, so removing one row may leave another.
Leaves(op) == CASE op = "promote" -> {"admin"} [] op = "demote" -> {"plain"}
                [] op = "remove" -> {"admin", "plain"}

\* validateGrant: tenant_admin is never a machine's.
LoadGrant(p, u, op) ==
    /\ Admins # {} /\ status[u] # "absent"
    /\ op = "promote" => u \in Humans
    /\ op = "remove" => u \in admin
    /\ \E w \in Leaves(op) : Loads(p, op, u, w, None)

With(u, w) == IF w = "admin" THEN admin \cup {u} ELSE admin \ {u}
Granted(u, w, op) == IF op = "remove" THEN admin \cap With(u, w) ELSE With(u, w)

\* LockAdminGuard, the change, and the last-admin guard on top of it.
ChangeGrants(p) == LET G == Granted(req[p].user, req[p].write, req[p].op) IN
    /\ req[p].op \in GrantOps /\ req[p].at = "loaded" /\ GuardFree
    /\ \/ /\ req[p].op = "remove" => req[p].user \in admin
          /\ ActiveAmong(G) # {}
          /\ req' = [req EXCEPT ![p].at = "counted"] /\ guard' = p
       \/ /\ \/ req[p].op = "remove"      \* that row is gone by now
             \/ ActiveAmong(G) = {}
          /\ Ends(p) /\ UNCHANGED guard
    /\ UNCHANGED <<userVars, cred, history>>

CommitGrants(p) ==
    /\ req[p].op \in GrantOps /\ req[p].at = "counted"
    /\ admin' = Granted(req[p].user, req[p].write, req[p].op)
    /\ Ends(p) /\ guard' = Freed(p)
    /\ UNCHANGED <<status, password, cred, history>>

-----------------------------------------------------------------------------
Load(p) ==
    \/ \E u \in Users : \/ LoadDisable(p, u) \/ LoadEnable(p, u)
                        \/ \E op \in GrantOps : LoadGrant(p, u, op)
    \/ \E u \in Humans : LoadReissue(p, u) \/ LoadLogin(p, u)
    \/ \E u \in Services : LoadIssue(p, u)
    \/ \E c \in Creds : LoadAccept(p, c)

Step(p) ==
    \/ ReissueRevokes(p) \/ Mint(p) \/ CannotMint(p)
    \/ MarkAccepted(p) \/ Activate(p) \/ FinishAccept(p)
    \/ GuardDisable(p) \/ TakeDisable(p) \/ CountForDisable(p) \/ CommitDisable(p)
    \/ WriteEnable(p)
    \/ ChangeGrants(p) \/ CommitGrants(p)

\* What the next statement of p locks: the guard, the row of its user, rows of credentials.
WantsGuard(p) == req[p].op \in {"disable"} \cup GrantOps /\ req[p].at = "loaded"
WantsRow(p) ==
    \/ req[p].op \in {"login", "enable"}
    \/ Doing(p, "disable", "guarded") \/ Doing(p, "accept", "marked")
WantedCreds(p) ==
    CASE Doing(p, "accept", "loaded") -> {req[p].cred}
      [] \/ Doing(p, "disable", "taken") \/ Doing(p, "accept", "activated")
         \/ Doing(p, "reissue", "taken") -> req[p].seen
      [] OTHER -> {}
\* Whose locks p is waiting for.
WaitsFor(p) ==
    {q \in Procs \ {p} :
        \/ WantsGuard(p) /\ guard = q
        \/ WantsRow(p) /\ HasRow(q, req[p].user)
        \/ WantedCreds(p) \cap Locks(q) # {}}

\* Postgres ends a transaction of every cycle of waits.
BreakDeadlock(p) ==
    /\ \E q \in WaitsFor(p) : p \in WaitsFor(q)
    /\ RollBack(p)

Next ==
    \/ \E p \in Procs : Load(p) \/ Step(p) \/ RollBack(p) \/ BreakDeadlock(p)
    \/ \E u \in Humans : Invite(u)
    \/ \E u \in Services : CreateServiceAccount(u)
    \/ \E c \in Creds : EndCredential(c)

Spec == Init /\ [][Next]_vars

-----------------------------------------------------------------------------
(***************************************************************************)
(* Properties.                                                             *)
(***************************************************************************)
\* Two requests never take away the last two admins between them
\* (LockAdminGuard, ensureTenantAdminRemains): a tenant without an active admin
\* is possible only after an enable has put back a status it had not loaded.
AdminRemains == Admins # {} \/ stale

\* "Instead of minting an active account nobody can sign in to": UpdateMember
\* and AcceptInvite together never leave an active human without a password.
ActiveCanSignIn == \A u \in Humans : status[u] = "active" => u \in password

\* Disabling revokes every session, API token and outstanding invite: what is
\* still live for a disabled member was minted by a request that overlapped it.
DisabledHoldsNothing ==
    \A c \in Creds : cred[c] # Gone /\ status[cred[c].user] = "disabled" => c \in raced

\* Exactly one live invite at a time (ReissueInvite), unless reissues overlap.
OneLiveInvite ==
    \A c, d \in Creds \ raced :
        c # d /\ cred[c].kind = "invite" /\ cred[d].kind = "invite"
            => cred[c].user # cred[d].user

\* Together: no credential outlives what ends it, unless it was minted by a
\* request that overlapped (UpdateMember, ReissueInvite).
CredentialsEnd == DisabledHoldsNothing /\ OneLiveInvite

\* How u may become active in a step.
Earned(u) ==
    /\ status[u] = "invited" /\ status'[u] = "active" =>
          \/ stale'
          \/ /\ \E c \in InvitesOf(u) : cred'[c] = Gone
             /\ \A d \in InvitesOf(u) : cred'[d] # Gone => d \in raced'
    /\ status[u] = "disabled" /\ status'[u] = "active" => cred' = cred

\* Who was invited becomes active by spending an invite, which takes its
\* siblings along ("one invite activates at most once"); who was disabled never
\* by spending one (Activate's WHERE status = 'invited').
ActivationIsEarned == [][\A u \in Humans : Earned(u)]_<<status, cred>>

\* Requests never wait for each other for good: of those under way one waits for
\* nobody, since the guard, the row locks and the invite locks are handed on
\* (pg_advisory_xact_lock); or an acceptance and a request that ends its invite lock
\* each other out, which Postgres tells apart.
NobodyStuck ==
    (\E p \in Procs : req[p] # Idle) =>
        \E p \in Procs : /\ req[p] # Idle
                         /\ WaitsFor(p) = {} \/ \E q \in WaitsFor(p) : p \in WaitsFor(q)

=============================================================================
