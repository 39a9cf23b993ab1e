--------------------------- MODULE MembersProofs ---------------------------
(* Theorems about Members, for any number of people, machines, credentials *)
(* and requests under way. *)
EXTENDS Members, TLAPS

(***************************************************************************)
(* The invariant.                                                          *)
(***************************************************************************)
UsersOK ==
    /\ status \in [Users -> Statuses]
    /\ password \subseteq Humans /\ admin \subseteq Humans
CredsOK == cred \in [Creds -> Credentials \cup {Gone}]
ReqOK   == req \in [Procs -> Requests \cup {Idle}]
RestOK  == guard \in Procs \cup {None} /\ raced \subseteq Creds /\ stale \in BOOLEAN

\* A request that has changed who administers, and not committed.
Changing(p) == req[p].op \in GrantOps /\ req[p].at = "counted"
\* Whoever may count holds the lock of LockAdminGuard.
GuardHeld ==
    \A p \in Procs :
        Doing(p, "disable", "guarded") \/ Doing(p, "disable", "taken")
            \/ Doing(p, "disable", "counted") \/ Changing(p)
            => guard = p
\* What a request counted is still there when it commits.
CountHolds ==
    \A p \in Procs :
        /\ Doing(p, "disable", "counted") => Admins \ {req[p].user} # {} \/ stale
        /\ Changing(p) => ActiveAmong(Granted(req[p].user, req[p].write, req[p].op)) # {} \/ stale
\* What a request keeps from its load: an enable what it will write, against
\* what it read; an acceptance that a person accepts, a grant that a person gets the role.
KeptIn(r) ==
    /\ r.op = "enable" =>
        /\ r.before \in {"active", "disabled"} /\ r.write \in {"active", "invited"}
        /\ r.write = "active" /\ r.user \in Humans => r.user \in password
        /\ r.write = "invited" => r.before = "disabled"
    /\ r.op = "accept" => r.user \in Humans
    /\ r.op \in {"promote", "demote"} /\ r.write = "admin" => r.user \in Humans
LoadedOK == \A p \in Procs : KeptIn(req[p])

IInv == /\ UsersOK /\ CredsOK /\ ReqOK /\ RestOK
        /\ GuardHeld /\ CountHolds /\ LoadedOK
        /\ AdminRemains /\ ActiveCanSignIn

\* The parts are the type invariant.
LEMMA Parts == TypeOK <=> UsersOK /\ CredsOK /\ ReqOK /\ RestOK
  BY DEF TypeOK, UsersOK, CredsOK, ReqOK, RestOK

LEMMA InitIInv == Init => IInv
<1> SUFFICES ASSUME Init PROVE IInv
  OBVIOUS
<1> USE MembersAssumption DEF Init
<1>1. UsersOK /\ CredsOK /\ ReqOK /\ RestOK
  BY DEF UsersOK, CredsOK, ReqOK, RestOK, Statuses, Users
<1>2. GuardHeld /\ CountHolds /\ LoadedOK
  BY DEF GuardHeld, CountHolds, LoadedOK, KeptIn, Doing, Changing, GrantOps, Idle
<1>3. AdminRemains /\ ActiveCanSignIn
  <2>1. Founder \in Admins
    BY DEF Admins, ActiveAmong, Users
  <2>2. QED
    BY <2>1 DEF AdminRemains, ActiveCanSignIn, Users
<1>4. QED
  BY <1>1, <1>2, <1>3 DEF IInv

(***************************************************************************)
(* Requests.                                                               *)
(***************************************************************************)
\* A request that is doing something has the form of one.
LEMMA Forms ==
    ASSUME ReqOK, NEW p \in Procs, req[p].op # "idle"
    PROVE  req[p] \in Requests
  BY DEF ReqOK, Idle

\* A request that moves leaves the others as they are.
LEMMA OneMoves ==
    ASSUME ReqOK, NEW p \in Procs, NEW r \in Requests \cup {Idle},
           req' = [req EXCEPT ![p] = r]
    PROVE  ReqOK' /\ req'[p] = r /\ \A q \in Procs \ {p} : req'[q] = req[q]
  BY DEF ReqOK

\* The end of one that changed credentials only marks the mints under way.
LEMMA OneEnds ==
    ASSUME ReqOK, NEW p \in Procs, NEW u \in Users, EndsFor(p, u)
    PROVE  /\ ReqOK' /\ req'[p] = Idle
           /\ \A q \in Procs \ {p} :
                \/ req'[q] = req[q]
                \/ /\ req[q].op \in MintOps /\ req[q] \in Requests
                   /\ req'[q] = [req[q] EXCEPT !.late = TRUE]
<1>1. \A q \in Procs : About(q, u) => req[q] \in Requests
  BY DEF ReqOK, About
<1>2. \A q \in Procs : req[q] \in Requests => [req[q] EXCEPT !.late = TRUE] \in Requests
  BY DEF Requests
<1>3. QED
  BY <1>1, <1>2 DEF EndsFor, ReqOK

\* A step that takes neither activity nor a role from anybody keeps an admin,
\* and what the requests under way have counted.
LEMMA NobodyLoses ==
    ASSUME UsersOK, ReqOK, AdminRemains, CountHolds, stale => stale', admin \subseteq admin',
           \A u \in Users : status[u] = "active" => status'[u] = "active",
           \A q \in Procs : Doing(q, "disable", "counted")' \/ Changing(q)' => req'[q] = req[q]
    PROVE  AdminRemains' /\ CountHolds'
<1>1. admin \subseteq Users
  BY DEF UsersOK, Users
<1>2. Admins \subseteq Admins'
  BY <1>1 DEF Admins, ActiveAmong
<1>3. AdminRemains'
  BY <1>2 DEF AdminRemains
<1>4. ASSUME NEW q \in Procs, Doing(q, "disable", "counted")'
      PROVE  Admins' \ {req'[q].user} # {} \/ stale'
  <2>1. req'[q] = req[q] /\ Doing(q, "disable", "counted")
    BY <1>4 DEF Doing
  <2>2. QED
    BY <2>1, <1>2 DEF CountHolds
<1>5. ASSUME NEW q \in Procs, Changing(q)'
      PROVE  ActiveAmong(Granted(req[q].user, req[q].write, req[q].op))' # {} \/ stale'
  <2>1. req'[q] = req[q] /\ Changing(q)
    BY <1>5 DEF Changing
  <2> DEFINE G == Granted(req[q].user, req[q].write, req[q].op)
  <2>2. G \subseteq G'
    BY <2>1 DEF Granted, With
  <2>3. ActiveAmong(G) \cap Users \subseteq ActiveAmong(G)'
    BY <2>2 DEF ActiveAmong
  <2>4. ActiveAmong(G) \subseteq Users
    <3>1. req[q] \in Requests
      BY <2>1, Forms DEF Changing, GrantOps
    <3>2. G \subseteq Users
      BY <1>1, <3>1 DEF Granted, With, Requests
    <3>3. QED
      BY <3>2 DEF ActiveAmong
  <2>5. QED
    BY <2>1, <2>3, <2>4 DEF CountHolds
<1>6. QED
  BY <1>3, <1>4, <1>5 DEF CountHolds

\* A request that moves on without a commit: what it must bring with it.
LEMMA Moves ==
    ASSUME IInv, NEW p \in Procs, NEW r \in Requests \cup {Idle},
           req' = [req EXCEPT ![p] = r], UNCHANGED <<userVars, cred, history>>,
           \/ guard' = guard
           \/ guard = None /\ guard' = p
           \/ guard = p /\ guard' = None,
           r.op = "disable" /\ r.at \in {"guarded", "taken", "counted"} => guard' = p,
           r.op \in GrantOps /\ r.at = "counted" => guard' = p,
           r.op = "disable" /\ r.at = "counted" => Admins \ {r.user} # {} \/ stale,
           r.op \in GrantOps /\ r.at = "counted" =>
               ActiveAmong(Granted(r.user, r.write, r.op)) # {} \/ stale,
           KeptIn(r)
    PROVE  IInv'
<1> USE DEF IInv, userVars, history
<1>1. ReqOK' /\ req'[p] = r /\ \A q \in Procs \ {p} : req'[q] = req[q]
  BY OneMoves
<1>2. UsersOK' /\ CredsOK' /\ AdminRemains' /\ ActiveCanSignIn'
  BY DEF UsersOK, CredsOK, AdminRemains, Admins, ActiveAmong, ActiveCanSignIn
<1>3. RestOK'
  BY DEF RestOK
<1>4. GuardHeld'
  BY <1>1, MembersAssumption DEF GuardHeld, Doing, Changing, RestOK
<1>5. CountHolds'
  <2>1. Admins' = Admins
    BY DEF Admins, ActiveAmong
  <2>2. \A q \in Procs :
            ActiveAmong(Granted(req[q].user, req[q].write, req[q].op))' =
            ActiveAmong(Granted(req'[q].user, req'[q].write, req'[q].op))
    BY DEF ActiveAmong, Granted, With
  <2>3. \A q \in Procs : Doing(q, "disable", "counted")' => Admins \ {req'[q].user} # {} \/ stale
    BY <1>1 DEF CountHolds, Doing
  <2>4. \A q \in Procs : Changing(q)' =>
            ActiveAmong(Granted(req'[q].user, req'[q].write, req'[q].op)) # {} \/ stale
    BY <1>1 DEF CountHolds, Changing
  <2>5. QED
    BY <2>1, <2>2, <2>3, <2>4 DEF CountHolds
<1>6. LoadedOK'
  BY <1>1 DEF LoadedOK, KeptIn
<1>7. QED
  BY <1>1, <1>2, <1>3, <1>4, <1>5, <1>6

(***************************************************************************)
(* Steps that commit nothing.                                              *)
(***************************************************************************)
LEMMA LoadStep == ASSUME IInv, NEW p \in Procs, Load(p) PROVE IInv'
<1> DEFINE New(op, u, w, c) ==
        [op |-> op, user |-> u, at |-> "loaded",
         before |-> IF op = "enable" THEN status[u] ELSE "absent",
         write |-> w, cred |-> c, seen |-> {}, late |-> FALSE]
<1>1. ASSUME NEW op \in Ops, NEW u \in Users, NEW w \in Statuses \cup {"admin", "plain"},
             NEW c \in Creds \cup {None}, Loads(p, op, u, w, c),
             op = "enable" => LoadEnable(p, u) /\ w = Enabled(u),
             op = "accept" => u \in Humans,
             op \in GrantOps => w \in Leaves(op) /\ (op = "promote" => u \in Humans)
      PROVE  IInv'
  <2>1. New(op, u, w, c) \in Requests
    BY DEF Requests, IInv, UsersOK, Statuses
  <2>2. KeptIn(New(op, u, w, c))
    BY <1>1, MembersAssumption DEF KeptIn, GrantOps, Leaves, LoadEnable, Enabled, IInv, ActiveCanSignIn, Users
  <2>3. req' = [req EXCEPT ![p] = New(op, u, w, c)] /\ UNCHANGED <<userVars, cred, guard, history>>
    BY <1>1 DEF Loads
  <2>4. QED
    BY <2>1, <2>2, <2>3, Moves
<1> USE DEF Ops, GrantOps, MintOps, Statuses, Users
<1>2. ASSUME NEW u \in Users, LoadDisable(p, u) PROVE IInv'
  BY <1>1, <1>2 DEF LoadDisable
<1>3. ASSUME NEW u \in Users, LoadEnable(p, u) PROVE IInv'
  <2>1. Loads(p, "enable", u, Enabled(u), None) /\ Enabled(u) \in Statuses
    BY <1>3 DEF LoadEnable, Enabled
  <2>2. QED
    BY <1>1, <1>3, <2>1
<1>4. ASSUME NEW u \in Users, NEW op \in GrantOps, LoadGrant(p, u, op) PROVE IInv'
  <2>1. PICK w \in Leaves(op) : Loads(p, op, u, w, None)
    BY <1>4 DEF LoadGrant
  <2>2. w \in {"admin", "plain"} /\ (op = "promote" => u \in Humans)
    BY <1>4 DEF Leaves, LoadGrant
  <2>3. QED
    BY <1>1, <2>1, <2>2
<1>5. ASSUME NEW u \in Humans, LoadReissue(p, u) \/ LoadLogin(p, u) PROVE IInv'
  BY <1>1, <1>5 DEF LoadReissue, LoadLogin
<1>6. ASSUME NEW u \in Services, LoadIssue(p, u) PROVE IInv'
  BY <1>1, <1>6 DEF LoadIssue
<1>7. ASSUME NEW c \in Creds, LoadAccept(p, c) PROVE IInv'
  BY <1>1, <1>7 DEF LoadAccept
<1>8. QED
  BY <1>2, <1>3, <1>4, <1>5, <1>6, <1>7 DEF Load

LEMMA RollBackStep == ASSUME IInv, NEW p \in Procs, RollBack(p) PROVE IInv'
<1>1. KeptIn(Idle) /\ Idle.op = "idle"
  BY DEF KeptIn, Idle
<1>2. QED
  BY <1>1, Moves DEF RollBack, Ends, Freed, GrantOps

\* The steps of a reissue and an acceptance before the commit.
LEMMA WaitStep ==
    ASSUME IInv, NEW p \in Procs,
           ReissueRevokes(p) \/ CannotMint(p) \/ MarkAccepted(p) \/ Activate(p)
    PROVE  IInv'
<1>1. PICK r \in Requests \cup {Idle} :
         /\ req' = [req EXCEPT ![p] = r]
         /\ r.op \in {"idle", "reissue", "accept"} /\ KeptIn(r)
  <2> DEFINE r(at, seen) == [req[p] EXCEPT !.at = at, !.seen = seen]
  <2>1. ASSUME NEW at \in {"taken", "marked", "activated"}, NEW seen \in SUBSET Creds,
               req[p].op \in {"reissue", "accept"}, req' = [req EXCEPT ![p] = r(at, seen)]
        PROVE  \E new \in Requests \cup {Idle} :
                  /\ req' = [req EXCEPT ![p] = new]
                  /\ new.op \in {"idle", "reissue", "accept"} /\ KeptIn(new)
    <3>1. req[p] \in Requests
      BY <2>1, Forms DEF IInv
    <3>2. r(at, seen) \in Requests /\ r(at, seen).op = req[p].op /\ r(at, seen).user = req[p].user
      BY <3>1 DEF Requests
    <3>3. KeptIn(r(at, seen))
      BY <2>1, <3>2 DEF KeptIn, LoadedOK, IInv
    <3> HIDE DEF r
    <3>4. QED
      BY <2>1, <3>2, <3>3
  <2>2. ASSUME Ends(p)
        PROVE  \E new \in Requests \cup {Idle} :
                  /\ req' = [req EXCEPT ![p] = new]
                  /\ new.op \in {"idle", "reissue", "accept"} /\ KeptIn(new)
    <3>1. req' = [req EXCEPT ![p] = Idle]
      BY <2>2 DEF Ends
    <3>2. Idle.op = "idle" /\ KeptIn(Idle)
      BY DEF Idle, KeptIn
    <3>3. QED
      BY <3>1, <3>2
  <2>3. \A u : Unused(u) \in SUBSET Creds
    BY DEF Unused, InvitesOf, CredsOf
  <2>4. CASE ReissueRevokes(p)
    <3>1. req' = [req EXCEPT ![p] = r("taken", Unused(req[p].user))] /\ req[p].op = "reissue"
      BY <2>4 DEF ReissueRevokes, Doing
    <3>2. QED
      BY <2>1, <2>3, <3>1
  <2>5. CASE CannotMint(p)
    BY <2>2, <2>5 DEF CannotMint
  <2>6. CASE MarkAccepted(p)
    <3>1. CASE Ends(p)
      BY <2>2, <3>1
    <3>2. CASE req' = [req EXCEPT ![p].at = "marked"]
      <4>1. req[p] \in Requests /\ req[p].op = "accept"
        BY <2>6, Forms DEF MarkAccepted, Doing, IInv
      <4>2. req' = [req EXCEPT ![p] = r("marked", req[p].seen)] /\ req[p].seen \in SUBSET Creds
        BY <3>2, <4>1 DEF Requests
      <4>3. QED
        BY <2>1, <4>1, <4>2
    <3>3. QED
      BY <2>6, <3>1, <3>2 DEF MarkAccepted
  <2>7. CASE Activate(p)
    <3>1. CASE Ends(p)
      BY <2>2, <3>1
    <3>2. CASE ~Ends(p)
      <4>1. req' = [req EXCEPT ![p] = r("activated", Unused(req[p].user) \ {req[p].cred})]
        BY <2>7, <3>2 DEF Activate
      <4>2. req[p].op = "accept" /\ Unused(req[p].user) \ {req[p].cred} \in SUBSET Creds
        BY <2>7, <2>3 DEF Activate, Doing
      <4>3. QED
        BY <2>1, <4>1, <4>2
    <3>3. QED
      BY <3>1, <3>2
  <2>8. QED
    BY <2>4, <2>5, <2>6, <2>7
<1>2. UNCHANGED <<userVars, cred, guard, history>>
  BY DEF ReissueRevokes, CannotMint, MarkAccepted, Activate
<1>3. QED
  BY <1>1, <1>2, Moves DEF GrantOps

\* The steps of a disable and of a change of grants before the commit.
LEMMA CountStep ==
    ASSUME IInv, NEW p \in Procs,
           GuardDisable(p) \/ TakeDisable(p) \/ CountForDisable(p) \/ ChangeGrants(p)
    PROVE  IInv'
<1>1. Idle.op = "idle" /\ KeptIn(Idle)
  BY DEF Idle, KeptIn
<1>2. CASE TakeDisable(p)
  <2>1. req[p] \in Requests
    BY <1>2, Forms DEF TakeDisable, Doing, IInv
  <2> DEFINE r == [req[p] EXCEPT !.at = "taken", !.seen = Ended(req[p].user)]
  <2>2. r \in Requests /\ r.op = "disable" /\ r.at = "taken"
    BY <1>2, <2>1 DEF Requests, Ended, CredsOf, TakeDisable, Doing
  <2>3. KeptIn(r)
    BY <2>2 DEF KeptIn
  <2>4. req' = [req EXCEPT ![p] = r] /\ guard = p /\ guard' = guard
    BY <1>2 DEF TakeDisable, Doing, GuardHeld, IInv
  <2> HIDE DEF r
  <2>5. QED
    BY <1>2, <2>2, <2>3, <2>4, Moves DEF TakeDisable, GrantOps
<1>0. CASE GuardDisable(p)
  <2>1. req[p] \in Requests
    BY <1>0, Forms DEF GuardDisable, Doing, IInv
  <2> DEFINE r == [req[p] EXCEPT !.at = "guarded"]
  <2>2. r \in Requests /\ r.op = "disable" /\ r.at = "guarded"
    BY <1>0, <2>1 DEF Requests, GuardDisable, Doing
  <2>3. KeptIn(r)
    BY <2>2 DEF KeptIn
  <2>4. req' = [req EXCEPT ![p] = r] /\ guard = None /\ guard' = p
    BY <1>0 DEF GuardDisable, GuardFree
  <2> HIDE DEF r
  <2>5. QED
    BY <1>0, <2>2, <2>3, <2>4, Moves DEF GuardDisable, GrantOps
<1>3. CASE CountForDisable(p)
  <2>1. guard = p
    BY <1>3 DEF CountForDisable, IInv, GuardHeld
  <2>2. CASE Admins \ {req[p].user} = {}
    BY <1>1, <1>3, <2>1, <2>2, Moves DEF CountForDisable, Ends, Freed, GrantOps
  <2>3. CASE Admins \ {req[p].user} # {}
    <3>1. req[p] \in Requests
      BY <1>3, Forms DEF CountForDisable, Doing, IInv
    <3> DEFINE r == [req[p] EXCEPT !.at = "counted"]
    <3>2. r \in Requests /\ r.op = "disable" /\ r.at = "counted" /\ r.user = req[p].user
      BY <1>3, <3>1 DEF Requests, CountForDisable, Doing
    <3>3. KeptIn(r)
      BY <3>2 DEF KeptIn
    <3>4. req' = [req EXCEPT ![p] = r] /\ guard' = guard
      BY <1>3, <2>3 DEF CountForDisable
    <3> HIDE DEF r
    <3>5. QED
      BY <1>3, <2>1, <2>3, <3>2, <3>3, <3>4, Moves DEF CountForDisable, GrantOps
  <2>4. QED
    BY <2>2, <2>3
<1>4. CASE ChangeGrants(p)
  <2>1. req[p] \in Requests /\ req[p].op \in GrantOps
    BY <1>4, Forms DEF ChangeGrants, GrantOps, IInv
  <2> DEFINE G == Granted(req[p].user, req[p].write, req[p].op)
             r == [req[p] EXCEPT !.at = "counted"]
  <2>2. CASE ActiveAmong(G) # {} /\ req' = [req EXCEPT ![p] = r] /\ guard = None /\ guard' = p
    <3>1. /\ r \in Requests /\ r.op \in GrantOps /\ r.at = "counted"
          /\ ActiveAmong(Granted(r.user, r.write, r.op)) # {}
      BY <2>1, <2>2 DEF Requests
    <3>2. KeptIn(r)
      <4>1. KeptIn(req[p])
        BY DEF IInv, LoadedOK
      <4>2. QED
        BY <2>1, <3>1, <4>1 DEF KeptIn, GrantOps, Requests
    <3> HIDE DEF r
    <3>3. QED
      BY <1>4, <2>2, <3>1, <3>2, Moves DEF ChangeGrants, GrantOps
  <2>3. CASE req' = [req EXCEPT ![p] = Idle] /\ guard' = guard
    BY <1>1, <1>4, <2>3, Moves DEF ChangeGrants, GrantOps
  <2>4. QED
    BY <1>4, <2>2, <2>3 DEF ChangeGrants, Ends, GuardFree
<1>5. QED
  BY <1>0, <1>2, <1>3, <1>4

(***************************************************************************)
(* Steps that commit.                                                      *)
(***************************************************************************)
\* The parts that say nothing of who administers, at a commit that leaves every
\* other request as it is but for its marks.
LEMMA Commits ==
    ASSUME IInv, NEW p \in Procs, ReqOK', req'[p] = Idle,
           \A q \in Procs \ {p} :
                \/ req'[q] = req[q]
                \/ /\ req[q].op \in MintOps /\ req[q] \in Requests
                   /\ req'[q] = [req[q] EXCEPT !.late = TRUE],
           guard' = guard \/ guard' = Freed(p),
           password \subseteq password'
    PROVE  /\ GuardHeld' /\ LoadedOK' /\ guard' \in Procs \cup {None}
           /\ \A q \in Procs : Doing(q, "disable", "counted")' \/ Changing(q)' => req'[q] = req[q]
<1> USE DEF IInv, MintOps, GrantOps
<1>1. Idle.op = "idle"
  BY DEF Idle
<1>2. ASSUME NEW q \in Procs
      PROVE  req'[q] = req[q] \/ (req'[q].op \in {"idle"} \cup MintOps)
  BY <1>1 DEF Requests
<1>3. \A q \in Procs : Doing(q, "disable", "counted")' \/ Changing(q)' => req'[q] = req[q]
  BY <1>2 DEF Doing, Changing
<1>4. GuardHeld'
  <2>1. \A q \in Procs : Doing(q, "disable", "guarded")' \/ Doing(q, "disable", "taken")' => req'[q] = req[q]
    BY <1>2 DEF Doing
  <2>2. \A q \in Procs : Doing(q, "disable", "guarded")' \/ Doing(q, "disable", "taken")'
                          \/ Doing(q, "disable", "counted")' \/ Changing(q)'
            => q # p /\ guard = q
    BY <1>1, <1>3, <2>1 DEF GuardHeld, Doing, Changing
  <2>3. QED
    BY <2>2 DEF GuardHeld, Freed
<1>5. LoadedOK'
  BY <1>2 DEF LoadedOK, KeptIn
<1>6. QED
  BY <1>3, <1>4, <1>5, MembersAssumption DEF RestOK, Freed

\* A commit that gives credentials, or takes them, and nothing else.
LEMMA CredentialStep ==
    ASSUME IInv, NEW p \in Procs, Mint(p) PROVE IInv'
<1>1. req[p] \in Requests /\ req[p].op \in MintOps
  BY Forms DEF IInv, Mint, Doing, MintOps
<1> DEFINE u == req[p].user
<1>2. u \in Users /\ EndsFor(p, u) /\ UNCHANGED <<userVars, guard, stale>>
  BY <1>1 DEF Requests, Mint
<1>3. /\ ReqOK' /\ req'[p] = Idle
      /\ \A q \in Procs \ {p} :
           \/ req'[q] = req[q]
           \/ /\ req[q].op \in MintOps /\ req[q] \in Requests
              /\ req'[q] = [req[q] EXCEPT !.late = TRUE]
  <2> HIDE DEF u
  <2>1. QED
    BY <1>2, OneEnds DEF IInv
<1>4. UsersOK' /\ ActiveCanSignIn'
  BY <1>2 DEF IInv, UsersOK, ActiveCanSignIn, userVars
<1>5. /\ GuardHeld' /\ LoadedOK' /\ guard' \in Procs \cup {None}
      /\ \A q \in Procs : Doing(q, "disable", "counted")' \/ Changing(q)' => req'[q] = req[q]
  BY <1>2, <1>3, Commits DEF userVars
<1>6. AdminRemains' /\ CountHolds'
  BY <1>2, <1>5, NobodyLoses DEF IInv, userVars
<1>7. CredsOK' /\ RestOK'
  <2>1. Kind(req[p].op) \in {"invite", "session", "token"}
    BY <1>1 DEF Kind, MintOps
  <2>2. [kind |-> Kind(req[p].op), user |-> u] \in Credentials
    BY <1>2, <2>1 DEF Credentials
  <2>3. \A S : Without(S) \in [Creds -> Credentials \cup {Gone}]
    BY DEF Without, IInv, CredsOK
  <2>4. PICK c \in Creds, S \in SUBSET Creds :
           /\ cred' = [Without(S) EXCEPT ![c] = [kind |-> Kind(req[p].op), user |-> u]]
           /\ raced' \subseteq raced \cup {c}
    <3>1. req[p].seen \cap InvitesOf(u) \in SUBSET Creds
      BY DEF InvitesOf, CredsOf
    <3>2. QED
      BY <3>1 DEF Mint, Mintable
  <2>5. cred' \in [Creds -> Credentials \cup {Gone}]
    BY <2>2, <2>3, <2>4
  <2>6. QED
    BY <1>2, <1>5, <2>4, <2>5 DEF CredsOK, RestOK, IInv
<1>8. QED
  BY <1>3, <1>4, <1>5, <1>6, <1>7 DEF IInv

\* Steps outside the requests: people and machines join, credentials end.
LEMMA OutsideStep ==
    ASSUME IInv, \/ \E u \in Humans : Invite(u)
                 \/ \E u \in Services : CreateServiceAccount(u)
                 \/ \E c \in Creds : EndCredential(c)
    PROVE  IInv'
<1>1. UNCHANGED <<req, guard, stale, password>>
  BY DEF Invite, CreateServiceAccount, EndCredential, history, userVars
<1>2. UsersOK' /\ CredsOK' /\ RestOK'
  <2>1. ASSUME NEW u \in Humans, Invite(u) PROVE UsersOK' /\ CredsOK' /\ RestOK'
    <3>1. [kind |-> "invite", user |-> u] \in Credentials
      BY DEF Credentials, Users
    <3>2. CredsOK'
      BY <2>1, <3>1 DEF Invite, IInv, CredsOK
    <3>3. UsersOK' /\ RestOK'
      BY <2>1 DEF Invite, IInv, UsersOK, RestOK, history, Statuses
    <3>4. QED
      BY <3>2, <3>3
  <2>2. ASSUME NEW u \in Services, CreateServiceAccount(u) PROVE UsersOK' /\ CredsOK' /\ RestOK'
    BY <2>2 DEF CreateServiceAccount, IInv, UsersOK, CredsOK, RestOK, history, Statuses
  <2>3. ASSUME NEW c \in Creds, EndCredential(c) PROVE UsersOK' /\ CredsOK' /\ RestOK'
    <3>1. CredsOK'
      BY <2>3 DEF EndCredential, Without, IInv, CredsOK
    <3>2. UsersOK' /\ RestOK'
      BY <2>3 DEF EndCredential, IInv, UsersOK, RestOK, userVars
    <3>3. QED
      BY <3>1, <3>2
  <2>4. QED
    BY <2>1, <2>2, <2>3
<1>3. /\ admin \subseteq admin'
      /\ \A u \in Users : status[u] = "active" => status'[u] = "active"
      /\ \A u \in Humans : status'[u] = "active" => status[u] = "active"
  <2>1. ASSUME NEW u \in Humans, Invite(u)
        PROVE  /\ admin \subseteq admin'
               /\ \A v \in Users : status'[v] = "active" <=> status[v] = "active"
    BY <2>1 DEF Invite, IInv, UsersOK, Users
  <2>2. ASSUME NEW u \in Services, CreateServiceAccount(u)
        PROVE  /\ admin = admin'
               /\ \A v \in Users : status[v] = "active" => status'[v] = "active"
               /\ \A v \in Humans : status'[v] = status[v]
    BY <2>2, MembersAssumption DEF CreateServiceAccount, IInv, UsersOK, Users
  <2>3. (\E c \in Creds : EndCredential(c)) => UNCHANGED <<admin, status>>
    BY DEF EndCredential, userVars
  <2>4. QED
    BY <2>1, <2>2, <2>3 DEF Users
<1>4. AdminRemains' /\ CountHolds'
  BY <1>1, <1>3, NobodyLoses DEF IInv
<1>5. ReqOK' /\ GuardHeld' /\ LoadedOK' /\ ActiveCanSignIn'
  BY <1>1, <1>3 DEF IInv, ReqOK, GuardHeld, LoadedOK, KeptIn, ActiveCanSignIn, Doing, Changing
<1>6. QED
  BY <1>2, <1>4, <1>5 DEF IInv

\* The acceptance, the disable and the enable.
LEMMA AcceptStep == ASSUME IInv, NEW p \in Procs, FinishAccept(p) PROVE IInv'
<1>1. req[p].user \in Humans /\ req[p].user \in Users
  BY DEF FinishAccept, Doing, IInv, LoadedOK, KeptIn, Users
<1> DEFINE u == req[p].user
<1>2. /\ EndsFor(p, u) /\ UNCHANGED <<admin, guard, stale>>
      /\ status' = [status EXCEPT ![u] = "active"] /\ password' = password \cup {u}
  BY DEF FinishAccept
<1>3. /\ ReqOK' /\ req'[p] = Idle
      /\ \A q \in Procs \ {p} :
           \/ req'[q] = req[q]
           \/ /\ req[q].op \in MintOps /\ req[q] \in Requests
              /\ req'[q] = [req[q] EXCEPT !.late = TRUE]
  BY <1>1, <1>2, OneEnds DEF IInv
<1>4. /\ GuardHeld' /\ LoadedOK' /\ guard' \in Procs \cup {None}
      /\ \A q \in Procs : Doing(q, "disable", "counted")' \/ Changing(q)' => req'[q] = req[q]
  BY <1>2, <1>3, Commits
<1>5. AdminRemains' /\ CountHolds'
  BY <1>1, <1>2, <1>4, NobodyLoses DEF IInv, UsersOK
<1>6. CredsOK' /\ RestOK'
  <2>1. \A S : Without(S) \in [Creds -> Credentials \cup {Gone}]
    BY DEF Without, IInv, CredsOK
  <2>2. QED
    BY <1>2, <1>4, <2>1 DEF FinishAccept, CredsOK, RestOK, IInv
<1>7. UsersOK' /\ ActiveCanSignIn'
  BY <1>1, <1>2 DEF IInv, UsersOK, ActiveCanSignIn, Statuses
<1>8. QED
  BY <1>3, <1>4, <1>5, <1>6, <1>7 DEF IInv

LEMMA DisableStep == ASSUME IInv, NEW p \in Procs, CommitDisable(p) PROVE IInv'
<1>1. req[p] \in Requests /\ req[p].user \in Users /\ Doing(p, "disable", "counted")
  <2>1. req[p] \in Requests
    BY Forms DEF IInv, CommitDisable, Doing
  <2>2. QED
    BY <2>1 DEF Requests, CommitDisable
<1> DEFINE u == req[p].user
<1>2. /\ EndsFor(p, u) /\ guard' = Freed(p) /\ UNCHANGED <<password, admin, stale>>
      /\ status' = [status EXCEPT ![u] = "disabled"]
  BY DEF CommitDisable
<1>3. /\ ReqOK' /\ req'[p] = Idle
      /\ \A q \in Procs \ {p} :
           \/ req'[q] = req[q]
           \/ /\ req[q].op \in MintOps /\ req[q] \in Requests
              /\ req'[q] = [req[q] EXCEPT !.late = TRUE]
  BY <1>1, <1>2, OneEnds DEF IInv
<1>4. /\ GuardHeld' /\ LoadedOK' /\ guard' \in Procs \cup {None}
      /\ \A q \in Procs : Doing(q, "disable", "counted")' \/ Changing(q)' => req'[q] = req[q]
  BY <1>2, <1>3, Commits
<1>5. AdminRemains'
  <2>1. Admins \ {u} # {} \/ stale
    BY <1>1 DEF IInv, CountHolds
  <2>2. Admins \ {u} \subseteq Admins'
    BY <1>2 DEF Admins, ActiveAmong, IInv, UsersOK, Users
  <2>3. QED
    BY <1>2, <2>1, <2>2 DEF AdminRemains
<1>6. CountHolds'
  <2>1. guard = p
    BY <1>1 DEF IInv, GuardHeld
  <2>2. \A q \in Procs : ~(Doing(q, "disable", "counted")' \/ Changing(q)')
    <3>1. SUFFICES ASSUME NEW q \in Procs, Doing(q, "disable", "counted")' \/ Changing(q)'
                   PROVE  FALSE
      OBVIOUS
    <3>2. req'[q] = req[q] /\ (Doing(q, "disable", "counted") \/ Changing(q))
      BY <1>4, <3>1 DEF Doing, Changing
    <3>3. q = p
      BY <2>1, <3>2 DEF IInv, GuardHeld
    <3>4. QED
      BY <1>3, <3>1, <3>3 DEF Doing, Changing, Idle, GrantOps
  <2>3. QED
    BY <2>2 DEF CountHolds
<1>7. CredsOK' /\ RestOK'
  <2>1. \A S : Without(S) \in [Creds -> Credentials \cup {Gone}]
    BY DEF Without, IInv, CredsOK
  <2>2. QED
    BY <1>2, <1>4, <2>1 DEF CommitDisable, CredsOK, RestOK, IInv
<1>8. UsersOK' /\ ActiveCanSignIn'
  BY <1>1, <1>2 DEF IInv, UsersOK, ActiveCanSignIn, Statuses, Users
<1>9. QED
  BY <1>3, <1>4, <1>5, <1>6, <1>7, <1>8 DEF IInv

\* An enable that lands on the status it loaded takes activity from nobody.
LEMMA EnableStep == ASSUME IInv, NEW p \in Procs, WriteEnable(p) PROVE IInv'
<1>1. req[p] \in Requests /\ req[p].user \in Users /\ req[p].op = "enable"
  <2>1. req[p] \in Requests
    BY Forms DEF IInv, WriteEnable, Doing
  <2>2. QED
    BY <2>1 DEF Requests, WriteEnable, Doing
<1> DEFINE u == req[p].user
<1>2. /\ req' = [req EXCEPT ![p] = Idle] /\ UNCHANGED <<password, admin, cred, guard, raced>>
      /\ status' = [status EXCEPT ![u] = req[p].write]
      /\ stale' = (stale \/ status[u] # req[p].before)
  BY DEF WriteEnable, Ends
<1>3. ReqOK' /\ req'[p] = Idle /\ \A q \in Procs \ {p} : req'[q] = req[q]
  BY <1>2, OneMoves DEF IInv
<1>4. /\ GuardHeld' /\ LoadedOK' /\ guard' \in Procs \cup {None}
      /\ \A q \in Procs : Doing(q, "disable", "counted")' \/ Changing(q)' => req'[q] = req[q]
  BY <1>2, <1>3, Commits
<1>5. KeptIn(req[p])
  BY DEF IInv, LoadedOK
<1>6. UsersOK' /\ CredsOK' /\ RestOK' /\ ActiveCanSignIn'
  BY <1>1, <1>2, <1>4, <1>5 DEF IInv, UsersOK, CredsOK, RestOK, ActiveCanSignIn, KeptIn, Statuses, Users
<1>7. AdminRemains' /\ CountHolds'
  <2>1. CASE status[u] = req[p].before
    <3>1. \A v \in Users : status[v] = "active" => status'[v] = "active"
      BY <1>1, <1>2, <1>5, <2>1 DEF KeptIn, IInv, UsersOK
    <3>2. QED
      BY <1>2, <1>4, <3>1, NobodyLoses DEF IInv
  <2>2. CASE status[u] # req[p].before
    BY <1>2, <2>2 DEF AdminRemains, CountHolds
  <2>3. QED
    BY <2>1, <2>2
<1>8. QED
  BY <1>3, <1>4, <1>6, <1>7 DEF IInv

LEMMA GrantStep == ASSUME IInv, NEW p \in Procs, CommitGrants(p) PROVE IInv'
<1>1. req[p] \in Requests /\ Changing(p)
  BY Forms DEF IInv, CommitGrants, Changing, GrantOps
<1> DEFINE u == req[p].user
           G == Granted(u, req[p].write, req[p].op)
<1>2. /\ req' = [req EXCEPT ![p] = Idle] /\ admin' = G /\ guard' = Freed(p)
      /\ UNCHANGED <<status, password, cred, raced, stale>>
  BY DEF CommitGrants, Ends, history
<1>3. ReqOK' /\ req'[p] = Idle /\ \A q \in Procs \ {p} : req'[q] = req[q]
  BY <1>2, OneMoves DEF IInv
<1>4. /\ GuardHeld' /\ LoadedOK' /\ guard' \in Procs \cup {None}
      /\ \A q \in Procs : Doing(q, "disable", "counted")' \/ Changing(q)' => req'[q] = req[q]
  BY <1>2, <1>3, Commits
<1>5. guard = p
  BY <1>1 DEF IInv, GuardHeld
<1>6. \A q \in Procs : ~(Doing(q, "disable", "counted")' \/ Changing(q)')
  <2>1. SUFFICES ASSUME NEW q \in Procs, Doing(q, "disable", "counted")' \/ Changing(q)'
                 PROVE  FALSE
    OBVIOUS
  <2>2. req'[q] = req[q] /\ (Doing(q, "disable", "counted") \/ Changing(q))
    BY <1>4, <2>1 DEF Doing, Changing
  <2>3. q = p
    BY <1>5, <2>2 DEF IInv, GuardHeld
  <2>4. QED
    BY <1>3, <2>1, <2>3 DEF Doing, Changing, Idle, GrantOps
<1>7. AdminRemains' /\ CountHolds'
  <2>1. ActiveAmong(G) # {} \/ stale
    BY <1>1 DEF IInv, CountHolds
  <2>2. Admins' = ActiveAmong(G)
    BY <1>2 DEF Admins, ActiveAmong
  <2>3. QED
    BY <1>2, <1>6, <2>1, <2>2 DEF AdminRemains, CountHolds
<1>8. UsersOK' /\ CredsOK' /\ RestOK' /\ ActiveCanSignIn'
  <2>1. KeptIn(req[p])
    BY DEF IInv, LoadedOK
  <2>2. G \subseteq Humans
    BY <1>1, <2>1 DEF Granted, With, KeptIn, Changing, GrantOps, IInv, UsersOK
  <2>3. QED
    BY <1>2, <1>4, <2>2 DEF IInv, UsersOK, CredsOK, RestOK, ActiveCanSignIn
<1>9. QED
  BY <1>3, <1>4, <1>7, <1>8 DEF IInv

(***************************************************************************)
(* The theorems.                                                           *)
(***************************************************************************)
LEMMA StepIInv == IInv /\ [Next]_vars => IInv'
<1> SUFFICES ASSUME IInv, [Next]_vars PROVE IInv'
  OBVIOUS
<1>1. CASE UNCHANGED vars
  <2>1. UNCHANGED <<status, password, admin, cred, req, guard, raced, stale>>
    BY <1>1 DEF vars, userVars, history
  <2>2. QED
    BY <2>1 DEF IInv, UsersOK, CredsOK, ReqOK, RestOK, GuardHeld, CountHolds, LoadedOK, KeptIn,
       AdminRemains, ActiveCanSignIn, Doing, Changing, Admins, ActiveAmong, Granted, With
<1>2. ASSUME NEW p \in Procs, Step(p) PROVE IInv'
  BY <1>2, WaitStep, CountStep, CredentialStep, AcceptStep, DisableStep, EnableStep, GrantStep DEF Step
<1>3. CASE Next
  BY <1>2, <1>3, LoadStep, RollBackStep, OutsideStep DEF Next, BreakDeadlock
<1>4. QED
  BY <1>1, <1>3

LEMMA SpecIInv == Spec => []IInv
  BY InitIInv, StepIInv, PTL DEF Spec

\* The type invariant, for every tenant.
THEOREM TypeCorrect == Spec => []TypeOK
<1>1. IInv => TypeOK
  BY Parts DEF IInv
<1>2. QED
  BY <1>1, SpecIInv, PTL

\* However many requests overlap, LockAdminGuard and the count under it leave a
\* tenant with an active admin, unless an enable has landed on a status it had
\* not loaded.
THEOREM AnAdminRemains == Spec => []AdminRemains
<1>1. IInv => AdminRemains
  BY DEF IInv
<1>2. QED
  BY <1>1, SpecIInv, PTL

\* UpdateMember's return to invited and AcceptInvite keep every active human
\* able to sign in, overlaps and stale enables included.
THEOREM EveryActiveCanSignIn == Spec => []ActiveCanSignIn
<1>1. IInv => ActiveCanSignIn
  BY DEF IInv
<1>2. QED
  BY <1>1, SpecIInv, PTL

(***************************************************************************)
(* Credentials.  What a request may rely on, who holds which lock, and     *)
(* that no credential is of somebody who was never a member.               *)
(***************************************************************************)
LocksOf(r) ==
    {c \in Creds : \/ r.op = "disable" /\ r.at = "counted" /\ c \in r.seen
                   \/ r.op = "accept" /\ r.at \in {"marked", "activated"} /\ c = r.cred}
HoldsRow(r) ==
    \/ r.op = "disable" /\ r.at \in {"taken", "counted"}
    \/ r.op = "accept" /\ r.at = "activated"

\* Of a request: its member exists, and it saw nothing before it looked; a mint of a disabled member knows that it is late; a
\* reissue that is not late, a disable and an acceptance saw every credential
\* that is to go, but for those marked as raced; an invite being spent is live.
Sound(r) ==
    /\ r # Idle => status[r.user] # "absent" /\ (r.at = "loaded" => r.seen = {})
    /\ r.op \in MintOps /\ status[r.user] = "disabled" => r.late
    /\ r.op = "reissue" /\ r.at = "taken" /\ ~r.late => InvitesOf(r.user) \subseteq r.seen
    /\ r.op = "disable" /\ r.at \in {"taken", "counted"} => CredsOf(r.user) \ r.seen \subseteq raced
    /\ r.op = "accept" /\ r.at \in {"marked", "activated"} => r.cred \in InvitesOf(r.user)
    /\ r.op = "accept" /\ r.at = "activated" =>
         status[r.user] = "invited" /\ InvitesOf(r.user) \ (r.seen \cup {r.cred}) \subseteq raced

AllSound == \A p \in Procs : Sound(req[p])
Apart ==
    \A p, q \in Procs :
        p # q => /\ LocksOf(req[p]) \cap LocksOf(req[q]) = {}
                 /\ HoldsRow(req[p]) /\ HoldsRow(req[q]) => req[p].user # req[q].user
HeldByMembers == \A c \in Creds : cred[c] # Gone => status[cred[c].user] # "absent"

EndsInv == AllSound /\ Apart /\ HeldByMembers /\ DisabledHoldsNothing /\ OneLiveInvite

LEMMA InitEnds == Init => EndsInv
<1> SUFFICES ASSUME Init PROVE EndsInv
  OBVIOUS
<1>1. \A p \in Procs : req[p] = Idle
  BY DEF Init
<1>2. \A c \in Creds : cred[c] = Gone /\ cred[c].kind = "gone"
  BY DEF Init, Gone
<1>3. AllSound /\ Apart
  BY <1>1 DEF AllSound, Sound, Apart, Idle, LocksOf, HoldsRow, MintOps
<1>4. HeldByMembers /\ DisabledHoldsNothing /\ OneLiveInvite
  BY <1>2 DEF HeldByMembers, DisabledHoldsNothing, OneLiveInvite
<1>5. QED
  BY <1>3, <1>4 DEF EndsInv

LEMMA IdleIsSound == Sound(Idle) /\ LocksOf(Idle) = {} /\ ~HoldsRow(Idle) /\ Idle.op = "idle"
  BY DEF Sound, Idle, LocksOf, HoldsRow, MintOps

\* A credential is somebody's, and nobody's is none.
LEMMA LiveIsHeld ==
    ASSUME CredsOK, NEW u \in Users
    PROVE  /\ CredsOf(u) = {c \in Creds : cred[c] # Gone /\ cred[c].user = u}
           /\ InvitesOf(u) \subseteq CredsOf(u)
           /\ \A c \in Creds : cred[c] # Gone => cred[c].user \in Users
<1>1. Gone.user = Nobody /\ Nobody \notin Users
  BY MembersAssumption DEF Gone, Users
<1>2. \A c \in Creds : cred[c] # Gone => cred[c] \in Credentials
  BY DEF CredsOK
<1>3. QED
  BY <1>1, <1>2 DEF CredsOf, InvitesOf, Credentials

\* The locks of the specification are these.
LEMMA LocksAre ==
    ASSUME ReqOK, CredsOK, NEW p \in Procs, Sound(req[p])
    PROVE  /\ Locks(p) = LocksOf(req[p])
           /\ \A u \in Users : HasRow(p, u) <=> HoldsRow(req[p]) /\ req[p].user = u
<1>1. Doing(p, "disable", "counted") => req[p].seen \subseteq Creds
  BY Forms DEF Doing, Requests
<1>2. Doing(p, "accept", "marked") \/ Doing(p, "accept", "activated") => req[p].cred \in Creds
  BY DEF Sound, Doing, InvitesOf, CredsOf
<1>3. Locks(p) = LocksOf(req[p])
  <2>1. CASE Doing(p, "disable", "counted")
    BY <1>1, <2>1 DEF Locks, LocksOf, Doing
  <2>2. CASE Doing(p, "accept", "marked") \/ Doing(p, "accept", "activated")
    BY <1>2, <2>2 DEF Locks, LocksOf, Doing
  <2>3. CASE ~ (Doing(p, "disable", "counted") \/ Doing(p, "accept", "marked")
                  \/ Doing(p, "accept", "activated"))
    BY <2>3 DEF Locks, LocksOf, Doing
  <2>4. QED
    BY <2>1, <2>2, <2>3
<1>4. \A u \in Users : HasRow(p, u) <=> HoldsRow(req[p]) /\ req[p].user = u
  BY DEF HasRow, HoldsRow, Doing, About, Idle
<1>5. QED
  BY <1>3, <1>4

\* A request that moves on, and changes neither who is what nor what is live.
LEMMA EndsMoves ==
    ASSUME ReqOK, EndsInv, NEW p \in Procs, NEW r \in Requests \cup {Idle},
           req' = [req EXCEPT ![p] = r], UNCHANGED <<status, cred, raced>>,
           Sound(r),
           \A q \in Procs \ {p} :
               /\ LocksOf(r) \cap LocksOf(req[q]) = {}
               /\ HoldsRow(r) /\ HoldsRow(req[q]) => r.user # req[q].user
    PROVE  EndsInv'
<1>1. req'[p] = r /\ \A q \in Procs \ {p} : req'[q] = req[q]
  BY OneMoves
<1>2. AllSound'
  <2>1. \A q \in Procs : Sound(req'[q])
    BY <1>1 DEF EndsInv, AllSound
  <2>2. QED
    BY <2>1 DEF AllSound, Sound, InvitesOf, CredsOf
<1>3. Apart'
  <2>1. \A q \in Procs : LocksOf(req[q])' = LocksOf(req'[q]) /\ (HoldsRow(req[q])' <=> HoldsRow(req'[q]))
    BY DEF LocksOf, HoldsRow
  <2>2. QED
    BY <1>1, <2>1 DEF EndsInv, Apart
<1>4. QED
  BY <1>2, <1>3 DEF EndsInv, HeldByMembers, DisabledHoldsNothing, OneLiveInvite, InvitesOf, CredsOf

\* A load relies on nothing yet but that its member exists.
LEMMA EndsLoad ==
    ASSUME IInv, EndsInv, NEW p \in Procs, Load(p)
    PROVE  EndsInv'
<1> DEFINE New(op, u, w, c) ==
        [op |-> op, user |-> u, at |-> "loaded",
         before |-> IF op = "enable" THEN status[u] ELSE "absent",
         write |-> w, cred |-> c, seen |-> {}, late |-> FALSE]
<1>1. ASSUME NEW op \in Ops, NEW u \in Users, NEW w \in Statuses \cup {"admin", "plain"},
             NEW c \in Creds \cup {None}, Loads(p, op, u, w, c),
             status[u] # "absent", op \in MintOps => status[u] # "disabled"
      PROVE  EndsInv'
  <2>1. New(op, u, w, c) \in Requests
    BY DEF Requests, IInv, UsersOK, Statuses
  <2>2. Sound(New(op, u, w, c))
    BY <1>1 DEF Sound
  <2>3. LocksOf(New(op, u, w, c)) = {} /\ ~HoldsRow(New(op, u, w, c))
    BY DEF LocksOf, HoldsRow
  <2>4. req' = [req EXCEPT ![p] = New(op, u, w, c)] /\ UNCHANGED <<status, cred, raced>>
    BY <1>1 DEF Loads, userVars, history
  <2>5. QED
    BY <2>1, <2>2, <2>3, <2>4, EndsMoves DEF IInv
<1> HIDE DEF New
<1> USE DEF Ops, GrantOps, MintOps, Statuses, Users
<1>2. ASSUME NEW u \in Users, LoadDisable(p, u) PROVE EndsInv'
  BY <1>1, <1>2 DEF LoadDisable
<1>3. ASSUME NEW u \in Users, LoadEnable(p, u) PROVE EndsInv'
  <2>1. Loads(p, "enable", u, Enabled(u), None) /\ Enabled(u) \in Statuses /\ status[u] # "absent"
    BY <1>3 DEF LoadEnable, Enabled
  <2>2. QED
    BY <1>1, <2>1
<1>4. ASSUME NEW u \in Users, NEW op \in GrantOps, LoadGrant(p, u, op) PROVE EndsInv'
  <2>1. PICK w \in Leaves(op) : Loads(p, op, u, w, None)
    BY <1>4 DEF LoadGrant
  <2>2. w \in {"admin", "plain"} /\ status[u] # "absent"
    BY <1>4 DEF Leaves, LoadGrant
  <2>3. QED
    BY <1>1, <2>1, <2>2
<1>5. ASSUME NEW u \in Humans, LoadReissue(p, u) \/ LoadLogin(p, u) PROVE EndsInv'
  BY <1>1, <1>5 DEF LoadReissue, LoadLogin
<1>6. ASSUME NEW u \in Services, LoadIssue(p, u) PROVE EndsInv'
  BY <1>1, <1>6 DEF LoadIssue
<1>7. ASSUME NEW c \in Creds, LoadAccept(p, c) PROVE EndsInv'
  BY <1>1, <1>7 DEF LoadAccept
<1>8. QED
  BY <1>2, <1>3, <1>4, <1>5, <1>6, <1>7 DEF Load

\* A request that ends without having changed what this is about.
LEMMA EndsEnds ==
    ASSUME IInv, EndsInv, NEW p \in Procs, Ends(p), UNCHANGED <<status, cred, raced>>
    PROVE  EndsInv'
  BY IdleIsSound, EndsMoves DEF Ends, IInv

\* The revocation of a reissue sees what is there.
LEMMA EndsRevokes ==
    ASSUME IInv, EndsInv, NEW p \in Procs, ReissueRevokes(p)
    PROVE  EndsInv'
<1> DEFINE r == [req[p] EXCEPT !.at = "taken", !.seen = Unused(req[p].user)]
<1>1. req[p] \in Requests /\ req[p].op = "reissue" /\ Sound(req[p])
  BY Forms DEF ReissueRevokes, Doing, IInv, EndsInv, AllSound
<1>2. r \in Requests /\ r.op = "reissue" /\ r.at = "taken" /\ r.user = req[p].user
      /\ r.late = req[p].late /\ r.seen = InvitesOf(r.user)
  BY <1>1 DEF Requests, Unused, InvitesOf, CredsOf
<1>3. req' = [req EXCEPT ![p] = r] /\ UNCHANGED <<status, cred, raced>>
  BY DEF ReissueRevokes, userVars, history
<1>4. req[p] # Idle
  BY <1>1 DEF Idle
<1> HIDE DEF r
<1>5. Sound(r)
  BY <1>1, <1>2, <1>4 DEF Sound, MintOps
<1>6. LocksOf(r) = {} /\ ~HoldsRow(r)
  BY <1>2 DEF LocksOf, HoldsRow
<1>7. QED
  BY <1>2, <1>3, <1>5, <1>6, EndsMoves DEF IInv

\* An acceptance takes the row of its invite, then the row of its member.
LEMMA EndsAccepting ==
    ASSUME IInv, EndsInv, NEW p \in Procs, MarkAccepted(p) \/ Activate(p), ~Ends(p)
    PROVE  EndsInv'
<1>1. req[p] \in Requests /\ req[p].op = "accept" /\ req[p].user \in Users /\ req[p] # Idle
      /\ Sound(req[p])
  <2>1. req[p] \in Requests /\ req[p].op = "accept"
    BY Forms DEF MarkAccepted, Activate, Doing, IInv
  <2>2. QED
    BY <2>1 DEF Requests, EndsInv, AllSound, Idle
<1>2. UNCHANGED <<status, cred, raced>>
  BY DEF MarkAccepted, Activate, userVars, history
<1>3. \A q \in Procs : /\ Locks(q) = LocksOf(req[q])
                       /\ \A u \in Users : HasRow(q, u) <=> HoldsRow(req[q]) /\ req[q].user = u
  BY LocksAre DEF IInv, EndsInv, AllSound
<1>4. CASE MarkAccepted(p)
  <2> DEFINE r == [req[p] EXCEPT !.at = "marked"]
  <2>1. r \in Requests /\ r.op = "accept" /\ r.at = "marked" /\ r.user = req[p].user
        /\ r.cred = req[p].cred
    BY <1>1 DEF Requests
  <2>2. req' = [req EXCEPT ![p] = r] /\ r.cred \in InvitesOf(r.user) /\ CredsFree(p, {r.cred})
    BY <1>4, <2>1 DEF MarkAccepted
  <2> HIDE DEF r
  <2>3. Sound(r)
    BY <1>1, <2>1, <2>2 DEF Sound, MintOps
  <2>4. LocksOf(r) \subseteq {r.cred} /\ ~HoldsRow(r)
    BY <2>1 DEF LocksOf, HoldsRow
  <2>5. \A q \in Procs \ {p} : LocksOf(r) \cap LocksOf(req[q]) = {}
    BY <1>3, <2>2, <2>4 DEF CredsFree
  <2>6. QED
    BY <1>2, <2>1, <2>2, <2>3, <2>4, <2>5, EndsMoves DEF IInv
<1>5. CASE Activate(p)
  <2> DEFINE r == [req[p] EXCEPT !.at = "activated", !.seen = Unused(req[p].user) \ {req[p].cred}]
  <2>1. r \in Requests /\ r.op = "accept" /\ r.at = "activated" /\ r.user = req[p].user
        /\ r.cred = req[p].cred /\ r.seen = InvitesOf(r.user) \ {r.cred}
    BY <1>1 DEF Requests, Unused, InvitesOf, CredsOf
  <2>2. req' = [req EXCEPT ![p] = r] /\ status[r.user] = "invited" /\ RowFree(p, r.user)
        /\ req[p].at = "marked"
    BY <1>5, <2>1 DEF Activate, StillInvited, Doing
  <2> HIDE DEF r
  <2>3. Sound(r)
    BY <1>1, <2>1, <2>2 DEF Sound, MintOps
  <2>4. LocksOf(r) = LocksOf(req[p])
    BY <1>1, <2>1, <2>2 DEF LocksOf
  <2>5. ASSUME NEW q \in Procs \ {p}
        PROVE  /\ LocksOf(r) \cap LocksOf(req[q]) = {}
               /\ HoldsRow(r) /\ HoldsRow(req[q]) => r.user # req[q].user
    <3>1. LocksOf(req[p]) \cap LocksOf(req[q]) = {}
      BY DEF EndsInv, Apart
    <3>2. ~HasRow(q, r.user) /\ r.user \in Users
      BY <1>1, <2>1, <2>2 DEF RowFree
    <3>3. QED
      BY <1>3, <2>4, <3>1, <3>2
  <2>6. QED
    BY <1>2, <2>1, <2>2, <2>3, <2>5, EndsMoves DEF IInv
<1>6. QED
  BY <1>4, <1>5

\* A disable takes the row of the member, sees what it holds, and takes the rows of that.
LEMMA EndsDisabling ==
    ASSUME IInv, EndsInv, NEW p \in Procs,
           GuardDisable(p) \/ TakeDisable(p) \/ CountForDisable(p), ~Ends(p)
    PROVE  EndsInv'
<1>1. req[p] \in Requests /\ req[p].op = "disable" /\ req[p].user \in Users /\ req[p] # Idle
      /\ Sound(req[p])
  <2>1. req[p] \in Requests /\ req[p].op = "disable"
    BY Forms DEF GuardDisable, TakeDisable, CountForDisable, Doing, IInv
  <2>2. QED
    BY <2>1 DEF Requests, EndsInv, AllSound, Idle
<1>2. UNCHANGED <<status, cred, raced>>
  BY DEF GuardDisable, TakeDisable, CountForDisable, userVars, history
<1>3. \A q \in Procs : /\ Locks(q) = LocksOf(req[q])
                       /\ \A u \in Users : HasRow(q, u) <=> HoldsRow(req[q]) /\ req[q].user = u
  BY LocksAre DEF IInv, EndsInv, AllSound
<1>4. CASE TakeDisable(p)
  <2> DEFINE r == [req[p] EXCEPT !.at = "taken", !.seen = Ended(req[p].user)]
  <2>1. r \in Requests /\ r.op = "disable" /\ r.at = "taken" /\ r.user = req[p].user
        /\ r.seen = CredsOf(r.user)
    BY <1>1 DEF Requests, Ended, CredsOf
  <2>2. req' = [req EXCEPT ![p] = r] /\ RowFree(p, r.user)
    BY <1>4, <2>1 DEF TakeDisable
  <2> HIDE DEF r
  <2>3. Sound(r)
    BY <1>1, <2>1 DEF Sound, MintOps
  <2>4. LocksOf(r) = {}
    BY <2>1 DEF LocksOf
  <2>5. ASSUME NEW q \in Procs \ {p}, HoldsRow(req[q])
        PROVE  r.user # req[q].user
    BY <1>1, <1>3, <2>1, <2>2, <2>5 DEF RowFree
  <2>6. QED
    BY <1>2, <2>1, <2>2, <2>3, <2>4, <2>5, EndsMoves DEF IInv
<1>0. CASE GuardDisable(p)
  <2> DEFINE r == [req[p] EXCEPT !.at = "guarded"]
  <2>1. r \in Requests /\ r.op = "disable" /\ r.at = "guarded" /\ r.user = req[p].user
    BY <1>1 DEF Requests
  <2>2. req' = [req EXCEPT ![p] = r]
    BY <1>0 DEF GuardDisable
  <2> HIDE DEF r
  <2>3. Sound(r)
    BY <1>1, <2>1 DEF Sound, MintOps
  <2>4. LocksOf(r) = {} /\ ~HoldsRow(r)
    BY <2>1 DEF LocksOf, HoldsRow
  <2>5. QED
    BY <1>2, <2>1, <2>2, <2>3, <2>4, EndsMoves DEF IInv
<1>5. CASE CountForDisable(p)
  <2> DEFINE r == [req[p] EXCEPT !.at = "counted"]
  <2>1. r \in Requests /\ r.op = "disable" /\ r.at = "counted" /\ r.user = req[p].user
        /\ r.seen = req[p].seen
    BY <1>1 DEF Requests
  <2>2. req' = [req EXCEPT ![p] = r] /\ CredsFree(p, r.seen) /\ req[p].at = "taken"
    BY <1>5, <2>1 DEF CountForDisable, Doing
  <2> HIDE DEF r
  <2>3. Sound(r)
    BY <1>1, <2>1, <2>2 DEF Sound, MintOps
  <2>4. LocksOf(r) \subseteq r.seen
    BY <2>1 DEF LocksOf
  <2>5. ASSUME NEW q \in Procs \ {p}
        PROVE  /\ LocksOf(r) \cap LocksOf(req[q]) = {}
               /\ HoldsRow(r) /\ HoldsRow(req[q]) => r.user # req[q].user
    <3>1. LocksOf(req[q]) \cap r.seen = {}
      BY <1>3, <2>2 DEF CredsFree
    <3>2. HoldsRow(req[p]) /\ HoldsRow(req[q]) => req[p].user # req[q].user
      BY DEF EndsInv, Apart
    <3>3. HoldsRow(req[p])
      BY <1>1, <2>2 DEF HoldsRow
    <3>4. QED
      BY <2>1, <2>4, <3>1, <3>2, <3>3
  <2>6. QED
    BY <1>2, <2>1, <2>2, <2>3, <2>5, EndsMoves DEF IInv
<1>6. QED
  BY <1>0, <1>4, <1>5

\* The change of a role locks nothing of this.
LEMMA EndsGranting ==
    ASSUME IInv, EndsInv, NEW p \in Procs, ChangeGrants(p), ~Ends(p)
    PROVE  EndsInv'
<1> DEFINE r == [req[p] EXCEPT !.at = "counted"]
<1>1. req[p] \in Requests /\ req[p].op \in GrantOps /\ Sound(req[p])
  BY Forms DEF ChangeGrants, GrantOps, IInv, EndsInv, AllSound
<1>2. r \in Requests /\ r.op \in GrantOps /\ r.at = "counted" /\ r.user = req[p].user
      /\ req[p] # Idle
  BY <1>1 DEF Requests, Idle, GrantOps
<1>3. req' = [req EXCEPT ![p] = r] /\ UNCHANGED <<status, cred, raced>>
  BY DEF ChangeGrants, userVars, history
<1> HIDE DEF r
<1>4. Sound(r)
  BY <1>1, <1>2 DEF Sound, MintOps, GrantOps
<1>5. LocksOf(r) = {} /\ ~HoldsRow(r)
  BY <1>2 DEF LocksOf, HoldsRow, GrantOps
<1>6. QED
  BY <1>2, <1>3, <1>4, <1>5, EndsMoves DEF IInv

(***************************************************************************)
(* A commit: the credentials in S end, those in N are new and u's.         *)
(***************************************************************************)
Changes(S, N, u) ==
    /\ S \subseteq Creds /\ N \subseteq Creds
    /\ \A d \in S : cred'[d] = Gone \/ d \in N
    /\ \A d \in Creds \ (S \cup N) : cred'[d] = cred[d]
    /\ \A d \in N : cred[d] = Gone /\ cred'[d] \in Credentials /\ cred'[d].user = u
    /\ raced \ S \subseteq raced'

\* A request that is not the one committing, before and after.
Marked(r, t) == t = r \/ (r.op \in MintOps /\ r \in Requests /\ t = [r EXCEPT !.late = TRUE])

LEMMA MarkedIsAlike ==
    ASSUME NEW r, NEW t, Marked(r, t)
    PROVE  /\ LocksOf(t) = LocksOf(r) /\ (HoldsRow(t) <=> HoldsRow(r)) /\ t.user = r.user
           /\ t.op = r.op /\ (t # r => t.late = TRUE /\ t.at = r.at /\ t.seen = r.seen)
<1>1. CASE t = r
  BY <1>1
<1>2. CASE r.op \in MintOps /\ r \in Requests /\ t = [r EXCEPT !.late = TRUE]
  <2>1. t.op = r.op /\ t.user = r.user /\ t.late = TRUE /\ t.at = r.at /\ t.seen = r.seen
    BY <1>2 DEF Requests
  <2>2. LocksOf(t) = {} /\ LocksOf(r) = {} /\ ~HoldsRow(t) /\ ~HoldsRow(r)
    BY <1>2, <2>1 DEF LocksOf, HoldsRow, MintOps
  <2>3. QED
    BY <2>1, <2>2
<1>3. QED
  BY <1>1, <1>2 DEF Marked

\* What another request relies on is still so.
LEMMA OthersStaySound ==
    ASSUME CredsOK, CredsOK', NEW r \in Requests, NEW t, Sound(r), Marked(r, t),
           NEW S, NEW N, NEW u \in Users, Changes(S, N, u), S \cap LocksOf(r) = {},
           \A v \in Users : status[v] # "absent" => status'[v] # "absent",
           r.op \in MintOps /\ status'[r.user] = "disabled" => status[r.user] = "disabled" \/ t.late,
           HoldsRow(r) => status'[r.user] = status[r.user],
           r.user = u /\ HoldsRow(r) => N \subseteq raced',
           r.user = u /\ r.op = "reissue" => N = {} \/ t.late
    PROVE  Sound(t)'
<1>1. r.user \in Users /\ r # Idle
  BY DEF Requests, Idle, Ops, GrantOps, MintOps
<1>2. /\ t.user = r.user /\ t.op = r.op /\ (t # r => t.late = TRUE /\ r.op \in MintOps)
      /\ (t # r => t.at = r.at /\ t.seen = r.seen)
  BY MarkedIsAlike DEF Marked
<1>3. \A d \in Creds : cred'[d].user = r.user =>
          \/ d \notin S /\ cred'[d] = cred[d]
          \/ d \in N /\ r.user = u
  <2>1. Gone.user # r.user
    BY <1>1, MembersAssumption DEF Gone, Users
  <2>2. QED
    BY <2>1 DEF Changes
<1>4. CASE t # r
  BY <1>1, <1>2, <1>4 DEF Sound, MintOps
<1>5. CASE t = r
  <2>1. status'[r.user] # "absent" /\ (r.at = "loaded" => r.seen = {})
    BY <1>1 DEF Sound
  <2>2. r.op \in MintOps /\ status'[r.user] = "disabled" => r.late
    BY <1>5 DEF Sound
  <2>3. r.op = "reissue" /\ r.at = "taken" /\ ~r.late => InvitesOf(r.user)' \subseteq r.seen
    BY <1>3, <1>5 DEF Sound, InvitesOf, CredsOf
  <2>4. r.op = "disable" /\ r.at \in {"taken", "counted"} => CredsOf(r.user)' \ r.seen \subseteq raced'
    BY <1>3 DEF Sound, CredsOf, HoldsRow, Changes
  <2>5. ASSUME r.op = "accept", r.at \in {"marked", "activated"}
        PROVE  r.cred \in InvitesOf(r.user)'
    <3>1. r.cred \in InvitesOf(r.user) /\ r.cred \in Creds
      BY <2>5 DEF Sound, InvitesOf, CredsOf
    <3>2. r.cred \notin S
      BY <2>5, <3>1 DEF LocksOf
    <3>3. cred[r.cred] # Gone
      BY <3>1, <1>1, MembersAssumption DEF InvitesOf, CredsOf, Gone, Users
    <3>4. cred'[r.cred] = cred[r.cred]
      BY <3>1, <3>2, <3>3 DEF Changes
    <3>5. QED
      BY <3>1, <3>4 DEF InvitesOf, CredsOf
  <2>6. ASSUME r.op = "accept", r.at = "activated"
        PROVE  status'[r.user] = "invited" /\ InvitesOf(r.user)' \ (r.seen \cup {r.cred}) \subseteq raced'
    <3>1. HoldsRow(r)
      BY <2>6 DEF HoldsRow
    <3>2. QED
      BY <1>3, <2>6, <3>1 DEF Sound, InvitesOf, CredsOf, Changes
  <2>7. QED
    BY <1>5, <2>1, <2>2, <2>3, <2>4, <2>5, <2>6 DEF Sound
<1>6. QED
  BY <1>4, <1>5

\* What the others rely on, and hold, after a commit; who committed is done.
LEMMA OthersKeep ==
    ASSUME ReqOK, CredsOK, CredsOK', EndsInv,
           NEW S, NEW N, NEW u \in Users, Changes(S, N, u),
           \A v \in Users : status[v] # "absent" => status'[v] # "absent",
           \A q \in Procs :
               \/ req'[q] = Idle
               \/ /\ Marked(req[q], req'[q]) /\ S \cap LocksOf(req[q]) = {}
                  /\ req[q].op \in MintOps /\ status'[req[q].user] = "disabled" =>
                         status[req[q].user] = "disabled" \/ req'[q].late
                  /\ HoldsRow(req[q]) => status'[req[q].user] = status[req[q].user]
                  /\ req[q].user = u /\ HoldsRow(req[q]) => N \subseteq raced'
                  /\ req[q].user = u /\ req[q].op = "reissue" => N = {} \/ req'[q].late
    PROVE  AllSound' /\ Apart'
<1>1. ASSUME NEW q \in Procs, NEW t, t = req'[q]
      PROVE  Sound(t)'
  <2>1. CASE t = Idle
    BY <2>1 DEF Sound, Idle, MintOps
  <2>2. CASE t # Idle
    <3>1. Marked(req[q], t) /\ Sound(req[q])
      BY <1>1, <2>2 DEF EndsInv, AllSound
    <3>2. req[q] \in Requests
      BY <2>2, <3>1 DEF Marked, ReqOK
    <3>3. /\ S \cap LocksOf(req[q]) = {}
          /\ req[q].op \in MintOps /\ status'[req[q].user] = "disabled" =>
                 status[req[q].user] = "disabled" \/ t.late
          /\ HoldsRow(req[q]) => status'[req[q].user] = status[req[q].user]
          /\ req[q].user = u /\ HoldsRow(req[q]) => N \subseteq raced'
          /\ req[q].user = u /\ req[q].op = "reissue" => N = {} \/ t.late
      BY <1>1, <2>2
    <3>4. QED
      BY <3>1, <3>2, <3>3, OthersStaySound
  <2>3. QED
    BY <2>1, <2>2
<1>2. AllSound'
  <2>1. ASSUME NEW q \in Procs
        PROVE  Sound(req[q])'
    <3>1. PICK t : t = req'[q]
      OBVIOUS
    <3>2. Sound(t)'
      BY <1>1, <3>1
    <3>3. QED
      BY <3>1, <3>2 DEF Sound, InvitesOf, CredsOf
  <2>2. QED
    BY <2>1 DEF AllSound
<1>3. Apart'
  <2>1. ASSUME NEW q \in Procs
        PROVE  /\ LocksOf(req'[q]) \subseteq LocksOf(req[q])
               /\ HoldsRow(req'[q]) => HoldsRow(req[q]) /\ req'[q].user = req[q].user
    <3>1. CASE req'[q] = Idle
      BY <3>1, IdleIsSound
    <3>2. CASE req'[q] # Idle
      BY <3>2, MarkedIsAlike, ZenonT(120)
    <3>3. QED
      BY <3>1, <3>2
  <2>2. \A q \in Procs : LocksOf(req[q])' = LocksOf(req'[q]) /\ (HoldsRow(req[q])' <=> HoldsRow(req'[q]))
    BY DEF LocksOf, HoldsRow
  <2>3. ASSUME NEW q \in Procs, NEW o \in Procs, q # o
        PROVE  /\ LocksOf(req'[q]) \cap LocksOf(req'[o]) = {}
               /\ HoldsRow(req'[q]) /\ HoldsRow(req'[o]) => req'[q].user # req'[o].user
    BY <2>1, <2>3 DEF EndsInv, Apart
  <2>4. QED
    BY <2>2, <2>3 DEF Apart
<1>4. QED
  BY <1>2, <1>3

\* And what is live.
LEMMA NothingOutlives ==
    ASSUME CredsOK, EndsInv, NEW S, NEW N, NEW u \in Users, Changes(S, N, u),
           \A v \in Users : status[v] # "absent" => status'[v] # "absent",
           N = {} \/ status'[u] # "absent",
           \A v \in Users : status'[v] = "disabled" /\ status[v] # "disabled" =>
               \A c \in Creds : cred'[c].user = v => c \in raced',
           status'[u] = "disabled" => N \subseteq raced',
           \A c \in N : cred'[c].kind = "invite" /\ c \notin raced' =>
               \A d \in Creds \ {c} : cred'[d].kind = "invite" /\ cred'[d].user = u => d \in raced'
    PROVE  HeldByMembers' /\ DisabledHoldsNothing' /\ OneLiveInvite'
<1>1. \A c \in Creds : cred'[c] # Gone =>
          \/ c \in N /\ cred'[c].user = u
          \/ cred'[c] = cred[c] /\ c \notin N /\ c \notin S /\ cred[c].user \in Users
  BY LiveIsHeld DEF Changes
<1>2. HeldByMembers'
  BY <1>1 DEF EndsInv, HeldByMembers
<1>3. DisabledHoldsNothing'
  <2>1. ASSUME NEW c \in Creds, cred'[c] # Gone, status'[cred'[c].user] = "disabled"
        PROVE  c \in raced'
    <3>1. CASE c \in N
      BY <1>1, <2>1, <3>1
    <3>2. CASE c \notin N
      BY <1>1, <2>1, <3>2 DEF EndsInv, DisabledHoldsNothing, Changes
    <3>3. QED
      BY <3>1, <3>2
  <2>2. QED
    BY <2>1 DEF DisabledHoldsNothing
<1>4. OneLiveInvite'
  <2>1. SUFFICES ASSUME NEW c \in Creds \ raced', NEW d \in Creds \ raced', c # d,
                        cred'[c].kind = "invite", cred'[d].kind = "invite",
                        cred'[c].user = cred'[d].user
                 PROVE  FALSE
    BY DEF OneLiveInvite
  <2>2. cred'[c] # Gone /\ cred'[d] # Gone
    BY <2>1 DEF Gone
  <2>3. CASE c \in N \/ d \in N
    BY <1>1, <2>1, <2>2, <2>3
  <2>4. CASE c \notin N /\ d \notin N
    <3>1. cred'[c] = cred[c] /\ cred'[d] = cred[d] /\ c \notin raced /\ d \notin raced
      BY <1>1, <2>1, <2>2, <2>4 DEF Changes
    <3>2. QED
      BY <2>1, <3>1 DEF EndsInv, OneLiveInvite
  <2>5. QED
    BY <2>3, <2>4
<1>5. QED
  BY <1>2, <1>3, <1>4

(***************************************************************************)
(* The commits, one by one.                                                *)
(***************************************************************************)
LEMMA EndsMarks ==
    ASSUME ReqOK, NEW p \in Procs, NEW u \in Users, EndsFor(p, u)
    PROVE  /\ req'[p] = Idle
           /\ \A q \in Procs \ {p} :
                /\ Marked(req[q], req'[q])
                /\ req[q].op \in MintOps /\ req[q].user = u => req'[q].late
<1>1. \A q \in Procs : req[q].op \in MintOps => req[q] \in Requests /\ req[q] # Idle
  BY Forms DEF MintOps, Idle
<1>2. \A r \in Requests : [r EXCEPT !.late = TRUE].late = TRUE
  BY DEF Requests
<1>3. QED
  BY <1>1, <1>2 DEF EndsFor, Marked, About

\* An end of credentials is a change without new ones.
LEMMA Withouts ==
    ASSUME CredsOK, NEW S \in SUBSET Creds, NEW u \in Users, cred' = Without(S), raced' = raced \ S
    PROVE  Changes(S, {}, u) /\ CredsOK'
  BY DEF Changes, Without, CredsOK

LEMMA EndsMint ==
    ASSUME IInv, EndsInv, NEW p \in Procs, Mint(p)
    PROVE  EndsInv'
<1> DEFINE u == req[p].user
           S == req[p].seen \cap InvitesOf(u)
           late == req[p].late \/ BeingEnded(u)
<1>1. req[p] \in Requests /\ req[p].op \in MintOps /\ Sound(req[p]) /\ req[p] # Idle
  BY Forms DEF IInv, Mint, Doing, MintOps, EndsInv, AllSound, Idle
<1>2. u \in Users /\ EndsFor(p, u) /\ UNCHANGED <<status, guard, stale>> /\ S \subseteq Creds
  BY <1>1 DEF Requests, Mint, userVars, InvitesOf, CredsOf
<1>3. PICK c \in Mintable(p) :
         /\ cred' = [Without(S) EXCEPT ![c] = [kind |-> Kind(req[p].op), user |-> u]]
         /\ raced' = (raced \ S) \cup (IF late THEN {c} ELSE {})
  BY DEF Mint
<1>4. c \in Creds /\ cred[c] = Gone /\ c \notin S
  <2>1. Gone.user # u
    BY <1>2, MembersAssumption DEF Gone, Users
  <2>2. QED
    BY <1>3, <2>1 DEF Mintable, InvitesOf, CredsOf
<1>5. CASE ~ (Kind(req[p].op) \in {"invite", "session", "token"})
  BY <1>1, <1>5 DEF Kind, MintOps
<1>6. CASE Kind(req[p].op) \in {"invite", "session", "token"}
  <2> DEFINE new == [kind |-> Kind(req[p].op), user |-> u]
  <2>1. new \in Credentials /\ new.user = u /\ new.kind = Kind(req[p].op)
    BY <1>2, <1>6 DEF Credentials
  <2>2. /\ \A d \in S : cred'[d] = Gone
        /\ \A d \in Creds \ (S \cup {c}) : cred'[d] = cred[d]
        /\ cred'[c] = new
    <3>1. cred' = [Without(S) EXCEPT ![c] = new] /\ S \subseteq Creds
      BY <1>2, <1>3
    <3> HIDE DEF S, new
    <3>2. QED
      BY <1>4, <3>1 DEF Without
  <2> HIDE DEF u, S, late, new
  <2>3. Changes(S, {c}, u)
    BY <1>2, <1>3, <1>4, <2>1, <2>2 DEF Changes
  <2>4. CredsOK'
    <3>1. cred' = [d \in Creds |-> cred'[d]]
      BY <1>3 DEF Without
    <3>2. \A d \in Creds : cred'[d] \in Credentials \cup {Gone}
      BY <2>1, <2>2 DEF IInv, CredsOK
    <3>3. QED
      BY <3>1, <3>2 DEF CredsOK
  <2>5. ASSUME NEW q \in Procs \ {p}
        PROVE  S \cap LocksOf(req[q]) = {}
    <3>1. CASE req[p].at = "loaded"
      BY <1>1, <3>1 DEF Sound, S
    <3>2. CASE req[p].at # "loaded"
      <4>1. CredsFree(p, req[p].seen)
        BY <3>2 DEF Mint, Doing
      <4>2. Locks(q) = LocksOf(req[q])
        BY LocksAre DEF IInv, EndsInv, AllSound
      <4>3. QED
        BY <4>1, <4>2 DEF CredsFree, S
    <3>3. QED
      BY <3>1, <3>2
  <2>6. ASSUME NEW q \in Procs \ {p}, req[q].user = u, HoldsRow(req[q])
        PROVE  c \in raced'
    <3>1. req[q] # Idle /\ req[q].op \in {"disable", "accept"}
          /\ req[q].at \in {"taken", "counted", "activated"}
      BY <2>6, IdleIsSound DEF HoldsRow
    <3>2. BeingEnded(u)
      BY <2>6, <3>1 DEF BeingEnded, About
    <3>3. QED
      BY <1>3, <3>2 DEF late
  <2>7. AllSound' /\ Apart'
    <3>1. req'[p] = Idle
          /\ \A q \in Procs \ {p} : /\ Marked(req[q], req'[q])
                                    /\ req[q].op \in MintOps /\ req[q].user = u => req'[q].late
      BY <1>2, EndsMarks DEF IInv
    <3>2. \A q \in Procs \ {p} : req[q].user = u /\ HoldsRow(req[q]) => {c} \subseteq raced'
      BY <2>6
    <3>3. \A q \in Procs \ {p} : req[q].user = u /\ req[q].op = "reissue" => req'[q].late
      BY <3>1 DEF MintOps
    <3>4. QED
      BY <1>2, <2>3, <2>4, <2>5, <3>1, <3>2, <3>3, OthersKeep DEF IInv
  <2>8. /\ status'[u] # "absent"
        /\ status'[u] = "disabled" => {c} \subseteq raced'
    BY <1>1, <1>2, <1>3 DEF Sound, u, late
  <2>9. ASSUME cred'[c].kind = "invite", c \notin raced',
               NEW d \in Creds \ {c}, cred'[d].kind = "invite", cred'[d].user = u
        PROVE  d \in raced'
    <3>1. req[p].op = "reissue" /\ req[p].at = "taken" /\ ~req[p].late
      BY <1>1, <1>3, <2>1, <2>2, <2>9 DEF Kind, MintOps, late, Mint, Doing
    <3>2. InvitesOf(u) \subseteq req[p].seen
      BY <1>1, <3>1 DEF Sound, u
    <3>3. d \notin S /\ cred'[d] = cred[d]
      BY <2>2, <2>9 DEF Gone
    <3>4. d \in InvitesOf(u)
      BY <2>9, <3>3 DEF InvitesOf, CredsOf
    <3>5. QED
      BY <3>2, <3>3, <3>4 DEF S
  <2>10. HeldByMembers' /\ DisabledHoldsNothing' /\ OneLiveInvite'
    BY <1>2, <2>3, <2>8, <2>9, NothingOutlives DEF IInv
  <2>11. QED
    BY <2>7, <2>10 DEF EndsInv
<1>7. QED
  BY <1>5, <1>6

\* An acceptance and a disable: the rows of what goes are locked, and so is the member's.
LEMMA EndsAccepted ==
    ASSUME IInv, EndsInv, NEW p \in Procs, FinishAccept(p)
    PROVE  EndsInv' /\ \A u \in Humans : Earned(u)
<1> DEFINE u == req[p].user
           S == {req[p].cred} \cup (req[p].seen \cap InvitesOf(u))
<1>1. /\ u \in Users /\ Sound(req[p]) /\ HoldsRow(req[p]) /\ req[p].cred \in InvitesOf(u)
      /\ status[u] = "invited" /\ InvitesOf(u) \ (req[p].seen \cup {req[p].cred}) \subseteq raced
  BY DEF FinishAccept, Doing, IInv, LoadedOK, KeptIn, Users, EndsInv, AllSound, Sound, HoldsRow
<1>2. S \subseteq InvitesOf(u) /\ InvitesOf(u) \subseteq Creds
  BY <1>1 DEF InvitesOf, CredsOf
<1>3. /\ EndsFor(p, u) /\ status' = [status EXCEPT ![u] = "active"]
      /\ cred' = Without(S) /\ raced' = raced \ S
  BY DEF FinishAccept
<1>4. ASSUME NEW q \in Procs \ {p}
      PROVE  S \cap LocksOf(req[q]) = {} /\ (HoldsRow(req[q]) => req[q].user # u)
  <2>1. req[p].cred \in LocksOf(req[p])
    BY <1>1, <1>2 DEF FinishAccept, Doing, LocksOf
  <2>2. LocksOf(req[p]) \cap LocksOf(req[q]) = {} /\ (HoldsRow(req[q]) => req[q].user # u)
    BY <1>1 DEF EndsInv, Apart
  <2>3. req[p].seen \cap Locks(q) = {} /\ Locks(q) = LocksOf(req[q])
    BY LocksAre DEF FinishAccept, CredsFree, IInv, EndsInv, AllSound
  <2>4. QED
    BY <2>1, <2>2, <2>3
<1>5. /\ req'[p] = Idle /\ \A q \in Procs \ {p} : Marked(req[q], req'[q])
  BY <1>1, <1>3, EndsMarks DEF IInv
<1> HIDE DEF u, S
<1>6. Changes(S, {}, u) /\ CredsOK'
  BY <1>1, <1>2, <1>3, Withouts DEF IInv
<1>7. status'[u] = "active" /\ \A v : v # u => status'[v] = status[v]
  BY <1>1, <1>3 DEF IInv, UsersOK
<1>8. AllSound' /\ Apart'
  <2>1. \A q \in Procs \ {p} :
            /\ req[q].op \in MintOps /\ status'[req[q].user] = "disabled" =>
                   status[req[q].user] = "disabled" \/ req'[q].late
            /\ HoldsRow(req[q]) => status'[req[q].user] = status[req[q].user]
    BY <1>4, <1>7
  <2>2. \A v \in Users : status[v] # "absent" => status'[v] # "absent"
    BY <1>7
  <2>3. QED
    BY <1>1, <1>4, <1>5, <1>6, <2>1, <2>2, OthersKeep DEF IInv
<1>9. HeldByMembers' /\ DisabledHoldsNothing' /\ OneLiveInvite'
  BY <1>1, <1>6, <1>7, NothingOutlives DEF IInv
<1>10. \A v \in Humans : Earned(v)
  <2>1. \A d \in InvitesOf(u) : cred'[d] # Gone => d \in raced'
    BY <1>1, <1>2, <1>3 DEF Without, S
  <2>2. cred'[req[p].cred] = Gone /\ req[p].cred \in InvitesOf(u)
    BY <1>1, <1>2, <1>3 DEF Without, S
  <2>3. QED
    BY <1>1, <1>7, <2>1, <2>2 DEF Earned
<1>11. QED
  BY <1>8, <1>9, <1>10 DEF EndsInv

LEMMA EndsDisabled ==
    ASSUME IInv, EndsInv, NEW p \in Procs, CommitDisable(p)
    PROVE  EndsInv' /\ \A u \in Humans : Earned(u)
<1> DEFINE u == req[p].user
           S == req[p].seen \cap CredsOf(u)
<1>1. /\ req[p] \in Requests /\ u \in Users /\ HoldsRow(req[p]) /\ CredsOf(u) \ req[p].seen \subseteq raced
      /\ LocksOf(req[p]) = req[p].seen
  <2>1. req[p] \in Requests /\ Sound(req[p]) /\ req[p].op = "disable" /\ req[p].at = "counted"
    BY Forms DEF CommitDisable, Doing, IInv, EndsInv, AllSound
  <2>2. QED
    BY <2>1 DEF Requests, Sound, HoldsRow, LocksOf
<1>2. /\ EndsFor(p, u) /\ status' = [status EXCEPT ![u] = "disabled"]
      /\ cred' = Without(S) /\ raced' = raced \ S /\ S \subseteq Creds
  BY DEF CommitDisable, CredsOf
<1>3. ASSUME NEW q \in Procs \ {p}
      PROVE  S \cap LocksOf(req[q]) = {} /\ (HoldsRow(req[q]) => req[q].user # u)
  BY <1>1 DEF EndsInv, Apart
<1>4. /\ req'[p] = Idle
      /\ \A q \in Procs \ {p} : /\ Marked(req[q], req'[q])
                                /\ req[q].op \in MintOps /\ req[q].user = u => req'[q].late
  BY <1>1, <1>2, EndsMarks DEF IInv
<1> HIDE DEF u, S
<1>5. Changes(S, {}, u) /\ CredsOK'
  BY <1>1, <1>2, Withouts DEF IInv
<1>6. status'[u] = "disabled" /\ \A v : v # u => status'[v] = status[v]
  BY <1>1, <1>2 DEF IInv, UsersOK
<1>7. AllSound' /\ Apart'
  <2>1. \A q \in Procs \ {p} :
            /\ req[q].op \in MintOps /\ status'[req[q].user] = "disabled" =>
                   status[req[q].user] = "disabled" \/ req'[q].late
            /\ HoldsRow(req[q]) => status'[req[q].user] = status[req[q].user]
    BY <1>3, <1>4, <1>6
  <2>2. \A v \in Users : status[v] # "absent" => status'[v] # "absent"
    BY <1>6
  <2>3. QED
    BY <1>1, <1>3, <1>4, <1>5, <2>1, <2>2, OthersKeep DEF IInv
<1>8. HeldByMembers' /\ DisabledHoldsNothing' /\ OneLiveInvite'
  <2>1. ASSUME NEW c \in Creds, cred'[c].user = u
        PROVE  c \in raced'
    <3>1. Gone.user # u
      BY <1>1, MembersAssumption DEF Gone, Users
    <3>2. c \notin S /\ cred'[c] = cred[c]
      BY <1>2, <2>1, <3>1 DEF Without
    <3>3. c \in CredsOf(u) \ req[p].seen
      BY <2>1, <3>2 DEF CredsOf, S
    <3>4. QED
      BY <1>1, <1>2, <3>2, <3>3
  <2>2. \A v \in Users : status'[v] = "disabled" /\ status[v] # "disabled" => v = u
    BY <1>6
  <2>3. QED
    BY <1>1, <1>5, <1>6, <2>1, <2>2, NothingOutlives DEF IInv
<1>9. \A v \in Humans : Earned(v)
  BY <1>6 DEF Earned
<1>10. QED
  BY <1>7, <1>8, <1>9 DEF EndsInv

\* An enable waits for the row; on an invited member it has not loaded that status.
LEMMA EndsEnabled ==
    ASSUME IInv, EndsInv, NEW p \in Procs, WriteEnable(p)
    PROVE  EndsInv' /\ \A u \in Humans : Earned(u)
<1> DEFINE u == req[p].user
<1>1. /\ u \in Users /\ req[p].write \in {"active", "invited"}
      /\ req[p].before \in {"active", "disabled"}
  <2>1. req[p] \in Requests /\ req[p].op = "enable" /\ KeptIn(req[p])
    BY Forms DEF WriteEnable, Doing, IInv, LoadedOK
  <2>2. QED
    BY <2>1 DEF Requests, KeptIn
<1>2. /\ req' = [req EXCEPT ![p] = Idle] /\ UNCHANGED <<cred, raced>> /\ RowFree(p, u)
      /\ status' = [status EXCEPT ![u] = req[p].write]
      /\ stale' = (stale \/ status[u] # req[p].before)
  BY DEF WriteEnable, Ends
<1>3. req'[p] = Idle /\ \A q \in Procs \ {p} : req'[q] = req[q]
  BY <1>2, OneMoves DEF IInv
<1>4. ASSUME NEW q \in Procs \ {p}, HoldsRow(req[q])
      PROVE  req[q].user # u
  BY <1>1, <1>2, <1>4, LocksAre DEF RowFree, IInv, EndsInv, AllSound
<1> HIDE DEF u
<1>5. status'[u] = req[p].write /\ \A v : v # u => status'[v] = status[v]
  BY <1>1, <1>2 DEF IInv, UsersOK
<1>6. Changes({}, {}, u) /\ CredsOK'
  BY <1>2 DEF Changes, IInv, CredsOK
<1>7. AllSound' /\ Apart'
  <2>1. \A q \in Procs \ {p} :
            /\ Marked(req[q], req'[q])
            /\ req[q].op \in MintOps /\ status'[req[q].user] = "disabled" =>
                   status[req[q].user] = "disabled"
            /\ HoldsRow(req[q]) => status'[req[q].user] = status[req[q].user]
    BY <1>1, <1>3, <1>4, <1>5 DEF Marked
  <2>2. \A v \in Users : status[v] # "absent" => status'[v] # "absent"
    BY <1>1, <1>5
  <2>3. QED
    BY <1>1, <1>3, <1>6, <2>1, <2>2, OthersKeep DEF IInv
<1>8. HeldByMembers' /\ DisabledHoldsNothing' /\ OneLiveInvite'
  <2>1. /\ \A v \in Users : status[v] # "absent" => status'[v] # "absent"
        /\ \A v \in Users : status'[v] = "disabled" => status[v] = "disabled"
    BY <1>1, <1>5
  <2>2. QED
    BY <1>1, <1>6, <2>1, NothingOutlives DEF IInv
<1>9. \A v \in Humans : Earned(v)
  BY <1>1, <1>2, <1>5 DEF Earned, u
<1>10. QED
  BY <1>7, <1>8, <1>9 DEF EndsInv

\* Outside the requests: a new member holds nothing but its invite.
LEMMA EndsOutside ==
    ASSUME IInv, EndsInv, \/ \E u \in Humans : Invite(u)
                          \/ \E u \in Services : CreateServiceAccount(u)
                          \/ \E c \in Creds : EndCredential(c)
    PROVE  EndsInv' /\ \A u \in Humans : Earned(u)
<1>1. CredsOK' /\ req' = req
  BY OutsideStep DEF IInv, Invite, CreateServiceAccount, EndCredential
<1>2. \A q \in Procs : req[q] # Idle => req[q] \in Requests /\ status[req[q].user] # "absent"
  BY DEF EndsInv, AllSound, Sound, IInv, ReqOK
\* The requests do not notice.
<1>3. ASSUME NEW S, NEW N, NEW u \in Users, Changes(S, N, u),
             \A v \in Users : status[v] # "absent" => status'[v] = status[v],
             N = {} \/ status[u] = "absent",
             \A q \in Procs : S \cap LocksOf(req[q]) = {}
      PROVE  AllSound' /\ Apart'
  <2>1. \A q \in Procs :
            \/ req'[q] = Idle
            \/ /\ Marked(req[q], req'[q]) /\ req[q].user \in Users
               /\ status'[req[q].user] = status[req[q].user]
               /\ req[q].user = u => N = {}
    BY <1>1, <1>2, <1>3 DEF Marked, Requests
  <2>2. QED
    BY <1>1, <1>3, <2>1, OthersKeep DEF IInv
<1>4. ASSUME NEW u \in Humans, Invite(u)
      PROVE  EndsInv' /\ \A v \in Humans : Earned(v)
  <2>1. u \in Users /\ status[u] = "absent" /\ raced' = raced
        /\ status' = [status EXCEPT ![u] = "invited"]
    BY <1>4 DEF Invite, Users, history
  <2>2. PICK c \in Mintable(None) : cred' = [cred EXCEPT ![c] = [kind |-> "invite", user |-> u]]
    BY <1>4 DEF Invite
  <2>3. c \in Creds /\ cred[c] = Gone
    BY DEF Mintable
  <2>4. cred'[c] = [kind |-> "invite", user |-> u] /\ \A d \in Creds \ {c} : cred'[d] = cred[d]
    BY <2>2, <2>3 DEF IInv, CredsOK
  <2>5. Changes({}, {c}, u)
    BY <2>1, <2>3, <2>4 DEF Changes, Credentials
  <2>6. status'[u] = "invited" /\ \A v : v # u => status'[v] = status[v]
    BY <2>1 DEF IInv, UsersOK
  <2>7. AllSound' /\ Apart'
    BY <1>3, <2>1, <2>5, <2>6
  <2>8. \A d \in Creds \ {c} : cred'[d].kind = "invite" => cred'[d].user # u
    BY <2>1, <2>4 DEF EndsInv, HeldByMembers, Gone
  <2>9. HeldByMembers' /\ DisabledHoldsNothing' /\ OneLiveInvite'
    <3>1. /\ \A v \in Users : status[v] # "absent" => status'[v] # "absent"
          /\ \A v \in Users : status'[v] = "disabled" => status[v] = "disabled"
          /\ status'[u] # "absent" /\ status'[u] # "disabled"
      BY <2>1, <2>6
    <3>2. QED
      BY <2>1, <2>5, <2>8, <3>1, NothingOutlives DEF IInv
  <2>10. \A v \in Humans : Earned(v)
    BY <2>1, <2>6 DEF Earned
  <2>11. QED
    BY <2>7, <2>9, <2>10 DEF EndsInv
<1>5. ASSUME NEW u \in Services, CreateServiceAccount(u)
      PROVE  EndsInv' /\ \A v \in Humans : Earned(v)
  <2>1. u \in Users /\ status[u] = "absent" /\ UNCHANGED <<cred, raced>>
        /\ status'[u] = "active" /\ \A v : v # u => status'[v] = status[v]
    BY <1>5 DEF CreateServiceAccount, Users, history, IInv, UsersOK
  <2>2. Changes({}, {}, u)
    BY <2>1 DEF Changes
  <2>3. AllSound' /\ Apart'
    BY <1>3, <2>1, <2>2
  <2>4. HeldByMembers' /\ DisabledHoldsNothing' /\ OneLiveInvite'
    <3>1. /\ \A v \in Users : status[v] # "absent" => status'[v] # "absent"
          /\ \A v \in Users : status'[v] = "disabled" => status[v] = "disabled"
      BY <2>1
    <3>2. QED
      BY <2>1, <2>2, <3>1, NothingOutlives DEF IInv
  <2>5. \A v \in Humans : Earned(v)
    BY <2>1 DEF Earned
  <2>6. QED
    BY <2>3, <2>4, <2>5 DEF EndsInv
<1>6. ASSUME NEW c \in Creds, EndCredential(c)
      PROVE  EndsInv' /\ \A v \in Humans : Earned(v)
  <2>1. cred' = Without({c}) /\ raced' = raced \ {c} /\ status' = status
        /\ \A q \in Procs : c \notin Locks(q)
    BY <1>6 DEF EndCredential, userVars
  <2>2. Founder \in Users
    BY MembersAssumption DEF Users
  <2>3. Changes({c}, {}, Founder)
    BY <2>1, <2>2, Withouts DEF IInv
  <2>4. \A q \in Procs : {c} \cap LocksOf(req[q]) = {}
    BY <2>1, LocksAre DEF IInv, EndsInv, AllSound
  <2>5. AllSound' /\ Apart'
    BY <1>3, <2>1, <2>2, <2>3, <2>4
  <2>6. HeldByMembers' /\ DisabledHoldsNothing' /\ OneLiveInvite'
    BY <2>1, <2>2, <2>3, NothingOutlives DEF IInv
  <2>7. \A v \in Humans : Earned(v)
    BY <2>1 DEF Earned
  <2>8. QED
    BY <2>5, <2>6, <2>7 DEF EndsInv
<1>7. QED
  BY <1>4, <1>5, <1>6

LEMMA StepEnds ==
    IInv /\ EndsInv /\ [Next]_vars =>
        EndsInv' /\ (UNCHANGED <<status, cred>> \/ \A u \in Humans : Earned(u))
<1> SUFFICES ASSUME IInv, EndsInv, [Next]_vars
             PROVE  EndsInv' /\ (UNCHANGED <<status, cred>> \/ \A u \in Humans : Earned(u))
  OBVIOUS
\* Who stays what it is has not become active.
<1>1. UNCHANGED status => \A u \in Humans : Earned(u)
  BY DEF Earned
<1>2. CASE UNCHANGED vars
  <2>1. UNCHANGED <<status, cred, req, raced>>
    BY <1>2 DEF vars, userVars, history
  <2>2. EndsInv'
    BY <2>1 DEF EndsInv, AllSound, Sound, Apart, LocksOf, HoldsRow, HeldByMembers,
                DisabledHoldsNothing, OneLiveInvite, InvitesOf, CredsOf
  <2>3. QED
    BY <2>1, <2>2
<1>3. ASSUME NEW p \in Procs, Load(p)
      PROVE  EndsInv' /\ UNCHANGED status
  <2>1. UNCHANGED status
    BY <1>3 DEF Load, LoadDisable, LoadEnable, LoadGrant, LoadReissue, LoadLogin, LoadIssue,
                LoadAccept, Loads, userVars
  <2>2. QED
    BY <1>3, <2>1, EndsLoad
<1>4. ASSUME NEW p \in Procs, RollBack(p)
      PROVE  EndsInv' /\ UNCHANGED status
  BY <1>4, EndsEnds DEF RollBack, userVars, history
<1>5. ASSUME NEW p \in Procs, Step(p)
      PROVE  EndsInv' /\ \A u \in Humans : Earned(u)
  <2>1. CASE ReissueRevokes(p)
    BY <1>1, <2>1, EndsRevokes DEF ReissueRevokes, userVars
  <2>2. CASE Mint(p)
    BY <1>1, <2>2, EndsMint DEF Mint, userVars
  <2>3. CASE CannotMint(p)
    BY <1>1, <2>3, EndsEnds DEF CannotMint, userVars, history
  <2>4. CASE MarkAccepted(p) \/ Activate(p)
    <3>1. UNCHANGED <<status, cred, raced>>
      BY <2>4 DEF MarkAccepted, Activate, userVars, history
    <3>2. QED
      BY <1>1, <2>4, <3>1, EndsEnds, EndsAccepting
  <2>5. CASE GuardDisable(p) \/ TakeDisable(p) \/ CountForDisable(p)
    <3>1. UNCHANGED <<status, cred, raced>>
      BY <2>5 DEF GuardDisable, TakeDisable, CountForDisable, userVars, history
    <3>2. QED
      BY <1>1, <2>5, <3>1, EndsEnds, EndsDisabling
  <2>6. CASE ChangeGrants(p)
    <3>1. UNCHANGED <<status, cred, raced>>
      BY <2>6 DEF ChangeGrants, userVars, history
    <3>2. QED
      BY <1>1, <2>6, <3>1, EndsEnds, EndsGranting
  <2>7. CASE CommitGrants(p)
    <3>1. Ends(p) /\ UNCHANGED <<status, cred, raced>>
      BY <2>7 DEF CommitGrants, history
    <3>2. QED
      BY <1>1, <3>1, EndsEnds
  <2>8. QED
    BY <1>5, <2>1, <2>2, <2>3, <2>4, <2>5, <2>6, <2>7, EndsAccepted, EndsDisabled, EndsEnabled
    DEF Step
<1>6. CASE Next
  BY <1>1, <1>3, <1>4, <1>5, <1>6, EndsOutside DEF Next, BreakDeadlock
<1>7. QED
  BY <1>2, <1>6

\* UpdateMember, ReissueInvite and AcceptInvite end what they say they end, however many of
\* them overlap: nothing is live for a disabled member, and no two invites of one, but
\* what a request minted that had begun before.
THEOREM NoCredentialOutlives == Spec => []CredentialsEnd
<1>1. EndsInv => CredentialsEnd
  BY DEF EndsInv, CredentialsEnd
<1>2. QED
  BY InitIInv, InitEnds, StepIInv, StepEnds, <1>1, PTL DEF Spec

\* AcceptInvite is the one way from invited to active, it spends a live invite and takes the
\* others along; it never brings back a disabled member.
THEOREM NobodyIsActivatedTwice == Spec => ActivationIsEarned
<1>1. IInv /\ EndsInv /\ [Next]_vars => [\A u \in Humans : Earned(u)]_<<status, cred>>
  BY StepEnds
<1>2. QED
  BY InitIInv, InitEnds, StepIInv, StepEnds, <1>1, PTL DEF Spec, ActivationIsEarned

(***************************************************************************)
(* Waiting.  A request that holds the row of a user waits only for requests *)
(* about the same user, and these wait for it.                             *)
(***************************************************************************)
\* A request at a stage in which it holds the lock of LockAdminGuard.
Guarding(r) ==
    \/ r.op = "disable" /\ r.at \in {"guarded", "taken", "counted"}
    \/ r.op \in GrantOps /\ r.at = "counted"
\* What a request has seen is its user's, or gone by now: an identity that a
\* request refers to is not given out again.
Theirs(r) == r # Idle => \A c \in r.seen : cred[c] = Gone \/ cred[c].user = r.user

GuardUsed == \A p \in Procs : guard = p => Guarding(req[p])
WaitInv == GuardUsed /\ \A p \in Procs : Theirs(req[p])

LEMMA InitWait == Init => WaitInv
  BY MembersAssumption DEF Init, WaitInv, GuardUsed, Theirs

\* A request that moves on, or ends, and commits no credential.
LEMMA WaitMoves ==
    ASSUME ReqOK, WaitInv, NEW p \in Procs, NEW r \in Requests \cup {Idle},
           req' = [req EXCEPT ![p] = r], UNCHANGED cred, Theirs(r),
           guard' \in {guard, None, p}, guard' = p => Guarding(r)
    PROVE  WaitInv'
<1>1. req'[p] = r /\ \A q \in Procs \ {p} : req'[q] = req[q]
  BY OneMoves
<1>2. \A q \in Procs : Theirs(req[q])' <=> Theirs(req'[q])
  BY DEF Theirs
<1>3. \A q \in Procs : guard' = q => Guarding(req'[q])
  BY <1>1, MembersAssumption DEF WaitInv, GuardUsed
<1>4. QED
  BY <1>1, <1>2, <1>3 DEF WaitInv, GuardUsed, Guarding

\* A commit: it ends credentials, and mints one nobody else refers to.
Refers(q, c) == req[q] # Idle /\ c \in req[q].seen
LEMMA WaitCommits ==
    ASSUME ReqOK, WaitInv, NEW p \in Procs, NEW u \in Users, EndsFor(p, u),
           guard' \in {guard, None}, guard' # p,
           \A c \in Creds : \/ cred'[c] \in {cred[c], Gone}
                            \/ \A q \in Procs \ {p} : ~Refers(q, c)
    PROVE  WaitInv'
<1>1. /\ req'[p] = Idle
      /\ \A q \in Procs \ {p} :
            \/ req'[q] = req[q]
            \/ /\ req[q].op \in MintOps /\ req[q] \in Requests
               /\ req'[q] = [req[q] EXCEPT !.late = TRUE]
  BY OneEnds
<1>2. \A q \in Procs \ {p} :
          /\ req'[q] # Idle => req[q] # Idle /\ req[q] \in Requests
                               /\ req'[q].seen = req[q].seen /\ req'[q].user = req[q].user
          /\ Guarding(req[q]) => Guarding(req'[q])
  <2>1. ASSUME NEW q \in Procs \ {p}, req'[q] = req[q]
        PROVE  req'[q] # Idle => req[q] \in Requests
    BY <2>1 DEF ReqOK
  <2>2. ASSUME NEW q \in Procs \ {p}, req[q].op \in MintOps, req[q] \in Requests,
               req'[q] = [req[q] EXCEPT !.late = TRUE]
        PROVE  /\ req[q] # Idle /\ ~Guarding(req[q])
               /\ req'[q].seen = req[q].seen /\ req'[q].user = req[q].user
    BY <2>2 DEF Requests, Idle, Guarding, MintOps, GrantOps
  <2>3. QED
    BY <1>1, <2>1, <2>2
<1>3. ASSUME NEW q \in Procs, req'[q] # Idle, NEW c \in req'[q].seen
      PROVE  cred'[c] = Gone \/ cred'[c].user = req'[q].user
  <2>1. q # p /\ Refers(q, c) /\ req'[q].user = req[q].user /\ c \in Creds
    BY <1>1, <1>2, <1>3 DEF Refers, Requests
  <2>2. cred[c] = Gone \/ cred[c].user = req[q].user
    BY <2>1 DEF WaitInv, Theirs, Refers
  <2>3. QED
    BY <2>1, <2>2
<1>4. \A q \in Procs : Theirs(req[q])'
  BY <1>3 DEF Theirs
<1>5. \A q \in Procs : guard' = q => Guarding(req'[q])
  BY <1>2, MembersAssumption DEF WaitInv, GuardUsed
<1>6. QED
  BY <1>4, <1>5 DEF WaitInv, GuardUsed, Guarding

LEMMA IdleWaits == Theirs(Idle) /\ ~Guarding(Idle)
  BY DEF Theirs, Guarding, Idle, GrantOps

\* A request that ends and commits no credential.
LEMMA WaitEnds ==
    ASSUME ReqOK, WaitInv, NEW p \in Procs, Ends(p), UNCHANGED cred,
           guard' \in {guard, None}, guard' # p
    PROVE  WaitInv'
  BY IdleWaits, WaitMoves DEF Ends

LEMMA FreedIs == ASSUME NEW p \in Procs PROVE Freed(p) \in {guard, None} /\ Freed(p) # p
  BY MembersAssumption DEF Freed

\* Within its transaction a request waits, looks, and counts.
LEMMA WaitStages ==
    ASSUME IInv, WaitInv, NEW p \in Procs,
           \/ ReissueRevokes(p) \/ MarkAccepted(p) \/ Activate(p)
           \/ GuardDisable(p) \/ TakeDisable(p) \/ CountForDisable(p) \/ ChangeGrants(p)
    PROVE  WaitInv'
<1> USE DEF IInv
<1>1. UNCHANGED cred
  BY DEF ReissueRevokes, MarkAccepted, Activate, GuardDisable, TakeDisable, CountForDisable, ChangeGrants
<1>2. req[p].op # "idle"
  BY DEF ReissueRevokes, MarkAccepted, Activate, GuardDisable, TakeDisable, CountForDisable, ChangeGrants,
         Doing, GrantOps
<1>3. req[p] \in Requests /\ req[p] # Idle /\ Theirs(req[p])
  BY <1>2, Forms DEF WaitInv, Idle
<1>4. guard = p => Guarding(req[p])
  BY DEF WaitInv, GuardUsed
<1> DEFINE r(at, seen) == [req[p] EXCEPT !.at = at, !.seen = seen]
<1>5. ASSUME NEW at \in {"guarded", "taken", "counted", "marked", "activated"}, NEW seen \in SUBSET Creds,
             seen = req[p].seen \/ seen \subseteq CredsOf(req[p].user),
             req' = [req EXCEPT ![p] = r(at, seen)], guard' \in {guard, p},
             guard' = p => Guarding(r(at, seen))
      PROVE  WaitInv'
  <2>1. r(at, seen) \in Requests /\ r(at, seen).user = req[p].user /\ r(at, seen).seen = seen
    BY <1>3 DEF Requests
  <2>2. \A c \in seen : cred[c] = Gone \/ cred[c].user = req[p].user
    BY <1>3, <1>5 DEF Theirs, CredsOf
  <2>3. Theirs(r(at, seen))
    BY <2>1, <2>2 DEF Theirs
  <2> HIDE DEF r
  <2>4. QED
    BY <1>1, <1>5, <2>1, <2>3, WaitMoves
<1>6. req[p].seen \in SUBSET Creds
  BY <1>3 DEF Requests
<1>7. CASE ReissueRevokes(p)
  <2>1. req' = [req EXCEPT ![p] = r("taken", Unused(req[p].user))] /\ guard' = guard /\ req[p].op = "reissue"
    BY <1>7 DEF ReissueRevokes, Doing
  <2>2. guard # p
    BY <1>4, <2>1 DEF Guarding, GrantOps
  <2>3. Unused(req[p].user) \subseteq CredsOf(req[p].user) /\ Unused(req[p].user) \in SUBSET Creds
    BY DEF Unused, InvitesOf, CredsOf
  <2>4. QED
    BY <1>5, <2>1, <2>2, <2>3
<1>8. CASE MarkAccepted(p) \/ Activate(p)
  <2>1. guard' = guard /\ req[p].op = "accept"
    BY <1>8 DEF MarkAccepted, Activate, Doing
  <2>2. guard # p
    BY <1>4, <2>1 DEF Guarding, GrantOps
  <2>3. CASE Ends(p)
    BY <1>1, <2>1, <2>2, <2>3, WaitEnds
  <2>4. CASE ~Ends(p) /\ MarkAccepted(p)
    <3>1. req' = [req EXCEPT ![p] = r("marked", req[p].seen)]
      BY <1>3, <2>4 DEF MarkAccepted, Requests
    <3>2. QED
      BY <1>5, <1>6, <2>1, <2>2, <3>1
  <2>5. CASE ~Ends(p) /\ Activate(p)
    <3>1. req' = [req EXCEPT ![p] = r("activated", Unused(req[p].user) \ {req[p].cred})]
      BY <2>5 DEF Activate
    <3>2. Unused(req[p].user) \subseteq CredsOf(req[p].user) /\ Unused(req[p].user) \in SUBSET Creds
      BY DEF Unused, InvitesOf, CredsOf
    <3>3. QED
      BY <1>5, <2>1, <2>2, <3>1, <3>2
  <2>6. QED
    BY <1>8, <2>3, <2>4, <2>5
<1>9. CASE GuardDisable(p)
  <2>1. req' = [req EXCEPT ![p] = r("guarded", req[p].seen)] /\ guard' = p /\ req[p].op = "disable"
    BY <1>3, <1>9 DEF GuardDisable, Requests, Doing
  <2>2. Guarding(r("guarded", req[p].seen))
    BY <1>3, <2>1 DEF Guarding, Requests
  <2>3. QED
    BY <1>5, <1>6, <2>1, <2>2
<1>10. CASE TakeDisable(p)
  <2>1. req' = [req EXCEPT ![p] = r("taken", Ended(req[p].user))] /\ guard' = guard /\ req[p].op = "disable"
    BY <1>10 DEF TakeDisable, Doing
  <2>2. Guarding(r("taken", Ended(req[p].user)))
    BY <1>3, <2>1 DEF Guarding, Requests
  <2>3. Ended(req[p].user) = CredsOf(req[p].user) /\ Ended(req[p].user) \in SUBSET Creds
    BY DEF Ended, CredsOf
  <2>4. QED
    BY <1>5, <2>1, <2>2, <2>3
<1>11. CASE CountForDisable(p)
  <2>1. CASE Ends(p) /\ guard' = Freed(p)
    BY <1>1, <2>1, FreedIs, WaitEnds
  <2>2. CASE req' = [req EXCEPT ![p].at = "counted"] /\ guard' = guard
    <3>1. req' = [req EXCEPT ![p] = r("counted", req[p].seen)] /\ req[p].op = "disable"
      BY <1>3, <1>11, <2>2 DEF CountForDisable, Requests, Doing
    <3>2. Guarding(r("counted", req[p].seen))
      BY <1>3, <3>1 DEF Guarding, Requests
    <3>3. QED
      BY <1>5, <1>6, <2>2, <3>1, <3>2
  <2>3. QED
    BY <1>11, <2>1, <2>2 DEF CountForDisable
<1>12. CASE ChangeGrants(p)
  <2>1. CASE Ends(p) /\ guard' = guard
    <3>1. guard # p
      BY <1>12, MembersAssumption DEF ChangeGrants, GuardFree
    <3>2. QED
      BY <1>1, <2>1, <3>1, WaitEnds
  <2>2. CASE req' = [req EXCEPT ![p].at = "counted"] /\ guard' = p
    <3>1. req' = [req EXCEPT ![p] = r("counted", req[p].seen)] /\ req[p].op \in GrantOps
      BY <1>3, <1>12, <2>2 DEF ChangeGrants, Requests
    <3>2. Guarding(r("counted", req[p].seen))
      BY <1>3, <3>1 DEF Guarding, Requests
    <3>3. QED
      BY <1>5, <1>6, <2>2, <3>1, <3>2
  <2>3. QED
    BY <1>12, <2>1, <2>2 DEF ChangeGrants
<1>13. QED
  BY <1>7, <1>8, <1>9, <1>10, <1>11, <1>12

\* A commit gives away no identity that another request refers to.
LEMMA WaitSettles ==
    ASSUME IInv, WaitInv, NEW p \in Procs,
           \/ Mint(p) \/ CannotMint(p) \/ FinishAccept(p) \/ CommitDisable(p)
           \/ WriteEnable(p) \/ CommitGrants(p) \/ RollBack(p)
    PROVE  WaitInv'
<1> USE DEF IInv
<1>1. guard = p => Guarding(req[p])
  BY DEF WaitInv, GuardUsed
<1>2. CASE CannotMint(p) \/ WriteEnable(p)
  <2>1. Ends(p) /\ UNCHANGED <<cred, guard>> /\ req[p].op \in MintOps \cup {"enable"}
    BY <1>2 DEF CannotMint, WriteEnable, Doing
  <2>2. guard # p
    BY <1>1, <2>1 DEF Guarding, MintOps, GrantOps
  <2>3. QED
    BY <2>1, <2>2, WaitEnds
<1>3. CASE CommitGrants(p) \/ RollBack(p)
  <2>1. Ends(p) /\ UNCHANGED cred /\ guard' = Freed(p)
    BY <1>3 DEF CommitGrants, RollBack
  <2>2. QED
    BY <2>1, FreedIs, WaitEnds
<1>4. CASE Mint(p) \/ FinishAccept(p) \/ CommitDisable(p)
  <2>1. req[p].op \in MintOps \cup {"accept", "disable"}
    BY <1>4 DEF Mint, FinishAccept, CommitDisable, Doing, MintOps
  <2>2. req[p] \in Requests
    BY <2>1, Forms DEF MintOps
  <2>3. req[p].user \in Users
    BY <2>2 DEF Requests
  <2>4. EndsFor(p, req[p].user)
    BY <1>4 DEF Mint, FinishAccept, CommitDisable
  <2>5. guard' \in {guard, None} /\ guard' # p
    <3>1. CASE Mint(p) \/ FinishAccept(p)
      <4>1. guard' = guard /\ req[p].op \in MintOps \cup {"accept"}
        BY <3>1 DEF Mint, FinishAccept, Doing, MintOps
      <4>2. QED
        BY <1>1, <4>1 DEF Guarding, MintOps, GrantOps
    <3>2. CASE CommitDisable(p)
      BY <3>2, FreedIs DEF CommitDisable
    <3>3. QED
      BY <1>4, <3>1, <3>2
  <2>6. ASSUME NEW c \in Creds
        PROVE  cred'[c] \in {cred[c], Gone} \/ \A q \in Procs \ {p} : ~Refers(q, c)
    <3>1. CASE Mint(p)
      <4>1. PICK new \in Mintable(p) :
               cred' = [Without(req[p].seen \cap InvitesOf(req[p].user)) EXCEPT
                          ![new] = [kind |-> Kind(req[p].op), user |-> req[p].user]]
        BY <3>1 DEF Mint
      <4>2. CASE c = new
        BY <4>1, <4>2 DEF Mintable, Refers
      <4>3. CASE c # new
        BY <4>1, <4>3 DEF Without
      <4>4. QED
        BY <4>2, <4>3
    <3>2. CASE FinishAccept(p) \/ CommitDisable(p)
      <4>1. PICK S : cred' = Without(S)
        BY <3>2 DEF FinishAccept, CommitDisable
      <4>2. QED
        BY <4>1 DEF Without
    <3>3. QED
      BY <1>4, <3>1, <3>2
  <2>7. QED
    BY <2>3, <2>4, <2>5, <2>6, WaitCommits
<1>5. QED
  BY <1>2, <1>3, <1>4

\* What happens without a request: nobody under way refers to what is invited.
LEMMA WaitOutside ==
    ASSUME IInv, WaitInv, UNCHANGED <<req, guard>>,
           \A c \in Creds : cred'[c] \in {cred[c], Gone} \/ \A q \in Procs : ~Refers(q, c)
    PROVE  WaitInv'
<1>1. ASSUME NEW q \in Procs, req[q] # Idle, NEW c \in req[q].seen
      PROVE  cred'[c] = Gone \/ cred'[c].user = req[q].user
  <2>1. Refers(q, c) /\ c \in Creds
    BY <1>1 DEF Refers, IInv, ReqOK, Requests
  <2>2. cred[c] = Gone \/ cred[c].user = req[q].user
    BY <1>1 DEF WaitInv, Theirs
  <2>3. QED
    BY <2>1, <2>2
<1>2. \A q \in Procs : Theirs(req[q])'
  BY <1>1 DEF Theirs
<1>3. QED
  BY <1>2 DEF WaitInv, GuardUsed, Guarding

LEMMA StepWait == IInv /\ WaitInv /\ [Next]_vars => WaitInv'
<1> SUFFICES ASSUME IInv, WaitInv, [Next]_vars PROVE WaitInv'
  OBVIOUS
<1>1. CASE UNCHANGED vars
  BY <1>1, WaitOutside DEF vars
<1>2. ASSUME NEW p \in Procs, Load(p) PROVE WaitInv'
  <2>1. ASSUME NEW op \in Ops, NEW u, NEW w, NEW c, Loads(p, op, u, w, c) PROVE WaitInv'
    <3>1. PICK r : /\ r = [op |-> op, user |-> u, at |-> "loaded",
                           before |-> IF op = "enable" THEN status[u] ELSE "absent",
                           write |-> w, cred |-> c, seen |-> {}, late |-> FALSE]
                   /\ req' = [req EXCEPT ![p] = r]
      BY <2>1 DEF Loads
    <3>2. req[p] = Idle /\ guard' = guard /\ UNCHANGED cred
      BY <2>1 DEF Loads
    <3>3. guard # p
      BY <3>2, IdleWaits DEF WaitInv, GuardUsed
    <3>4. req' = [req EXCEPT ![p] = r] /\ r.seen = {}
      BY <3>1
    <3>5. \A q \in Procs \ {p} : req'[q] = req[q]
      BY <3>4 DEF IInv, ReqOK
    <3>6. req'[p].seen = {}
      BY <3>4 DEF IInv, ReqOK
    <3>7. \A q \in Procs : Theirs(req[q])'
      BY <3>2, <3>5, <3>6 DEF WaitInv, Theirs
    <3>8. \A q \in Procs : guard' = q => Guarding(req'[q])
      BY <3>2, <3>3, <3>5 DEF WaitInv, GuardUsed
    <3>9. QED
      BY <3>7, <3>8 DEF WaitInv, GuardUsed, Guarding
  <2>2. QED
    BY <1>2, <2>1 DEF Load, LoadDisable, LoadEnable, LoadGrant, LoadReissue, LoadLogin, LoadIssue, LoadAccept,
                      Ops, GrantOps, MintOps
<1>3. ASSUME NEW p \in Procs, Step(p) \/ RollBack(p) PROVE WaitInv'
  BY <1>3, WaitStages, WaitSettles DEF Step
<1>4. ASSUME NEW u \in Humans, Invite(u) PROVE WaitInv'
  <2>1. PICK c \in Mintable(None) : cred' = [cred EXCEPT ![c] = [kind |-> "invite", user |-> u]]
    BY <1>4 DEF Invite
  <2>2. \A q \in Procs : ~Refers(q, c)
    BY <2>1, MembersAssumption DEF Mintable, Refers
  <2>3. \A d \in Creds : d # c => cred'[d] = cred[d]
    BY <2>1 DEF IInv, CredsOK
  <2>4. QED
    BY <1>4, <2>2, <2>3, WaitOutside DEF Invite
<1>5. ASSUME NEW u \in Services, CreateServiceAccount(u) PROVE WaitInv'
  BY <1>5, WaitOutside DEF CreateServiceAccount
<1>6. ASSUME NEW c \in Creds, EndCredential(c) PROVE WaitInv'
  BY <1>6, WaitOutside DEF EndCredential, Without
<1>7. QED
  BY <1>1, <1>2, <1>3, <1>4, <1>5, <1>6 DEF Next, BreakDeadlock

\* Under way, and not waiting, or waiting for one that waits for it.
Moving(p) == req[p] # Idle /\ (WaitsFor(p) = {} \/ \E q \in WaitsFor(p) : p \in WaitsFor(q))

\* The invite that stands in the way of who holds a row is of the same user, and
\* its acceptance waits for the row.
LEMMA HeldUpIsPair ==
    ASSUME IInv, EndsInv, WaitInv, NEW p \in Procs, HoldsRow(req[p]),
           \A q \in Procs \ {p} : ~Doing(q, "disable", "counted")
    PROVE  Moving(p)
<1> USE DEF IInv
<1>1. req[p] \in Requests /\ req[p] # Idle /\ Theirs(req[p])
  BY Forms DEF HoldsRow, WaitInv, Idle
<1>2. \A q \in Procs : /\ Locks(q) = LocksOf(req[q])
                       /\ \A u \in Users : HasRow(q, u) <=> HoldsRow(req[q]) /\ req[q].user = u
  BY LocksAre DEF EndsInv, AllSound
<1>3. ~WantsGuard(p) /\ ~WantsRow(p) /\ WantedCreds(p) \subseteq req[p].seen
  BY DEF HoldsRow, WantsGuard, WantsRow, WantedCreds, Doing
<1>4. ASSUME NEW q \in WaitsFor(p) PROVE p \in WaitsFor(q)
  <2>1. PICK c : c \in req[p].seen /\ c \in LocksOf(req[q])
    BY <1>2, <1>3 DEF WaitsFor
  <2>2. q \in Procs \ {p}
    BY DEF WaitsFor
  <2>3. /\ req[q].op = "accept" /\ req[q].at \in {"marked", "activated"}
        /\ c = req[q].cred /\ c \in Creds
    BY <2>1, <2>2 DEF LocksOf, Doing
  <2>4. req[q] \in Requests /\ req[q] # Idle
    BY <2>2, <2>3, Forms DEF Idle
  <2>5. cred[c].user = req[q].user /\ cred[c] # Gone /\ req[q].user \in Users
    BY <2>2, <2>3, <2>4, LiveIsHeld DEF EndsInv, AllSound, Sound, Requests, InvitesOf, CredsOf, Gone
  <2>6. req[q].user = req[p].user
    BY <1>1, <2>1, <2>5 DEF Theirs
  <2>7. ~HoldsRow(req[q])
    BY <2>2, <2>6 DEF EndsInv, Apart
  <2>8. req[q].at = "marked"
    BY <2>3, <2>7 DEF HoldsRow
  <2>9. WantsRow(q) /\ HasRow(p, req[q].user)
    BY <1>2, <2>3, <2>5, <2>6, <2>8 DEF WantsRow, Doing
  <2>10. QED
    BY <2>2, <2>9 DEF WaitsFor
<1>5. QED
  BY <1>1, <1>4 DEF Moving

LEMMA SomebodyMoves ==
    ASSUME IInv, EndsInv, WaitInv, NEW p0 \in Procs, req[p0] # Idle
    PROVE  \E p \in Procs : Moving(p)
<1> USE DEF IInv
<1>1. \A q \in Procs : /\ Locks(q) = LocksOf(req[q])
                       /\ \A u \in Users : HasRow(q, u) <=> HoldsRow(req[q]) /\ req[q].user = u
  BY LocksAre DEF EndsInv, AllSound
<1>2. \A q \in Procs : Doing(q, "disable", "guarded") \/ Doing(q, "disable", "taken")
                          \/ Doing(q, "disable", "counted") => guard = q
  BY DEF GuardHeld
<1>3. \A q \in Procs : req[q] # Idle => req[q] \in Requests /\ req[q].user \in Users
  BY DEF ReqOK, Requests
<1>4. ASSUME NEW g \in Procs, guard = g
      PROVE  \E p \in Procs : Moving(p)
  <2>1. Guarding(req[g]) /\ req[g] # Idle
    BY <1>4, IdleWaits DEF WaitInv, GuardUsed
  <2>2. CASE req[g].at = "counted"
    <3>1. ~WantsGuard(g) /\ ~WantsRow(g) /\ WantedCreds(g) = {}
      BY <2>1, <2>2 DEF Guarding, WantsGuard, WantsRow, WantedCreds, Doing, GrantOps
    <3>2. QED
      BY <2>1, <3>1 DEF WaitsFor, Moving
  <2>3. CASE Doing(g, "disable", "taken")
    <3>1. \A q \in Procs \ {g} : ~Doing(q, "disable", "counted")
      BY <1>2, <1>4
    <3>2. QED
      BY <2>3, <3>1, HeldUpIsPair DEF HoldsRow, Doing
  <2>4. CASE Doing(g, "disable", "guarded")
    <3>1. ~WantsGuard(g) /\ WantedCreds(g) = {}
      BY <2>4 DEF WantsGuard, WantedCreds, Doing
    <3>2. CASE WaitsFor(g) = {}
      BY <2>1, <3>2 DEF Moving
    <3>3. ASSUME NEW q \in WaitsFor(g) PROVE Moving(q)
      <4>1. q \in Procs /\ HoldsRow(req[q])
        BY <1>1, <1>3, <2>1, <3>1, <3>3 DEF WaitsFor
      <4>2. \A h \in Procs : ~Doing(h, "disable", "counted")
        BY <1>2, <1>4, <2>4 DEF Doing
      <4>3. QED
        BY <4>1, <4>2, HeldUpIsPair
    <3>4. QED
      BY <3>2, <3>3 DEF WaitsFor
  <2>5. QED
    BY <2>1, <2>2, <2>3, <2>4 DEF Guarding, Doing
<1>5. CASE guard \notin Procs
  <2>1. \A q \in Procs : ~(Doing(q, "disable", "guarded") \/ Doing(q, "disable", "taken")
                             \/ Doing(q, "disable", "counted"))
    BY <1>2, <1>5
  <2>2. ASSUME NEW q \in Procs, HoldsRow(req[q]) PROVE Moving(q)
    BY <2>1, <2>2, HeldUpIsPair
  <2>3. CASE \A q \in Procs : ~HoldsRow(req[q])
    <3>1. ASSUME NEW q \in Procs, req[q] # Idle, WantedCreds(q) = {} PROVE Moving(q)
      <4>1. \A h \in Procs : ~HasRow(h, req[q].user)
        BY <1>1, <1>3, <2>3, <3>1
      <4>2. WaitsFor(q) = {}
        BY <1>5, <3>1, <4>1 DEF WaitsFor
      <4>3. QED
        BY <3>1, <4>2 DEF Moving
    <3>2. ASSUME NEW q \in Procs, Doing(q, "accept", "marked") PROVE Moving(q)
      BY <3>1, <3>2 DEF Doing, WantedCreds, Idle
    <3>3. CASE \A q \in Procs : ~Doing(q, "accept", "marked")
      <4>1. \A q \in Procs : Locks(q) = {}
        BY <2>1, <2>3, <3>3 DEF Locks, HoldsRow, Doing
      <4>2. \A h \in Procs : ~HasRow(h, req[p0].user)
        BY <1>1, <1>3, <2>3
      <4>3. WaitsFor(p0) = {}
        BY <1>5, <4>1, <4>2 DEF WaitsFor
      <4>4. QED
        BY <4>3 DEF Moving
    <3>4. QED
      BY <3>2, <3>3
  <2>4. QED
    BY <2>2, <2>3
<1>6. QED
  BY <1>4, <1>5

\* However many requests are under way, their waits end: the guard, the row locks and the
\* invite locks of UpdateMember, AcceptInvite, ReissueInvite and Login are taken in orders
\* that leave no cycle but that of two, an acceptance and who ends its invite.
THEOREM WaitsAlwaysEnd == Spec => []NobodyStuck
<1>1. IInv /\ EndsInv /\ WaitInv => NobodyStuck
  BY SomebodyMoves DEF NobodyStuck, Moving
<1>2. QED
  BY InitIInv, InitEnds, InitWait, StepIInv, StepEnds, StepWait, <1>1, PTL DEF Spec

=============================================================================
