------------------------------- MODULE Access -------------------------------
(***************************************************************************)
(* Who may do and see what (platform/authz, ADR-0012): the capabilities of *)
(* roles, grants for the tenant or for an entity and all below it, and the *)
(* two gates of a request.  The middleware asks for a capability anywhere; *)
(* then a write is authorized entity by entity, up the tree from its       *)
(* target, and a read is narrowed to the entities below the scopes of the  *)
(* caller.  The trees are those of Register, loops included.               *)
(***************************************************************************)
EXTENDS Register, Questions

CONSTANTS
    GrantSets,  \* the grants one caller may hold
    Logs(_)     \* what the trail of the tenant of a tree may hold

Roles == {"tenant_admin", "manager", "reviewer", "preparer", "viewer"}
Grants == [role : Roles, scope : Ids \cup {None}]  \* None: for the tenant

-----------------------------------------------------------------------------
(***************************************************************************)
(* The matrix.                                                             *)
(***************************************************************************)
Reads ==
    {"entity:read", "obligation_type:read", "entity_obligation:read", "workflow:read",
     "workflow_task:read", "task:read", "member:read", "document:read", "data_template:read"}
SetupWrites ==
    {"entity:write", "obligation_type:write", "entity_obligation:write", "workflow:write",
     "workflow_task:write", "data_template:write"}
Preparing == {"task:write", "task:submit", "document:write"}
Reviewing == {"task:approve", "audit:read"}

RoleCapabilities == [r \in Roles |->
    CASE r = "viewer"       -> Reads
      [] r = "preparer"     -> Reads \cup Preparing
      [] r = "reviewer"     -> Reads \cup Reviewing
      [] r = "manager"      -> Reads \cup SetupWrites \cup Preparing \cup Reviewing
      [] r = "tenant_admin" -> Reads \cup SetupWrites \cup Preparing \cup Reviewing
                                     \cup {"member:manage"}]
Capabilities == UNION {RoleCapabilities[r] : r \in Roles}
HumanOnly == {"task:approve", "member:manage"}

Carrying(G, c) == {g \in G : c \in RoleCapabilities[g.role]}
Wide(G, c) == \E g \in Carrying(G, c) : g.scope = None

\* The first gate.  `kind' is human, or service for an API token.
RequireCapability(kind, G, c) ==
    /\ kind = "service" => c \notin HumanOnly
    /\ Carrying(G, c) # {}

-----------------------------------------------------------------------------
(***************************************************************************)
(* The gate of writes.                                                     *)
(***************************************************************************)
\* What the look-up of the entity of a record answers: None for tenant-level
\* work, and for a record that is not there.
Owners(T) == Live(T) \cup {None}

\* Authorizer.authorize.
Authorizes(kind, G, T, e, c) ==
    /\ kind = "service" => c \notin HumanOnly
    /\ \/ Wide(G, c)
       \/ /\ e \in Live(T)
          /\ \E x \in AncestorsAndSelf(T, e), g \in Carrying(G, c) : g.scope = x

-----------------------------------------------------------------------------
(***************************************************************************)
(* The gate of reads.                                                      *)
(***************************************************************************)
\* DescendantsAndSelf.  Its UNION ends on loops too.
DescendantsAndSelf(T, S) ==
    LET down[n \in Nat] ==
          IF n = 0 THEN S \cap Live(T)
          ELSE LET above == down[n - 1]
               IN  above \cup {e \in Live(T) : T[e].parent \in above}
    IN  down[Cardinality(Ids)]

\* Seeded fault: the scope of every grant, whatever it carries.
RootsOfAll(G, c) == {g.scope : g \in G}
\* ReadScopeRoots.
Roots(G, c) == {g.scope : g \in Carrying(G, c)}

\* ReadScope.  No grants at all stands for a context the first gate never saw
\* (jobs, seeds), which is not narrowed.
ReadScope(T, G, c) ==
    IF G = {} \/ Wide(G, c) THEN Everything
    ELSE Only(DescendantsAndSelf(T, Roots(G, c)))

-----------------------------------------------------------------------------
(***************************************************************************)
(* The audit trail (modules/auditlog): entries about records, whatever has *)
(* become of them, numbered without a gap.  A record is an entity, belongs *)
(* to one directly or through its workflow, or is the tenant's.            *)
(***************************************************************************)
Linked == {"entity_obligation", "workflow", "workflow_task", "task_instance", "document"}
Records(T) ==
    [kind : {"entity"}, owner : Ids, gone : {FALSE}]
    \cup [kind : Linked, owner : Owners(T), gone : {FALSE}]
    \cup [kind : Linked, owner : {None}, gone : {TRUE}]
    \cup [kind : {"member"}, owner : {None}, gone : {FALSE}]

Trees ==
    {T \in [Ids -> [parent : Ids \cup {None}] \cup {Unborn}] :
        \A e \in Live(T) : T[e].parent \in Live(T) \cup {None}}

ASSUME AccessAssumption ==
    /\ GrantSets \subseteq SUBSET Grants
    /\ \A T \in Trees : Logs(T) \subseteq Seq(Records(T))

\* auditScopePredicate: by the workflow, by the id of an entity, by a row that
\* still names one.
InTrail(scope, r) ==
    \/ scope.all
    \/ r.kind \in Linked \cup {"entity"} /\ ~r.gone /\ r.owner \in scope.only

\* The entries a statement with the predicate finds, by their numbers, oldest first.
Found(scope, log) ==
    LET found[n \in Nat] ==
          IF n = 0 THEN <<>>
          ELSE IF InTrail(scope, log[n]) THEN Append(found[n - 1], n) ELSE found[n - 1]
    IN  found[Len(log)]

\* What List answers: newest first, numbered for those who see it all, with its
\* total.  `log' is the sequence of what the entries are about.
Trail(T, G, log) ==
    LET scope == ReadScope(T, G, "audit:read")
        mine == Found(scope, log)
        newest(i) == mine[Len(mine) + 1 - i]
    IN  [entries |-> [i \in DOMAIN mine |-> [seq |-> IF scope.all THEN newest(i) ELSE 0,
                                            about |-> log[newest(i)]]],
         total |-> Len(mine)]

-----------------------------------------------------------------------------
AskAccess ==
    /\ asked = Nothing
    /\ \E T \in Trees, G \in GrantSets, kind \in {"human", "service"} :
          asked' = [about |-> "access", tree |-> T, grants |-> G, kind |-> kind]

AccessSpec == asked = Nothing /\ [][AskAccess]_asked

-----------------------------------------------------------------------------
(***************************************************************************)
(* Properties.                                                             *)
(***************************************************************************)
\* A narrowed page is as if the entries withheld had never been written, and
\* what it has is of records the reader may read.
TrailIsBlind(T, G, log) ==
    LET scope == ReadScope(T, G, "audit:read")
        mine == Found(scope, log)
        open == [i \in DOMAIN mine |-> log[mine[i]]]
    IN  ~scope.all =>
            /\ \A v \in {ReadScope(T, G, c) : c \in Reads}, i \in DOMAIN open : In(v, open[i].owner)
            /\ Trail(T, G, log) = Trail(T, G, open)

\* The two gates, of any capability the first lets by.
GatesAgree(T, G, kind) ==
    LET found == {None} \cup {e \in Live(T) : ~LoopsAbove(T, e)}
        views == {ReadScope(T, G, v) : v \in Reads}
    IN  \A c \in {d \in Capabilities : RequireCapability(kind, G, d)} :
           LET may == {e \in found : Authorizes(kind, G, T, e, c)}
           IN  /\ may = {e \in found : In(ReadScope(T, G, c), e)}
               /\ \A v \in views, e \in may : In(v, e)

\* "The rule mirrors authorize() exactly" (ReadScopeRoots, authorize): the walk
\* down from the scopes and the walk up from a record agree, wherever the latter
\* ends.  Whoever may write a record sees it, whichever read comes first.  A
\* reader of the trail sees there no record it may not read, and a narrowed one
\* nothing that tells of the entries withheld, neither by their numbers nor by
\* the total (auditScopePredicate, withholdSeq).
ViewsFollowGrants ==
    asked.about = "access" =>
        /\ GatesAgree(asked.tree, asked.grants, asked.kind)
        /\ RequireCapability(asked.kind, asked.grants, "audit:read") =>
              \A log \in Logs(asked.tree) : TrailIsBlind(asked.tree, asked.grants, log)
=============================================================================
