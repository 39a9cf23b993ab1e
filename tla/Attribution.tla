---------------------------- MODULE Attribution ----------------------------
(***************************************************************************)
(* Who called (delivery/httpkit/clientaddr) and what the stream of         *)
(* authentication events says of it (platform/securityevent).  A request   *)
(* reaches the API along a path of our own hops; `origin' is whoever       *)
(* connected to the outermost one, and `sent' what the forwarded header    *)
(* held by then.  The call sites of the stream are those of                *)
(* modules/identity/usecases.  An id that is not known is "".              *)
(***************************************************************************)
EXTENDS Naturals, Sequences, Questions

CONSTANTS
    Client, Proxied,     \* addresses outside: a caller, a proxy of somebody else
    Cdn, Balancer, Web,  \* our hops, from the outside in
    NotAnAddress,        \* what does not parse
    Headers              \* what the forwarded header may hold as it reaches us

Ours == {Cdn, Balancer, Web}

ASSUME AttributionAssumption ==
    /\ {Client, Proxied, NotAnAddress} \cap Ours = {} /\ NotAnAddress \notin {Client, Proxied}
    /\ Cdn \notin {Balancer, Web}
    /\ Headers \subseteq Seq(Ours \cup {Client, Proxied, NotAnAddress})

\* The ways in of the two editions, and around the distribution.
Paths == {<<>>, <<Web>>, <<Balancer, Web>>, <<Cdn, Balancer, Web>>}

LastOr(s, otherwise) == IF s = <<>> THEN otherwise ELSE s[Len(s)]

\* Each hop sees the one before it; the first sees the origin.
PeerOf(q, i) == IF i = 1 THEN q.origin ELSE q.path[i - 1]
\* What a hop appends to the header it passes on, if it does and there is one.
Appended(q, i) ==
    IF i <= Len(q.path) /\ q.path[i] \in q.appends THEN <<PeerOf(q, i)>> ELSE <<>>
\* X-Forwarded-For as it arrives, over three hops at most.
ForwardedChain(q) == q.sent \o Appended(q, 1) \o Appended(q, 2) \o Appended(q, 3)

Resolved(addr, source) == [addr |-> addr, source |-> source]
Nowhere == Resolved(NotAnAddress, "nowhere")

\* Seeded fault: the chain is read from the left, as its writers fill it.
FirstForeignFromLeft(chain, trusted) ==
    LET foreign == {i \in 1 .. Len(chain) : chain[i] \notin trusted}
    IN  IF foreign = {} THEN NotAnAddress
        ELSE chain[CHOOSE i \in foreign : \A j \in foreign : i <= j]
\* The walk from the right, past our own hops, to the first entry that is not one.
FirstForeign(chain, trusted) ==
    LET foreign == {i \in 1 .. Len(chain) : chain[i] \notin trusted}
    IN  IF foreign = {} THEN NotAnAddress
        ELSE chain[CHOOSE i \in foreign : \A j \in foreign : i >= j]

\* Behind a distribution its own header is believed, or nothing is.
ByViewerHeader(q, peer) ==
    IF Cdn \in {q.path[i] : i \in 1 .. Len(q.path)}
    THEN Resolved(q.origin, "forwarded") ELSE Resolved(peer, "proxy")
ByChain(q, peer) ==
    LET foreign == FirstForeign(ForwardedChain(q), q.trusted)
    IN  IF foreign = NotAnAddress THEN Resolved(peer, "proxy") ELSE Resolved(foreign, "forwarded")

Resolve(q) ==
    LET peer == LastOr(q.path, q.origin)
    IN  IF peer = NotAnAddress THEN Nowhere
        ELSE IF peer \notin q.trusted THEN Resolved(peer, "peer")
        ELSE IF q.edge THEN ByViewerHeader(q, peer)
        ELSE ByChain(q, peer)

Identifies(client) == client.source \in {"peer", "forwarded"}
\* ClientAddressMiddleware binds the address with its provenance, or nothing.
Bound(client) ==
    IF client.source = "nowhere" THEN [addr |-> NotAnAddress, source |-> ""] ELSE client

----------------------------------------------------------------------------
(* The events, as their call sites know them. *)

Unidentified == [tenant |-> "", principal |-> "", actor |-> "", session |-> "", subject |-> ""]
Account == [Unidentified EXCEPT !.tenant = "t", !.principal = "u"]
InSession == [Account EXCEPT !.session = "s"]
ByAddressOf(who) == [who EXCEPT !.subject = "address"]
Noted(event, outcome, method, reason, who) ==
    [event |-> event, outcome |-> outcome, method |-> method, reason |-> reason, who |-> who]

LoginRefusalReason(known, capable, charge) ==
    CASE ~known -> "no_such_principal"
      [] known /\ ~capable -> "not_login_capable"
      [] known /\ capable /\ charge = "failed" -> "charge_failed"
      [] known /\ capable /\ charge = "refused" -> "locked_out"
      [] OTHER -> "bad_credential"

LoginEvents ==
    {Noted("auth.login.failed", "failure", "password", LoginRefusalReason(known, capable, charge),
           ByAddressOf(IF known THEN Account ELSE Unidentified)) :
        known \in BOOLEAN, capable \in BOOLEAN, charge \in {"failed", "refused", "allowed"}}
    \cup {Noted("auth.lockout.engaged", "failure", "password", "bad_credential", Account),
          Noted("auth.login.succeeded", "success", "password", "", InSession)}

MfaEvents ==
    {Noted("auth.mfa.enrolled", "success", "totp", "", Account)}
    \cup {Noted(event, "success", "totp", "", InSession) :
             event \in {"auth.mfa.enabled", "auth.mfa.succeeded"}}
    \cup {Noted(event, "success", "totp", "budget_spent", InSession) :
             event \in {"auth.session.revoked", "auth.mfa.enrollment_discarded"}}
    \cup {Noted("auth.mfa.failed", "failure", "totp", reason, InSession) :
             reason \in {"budget_spent", "bad_credential", "not_enrolled", "no_pending_session"}}
    \cup {Noted("auth.mfa.failed", "failure", "totp", "no_pending_session", Unidentified)}

SessionEvents ==
    {Noted("auth.session.revoked", "success", "session", "self_service", InSession),
     Noted("auth.sessions.revoked", "success", "session", "self_service", Account),
     Noted("auth.sessions.revoked", "success", "session", "member_disabled",
           [Account EXCEPT !.actor = "admin"])}

TokenEvents ==
    {Noted("auth.token.rejected", "failure", "api_token", "unknown_credential", Unidentified)}
    \cup {Noted("auth.token.rejected", "failure", "api_token", reason, InSession) :
             reason \in {"credential_expired", "principal_not_usable"}}

InviteEvents ==
    {Noted("auth.invite.accepted", "success", "invite_token", "", Account),
     Noted("auth.invite.rejected", "failure", "invite_token", "unknown_credential", Unidentified)}
    \cup {Noted("auth.invite.rejected", "failure", "invite_token", reason, Account) :
             reason \in {"credential_expired", "principal_not_usable"}}

Events == LoginEvents \cup MfaEvents \cup SessionEvents \cup TokenEvents \cup InviteEvents

----------------------------------------------------------------------------
(* The recorder, the table and its readers. *)

KnownEvents ==
    {"auth.login.succeeded", "auth.login.failed", "auth.lockout.engaged",
     "auth.mfa.enrolled", "auth.mfa.enabled", "auth.mfa.enrollment_discarded",
     "auth.mfa.succeeded", "auth.mfa.failed", "auth.session.revoked", "auth.sessions.revoked",
     "auth.token.rejected", "auth.invite.accepted", "auth.invite.rejected"}
KnownReasons ==
    {"no_such_principal", "not_login_capable", "bad_credential", "locked_out", "charge_failed",
     "budget_spent", "no_pending_session", "not_enrolled", "self_service", "member_disabled",
     "unknown_credential", "credential_expired", "principal_not_usable"}
Methods == {"password", "totp", "session", "api_token", "invite_token"}

Validates(e) ==
    /\ e.event \in KnownEvents /\ e.outcome \in {"success", "failure"} /\ e.method \in Methods
    /\ e.reason # "" => e.reason \in KnownReasons
    /\ e.outcome = "failure" => e.reason # ""

\* Seeded fault: every submitted address is digested, that of a known account too.
DigestOfAll(e, keyed) == IF keyed /\ e.who.subject # "" THEN "digest" ELSE ""
\* The digest is for who is not named otherwise, and needs a key and an address.
DigestOf(e, keyed) ==
    IF keyed /\ e.who.principal = "" /\ e.who.subject # "" THEN "digest" ELSE ""

Row(e, client, keyed) ==
    [event |-> e.event, outcome |-> e.outcome, method |-> e.method, reason |-> e.reason,
     tenant |-> e.who.tenant, principal |-> e.who.principal, actor |-> e.who.actor,
     session |-> e.who.session, digest |-> DigestOf(e, keyed),
     ip |-> client.addr, source |-> IF client.addr = NotAnAddress THEN "" ELSE client.source]

\* The CHECKs of migrations 31 and 32.
Storable(row) ==
    /\ row.outcome \in {"success", "failure"} /\ row.method \in Methods
    /\ row.source \in {"", "peer", "forwarded", "proxy"}
    /\ row.principal = "" \/ row.digest = ""

\* What a session bound to a tenant sees through row-level security, and what List finds.
TenantReads(rows, tenant) == {row \in rows : tenant # "" /\ row.tenant = tenant}
AnyRow == [tenant |-> "", principal |-> "", digest |-> "", event |-> ""]
List(rows, f) ==
    {row \in rows : \A column \in DOMAIN f : f[column] # "" => row[column] = f[column]}

----------------------------------------------------------------------------
Trusts == {{Web}, {Balancer, Web}, {}}
AskCaller ==
    /\ asked = Nothing
    /\ \E path \in Paths, sent \in Headers, appends \in SUBSET {Balancer, Web, Cdn},
          origin \in {Client, Proxied, NotAnAddress}, trusted \in Trusts, edge \in BOOLEAN :
          /\ origin = NotAnAddress => path = <<>>
          /\ asked' = [about |-> "caller", path |-> path, sent |-> sent, appends |-> appends,
                       origin |-> origin, trusted |-> trusted, edge |-> edge]
AskEvent ==
    /\ asked = Nothing
    /\ \E e \in Events, keyed \in BOOLEAN,
          client \in {Resolved(Client, "peer"), Resolved(Client, "forwarded"),
                      Resolved(Web, "proxy"), Nowhere} :
          asked' = [about |-> "event", event |-> e, client |-> client, keyed |-> keyed]

AttributionSpec == asked = Nothing /\ [][AskCaller \/ AskEvent]_asked

OnPath(q) == {q.path[i] : i \in 1 .. Len(q.path)}
\* A deployment as its settings describe it: our hops are trusted, or behind the distribution
\* that is declared; and they append.
Described(q) ==
    /\ OnPath(q) \ {Cdn} \subseteq q.trusted
    /\ q.edge <=> Cdn \in OnPath(q)
    /\ OnPath(q) \subseteq q.appends

\* In a deployment as described, the caller is who connected to our outermost hop, whatever
\* the header held by then; and in any deployment that trusts its hops, who has not been
\* named is not charged in common with others, and is recorded as a hop of ours.
CallerNamed(q, client) ==
    /\ (Described(q) /\ q.origin # NotAnAddress) =>
          client.addr = q.origin /\ Identifies(client)
    /\ (OnPath(q) \subseteq q.trusted /\ ~Identifies(client)) =>
          \/ client.source = "proxy" /\ client.addr \in Ours
          \/ q.origin = NotAnAddress
    /\ (q.edge /\ q.path # <<>> /\ Web \in q.trusted) =>
          client.addr \in {q.origin, Web}

\* Every event of a call site is one the recorder classifies and the table takes (a note that
\* is refused is a hole nobody hears of); it can be found by whom it is about, or counted by
\* the digest of an address, one of the two; it is read by its tenant alone; and the address
\* and where it comes from stand together.
EventLands(e, row, keyed) ==
    /\ Validates(e) /\ Storable(row)
    /\ row.principal # "" => row \in List({row}, [AnyRow EXCEPT !.principal = "u", !.tenant = "t"])
    /\ (keyed /\ e.who.subject # "" /\ row.principal = "") =>
          row \in List({row}, [AnyRow EXCEPT !.digest = "digest", !.event = e.event])
    /\ \A tenant \in {"t", "other", ""} :
          TenantReads({row}, tenant) # {} <=> tenant = "t" /\ row.principal # ""
    /\ row.ip = NotAnAddress <=> row.source = ""

\* Who called is named from the way the request came (clientaddr.go), and every
\* authentication event lands in the stream with it (securityevent.go).
CallersNamed ==
    /\ asked.about = "caller" => CallerNamed(asked, Resolve(asked))
    /\ asked.about = "event" =>
          EventLands(asked.event, Row(asked.event, Bound(asked.client), asked.keyed), asked.keyed)
=============================================================================
