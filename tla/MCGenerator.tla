---------------------------- MODULE MCGenerator ----------------------------
(* Small instances of Generator for TLC. *)
EXTENDS Generator, Access, MCReports

CONSTANTS e1, e2, e3, g, t, n, dx, dy

Row(name, parent, data) == [name |-> name, parent |-> parent, data |-> data]
File(spoke, rows) == [spoke |-> spoke, rows |-> rows]
Both == {"parent", "data"}

MCFiles ==
    {\* a child before its parent, both perhaps new
     File(Both, <<Row(t, n, dx), Row(n, g, dx)>>),
     \* a loop, if neither exists
     File(Both, <<Row(t, n, dx), Row(n, t, dy)>>),
     \* one name twice
     File(Both, <<Row(n, g, dx), Row(n, g, dy)>>),
     \* no parent column
     File({"data"}, <<Row(g, None, dy), Row(n, None, dy)>>),
     \* a move, and no other column
     File({"parent"}, <<Row(t, g, dx)>>)}

\* Two imports; an import or a start against a single request or each other;
\* three requests on a workflow; a question.
Budget(uploads, edits, work, asks) ==
    [uploads |-> uploads, edits |-> edits, work |-> work, asks |-> asks]
MCBudgets ==
    {Budget(2, 0, 0, 0), Budget(1, 1, 0, 0), Budget(1, 0, 1, 0), Budget(0, 1, 1, 0),
     Budget(0, 0, 3, 0), Budget(0, 0, 0, 1)}

Fiscal(pattern, month, day, rule, custom) ==
    [pattern |-> pattern, month |-> month, day |-> day, weekEnd |-> 6, rule |-> rule,
     custom |-> custom]
\* A customer's list over a leap day, and one with a gap.
Thirds == <<[start |-> <<12, 29>>, end |-> <<2, 29>>], [start |-> <<3, 1>>, end |-> <<6, 30>>],
            [start |-> <<7, 1>>, end |-> <<12, 28>>]>>
Gap == [Thirds EXCEPT ![2].start = <<3, 2>>]
MCConfigs ==
    {Fiscal(p, d[1], d[2], r, <<>>) :
        p \in {"445", "454", "544", "13-period", "weekly"},
        d \in {<<12, 31>>, <<2, 29>>, <<6, 30>>}, r \in {"last", "nearest"}}
    \cup {Fiscal("standard", d[1], d[2], "last", <<>>) :
              d \in {<<2, 29>>, <<6, 30>>, <<12, 31>>}}
    \cup {Fiscal("custom", 12, 31, "last", l) : l \in {Thirds, Gap}}

MCYears == 2023 .. 2028

Due(value, unit, direction, weekend) ==
    [value |-> value, unit |-> unit, direction |-> direction, weekend |-> weekend]
ByMonth == Due(1, "months", "after", "next-business-day")
ByDays == Due(10, "days", "after", "none")
MCDueRules ==
    {Due(v, u, d, w) : v \in {1}, u \in {"days", "weeks", "months"},
        d \in {"before", "after"}, w \in {"next-business-day", "prev-business-day"}}
    \cup {ByDays}
MCRules == {ByMonth, ByDays}

MCPaymentRules ==
    {[kind |-> "none"], [kind |-> "fixed", dates |-> {<<2, 29>>, <<8, 31>>}],
     [kind |-> "offset", months |-> 1, days |-> 15, weekend |-> ""]}

MCFiscalOf == dx :> Fiscal("standard", 12, 31, "last", <<>>)
              @@ dy :> Fiscal("445", 6, 30, "nearest", <<>>)

MCGrantSets == {{}} \cup {{f, h} : f, h \in Grants}
\* An entry about every record there can be, of one kind of those linked alike.
MCLogs(T) ==
    {FoldSet(LAMBDA r, log : Append(log, r), <<>>,
             {r \in Records(T) : r.kind \in {"entity", "document", "member"}})}

\* Where a budget has no request for a part, one state of the part will do.
MCInit ==
    /\ GenInit
    /\ left.work = 0 <=> wf = Gone
    /\ left.work > 0 => Steps # {}
    /\ left.uploads = 0 => ent[Root].name = g /\ \A i \in Live(ent) \ {Root} : ent[i].name = n
    /\ left.asks > 0 => Live(ent) = {Root} /\ ent[Root].data = dx
MCNext ==
    \/ Next
    \/ left.asks > 0 /\ (AskAccess \/ AskReports) /\ UNCHANGED <<regVars, workVars>>
MCSpec == MCInit /\ [][MCNext]_vars

Symmetry == Permutations({e2, e3}) \cup Permutations(Batches) \cup Permutations(Procs) \cup Permutations(Templates)
=============================================================================
