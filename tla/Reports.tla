------------------------------ MODULE Reports ------------------------------
(***************************************************************************)
(* The reports (modules/reports, ADR-0021, ADR-0026): what the statements  *)
(* of the repository select from the task instances of a tenant.  A set of *)
(* records is a table, with the workflow of an instance joined to it.      *)
(*                                                                         *)
(* A legal date is a day number of Calendar, an instant the hours since    *)
(* then in UTC.  A name is its place in the order of names, a label the    *)
(* sequence of its parts.  None is NULL, and a filter not set.             *)
(***************************************************************************)
EXTENDS Calendar, Scopes

CONSTANTS
    Portfolio,       \* the workflows of a tenant
    TaskSets,        \* the task instances there may be
    Clocks,          \* what time it is, and how far the zone of the tenant is from UTC
    MaxHeatmapCells

Statuses ==
    {"not_started", "in_progress", "in_review", "pending_approval", "completed", "blocked"}
Templated == {"VAT", "CIT", "WHT"}

\* What stands for an entity or an obligation there is none of, as its id and as
\* its name.
Unknown == <<99>>

\* NULL is no value.  An id is that of one row of its table, and never Unknown.
\* JSON has objects and two booleans.
ASSUME ReportsAssumption ==
    /\ None \notin Int \cup Statuses \cup {"open", "unassigned", "overdue", "today", "this_week"}
    /\ \A c \in Clocks : c.zone \in Int /\ c.now \in Int
    /\ IsFiniteSet(Portfolio) /\ \A v, w \in Portfolio : v.id = w.id => v = w
    /\ \A w \in Portfolio : w.createdAt \in Int /\ w.year \in Int \cup {None}
    /\ \A part \in {"entity", "obligation"} : \A r \in {w[part] : w \in Portfolio} \ {None} :
          /\ r.id \in Int \ {99} /\ r.name \in Int
          /\ part = "obligation" => r.code \in Int
          /\ \A w \in Portfolio : w[part] # None /\ w[part].id = r.id => w[part] = r
    /\ \A W \in TaskSets : IsFiniteSet(W) /\ \A x, y \in W : x.id = y.id => x = y
    /\ \A x \in UNION TaskSets :
          /\ x.wf \in Portfolio /\ x.status \in Statuses
          /\ {x.id, x.name, x.due, x.filing, x.end, x.code} \subseteq Int
          /\ IF x.status = "completed" THEN x.completedAt \in Int ELSE x.completedAt = None
          /\ x.data # None =>
                /\ x.data = [k \in DOMAIN x.data |-> x.data[k]]
                /\ \A k \in DOMAIN x.data :
                      /\ x.data[k].text # None
                      /\ x.data[k].type = "boolean" => x.data[k].text \in {"true", "false"}

Count(S, Test(_)) == Cardinality({x \in S : Test(x)})

\* The order of text.
Precedes(s, t) ==
    \/ Len(s) < Len(t) /\ SubSeq(t, 1, Len(s)) = s
    \/ \E i \in 1 .. Least(Len(s), Len(t)) : /\ SubSeq(s, 1, i - 1) = SubSeq(t, 1, i - 1)
                                             /\ s[i] < t[i]

\* ORDER BY, of keys that differ.
Ordered(S, Key(_)) ==
    CHOOSE s \in [1 .. Cardinality(S) -> S] :
        \A i, j \in DOMAIN s : i < j => Precedes(Key(s[i]), Key(s[j]))

\* LIMIT and OFFSET.
Page(s, limit, offset) == SubSeq(s, offset + 1, Least(offset + limit, Len(s)))

-----------------------------------------------------------------------------
(***************************************************************************)
(* What the statements share.  `q' is the question: the clock and the      *)
(* table.                                                                  *)
(***************************************************************************)
CivilDate(q, instant) == (instant + q.zone) \div 24
Today(q) == CivilDate(q, q.now)
WeekEndOf(q) == Today(q) + 6 - Weekday(Today(q))

Open(x) == x.status # "completed"
DueWindow(q, x, window) ==
    /\ Open(x)
    /\ CASE window = "overdue" -> x.due < Today(q)
         [] window = "today" -> x.due = Today(q)
         [] window = "this_week" -> Today(q) < x.due /\ x.due <= WeekEndOf(q)

\* Seeded fault: the day of the completion is that of the server.
ComplianceClassInUTC(q, x, deadline) ==
    CASE x.status = "completed" /\ x.completedAt # None ->
            IF x.completedAt \div 24 <= deadline THEN "on_time" ELSE "late"
      [] OTHER -> IF deadline < Today(q) THEN "missed" ELSE "not_due"
ComplianceClass(q, x, deadline) ==
    CASE x.status = "completed" /\ x.completedAt # None ->
            IF CivilDate(q, x.completedAt) <= deadline THEN "on_time" ELSE "late"
      [] OTHER -> IF deadline < Today(q) THEN "missed" ELSE "not_due"

Participates(w) == w.status \in {"active", "completed"} /\ w.category = "recurring"

\* reportFiltersWhere.
PassesFilters(f, w) ==
    /\ f.year # None => w.year = f.year
    /\ f.entity # None => w.entity # None /\ w.entity.id = f.entity
    /\ f.obligation # None => w.obligation # None /\ w.obligation.id = f.obligation

\* reportScopeWhere.
InScope(scope, w) == In(scope, IF w.entity = None THEN None ELSE w.entity.id)

ComplianceFrom(q, scope, f) ==
    {x \in q.work : Participates(x.wf) /\ PassesFilters(f, x.wf) /\ InScope(scope, x.wf)}

-----------------------------------------------------------------------------
(***************************************************************************)
(* The figures in the data of an instance: JSON values, [type, text], by   *)
(* their keys, or NULL (shared/taxkeys).                                   *)
(***************************************************************************)
\* The texts numericRegex accepts, and what they say.
PlainNumbers == [s \in {"0", "0.0", "5", "8", "-7"} |->
    CASE s = "5" -> 5 [] s = "8" -> 8 [] s = "-7" -> -7 [] OTHER -> 0]

HasKey(data, key) == data # None /\ key \in DOMAIN data

JsonNum(data, key) ==
    IF HasKey(data, key) /\ data[key].text \in DOMAIN PlainNumbers
    THEN PlainNumbers[data[key].text] ELSE 0

FirstNonZero(data, keys) ==
    LET given == {i \in DOMAIN keys : JsonNum(data, keys[i]) # 0}
    IN  IF given = {} THEN 0 ELSE JsonNum(data, keys[Min(given)])

JsonTruthy(data, key) ==
    /\ HasKey(data, key)
    /\ LET v == data[key] IN
       CASE v.type = "number" -> v.text \notin {"0", "0.0"}
         [] v.type = "boolean" -> v.text # "false"
         [] v.type = "string" -> v.text # ""
         [] OTHER -> FALSE

FirstTruthy(data, keys) ==
    LET given == {i \in DOMAIN keys : JsonTruthy(data, keys[i])}
    IN  IF given = {} THEN None ELSE data[keys[Min(given)]].text

Aliases ==
    [outputVat |-> <<"outputVat", "outputTax", "salesVat">>,
     inputVat |-> <<"inputVat", "inputTax", "purchaseVat">>,
     netVat |-> <<"netVat", "vatPayable">>,
     taxableIncome |-> <<"taxableIncome", "taxableProfit">>,
     taxLiability |-> <<"taxLiability", "taxPayable", "corporateTax">>,
     whtAmount |-> <<"whtAmount", "withholdingTax", "taxWithheld">>,
     amount |-> <<"amount", "totalAmount", "taxAmount">>,
     engagementCost |-> <<"engagementCost", "cost", "filingCost">>,
     penaltyAmount |-> <<"penaltyAmount", "penalty">>,
     interestAmount |-> <<"interestAmount", "interest">>]

ExportPairs ==
    [outputVat |-> <<"outputVat", "output_vat">>, inputVat |-> <<"inputVat", "input_vat">>,
     netVat |-> <<"netVat", "net_vat">>, taxableIncome |-> <<"taxableIncome", "taxable_income">>,
     taxLiability |-> <<"taxLiability", "tax_liability">>,
     whtAmount |-> <<"whtAmount", "wht_amount">>, penaltyAmount |-> <<"penaltyAmount", "penalty">>,
     interestAmount |-> <<"interestAmount", "interest">>,
     engagementCost |-> <<"engagementCost", "engagement_cost">>]

-----------------------------------------------------------------------------
(***************************************************************************)
(* compliance-heatmap.                                                     *)
(***************************************************************************)
YearText(w) == IF w.year = None THEN 0 ELSE w.year
TemplateOf(w) == IF w.obligation = None THEN None ELSE w.obligation.template

HeatmapRow(w) ==
    IF w.entity = None THEN [id |-> Unknown, label |-> Unknown]
    ELSE [id |-> <<w.entity.id>>, label |-> <<w.entity.name>>]

HeatmapCol(f, view, x) ==
    CASE view = "tax-type" /\ x.wf.obligation = None -> [id |-> Unknown, label |-> Unknown]
      [] view = "tax-type" /\ x.wf.obligation # None ->
            [id |-> <<x.wf.obligation.id>>,
             label |-> <<x.wf.obligation.name, x.wf.obligation.code>>]
      [] view = "period" /\ f.year = None ->
            [id |-> <<YearText(x.wf), x.code>>, label |-> <<x.code, YearText(x.wf)>>]
      [] view = "period" /\ f.year # None -> [id |-> <<x.code>>, label |-> <<x.code>>]

\* One GROUP BY.
HeatmapCells(q, scope, f, view) ==
    LET from == ComplianceFrom(q, scope, f)
        cellOf(x) == [row |-> HeatmapRow(x.wf), col |-> HeatmapCol(f, view, x)]
        due(x) == ComplianceClass(q, x, x.due)
    IN  {LET of == {x \in from : cellOf(x) = cell}
         IN  [row |-> cell.row, col |-> cell.col,
              total |-> Cardinality(of),
              completed |-> Count(of, LAMBDA x : x.status = "completed"),
              overdue |-> Count(of, LAMBDA x : due(x) = "missed"),
              late |-> Count(of, LAMBDA x : due(x) = "late"),
              inProgress |->
                  Count(of, LAMBDA x : x.status \in {"in_progress", "in_review", "pending_approval"}),
              workflows |-> {x.wf.id : x \in of},
              first |-> Min({x.end : x \in of})]
         : cell \in {cellOf(x) : x \in from}}

CellStatus(c) ==
    CASE c.total = 0 -> "grey"
      [] c.total # 0 /\ (c.overdue > 0 \/ c.late > 0) -> "red"
      [] c.total # 0 /\ c.overdue = 0 /\ c.late = 0 ->
            IF c.completed = c.total THEN "green" ELSE "amber"

\* HeatmapToJSON: rows as they are first seen, columns by the earliest period
\* end seen in them, then their labels.
HeatmapToJSON(cells) ==
    LET listed == Ordered(cells, LAMBDA c : c.row.label \o <<c.first>> \o c.col.id \o c.row.id)
        see(rows, c) == IF Contains(rows, c.row) THEN rows ELSE Append(rows, c.row)
        first(col) == Min({c.first : c \in {d \in cells : d.col.id = col.id}})
    IN  [rows |-> FoldLeft(see, <<>>, listed),
         cols |-> Ordered({c.col : c \in cells}, LAMBDA col : <<first(col)>> \o col.label),
         cells |-> cells,
         summary |-> [s \in {"green", "amber", "red"} |->
                         Count(cells, LAMBDA c : CellStatus(c) = s)]]

\* A larger grid is refused, never cut.
TooLarge == [refused |-> TRUE]
Grid(cells) == IF Cardinality(cells) > MaxHeatmapCells THEN TooLarge ELSE HeatmapToJSON(cells)
ComplianceHeatmap(q, scope, f, view) == Grid(HeatmapCells(q, scope, f, view))

-----------------------------------------------------------------------------
(***************************************************************************)
(* compliance-status: a page of rows, and the counts of the whole.         *)
(***************************************************************************)
EntityName(w) == IF w.entity = None THEN Unknown ELSE <<w.entity.name>>
ObligationName(w) == IF w.obligation = None THEN Unknown ELSE <<w.obligation.name>>
CodeOf(w) == IF w.obligation = None THEN None ELSE w.obligation.code

\* concat_ws leaves the absent half out.
PenaltyInterest(x) ==
    LET penalty == FirstTruthy(x.data, Aliases.penaltyAmount)
        interest == FirstTruthy(x.data, Aliases.interestAmount)
        half(title, text) == IF text = None THEN <<>> ELSE <<title, text>>
    IN  CASE penalty # None \/ interest # None ->
                half("Penalty: ", penalty) \o half("Interest: ", interest)
          [] penalty = None /\ interest = None ->
                IF x.taskType = "payment" /\ x.notes # None THEN <<x.notes>> ELSE <<>>

ComplianceRow(q, x) ==
    [id |-> x.id, entity |-> EntityName(x.wf), obligation |-> ObligationName(x.wf),
     code |-> CodeOf(x.wf), taxType |-> TemplateOf(x.wf), period |-> x.code,
     filing |-> x.filing, completedAt |-> x.completedAt,
     class |-> ComplianceClass(q, x, x.filing), penaltyInterest |-> PenaltyInterest(x)]

ComplianceKey(row) == row.entity \o row.obligation \o <<row.period>>

\* `status' is None for any.
CompliancePage(classified, status, limit, offset) ==
    LET filtered == {r \in classified : status # None => r.class = status}
        of(class) == Count(classified, LAMBDA r : r.class = class)
    IN  [rows |-> Page(Ordered(filtered, LAMBDA r : ComplianceKey(r) \o <<r.id>>), limit, offset),
         total |-> Cardinality(filtered),
         summary |-> [total |-> Cardinality(classified), onTime |-> of("on_time"),
                      late |-> of("late"), missed |-> of("missed"), notDue |-> of("not_due")]]
ComplianceStatus(q, scope, f, status, limit, offset) ==
    CompliancePage({ComplianceRow(q, x) : x \in ComplianceFrom(q, scope, f)}, status, limit, offset)

-----------------------------------------------------------------------------
(***************************************************************************)
(* tax-financial: what the instances with data amount to.                  *)
(***************************************************************************)
FigureNames ==
    {"outputVat", "inputVat", "netVat", "taxableIncome", "taxLiability", "whtAmount",
     "engagementCost", "totalAmount"}

\* figuresCTE.  A net figure of 0 is one not given.
Figures(x) ==
    LET template == TemplateOf(x.wf)
        of(t, name) == IF template = t THEN FirstNonZero(x.data, Aliases[name]) ELSE 0
        given == of("VAT", "netVat")
        net == IF given # 0 THEN given ELSE of("VAT", "outputVat") - of("VAT", "inputVat")
    IN  [outputVat |-> of("VAT", "outputVat"), inputVat |-> of("VAT", "inputVat"),
         netVat |-> net, taxableIncome |-> of("CIT", "taxableIncome"),
         taxLiability |-> of("CIT", "taxLiability"), whtAmount |-> of("WHT", "whtAmount"),
         engagementCost |-> FirstNonZero(x.data, Aliases.engagementCost),
         totalAmount |-> CASE template = "VAT" -> net
                           [] template = "CIT" -> of("CIT", "taxLiability")
                           [] template = "WHT" -> of("WHT", "whtAmount")
                           [] OTHER -> FirstNonZero(x.data, Aliases.amount)]

\* No country and no tax type is a group of its own, None.
GroupOf(x, by) ==
    LET same(label) == [key |-> label, label |-> label]
    IN  CASE by = "country" -> same(IF x.wf.entity = None THEN None ELSE x.wf.entity.country)
          [] by = "tax-type" -> same(TemplateOf(x.wf))
          [] by = "period" -> same(<<x.code>>)
          [] by = "obligation" ->
                [key |-> IF x.wf.obligation = None THEN Unknown ELSE <<x.wf.obligation.id>>,
                 label |-> ObligationName(x.wf)]
          [] by = "entity" ->
                [key |-> IF x.wf.entity = None THEN Unknown ELSE <<x.wf.entity.id>>,
                 label |-> EntityName(x.wf)]

SumOf(rows) == [name \in FigureNames |-> MapThenSumSet(LAMBDA r : r.figures[name], rows)]

\* The order of groups is left out, but for that of periods: by the calendar.
FinancialRow(x, by) ==
    [id |-> x.id, entity |-> EntityName(x.wf), obligation |-> ObligationName(x.wf),
     code |-> CodeOf(x.wf), period |-> x.code, year |-> YearText(x.wf), end |-> x.end,
     group |-> GroupOf(x, by), figures |-> Figures(x)]

FinancialPage(rows, limit, offset) ==
    LET periods == {r.period : r \in rows}
        in(period) == {r \in rows : r.period = period}
        listed == Ordered(periods, LAMBDA p : <<Min({r.end : r \in in(p)}), p>>)
    IN  [rows |-> Page(Ordered(rows, LAMBDA r : ComplianceKey(r) \o <<r.id>>), limit, offset),
         aggregated |-> {LET of == {r \in rows : r.group = g}
                         IN  [key |-> g.key, label |-> g.label, figures |-> SumOf(of),
                              count |-> Cardinality(of)] : g \in {r.group : r \in rows}},
         chart |-> [i \in DOMAIN listed |-> [period |-> listed[i], figures |-> SumOf(in(listed[i]))]],
         summary |-> SumOf(rows),
         total |-> Cardinality(rows)]

TaxFinancial(q, scope, f, by, limit, offset) ==
    FinancialPage({FinancialRow(x, by) :
                      x \in {y \in ComplianceFrom(q, scope, f) : y.data # None /\ y.data # <<>>}},
                  limit, offset)

-----------------------------------------------------------------------------
(***************************************************************************)
(* The task list, the tiles of the dashboard, and workflow-stats.          *)
(***************************************************************************)
\* taskFilterWhere.  A year None in `years' asks for workflows without one.
TaskFilterWhere(q, scope, f, x) ==
    /\ InScope(scope, x.wf)
    /\ f.workflow # None => x.wf.id = f.workflow
    /\ f.entity # None => x.wf.entity # None /\ x.wf.entity.id = f.entity
    /\ CASE f.assignee = None -> TRUE
         [] f.assignee = "unassigned" -> x.assignee = None
         [] OTHER -> x.assignee = f.assignee
    /\ f.obligation # None => x.wf.obligation # None /\ x.wf.obligation.id = f.obligation
    /\ f.taxType # None => TemplateOf(x.wf) = f.taxType
    /\ f.years # {} => x.wf.year \in f.years
    /\ f.period # None => x.code = f.period
    /\ CASE f.status = None -> TRUE
         [] f.status = "open" -> Open(x)
         [] OTHER -> x.status = f.status
    /\ f.category # None => x.wf.category = f.category
    /\ f.due # None => DueWindow(q, x, f.due)
    /\ f.from # None => x.due >= f.from
    /\ f.to # None => x.due <= f.to

NoTaskFilter ==
    [workflow |-> None, entity |-> None, assignee |-> None, obligation |-> None,
     taxType |-> None, years |-> {}, period |-> None, status |-> None, category |-> None,
     due |-> None, from |-> None, to |-> None]

\* In the order of the feed, without the place of a step in its workflow.
ListTaskInstances(q, scope, f, limit, offset) ==
    LET found == {x \in q.work : TaskFilterWhere(q, scope, f, x)}
    IN  [rows |-> Page(Ordered(found, LAMBDA x : <<x.due, x.id>>), limit, offset),
         total |-> Cardinality(found)]

RoundedPercent(part, total) == IF total <= 0 THEN 0 ELSE (2 * part * 100 + total) \div (2 * total)

Tiles(q, found) ==
    LET of(status) == Count(found, LAMBDA x : x.status = status)
        window(name) == Count(found, LAMBDA x : DueWindow(q, x, name))
    IN  [today |-> Today(q), total |-> Cardinality(found), completed |-> of("completed"),
         active |-> Count(found, Open), overdue |-> window("overdue"),
         dueToday |-> window("today"), dueThisWeek |-> window("this_week"),
         awaitingApproval |-> of("pending_approval"),
         byStatus |-> [s \in Statuses |-> of(s)],
         completionRate |-> RoundedPercent(of("completed"), Cardinality(found))]
TaskSummary(q, scope, f) == Tiles(q, {x \in q.work : TaskFilterWhere(q, scope, f, x)})

\* A row for every workflow, started or not.
WorkflowStats(q, scope, f) ==
    LET selected == {w \in Portfolio :
                        /\ InScope(scope, w)
                        /\ f.workflow # None => w.id = f.workflow
                        /\ f.entity # None => w.entity # None /\ w.entity.id = f.entity
                        /\ f.years # {} => w.year \in f.years
                        /\ f.status # None => w.status = f.status
                        /\ f.category # None => w.category = f.category}
        row(w) == LET of == {x \in q.work : x.wf = w}
                      open == {x.due : x \in {y \in of : Open(y)}}
                      done == Count(of, LAMBDA x : x.status = "completed")
                  IN  [workflow |-> w.id, total |-> Cardinality(of), completed |-> done,
                       percent |-> RoundedPercent(done, Cardinality(of)),
                       nextDue |-> IF open = {} THEN None ELSE Min(open)]
    IN  {row(w) : w \in selected}

-----------------------------------------------------------------------------
(***************************************************************************)
(* export-raw.                                                             *)
(***************************************************************************)
ExportFilter(scope, f, w) ==
    /\ InScope(scope, w)
    /\ f.entity # None => w.entity # None /\ w.entity.id = f.entity
    /\ f.obligation # None => w.obligation # None /\ w.obligation.id = f.obligation
    /\ f.category # None => w.category = f.category

\* Half-open on the stored column: a date, or an instant of UTC.
WorkflowWindow(f, w) == /\ f.from # None => w.createdAt >= 24 * f.from
                        /\ f.to # None => w.createdAt < 24 * (f.to + 1)
InstanceWindow(f, x) == /\ f.from # None => x.due >= f.from
                        /\ f.to # None => x.due < f.to + 1

ExportWorkflows(scope, f) == {w \in Portfolio : ExportFilter(scope, f, w) /\ WorkflowWindow(f, w)}
ExportTasks(q, scope, f) == {x \in q.work : ExportFilter(scope, f, x.wf) /\ InstanceWindow(f, x)}
ExportTaxData(q, scope, f) ==
    {[id |-> x.id, figures |-> [name \in DOMAIN ExportPairs |->
                                   FirstNonZero(x.data, ExportPairs[name])]]
        : x \in {y \in ExportTasks(q, scope, f) : y.data # None}}

-----------------------------------------------------------------------------
AskReports ==
    /\ asked = Nothing
    /\ \E c \in Clocks, W \in TaskSets :
          asked' = [about |-> "reports", zone |-> c.zone, now |-> c.now, work |-> W]
ReportsSpec == asked = Nothing /\ [][AskReports]_asked
=============================================================================
