------------------------------- MODULE Oracle -------------------------------
(***************************************************************************)
(* The second opinion on the reports: the oracle of `seed-demo verify'     *)
(* (cmd/seed-demo), which walks the instances of a tenant one by one and   *)
(* keeps counts in maps, and the checks which compare the answers of the   *)
(* program with it.                                                        *)
(***************************************************************************)
EXTENDS Reports

\* A tally: what one instance adds to the entry of its key.
Tally(W, KeyOf(_), Fresh(_), Add(_, _)) ==
    FoldSet(LAMBDA x, tally :
                [k \in DOMAIN tally \cup {KeyOf(x)} |->
                    IF k # KeyOf(x) THEN tally[k]
                    ELSE Add(x, IF k \in DOMAIN tally THEN tally[k] ELSE Fresh(x))],
            <<>>, W)

One(test) == IF test THEN 1 ELSE 0
SortedKeys(tally, Key(_)) == Ordered(DOMAIN tally, Key)

-----------------------------------------------------------------------------
(***************************************************************************)
(* Instances.                                                              *)
(***************************************************************************)
OracleDay(q, instant) == (instant + q.zone) \div 24
OracleToday(q) == OracleDay(q, q.now)
\* The Saturday of the week.
OracleEndOfWeek(day) == CHOOSE d \in day .. day + 6 : Weekday(d) = 6

OracleClassify(q, x, deadline) ==
    CASE x.status = "completed" /\ x.completedAt # None /\ OracleDay(q, x.completedAt) <= deadline ->
            "on_time"
      [] x.status = "completed" /\ x.completedAt # None /\ OracleDay(q, x.completedAt) > deadline ->
            "late"
      [] ~(x.status = "completed" /\ x.completedAt # None) ->
            IF deadline < OracleToday(q) THEN "missed" ELSE "not_due"

OracleMatches(f, w) == \A field \in {"year", "entity", "obligation"} :
    \/ f[field] = None
    \/ f[field] = CASE field = "year" -> w.year
                    [] field = "entity" -> IF w.entity = None THEN None ELSE w.entity.id
                    [] field = "obligation" ->
                          IF w.obligation = None THEN None ELSE w.obligation.id

OracleParticipating(q, f) ==
    {x \in q.work : /\ x.wf.category = "recurring" /\ x.wf.status \in {"active", "completed"}
                    /\ OracleMatches(f, x.wf)}

-----------------------------------------------------------------------------
(***************************************************************************)
(* Figures.                                                                *)
(***************************************************************************)
OracleNum(data, key) ==
    IF data # None /\ key \in DOMAIN data /\ data[key].text \in DOMAIN PlainNumbers
    THEN PlainNumbers[data[key].text] ELSE 0
OracleFirstNonZero(data, keys) ==
    FoldLeft(LAMBDA found, k : IF found # 0 THEN found ELSE OracleNum(data, k), 0, keys)

OracleTruthy(data, key) ==
    IF data = None \/ key \notin (IF data = None THEN {} ELSE DOMAIN data) THEN None
    ELSE LET v == data[key] IN
         IF \/ v.type = "number" /\ ~(v.text = "0" \/ v.text = "0.0")
            \/ v.type = "boolean" /\ v.text = "true"
            \/ v.type = "string" /\ v.text # ""
         THEN v.text ELSE None
OracleFirstTruthy(data, keys) ==
    FoldLeft(LAMBDA found, k : IF found # None THEN found ELSE OracleTruthy(data, k), None, keys)

OraclePenaltyInterest(x) ==
    LET penalty == OracleFirstTruthy(x.data, Aliases.penaltyAmount)
        interest == OracleFirstTruthy(x.data, Aliases.interestAmount)
        part(title, text) == IF text = None THEN <<>> ELSE <<title, text>>
    IN  IF penalty = None /\ interest = None
        THEN IF x.taskType = "payment" /\ x.notes # None THEN <<x.notes>> ELSE <<>>
        ELSE part("Penalty: ", penalty) \o part("Interest: ", interest)

OracleNone == [name \in FigureNames |-> 0]
OraclePlus(a, b) == [name \in FigureNames |-> a[name] + b[name]]

\* oracleTaxFinancialFigures: set figure by figure, by the type of the tax.
OracleFigures(taxType, data) ==
    LET num(name) == OracleFirstNonZero(data, Aliases[name])
        cost == [OracleNone EXCEPT !.engagementCost = num("engagementCost")]
        derived == num("outputVat") - num("inputVat")
        net == IF num("netVat") # 0 THEN num("netVat") ELSE derived
    IN  CASE taxType = "VAT" ->
                [cost EXCEPT !.outputVat = num("outputVat"), !.inputVat = num("inputVat"),
                             !.netVat = net, !.totalAmount = net]
          [] taxType = "CIT" ->
                [cost EXCEPT !.taxableIncome = num("taxableIncome"),
                             !.taxLiability = num("taxLiability"), !.totalAmount = num("taxLiability")]
          [] taxType = "WHT" ->
                [cost EXCEPT !.whtAmount = num("whtAmount"), !.totalAmount = num("whtAmount")]
          [] OTHER -> [cost EXCEPT !.totalAmount = num("amount")]

-----------------------------------------------------------------------------
(***************************************************************************)
(* The reports.                                                            *)
(***************************************************************************)
OracleQualifiesYears(f, view) == view # "tax-type" /\ f.year = None

OracleColumn(f, view, x) ==
    LET year == IF x.wf.year = None THEN 0 ELSE x.wf.year
        ob == x.wf.obligation
    IN  CASE view = "tax-type" -> IF ob = None THEN [key |-> Unknown, label |-> Unknown]
                                  ELSE [key |-> <<ob.id>>, label |-> <<ob.name, ob.code>>]
          [] OTHER -> IF OracleQualifiesYears(f, view)
                      THEN [key |-> <<year, x.code>>, label |-> <<x.code, year>>]
                      ELSE [key |-> <<x.code>>, label |-> <<x.code>>]

OracleRow(x) == IF x.wf.entity = None THEN [key |-> Unknown, label |-> Unknown]
                ELSE [key |-> <<x.wf.entity.id>>, label |-> <<x.wf.entity.name>>]

OracleCellStatus(c) ==
    IF c.overdue + c.late > 0 THEN "red"
    ELSE IF c.completed = c.total THEN "green" ELSE "amber"

\* heatmapKeyed.
OracleTallied(q, f, view) ==
    LET keyOf(x) == <<OracleRow(x).key, OracleColumn(f, view, x).key>>
        fresh(x) == [rowLabel |-> OracleRow(x).label, colLabel |-> OracleColumn(f, view, x).label,
                     total |-> 0, completed |-> 0, overdue |-> 0, late |-> 0, inProgress |-> 0,
                     workflows |-> {}, first |-> x.end]
        add(x, c) ==
            LET class == OracleClassify(q, x, x.due) IN
            [c EXCEPT !.total = @ + 1,
                      !.completed = @ + One(x.status = "completed"),
                      !.overdue = @ + One(class = "missed"), !.late = @ + One(class = "late"),
                      !.inProgress =
                          @ + One(x.status \in {"in_progress", "in_review", "pending_approval"}),
                      !.workflows = @ \cup {x.wf.id}, !.first = Least(@, x.end)]
    IN  Tally(OracleParticipating(q, f), keyOf, fresh, add)

\* Its orders and its summary.
OracleGrid(cells) ==
    LET rows == {k[1] : k \in DOMAIN cells}
        cols == {k[2] : k \in DOMAIN cells}
        rowLabel == [r \in rows |-> cells[CHOOSE k \in DOMAIN cells : k[1] = r].rowLabel]
        colLabel == [c \in cols |-> cells[CHOOSE k \in DOMAIN cells : k[2] = c].colLabel]
        colFirst == [c \in cols |-> Min({cells[k].first : k \in {d \in DOMAIN cells : d[2] = c}})]
    IN  [cells |-> cells,
         rowOrder |-> SortedKeys(rowLabel, LAMBDA r : rowLabel[r] \o r),
         colOrder |-> SortedKeys(colLabel, LAMBDA c : <<colFirst[c]>> \o colLabel[c] \o c),
         summary |-> [s \in {"green", "amber", "red"} |->
                         Count(DOMAIN cells, LAMBDA k : OracleCellStatus(cells[k]) = s)]]
OracleHeatmap(q, f, view) == OracleGrid(OracleTallied(q, f, view))

OracleComplianceRow(q, x) ==
    [id |-> x.id, entity |-> OracleRow(x).label,
     obligation |-> IF x.wf.obligation = None THEN Unknown ELSE <<x.wf.obligation.name>>,
     code |-> IF x.wf.obligation = None THEN None ELSE x.wf.obligation.code,
     taxType |-> IF x.wf.obligation = None THEN None ELSE x.wf.obligation.template,
     period |-> x.code, filing |-> x.filing, completedAt |-> x.completedAt,
     class |-> OracleClassify(q, x, x.filing), penaltyInterest |-> OraclePenaltyInterest(x)]

OracleCompliance(q, f) ==
    LET rows == {OracleComplianceRow(q, x) : x \in OracleParticipating(q, f)}
        one(class) == [total |-> 1, onTime |-> One(class = "on_time"), late |-> One(class = "late"),
                       missed |-> One(class = "missed"), notDue |-> One(class = "not_due")]
        zero == [total |-> 0, onTime |-> 0, late |-> 0, missed |-> 0, notDue |-> 0]
    IN  [rows |-> rows,
         summary |-> FoldSet(LAMBDA r, s : [n \in DOMAIN s |-> s[n] + one(r.class)[n]], zero, rows)]

OracleGroupOf(x, by) ==
    LET en == x.wf.entity
        ob == x.wf.obligation
    IN  CASE by = "country" -> IF en # None /\ en.country # None THEN en.country ELSE None
          [] by = "tax-type" -> IF ob # None THEN ob.template ELSE None
          [] by = "period" -> <<x.code>>
          [] by = "obligation" -> IF ob # None THEN <<ob.id>> ELSE Unknown
          [] by = "entity" -> IF en # None THEN <<en.id>> ELSE Unknown

OracleFinancial(q, f, by) ==
    LET carrying == {x \in OracleParticipating(q, f) : x.data # None /\ DOMAIN x.data # {}}
        figures(x) == OracleFigures(IF x.wf.obligation = None THEN None
                                    ELSE x.wf.obligation.template, x.data)
        fresh(x) == [figures |-> OracleNone, count |-> 0, first |-> x.end]
        add(x, g) == [figures |-> OraclePlus(g.figures, figures(x)), count |-> g.count + 1,
                      first |-> Least(g.first, x.end)]
        groups == Tally(carrying, LAMBDA x : OracleGroupOf(x, by), fresh, add)
        periods == Tally(carrying, LAMBDA x : x.code, fresh, add)
    IN  [rows |-> [x \in carrying |-> figures(x)],
         groups |-> groups, periods |-> periods,
         chartOrder |-> SortedKeys(periods, LAMBDA p : <<periods[p].first, p>>),
         summary |-> FoldSet(LAMBDA x, sum : OraclePlus(sum, figures(x)), OracleNone, carrying)]

OracleExportMatches(f, w) ==
    /\ \/ f.entity = None
       \/ w.entity # None /\ w.entity.id = f.entity
    /\ \/ f.obligation = None
       \/ w.obligation # None /\ w.obligation.id = f.obligation
    /\ f.category \in {None, w.category}
OracleWithin(f, day) == /\ f.from = None \/ f.from <= day
                        /\ f.to = None \/ day <= f.to

\* By the day of UTC a workflow was created on.
OracleExportWorkflows(f) ==
    {w \in Portfolio : OracleExportMatches(f, w) /\ OracleWithin(f, w.createdAt \div 24)}
OracleExportInstances(q, f, taxDataOnly) ==
    {x \in q.work : /\ OracleExportMatches(f, x.wf) /\ OracleWithin(f, x.due)
                    /\ taxDataOnly => x.data # None}
OracleExportFigures(data) ==
    [name \in DOMAIN ExportPairs |-> OracleFirstNonZero(data, ExportPairs[name])]

OracleStats(q, w) ==
    FoldSet(LAMBDA x, s :
                IF x.status = "completed"
                THEN [s EXCEPT !.total = @ + 1, !.completed = @ + 1]
                ELSE [s EXCEPT !.total = @ + 1,
                               !.nextDue = IF @ = None THEN x.due ELSE Least(@, x.due)],
            [total |-> 0, completed |-> 0, nextDue |-> None], {x \in q.work : x.wf = w})
\* Half up.
OraclePercent(s) ==
    IF s.total = 0 THEN 0
    ELSE CHOOSE p \in 0 .. 100 : /\ (2 * p - 1) * s.total <= 200 * s.completed
                                 /\ 200 * s.completed < (2 * p + 1) * s.total

OracleDashboard(q) ==
    LET today == OracleToday(q)
        zero == [total |-> 0, overdue |-> 0, dueToday |-> 0, dueThisWeek |-> 0, active |-> 0,
                 completed |-> 0, awaitingApproval |-> 0, byStatus |-> [s \in Statuses |-> 0]]
        window(x) == CASE x.status = "completed" -> "done"
                       [] x.status # "completed" /\ x.due < today -> "overdue"
                       [] x.status # "completed" /\ x.due = today -> "dueToday"
                       [] x.status # "completed" /\ x.due > today ->
                             IF x.due <= OracleEndOfWeek(today) THEN "dueThisWeek" ELSE "later"
        count(x, d) ==
            [d EXCEPT !.total = @ + 1, !.byStatus[x.status] = @ + 1,
                      !.awaitingApproval = @ + One(x.status = "pending_approval"),
                      !.completed = @ + One(window(x) = "done"),
                      !.active = @ + One(window(x) # "done"),
                      !.overdue = @ + One(window(x) = "overdue"),
                      !.dueToday = @ + One(window(x) = "dueToday"),
                      !.dueThisWeek = @ + One(window(x) = "dueThisWeek")]
    IN  FoldSet(count, zero, q.work)

-----------------------------------------------------------------------------
(***************************************************************************)
(* The checks of `seed-demo verify'.                                       *)
(***************************************************************************)
ReportLimit == 5000

\* What verify is run on: an answer fits a page, and a name, or for an obligation
\* a name and a code, is that of one.
ASSUME OracleAssumption ==
    /\ \A W \in TaskSets : Cardinality(W) <= ReportLimit
    /\ \A v, w \in Portfolio :
          /\ \A part \in {"entity", "obligation"} : v[part] # None => <<v[part].name>> # Unknown
          /\ v.entity # None /\ w.entity # None /\ v.entity.name = w.entity.name
                => v.entity = w.entity
          /\ v.obligation # None /\ w.obligation # None
                /\ v.obligation.name = w.obligation.name /\ v.obligation.code = w.obligation.code
                => v.obligation = w.obligation

NoFilter == [year |-> None, entity |-> None, obligation |-> None]
NoExportFilter == [entity |-> None, obligation |-> None, category |-> None, from |-> None, to |-> None]
SameHeatmap(got, want) ==
    LET keys == {<<c.row.id, c.col.id>> : c \in got.cells}
    IN  IF Cardinality(DOMAIN want.cells) > MaxHeatmapCells THEN got = TooLarge
        ELSE /\ got # TooLarge
             /\ got.summary = want.summary
             /\ keys = DOMAIN want.cells /\ Cardinality(got.cells) = Cardinality(keys)
             /\ \A c \in got.cells :
                   LET w == want.cells[<<c.row.id, c.col.id>>]
                   IN  /\ c.row.label = w.rowLabel /\ c.col.label = w.colLabel
                       /\ \A n \in {"total", "completed", "overdue", "inProgress", "workflows"} :
                              c[n] = w[n]
                       /\ CellStatus(c) = OracleCellStatus(w)
             /\ [i \in DOMAIN got.rows |-> got.rows[i].id] = want.rowOrder
             /\ [i \in DOMAIN got.cols |-> got.cols[i].id] = want.colOrder
CheckHeatmap(q, f, view) ==
    SameHeatmap(ComplianceHeatmap(q, Everything, f, view), OracleHeatmap(q, f, view))

SameCompliance(got, want, status) ==
    LET rows == {r \in want.rows : status = None \/ r.class = status}
    IN  /\ got.summary = want.summary /\ got.total = Cardinality(rows)
        /\ Len(got.rows) = Cardinality(rows) /\ ToSet(got.rows) = rows
        /\ \A i \in 2 .. Len(got.rows) :
              ~Precedes(ComplianceKey(got.rows[i]), ComplianceKey(got.rows[i - 1]))
CheckCompliance(q, f, status) ==
    SameCompliance(ComplianceStatus(q, Everything, f, status, ReportLimit, 0),
                   OracleCompliance(q, f), status)

\* Pages join up to the whole, each with its size.
CompletePages(pages, want) ==
    /\ UNION {ToSet(p.rows) : p \in ToSet(pages)} = want
    /\ MapThenSumSet(LAMBDA i : Len(pages[i].rows), DOMAIN pages) = Cardinality(want)
    /\ \A i \in DOMAIN pages : pages[i].total = Cardinality(want)
CheckCompliancePaging(q, size) ==
    LET classified == {ComplianceRow(q, x) : x \in ComplianceFrom(q, Everything, NoFilter)}
    IN  CompletePages([i \in 1 .. Cardinality(q.work) + 1 |->
                          CompliancePage(classified, None, size, size * (i - 1))],
                      OracleCompliance(q, NoFilter).rows)

SameFinancials(got, want) ==
    /\ got.total = Cardinality(DOMAIN want.rows) /\ got.summary = want.summary
    /\ {g.key : g \in got.aggregated} = DOMAIN want.groups
    /\ Cardinality(got.aggregated) = Cardinality(DOMAIN want.groups)
    /\ \A g \in got.aggregated : /\ g.count = want.groups[g.key].count
                                 /\ g.figures = want.groups[g.key].figures
    /\ [i \in DOMAIN got.chart |-> got.chart[i].period] = want.chartOrder
    /\ \A i \in DOMAIN got.chart :
          got.chart[i].figures = want.periods[got.chart[i].period].figures
    /\ Len(got.rows) = got.total
    /\ \A x \in DOMAIN want.rows : \E r \in ToSet(got.rows) :
          r.id = x.id /\ r.figures = want.rows[x]
CheckTaxFinancial(q, f, by) ==
    SameFinancials(TaxFinancial(q, Everything, f, by, ReportLimit, 0), OracleFinancial(q, f, by))

CheckExport(q, f) ==
    /\ ExportWorkflows(Everything, f) = OracleExportWorkflows(f)
    /\ ExportTasks(q, Everything, f) = OracleExportInstances(q, f, FALSE)
    /\ ExportTaxData(q, Everything, f) =
           {[id |-> x.id, figures |-> OracleExportFigures(x.data)]
               : x \in OracleExportInstances(q, f, TRUE)}

CheckWorkflowStats(q) ==
    LET got == WorkflowStats(q, Everything, NoTaskFilter)
    IN  /\ Cardinality(got) = Cardinality(Portfolio)
        /\ \A w \in Portfolio : LET want == OracleStats(q, w) IN
              [workflow |-> w.id, total |-> want.total, completed |-> want.completed,
               percent |-> OraclePercent(want), nextDue |-> want.nextDue] \in got

\* The tiles of the server, and those a client counts over the rows it lists,
\* with the rate of workflow-stats.
CheckTaskSummary(q) ==
    LET want == OracleDashboard(q)
        got == TaskSummary(q, Everything, NoTaskFilter)
    IN  /\ got.today = OracleToday(q)
        /\ \A n \in DOMAIN want : got[n] = want[n]
        /\ got.completionRate = OraclePercent(want)
CheckDashboard(q) ==
    LET listed == ListTaskInstances(q, Everything, NoTaskFilter, ReportLimit, 0)
        stats == WorkflowStats(q, Everything, NoTaskFilter)
        sum(n) == MapThenSumSet(LAMBDA s : s[n], stats)
    IN  /\ OracleDashboard([q EXCEPT !.work = ToSet(listed.rows)]) = OracleDashboard(q)
        /\ OraclePercent([total |-> sum("total"), completed |-> sum("completed")])
               = OraclePercent(OracleDashboard(q))
=============================================================================
