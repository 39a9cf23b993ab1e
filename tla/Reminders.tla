----------------------------- MODULE Reminders -----------------------------
(***************************************************************************)
(* The deadline reminders (modules/notifications): the pass which finds    *)
(* the civil day of a tenant, reads its open work at or past its deadline  *)
(* and makes one digest for each person.  Outbox takes it from there.      *)
(***************************************************************************)
EXTENDS Oracle

CONSTANTS
    Team,       \* the accounts of the tenant: [status, kind]
    LeadDays, SendHour, MaxTasksPerBucket

\* Normalize.  An account is neither no one nor the filter for what no one has.
ASSUME RemindersAssumption ==
    /\ LeadDays \in Nat \ {0} /\ SendHour \in 1 .. 23 /\ MaxTasksPerBucket \in Nat \ {0}
    /\ {None, "unassigned"} \cap DOMAIN Team = {}

\* tenantDaysSQL.
TenantDay(q) ==
    [date |-> CivilDate(q, q.now), hour |-> (q.now + q.zone) % 24,
     midnight |-> q.now - ((q.now + q.zone) % 24)]

\* dueTasksSQL.  A task of nobody, or of an account that is no active person,
\* reaches nobody.
DueTasks(q, date) ==
    {x \in q.work : /\ Open(x) /\ x.wf.status # "archived"
                    /\ x.assignee \in DOMAIN Team
                    /\ Team[x.assignee].status = "active" /\ Team[x.assignee].kind = "human"
                    /\ x.due <= date + LeadDays}

Section(S) ==
    LET listed == Ordered(S, LAMBDA x : <<x.due, x.name, x.id>>)
    IN  [count |-> Len(listed), tasks |-> Page(listed, MaxTasksPerBucket, 0),
         omitted |-> IF Len(listed) > MaxTasksPerBucket THEN Len(listed) - MaxTasksPerBucket ELSE 0]

\* Both dates are legal ones: their difference is exact.
DaysUntil(day, x) == x.due - day.date

BuildPayload(day, S) ==
    LET overdue == {x \in S : DaysUntil(day, x) < 0}
        today == {x \in S : DaysUntil(day, x) = 0}
        soon == {x \in S : DaysUntil(day, x) > 0 /\ DaysUntil(day, x) <= LeadDays}
    IN  [date |-> day.date, total |-> Cardinality(overdue \cup today \cup soon),
         overdue |-> Section(overdue), dueToday |-> Section(today), dueSoon |-> Section(soon)]

BuildDigests(day, S) ==
    LET of(u) == BuildPayload(day, {x \in S : x.assignee = u})
    IN  [u \in {x.assignee : x \in S} |-> of(u)]

\* What a pass queues for the tenant: nothing before the hour.
ReminderPass(q) ==
    LET day == TenantDay(q)
        digests == BuildDigests(day, DueTasks(q, day.date))
    IN  IF day.hour < SendHour THEN {}
        ELSE {[to |-> u, key |-> <<day.date, u>>, dueAt |-> day.midnight + SendHour,
               payload |-> digests[u]] : u \in {v \in DOMAIN digests : digests[v].total > 0}}

-----------------------------------------------------------------------------
(***************************************************************************)
(* Properties.                                                             *)
(***************************************************************************)
Views == {"period", "tax-type"}
Groupings == {"entity", "country", "tax-type", "period", "obligation"}
Classes == {"on_time", "late", "missed", "not_due"}

\* `none', and it with one of its fields set.
OneOf(none, field, values) == {none} \cup {[none EXCEPT ![field] = v] : v \in values}
PortfolioIds(part) == {w[part].id : w \in {v \in Portfolio : v[part] # None}}
ReportFilters ==
    OneOf(NoFilter, "year", {w.year : w \in Portfolio} \ {None})
    \cup OneOf(NoFilter, "entity", PortfolioIds("entity"))
    \cup OneOf(NoFilter, "obligation", PortfolioIds("obligation"))
ExportFilters(q) == LET days == {x.due : x \in q.work} IN
    OneOf(NoExportFilter, "category", {"recurring", "project"})
    \cup OneOf(NoExportFilter, "entity", PortfolioIds("entity"))
    \cup OneOf(NoExportFilter, "from", days) \cup OneOf(NoExportFilter, "to", days)
TaskFilters ==
    OneOf(NoTaskFilter, "assignee", DOMAIN Team \cup {"unassigned"})
    \cup OneOf(NoTaskFilter, "years", {{w.year} : w \in Portfolio})
    \cup OneOf(NoTaskFilter, "taxType", Templated)
    \cup OneOf(NoTaskFilter, "category", {"recurring", "project"})

\* `seed-demo verify' finds no difference.
Verified(q) ==
    /\ \A f \in ReportFilters :
          /\ \A view \in Views : CheckHeatmap(q, f, view)
          /\ \A status \in Classes \cup {None} : CheckCompliance(q, f, status)
          /\ \A by \in Groupings : CheckTaxFinancial(q, f, by)
    /\ CheckCompliancePaging(q, 1)
    /\ \A f \in ExportFilters(q) : CheckExport(q, f)
    /\ CheckWorkflowStats(q) /\ CheckTaskSummary(q) /\ CheckDashboard(q)

Listed(q, f) == ListTaskInstances(q, Everything, f, ReportLimit, 0)

\* A tile opens the list it counts.
Opens(tile, total(_, _)) ==
    /\ tile.total = total(None, None) /\ tile.active = total("open", None)
    /\ \A s \in Statuses : tile.byStatus[s] = total(s, None)
    /\ tile.overdue = total(None, "overdue") /\ tile.dueToday = total(None, "today")
    /\ tile.dueThisWeek = total(None, "this_week")
TilesDrillDown(q) == \A f \in TaskFilters :
    Opens(TaskSummary(q, Everything, f),
          LAMBDA s, d : Listed(q, [f EXCEPT !.status = s, !.due = d]).total)

\* The reports of a scoped reader are those of a tenant which has no more than
\* the reader may see.
ScopedAsNarrowed(q) == \A e \in PortfolioIds("entity") :
    LET mine == Only({e})
        narrow == [q EXCEPT !.work = {x \in q.work : InScope(mine, x.wf)}]
        answers(p, scope) ==
            <<[view \in Views |-> ComplianceHeatmap(p, scope, NoFilter, view)],
              ComplianceStatus(p, scope, NoFilter, None, ReportLimit, 0),
              [by \in Groupings |-> TaxFinancial(p, scope, NoFilter, by, ReportLimit, 0)],
              TaskSummary(p, scope, NoTaskFilter),
              ListTaskInstances(p, scope, NoTaskFilter, ReportLimit, 0),
              ExportTasks(p, scope, NoExportFilter), ExportTaxData(p, scope, NoExportFilter)>>
    IN  answers(q, mine) = answers(narrow, Everything)

\* A digest tells each person what the tiles of that day say of their work, but
\* for archived workflows: the first to be due of what the tiles open, and how
\* much there is.  It is queued within the day, not before its hour.
TellsTheTiles(q, sent) ==
    LET early == (q.now + q.zone) % 24 < SendHour
        shown(u, window) ==
            {x \in ToSet(Listed(q, [NoTaskFilter EXCEPT !.assignee = u, !.due = window]).rows) :
                x.wf.status # "archived"}
        says(section, S) ==
            LET told == section.tasks
            IN  /\ section.count = Cardinality(S) /\ section.count = Len(told) + section.omitted
                /\ ToSet(told) \subseteq S /\ Cardinality(ToSet(told)) = Len(told)
                /\ \A i \in DOMAIN told, x \in S :
                      told[i].due <= x.due \/ \E j \in 1 .. i - 1 : told[j] = x
    IN  /\ \A m \in sent :
              /\ says(m.payload.overdue, shown(m.to, "overdue"))
              /\ says(m.payload.dueToday, shown(m.to, "today"))
              /\ m.dueAt <= q.now /\ q.now < m.dueAt + 24
              /\ m.key = <<Today(q), m.to>>
        /\ \A m, n \in sent : m.to = n.to => m = n
        /\ \A u \in DOMAIN Team :
              (~early /\ Team[u] = [status |-> "active", kind |-> "human"]
                      /\ shown(u, "overdue") \cup shown(u, "today") # {})
                  => \E m \in sent : m.to = u
DigestsTellTheTiles(q) == TellsTheTiles(q, ReminderPass(q))

\* Every report, tile, list, export and reminder tells one story of the work of
\* a tenant: the same day, the same class of each deadline, the same figures,
\* whichever statement answers and whoever asks (ADR-0021).
ReportsAgree ==
    asked.about = "reports" =>
        /\ Verified(asked)
        /\ TilesDrillDown(asked)
        /\ ScopedAsNarrowed(asked)
        /\ DigestsTellTheTiles(asked)
=============================================================================
