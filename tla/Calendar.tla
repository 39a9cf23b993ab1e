------------------------------ MODULE Calendar ------------------------------
(***************************************************************************)
(* The fiscal calendars of entities and the deadlines counted from them    *)
(* (shared/deadline, ADR-0023).  Pure civil-date arithmetic: a date is its *)
(* day number, 1 being Monday 1 January of the year 1, a period the record *)
(* of its first and its last day, its code the place it has in the year.   *)
(*                                                                         *)
(* GET /entities/{id}/periods and a preview ask, the generator of task     *)
(* instances asks and writes.                                              *)
(***************************************************************************)
EXTENDS Integers, SequencesExt, Questions

CONSTANTS
    Configs,        \* fiscal configurations of entities
    FiscalYears,    \* the calendar years they end in
    DueRules,       \* due-date rules of workflows
    PaymentRules    \* payment rules of entity obligations

Periodicities ==
    {"weekly", "monthly", "quarterly", "bi-annual", "annual", "consolidated-annual"}
Patterns == {"standard", "445", "454", "544", "13-period", "weekly", "custom"}

\* Days some year has (ParseMonthDay).
MaxDayOfMonth(m) == IF m = 2 THEN 29 ELSE IF m \in {4, 6, 9, 11} THEN 30 ELSE 31
MonthDays == {md \in (1 .. 12) \X (1 .. 31) : md[2] <= MaxDayOfMonth(md[1])}
MonthDaySpans == [start : MonthDays, end : MonthDays]

\* ValidateFiscalConfig, with the defaults filled in.  Week days count from
\* Sunday, 0.
ValidConfig(c) ==
    /\ c.pattern \in Patterns /\ <<c.month, c.day>> \in MonthDays
    /\ c.weekEnd \in 0 .. 6 /\ c.rule \in {"last", "nearest"}
    /\ c.custom \in Seq(MonthDaySpans)
    /\ c.pattern = "custom" => Len(c.custom) > 0

ASSUME CalendarAssumption ==
    /\ FiscalYears \subseteq 1900 .. 2200
    /\ \A c \in Configs : ValidConfig(c)
    /\ \A r \in DueRules : /\ r.value \in Nat /\ r.unit \in {"days", "weeks", "months"}
                           /\ r.direction \in {"before", "after"}
    /\ \A r \in PaymentRules :
          /\ r.kind \in {"none", "fixed", "offset"}
          /\ r.kind = "fixed" => r.dates \subseteq MonthDays /\ r.dates # {}
          /\ r.kind = "offset" => r.months \in Int /\ r.days \in Int

-----------------------------------------------------------------------------
(***************************************************************************)
(* Civil dates.                                                            *)
(***************************************************************************)
Leap(y) == y % 4 = 0 /\ (y % 100 # 0 \/ y % 400 = 0)

LastDayOfMonth(y, m) ==
    CASE m \in {4, 6, 9, 11} -> 30
      [] m = 2 -> IF Leap(y) THEN 29 ELSE 28
      [] OTHER -> 31

DaysBeforeYear(y) == 365 * (y - 1) + (y - 1) \div 4 - (y - 1) \div 100 + (y - 1) \div 400
DaysBeforeMonth(y, m) ==
    <<0, 31, 59, 90, 120, 151, 181, 212, 243, 273, 304, 334>>[m]
      + (IF m > 2 /\ Leap(y) THEN 1 ELSE 0)

Date(y, m, d) == DaysBeforeYear(y) + DaysBeforeMonth(y, m) + d

YearOf(n) == LET about == (400 * n) \div 146097 IN
    CHOOSE y \in about .. about + 2 : DaysBeforeYear(y) < n /\ n <= DaysBeforeYear(y + 1)
MonthOf(n) == LET y == YearOf(n) IN
    CHOOSE m \in 1 .. 12 : Date(y, m, 1) <= n /\ n <= Date(y, m, LastDayOfMonth(y, m))
DayOf(n) == LET y == YearOf(n) IN n - DaysBeforeYear(y) - DaysBeforeMonth(y, MonthOf(n))
MonthDay(n) == <<MonthOf(n), DayOf(n)>>
Weekday(n) == n % 7

Least(a, b) == IF a <= b THEN a ELSE b
\* 29 February is the 28th in other years.
PlaceMonthDay(y, md) == Date(y, md[1], Least(md[2], LastDayOfMonth(y, md[1])))

-----------------------------------------------------------------------------
(***************************************************************************)
(* A configuration c in its fiscal year y (NewCalendar, Periods).          *)
(***************************************************************************)
StartMonth(c) == (c.month % 12) + 1
FyStartYear(c, y) == IF StartMonth(c) = 1 THEN y ELSE y - 1
\* The calendar year of a month of the fiscal year.
PlaceMonth(c, y, m) == IF m < StartMonth(c) THEN y ELSE FyStartYear(c, y)

\* The month of the year end counts, its day does not.
StandardYearEnd(c, y) == Date(y, c.month, LastDayOfMonth(y, c.month))
StandardYearStart(c, y) == Date(FyStartYear(c, y), StartMonth(c), 1)

\* The week-end day on or before the anchor, or the one closest to it.
WeekYearEnd(c, y) ==
    LET anchor == PlaceMonthDay(y, <<c.month, c.day>>)
        diff == (Weekday(anchor) - c.weekEnd + 7) % 7
    IN  IF c.rule = "last" \/ diff <= 3 THEN anchor - diff ELSE anchor - diff + 7

WeekYearStart(c, y) == WeekYearEnd(c, y - 1) + 1
DaysInWeekYear(c, y) == WeekYearEnd(c, y) - WeekYearEnd(c, y - 1)

\* Any other length is refused.
Resolved(c, y) == c.pattern \in {"standard", "custom"} \/ DaysInWeekYear(c, y) \in {364, 371}
Weeks(c, y) == DaysInWeekYear(c, y) \div 7

CalendarMonth(c, fiscalMonth) == ((StartMonth(c) + fiscalMonth - 2) % 12) + 1

\* monthGroups, and the weeks of a standard year, the last of which takes what
\* is left of it.
MonthsIn(periodicity) ==
    CASE periodicity = "monthly" -> 1
      [] periodicity = "quarterly" -> 3
      [] periodicity = "bi-annual" -> 6
      [] OTHER -> 12

MonthGroups(c, y, months) ==
    [i \in 1 .. 12 \div months |->
        LET from == CalendarMonth(c, (i - 1) * months + 1)
            to == CalendarMonth(c, i * months)
            year == PlaceMonth(c, y, to)
        IN  [start |-> Date(PlaceMonth(c, y, from), from, 1),
             end |-> Date(year, to, LastDayOfMonth(year, to))]]

StandardPeriods(c, y, periodicity) ==
    IF periodicity = "weekly"
    THEN [w \in 1 .. 52 |-> LET first == StandardYearStart(c, y) + 7 * (w - 1) IN
            [start |-> first,
             end |-> IF w = 52 THEN StandardYearEnd(c, y) ELSE first + 6]]
    ELSE MonthGroups(c, y, MonthsIn(periodicity))

FourTimes(q) == [i \in 1 .. 12 |-> q[((i - 1) % 3) + 1]]
MonthsOfWeeks(c) ==
    CASE c.pattern = "454" -> FourTimes(<<4, 5, 4>>)
      [] c.pattern = "544" -> FourTimes(<<5, 4, 4>>)
      [] c.pattern = "13-period" -> [i \in 1 .. 13 |-> 4]
      [] OTHER -> FourTimes(<<4, 4, 5>>)

WeeksOf52(c, y, periodicity) ==
    CASE periodicity = "monthly" -> MonthsOfWeeks(c)
      [] periodicity = "quarterly" -> <<13, 13, 13, 13>>
      [] periodicity = "bi-annual" -> <<26, 26>>
      [] periodicity = "weekly" -> [w \in 1 .. Weeks(c, y) |-> 1]
      [] OTHER -> <<52>>

\* The 53rd week goes to the last period, or is one.
WeeksOfPeriods(c, y, periodicity) == LET of52 == WeeksOf52(c, y, periodicity) IN
    IF Weeks(c, y) = 53 /\ periodicity # "weekly"
    THEN [of52 EXCEPT ![Len(of52)] = @ + 1] ELSE of52

WeekPeriods(c, y, periodicity) ==
    LET weeks == WeeksOfPeriods(c, y, periodicity)
        ended[i \in 0 .. Len(weeks)] == IF i = 0 THEN WeekYearStart(c, y) - 1
                                        ELSE ended[i - 1] + 7 * weeks[i]
    IN  [i \in DOMAIN weeks |-> [start |-> ended[i - 1] + 1, end |-> ended[i]]]

\* The year rule places the first period of a list, and each end the next
\* start: a list with a gap or an overlap has no periods (an error).
FirstCustom(c, y) ==
    LET p == c.custom[1]
        end == PlaceMonthDay(PlaceMonth(c, y, p.end[1]), p.end)
        year == PlaceMonth(c, y, p.start[1])
        start == PlaceMonthDay(year, p.start)
    IN  [start |-> IF start > end THEN PlaceMonthDay(YearOf(start) - 1, p.start) ELSE start,
         end |-> end]
NextCustom(p, last) ==
    LET start == last.end + 1
        end == PlaceMonthDay(YearOf(start), p.end)
    IN  [start |-> start,
         end |-> IF end < start THEN PlaceMonthDay(YearOf(start) + 1, p.end) ELSE end]

Joined(done, p) ==
    IF done = <<>> THEN <<>>
    ELSE IF MonthDay(Last(done).end + 1) # p.start THEN <<>> ELSE Append(done, NextCustom(p, Last(done)))
CustomList(c, y) ==
    LET others == Tail(c.custom)
        list[n \in 0 .. Len(others)] == IF n = 0 THEN <<FirstCustom(c, y)>>
                                        ELSE Joined(list[n - 1], others[n])
    IN  list[Len(others)]

CustomPeriods(c, y, periodicity) ==
    CASE periodicity \in {"monthly", "quarterly", "bi-annual"} -> CustomList(c, y)
      [] periodicity \in {"annual", "consolidated-annual"} ->
            <<[start |-> StandardYearStart(c, y), end |-> StandardYearEnd(c, y)]>>
      [] OTHER -> <<>>

\* No periods stands for an error.
Periods(c, y, periodicity) ==
    IF ~Resolved(c, y) THEN <<>>
    ELSE CASE c.pattern = "standard" -> StandardPeriods(c, y, periodicity)
           [] c.pattern = "custom" -> CustomPeriods(c, y, periodicity)
           [] OTHER -> WeekPeriods(c, y, periodicity)

YearEnd(c, y) ==
    IF c.pattern \in {"standard", "custom"} THEN StandardYearEnd(c, y) ELSE WeekYearEnd(c, y)

-----------------------------------------------------------------------------
(***************************************************************************)
(* Deadlines.                                                              *)
(***************************************************************************)
\* Seeded fault: a day the month has not runs over into the next one.
AddMonthsOverflowing(n, months) ==
    LET at == 12 * YearOf(n) + MonthOf(n) - 1 + months
    IN  Date(at \div 12, (at % 12) + 1, 1) + DayOf(n) - 1
AddMonthsClamped(n, months) ==
    LET at == 12 * YearOf(n) + MonthOf(n) - 1 + months
    IN  PlaceMonthDay(at \div 12, <<(at % 12) + 1, DayOf(n)>>)

ApplyOffset(n, value, unit, direction) ==
    LET by == IF direction = "before" THEN -value ELSE value IN
    CASE unit = "days" -> n + by
      [] unit = "weeks" -> n + 7 * by
      [] unit = "months" -> AddMonthsClamped(n, by)

ApplyWeekendAdjustment(n, adjustment) ==
    IF adjustment \in {"", "none"} \/ Weekday(n) \notin {0, 6} THEN n
    ELSE IF adjustment = "next-business-day" THEN n + (IF Weekday(n) = 6 THEN 2 ELSE 1)
    ELSE n - (IF Weekday(n) = 6 THEN 1 ELSE 2)

\* Each date of the list this year or next, and of those the first.
FirstFixedDateOnOrAfter(n, dates) ==
    LET next(md) == LET this == PlaceMonthDay(YearOf(n), md) IN
                    IF this < n THEN PlaceMonthDay(YearOf(n) + 1, md) ELSE this
    IN  CHOOSE d \in {next(md) : md \in dates} : \A md \in dates : d <= next(md)

FilingDeadline(periodEnd, r) ==
    ApplyWeekendAdjustment(ApplyOffset(periodEnd, r.value, r.unit, r.direction), r.weekend)

PaymentDeadline(periodEnd, filing, rule, fallback) ==
    CASE rule.kind = "none" -> filing
      [] rule.kind = "fixed" -> FirstFixedDateOnOrAfter(periodEnd, rule.dates)
      [] rule.kind = "offset" ->
            ApplyWeekendAdjustment(AddMonthsClamped(periodEnd, rule.months) + rule.days,
                                   IF rule.weekend = "" THEN fallback ELSE rule.weekend)

-----------------------------------------------------------------------------
(***************************************************************************)
(* Questions.                                                              *)
(***************************************************************************)
AskPeriods(c, y, periodicity) ==
    asked' = [about |-> "periods", config |-> c, year |-> y, periodicity |-> periodicity]

AskDeadlines(r, pay, y) ==
    asked' = [about |-> "deadlines", rule |-> r, pay |-> pay, year |-> y]

Ask ==
    /\ asked = Nothing
    /\ \E y \in FiscalYears :
          \/ \E c \in Configs, periodicity \in Periodicities : AskPeriods(c, y, periodicity)
          \/ \E r \in DueRules, pay \in PaymentRules : AskDeadlines(r, pay, y)

-----------------------------------------------------------------------------
(***************************************************************************)
(* Properties.                                                             *)
(***************************************************************************)
Contiguous(ps) ==
    /\ \A i \in DOMAIN ps : ps[i].start <= ps[i].end
    /\ \A i \in 1 .. Len(ps) - 1 : ps[i + 1].start = ps[i].end + 1

\* Every year has its periods, whatever the pattern, the anchor and the rule: they
\* leave no day out, count none twice, start the day after the last year ended
\* and end with their own (NewCalendar, Periods).  A custom list is the
\* customer's and need only join up; it has no weeks.
PeriodsTile ==
    asked.about = "periods" =>
        LET c == asked.config
            ps == Periods(c, asked.year, asked.periodicity) \o <<>>
        IN  /\ Contiguous(ps)
            /\ c.pattern # "custom" =>
                  /\ ps # <<>>
                  /\ ps[1].start = YearEnd(c, asked.year - 1) + 1
                  /\ Last(ps).end = YearEnd(c, asked.year)

\* A later period end is never due before an earlier one, the ends a request
\* overrides included: clamping to the end of a month, leaving a weekend and
\* the fixed dates keep the order of the days, and a payment on fixed dates is
\* not due before its period has ended (ApplyOffset, paymentDeadline).
DeadlinesKeepOrder ==
    asked.about = "deadlines" =>
        LET filing(n) == FilingDeadline(n, asked.rule)
            payment(n) == PaymentDeadline(n, filing(n), asked.pay, asked.rule.weekend)
        IN  \A n \in Date(asked.year, 1, 1) .. Date(asked.year, 12, 31) :
               /\ filing(n) <= filing(n + 1) /\ payment(n) <= payment(n + 1)
               /\ asked.pay.kind = "fixed" => payment(n) >= n

\* What dates the work of a year: its periods and, counted from them, its
\* deadlines (planRecurring).
CalendarsHold == PeriodsTile /\ DeadlinesKeepOrder

=============================================================================
