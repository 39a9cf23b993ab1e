------------------------------ MODULE MCValues ------------------------------
(* Cells as people of several locales write them. *)
EXTENDS Values

MCDays == {1, 5, 12, 13, 28, 29, 30, 31}
MCMonths == {1, 2, 4, 5, 12}
Joined2(a, mark, b) == <<Num(a, 2), Mark(mark), Num(b, 2)>>
Year == Num(2026, 4)
Short == Num(26, 2)

\* A month and a day as somebody writes it, the day first or the month first.
Pair(m, d, mark, dayFirst) == IF dayFirst THEN Joined2(d, mark, m) ELSE Joined2(m, mark, d)
DateCell(text, m, d, dayFirst, plain) ==
    [holds |-> "date", text |-> text, meant |-> <<m, d>>, dayFirst |-> dayFirst, plain |-> plain]
Clear(m, d) == d > 12 \/ m = d
Exists(m, d) == d <= MaxDayOfMonth(m)

DateCells(m, d) ==
    {DateCell(Pair(m, d, mark, dayFirst) \o after, m, d, dayFirst, Exists(m, d) /\ Clear(m, d)) :
        mark \in {"-", "/", "."}, dayFirst \in BOOLEAN, after \in {<<>>, <<Mark(" "), Clock>>}}
    \cup
    {DateCell(Pair(m, d, mark, dayFirst) \o <<Mark(mark), year>>, m, d, dayFirst, Exists(m, d) /\ Clear(m, d) /\ year = Year) :
        mark \in {"-", "/", "."}, dayFirst \in BOOLEAN, year \in {Year, Short}}
    \cup
    {DateCell(<<Year, Mark(mark)>> \o Joined2(m, mark, d) \o after, m, d, FALSE, Exists(m, d)) :
        mark \in {"-", "/", "."}, after \in {<<>>, <<Clock>>}}
    \cup
    {DateCell(IF dayFirst THEN <<Num(d, 2), Mark(mark), Name(m)>> \o after ELSE <<Name(m), Mark(mark), Num(d, 2)>> \o after,
              m, d, dayFirst, Exists(m, d)) :
        mark \in {"-", " ", "."}, dayFirst \in BOOLEAN,
        after \in {<<>>, <<Mark(" "), Year>>, <<Mark(","), Mark(" "), Year>>}}
    \cup
    {DateCell(Pair(m, d, " ", dayFirst), m, d, dayFirst, FALSE) : dayFirst \in BOOLEAN}
    \cup {DateCell(<<Word("Q1"), Mark(" "), Num(d, 2), Name(m)>>, m, d, TRUE, FALSE)}

\* Lists, in two notations and under every separator.
Notations(m, d) == {Joined2(m, "-", d), <<Name(m), Mark(" "), Num(d, 2)>>, Joined2(d, "/", m),
                    <<Name(m), Mark(" "), Num(d, 2), Mark(","), Mark(" "), Year>>}
ListCells ==
    {[holds |-> "dates", text |-> first \o <<Mark(mark), Mark(" ")>> \o second \o last,
      meant |-> << <<7, 31>>, <<4, 5>> >>, dayFirst |-> FALSE, plain |-> FALSE] :
        first \in Notations(7, 31), second \in Notations(4, 5), mark \in Between,
        last \in {<<>>, <<Mark(";")>>, <<Mark("newline"), Mark(" ")>>}}

\* Numbers: plain, with a fraction, in thousands, and the other way round.
Whole == {0, 1, 2, 12, 24, 25, 366, 367}
CountCell(holds, text, meant, plain) ==
    [holds |-> holds, text |-> text, meant |-> meant, dayFirst |-> FALSE, plain |-> plain]
Fits(holds, n) == n <= IF holds = "months" THEN OffsetMonthsMax ELSE OffsetDaysMax
CountCells ==
    {CountCell(holds, sign \o <<Num(n, 1)>> \o fraction, IF Fits(holds, n) THEN <<n>> ELSE Refusal,
               Fits(holds, n) /\ sign # <<Mark("-")>> /\ (fraction = <<>> \/ (fraction[1].mark = "." /\ fraction[2].width \in 1 .. 2))) :
        holds \in {"months", "days"}, n \in Whole, sign \in {<<>>, <<Mark("+")>>},
        fraction \in {<<>>} \cup {<<Mark(point), Num(0, width)>> : point \in {".", ","}, width \in 1 .. 3}}
    \cup {CountCell("days", <<Num(n, 1), Mark(point), Num(0, 3)>>, Refusal, FALSE) :
             n \in {1, 2}, point \in {".", ",", " "}}
    \cup {CountCell("days", <<Num(n, 1), Mark(point), Num(5, 1)>>, Refusal, FALSE) :
             n \in {0, 1}, point \in {".", ","}}
    \cup {CountCell("days", <<Mark("-"), Num(1, 1)>>, Refusal, FALSE),
          CountCell("days", <<Word("two")>>, Refusal, FALSE)}

MCWrittenCells == UNION {DateCells(m, d) : m \in MCMonths, d \in MCDays} \cup ListCells \cup CountCells
=============================================================================
