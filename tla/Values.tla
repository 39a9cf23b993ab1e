------------------------------- MODULE Values -------------------------------
(***************************************************************************)
(* What an import makes of one cell: a month and a day, a list of them, or *)
(* a number of months or days (modules/imports/domain value.go and         *)
(* monthday.go).  A spreadsheet's locale is not in the file, so a cell     *)
(* that may be read in two ways is refused.                                *)
(*                                                                         *)
(* A cell is a sequence of tokens, each a record with one field that says  *)
(* what it is; a number also has a width, the digits it is written with.   *)
(***************************************************************************)
EXTENDS Integers, Sequences, FiniteSets, Questions

Num(n, width) == [number |-> n, width |-> width]
Name(m) == [month |-> m]
Mark(c) == [mark |-> c]
Clock == [clock |-> "hh:mm"]
Word(w) == [word |-> w]

Is(token, what) == what \in DOMAIN token
IsMark(token, marks) == Is(token, "mark") /\ token.mark \in marks
Only(text, what) == SelectSeq(text, LAMBDA token : Is(token, what))
Refusal == <<>>

-----------------------------------------------------------------------------
(***************************************************************************)
(* ParseMonthDay.                                                          *)
(***************************************************************************)
IsYear(n) == n \in 1000 .. 9999
CanBeMonth(n) == n \in 1 .. 12
MaxDayOfMonth(month) ==
    IF month = 2 THEN 29 ELSE IF month \in {4, 6, 9, 11} THEN 30 ELSE 31
\* The strict parser of the deadline engine has the last word.
RealDate(date) ==
    IF date # Refusal /\ CanBeMonth(date[1]) /\ date[2] \in 1 .. MaxDayOfMonth(date[1])
    THEN date ELSE Refusal

\* Seeded fault: the month comes first unless it cannot.
MonthFirst(first, second, ambiguous) ==
    IF CanBeMonth(first) THEN <<first, second>>
    ELSE IF CanBeMonth(second) THEN <<second, first>> ELSE Refusal
OrderMonthDay(first, second, ambiguous) ==
    IF CanBeMonth(first) /\ (~CanBeMonth(second) \/ first = second \/ ~ambiguous)
    THEN <<first, second>>
    ELSE IF CanBeMonth(second) /\ ~CanBeMonth(first) THEN <<second, first>> ELSE Refusal
MonthDayFromFullDate(ns) ==
    IF IsYear(ns[1]) /\ ~IsYear(ns[3]) THEN <<ns[2], ns[3]>>
    ELSE IF IsYear(ns[3]) /\ ~IsYear(ns[1]) THEN OrderMonthDay(ns[1], ns[2], TRUE) ELSE Refusal
MonthDayFromNumbers(ns, marks) ==
    IF Len(ns) = 2 THEN OrderMonthDay(ns[1], ns[2], marks \cap {"/", "."} # {})
    ELSE IF Len(ns) = 3 THEN MonthDayFromFullDate(ns) ELSE Refusal
MonthDayFromName(month, ns) ==
    LET days == SelectSeq(ns, LAMBDA n : ~IsYear(n))
    IN  IF Len(days) = 1 THEN <<month, days[1]>> ELSE Refusal

NumbersOf(text) == LET only == Only(text, "number") IN [k \in DOMAIN only |-> only[k].number]
MarksOf(text) == {text[k].mark : k \in {j \in DOMAIN text : Is(text[j], "mark")}}
StripTime(text) == SelectSeq(text, LAMBDA token : ~Is(token, "clock"))
FromTokens(text, names) ==
    IF Only(text, "word") # <<>> \/ Len(names) > 1 THEN Refusal
    ELSE IF names # <<>> THEN MonthDayFromName(names[1].month, NumbersOf(text))
    ELSE MonthDayFromNumbers(NumbersOf(text), MarksOf(text))
ParseMonthDay(cell) == RealDate(FromTokens(StripTime(cell), Only(StripTime(cell), "month")))

(***************************************************************************)
(* A cell with several dates.  Separators split it before any date in it   *)
(* is read, whatever the comma was for.                                    *)
(***************************************************************************)
Between == {";", ",", "|", "newline"}
PartsOf(cell) ==
    LET ends == {k \in DOMAIN cell : IsMark(cell[k], Between)} \cup {0, Len(cell) + 1}
        next(k) == CHOOSE j \in ends : j > k /\ \A i \in ends : i > k => j <= i
        order == [n \in 1 .. Cardinality(ends) - 1 |->
                     CHOOSE k \in ends : Cardinality({j \in ends : j < k}) = n - 1]
        part(k) == SubSeq(cell, k + 1, next(k) - 1)
    IN  SelectSeq([n \in DOMAIN order |-> part(order[n])],
                  LAMBDA text : \E k \in DOMAIN text : ~IsMark(text[k], {" "}))
ReadMonthDayList(cell) ==
    LET dates == [n \in DOMAIN PartsOf(cell) |-> ParseMonthDay(PartsOf(cell)[n])]
    IN  IF \E n \in DOMAIN dates : dates[n] = Refusal THEN Refusal ELSE dates

-----------------------------------------------------------------------------
(***************************************************************************)
(* ReadCount: a whole number, or one with a fraction of one or two zeros.  *)
(* Three digits after the point are how thousands are written.             *)
(***************************************************************************)
OffsetMonthsMax == 24
OffsetDaysMax == 366
\* Seeded fault: a number is what a float parser reads.
ParseFraction(text) == text[3].number = 0
ParseWholeFraction(text) == text[3].width \in 1 .. 2 /\ text[3].number = 0
IsWholeCount(text) ==
    /\ Len(text) \in {1, 3} /\ Is(text[1], "number")
    /\ Len(text) = 3 => IsMark(text[2], {"."}) /\ Is(text[3], "number") /\ ParseWholeFraction(text)
WithoutPlus(text) == IF text # <<>> /\ IsMark(text[1], {"+"}) THEN Tail(text) ELSE text
\* The number in a sequence of its own, for a refusal is none.
ReadCount(cell, most) ==
    LET text == WithoutPlus(cell)
    IN  IF IsWholeCount(text) /\ text[1].number <= most THEN <<text[1].number>> ELSE Refusal

-----------------------------------------------------------------------------
(***************************************************************************)
(* The question: what somebody wrote into a cell, in a notation of a       *)
(* locale, and what was meant by it.                                       *)
(***************************************************************************)
CONSTANT WrittenCells    \* cells, each with what it holds and what was meant

AskCell ==
    /\ asked = Nothing
    /\ \E w \in WrittenCells : asked' = [about |-> "cell", cell |-> w]

\* A pair of numbers joined by a dash or by white space is the product's own
\* notation, month first, whoever wrote it.
OwnNotation(cell) ==
    /\ Len(NumbersOf(cell)) = 2 /\ Only(cell, "month") = <<>>
    /\ MarksOf(cell) \cap {"/", "."} = {}

AnswerTo(w) ==
    IF w.holds = "date" THEN ParseMonthDay(w.text)
    ELSE IF w.holds = "dates" THEN ReadMonthDayList(w.text)
    ELSE ReadCount(w.text, IF w.holds = "months" THEN OffsetMonthsMax ELSE OffsetDaysMax)

(***************************************************************************)
(* ParseMonthDay, readMonthDayList and parseWholeCount: a value is read as *)
(* whoever wrote it meant it, or refused, in every notation but the one    *)
(* the product documents as its own.  A notation that leaves no doubt is   *)
(* not refused.                                                            *)
(***************************************************************************)
ValuesReadAsMeant ==
    asked.about = "cell" =>
        LET w == asked.cell
        IN  /\ AnswerTo(w) \in {w.meant, Refusal} \/ (w.dayFirst /\ OwnNotation(w.text))
            /\ w.plain => AnswerTo(w) = w.meant
=============================================================================
