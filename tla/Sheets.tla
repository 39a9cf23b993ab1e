------------------------------- MODULE Sheets -------------------------------
(***************************************************************************)
(* How modules/imports reads an uploaded file (parsing and domain): the    *)
(* bytes become text, the text records, a workbook's cells values, one tab *)
(* is chosen, its headings are bound to fields, and each row below them    *)
(* becomes a draft.  Reading keeps no state.                               *)
(*                                                                         *)
(* A text is a sequence of tokens.  Punctuation is itself; any other token *)
(* is a word, and nothing depends on what is inside one.                   *)
(***************************************************************************)
EXTENDS Integers, SequencesExt, TLC, Questions

CONSTANTS
    Aliases,      \* the field a heading binds to, by its folded words
    Keys,         \* the fields that identify a record
    TabNames,     \* the folded names of the tabs that hold this target
    Accented,     \* words beyond ASCII and within Latin-1
    Foreign,      \* words past Latin-1, of letters whose low byte is ASCII
    Size,         \* how many characters a word has
    Numerals,     \* words that are numbers
    Limits,       \* bounds: of the reader, and of what it looks at
    Uploads,      \* files, each with what its author means by it
    Missing

LimitNames == {"rows", "data", "columns", "tabs", "cells", "merges", "unzip", "parts", "scan", "sample"}
ASSUME SheetsAssumption ==
    /\ DOMAIN Limits = LimitNames /\ \A n \in LimitNames : Limits[n] \in Nat \ {0}
    /\ Keys \subseteq Range(Aliases) /\ \A w \in Accented \cup Foreign : Size[w] \in Nat
    /\ \A u \in Uploads : u.file.kind \in {"text", "workbook", "other"}

Quote == "quote"
NewLine == "newline"
TabMark == "tab"
Nul == "nul"
Apostrophe == "'"
Space == " "
Nbsp == "nbsp"           \* a no-break space
Invisible == "zero width"
Leads == {"=", "+", "-", "@", TabMark}
Delimiters == <<",", ";", TabMark, "|">>
Opening == {"(", "["}
Closing == {")", "]"}
White == {Space, NewLine, TabMark, Nbsp}
Marks == White \cup Leads \cup Opening \cup Closing \cup ToSet(Delimiters)
         \cup {Quote, Nul, Apostrophe, Nbsp, Invisible, "*", "<", "."}

Largest(S) == IF S = {} THEN 0 ELSE CHOOSE n \in S : \A m \in S : m <= n
Smallest(S) == CHOOSE n \in S : \A m \in S : n <= m
\* The members of a set of positions, in order.
InOrder(S) == [k \in 1 .. Cardinality(S) |->
                   CHOOSE i \in S : Cardinality({j \in S : j <= i}) = k]
\* Some texts, one after the other.
Joined(texts) ==
    LET upTo[n \in 0 .. Len(texts)] == IF n = 0 THEN <<>> ELSE upTo[n - 1] \o texts[n]
    IN  upTo[Len(texts)]
\* The tokens of s at the positions S.
At(s, S) == LET order == InOrder(S) IN [k \in DOMAIN order |-> s[order[k]]]

TrimSpace(s) ==
    LET kept == {i \in DOMAIN s : s[i] \notin White}
    IN  IF kept = {} THEN <<>> ELSE SubSeq(s, Smallest(kept), Largest(kept))
CleanCell(s) ==
    TrimSpace(ReplaceAll(SelectSeq(s, LAMBDA x : x # Invisible), Nbsp, Space))
\* NormalizeHeader: a hint in brackets goes, and all that is no letter or digit.
Folded(s) ==
    LET depth[i \in 0 .. Len(s)] ==
            IF i = 0 THEN 0
            ELSE depth[i - 1] + (IF s[i] \in Opening THEN 1 ELSE 0)
                 - (IF s[i] \in Closing /\ depth[i - 1] > 0 THEN 1 ELSE 0)
    IN  At(s, {i \in DOMAIN s : s[i] \notin Marks /\ depth[i] = 0})
FieldForHeader(heading) ==
    IF Folded(heading) \in DOMAIN Aliases THEN Aliases[Folded(heading)] ELSE Missing

-----------------------------------------------------------------------------
(***************************************************************************)
(* Bytes into text (decodeText).  A text file is a text, the encoding it   *)
(* was written in, whether a byte-order mark stands before it, and whether *)
(* one byte of it is broken.                                               *)
(***************************************************************************)
High(text) == Cardinality({i \in DOMAIN text : text[i] \in Accented \cup Foreign})

\* Enough characters, nearly all of them with a zero byte on one side.
LooksLikeUTF16(text) ==
    LET chars(S) == MapThenSumSet(LAMBDA i : IF text[i] \in DOMAIN Size THEN Size[text[i]] ELSE 1, S)
        latin == chars({i \in DOMAIN text : text[i] \notin Foreign})
    IN  chars(DOMAIN text) >= 8 /\ latin * 100 >= chars(DOMAIN text) * 80

\* UTF-16 read as UTF-8: a NUL between the characters.
Misread(text) == Joined([i \in DOMAIN text |-> <<text[i], Nul>>])

Flaw(invalid, multiByte) ==
    IF invalid = 0 THEN "" ELSE IF multiByte < invalid THEN "codepage" ELSE "broken"

DecodeText(f) ==
    IF f.code = "utf16"
    THEN IF f.mark \/ LooksLikeUTF16(f.text)
         THEN [text |-> f.text, flaw |-> "", notes |-> {"encoding"}]
         ELSE [text |-> Misread(f.text), notes |-> {},
               flaw |-> Flaw(Cardinality({i \in DOMAIN f.text : f.text[i] \in Accented}), 0)]
    ELSE [text |-> f.text, notes |-> {},
          flaw |-> LET broken == IF f.broken THEN 1 ELSE 0
                   IN  IF f.code = "codepage" THEN Flaw(High(f.text) + broken, 0)
                       ELSE Flaw(broken, High(f.text))]

-----------------------------------------------------------------------------
(***************************************************************************)
(* Text into records: encoding/csv, lazy about quotation marks and not.    *)
(***************************************************************************)
AtStart == [mode |-> "start", cell |-> <<>>, cells |-> <<>>, records |-> <<>>,
            line |-> 1, from |-> 1, bad |-> FALSE]
EndCell(s) == [s EXCEPT !.mode = "open", !.cells = Append(@, s.cell), !.cell = <<>>]
EndRecord(s) ==
    [s EXCEPT !.mode = "start", !.cells = <<>>, !.cell = <<>>,
              !.records = Append(@, [number |-> s.from, cells |-> Append(s.cells, s.cell)])]
Keep(s, mode, tokens) == [s EXCEPT !.mode = mode, !.cell = @ \o tokens]

InQuotes(s, x) == IF x = Quote THEN [s EXCEPT !.mode = "closed"] ELSE Keep(s, "quoted", <<x>>)
AfterQuote(s, x, lazy) ==
    IF x = Quote THEN Keep(s, "quoted", <<Quote>>)
    ELSE IF lazy THEN Keep(s, "quoted", <<Quote, x>>) ELSE [s EXCEPT !.bad = TRUE]
InCell(s, x, lazy) ==
    IF x # Quote THEN Keep(s, "bare", <<x>>)
    ELSE IF s.mode = "open" THEN [s EXCEPT !.mode = "quoted"]
    ELSE IF lazy THEN Keep(s, "bare", <<x>>) ELSE [s EXCEPT !.bad = TRUE]

Consume(s, x, comma, lazy) ==
    IF s.mode = "quoted" THEN InQuotes(s, x)
    ELSE IF x = comma THEN EndCell(s)
    ELSE IF x = NewLine THEN IF s.mode = "start" THEN s ELSE EndRecord(s)
    ELSE IF s.mode = "closed" THEN AfterQuote(s, x, lazy)
    ELSE InCell(IF s.mode = "start" THEN [s EXCEPT !.mode = "open"] ELSE s, x, lazy)

\* A record begins on the line of its first token.
Counted(before, x, after) ==
    [after EXCEPT !.line = IF x = NewLine THEN @ + 1 ELSE @,
                  !.from = IF before.mode = "start" THEN before.line ELSE @]
Advance(s, x, comma, lazy) ==
    IF s.bad THEN s ELSE Counted(s, x, Consume(s, x, comma, lazy))
\* Unless lazy, a value that is never closed is an error.
AtEnd(s, lazy) ==
    IF s.bad \/ s.mode = "start" THEN s
    ELSE IF s.mode = "quoted" /\ ~lazy THEN [s EXCEPT !.bad = TRUE] ELSE EndRecord(s)
Csv(text, comma, lazy) ==
    LET at[i \in 0 .. Len(text)] ==
            IF i = 0 THEN AtStart ELSE Advance(at[i - 1], text[i], comma, lazy)
    IN  AtEnd(at[Len(text)], lazy)

Cleaned(record) ==
    [number |-> record.number, width |-> Len(record.cells),
     cells |-> [c \in DOMAIN record.cells |-> CleanCell(record.cells[c])]]
CleanedAll(records) == [k \in DOMAIN records |-> Cleaned(records[k])]
ReadRecords(text, comma) == CleanedAll(Csv(text, comma, TRUE).records)

\* The separator whose records agree most on a width of two or more.
FirstLines(text) ==
    LET breaks == {i \in DOMAIN text : text[i] = NewLine}
    IN  IF Cardinality(breaks) < Limits.sample THEN text
        ELSE SubSeq(text, 1, InOrder(breaks)[Limits.sample] - 1)
Times(widths, n) == Cardinality({k \in DOMAIN widths : widths[k] = n})
Modal(widths) ==
    CHOOSE n \in Range(widths) : \A m \in Range(widths) :
        \/ Times(widths, n) > Times(widths, m)
        \/ Times(widths, n) = Times(widths, m) /\ n >= m
Score(widths) ==
    IF widths = <<>> THEN [fields |-> 0, agree |-> 0, of |-> 1]
    ELSE [fields |-> Modal(widths), agree |-> Times(widths, Modal(widths)), of |-> Len(widths)]
WidthsOf(records) == [k \in DOMAIN records |-> Len(records[k].cells)]
ScoreDelimiter(sample, comma) == Score(WidthsOf(Csv(sample, comma, TRUE).records))
Better(a, b) ==
    \/ a.agree * b.of > b.agree * a.of
    \/ a.agree * b.of = b.agree * a.of /\ a.fields > b.fields
BestOf(score) ==
    {d \in DOMAIN score : score[d].fields >= 2
        /\ \A e \in DOMAIN score : score[e].fields >= 2 => ~Better(score[e], score[d])}
Chosen(best) == IF best = {} THEN "," ELSE Delimiters[Smallest(best)]
ChooseDelimiter(text) ==
    Chosen(BestOf([d \in DOMAIN Delimiters |-> ScoreDelimiter(FirstLines(text), Delimiters[d])]))

(***************************************************************************)
(* checkQuoting: a value that opens with a quotation mark and does not     *)
(* close it takes the lines below into itself.  The lines a record covers  *)
(* are read again alone and not lazily: one record as wide is what a value *)
(* of several lines gives, and no runaway quotation mark does.             *)
(***************************************************************************)
LineOf(text) ==
    [i \in DOMAIN text |-> 1 + Cardinality({j \in 1 .. i - 1 : text[j] = NewLine})]
OneRecord(own, width) ==
    ~own.bad /\ Len(own.records) = 1 /\ Len(own.records[1].cells) = width
\* Seeded fault: the lines are read again as lazily as before.
SpanReadLazily(span, comma, width) == OneRecord(Csv(span, comma, TRUE), width)
SpanIsOneRecord(span, comma, width) == OneRecord(Csv(span, comma, FALSE), width)
FindSwallows(text, comma, records, line) ==
    LET next(k) == IF k < Len(records) THEN records[k + 1].number ELSE Len(text) + 2
        lines(from, to) == At(text, {i \in DOMAIN text : line[i] \in from .. to - 1})
    IN  {k \in DOMAIN records :
            /\ TrimSpace(lines(records[k].number + 1, next(k))) # <<>>
            /\ ~SpanIsOneRecord(lines(records[k].number, next(k)), comma, records[k].width)}
CheckQuoting(text, comma, records) ==
    IF \A i \in DOMAIN text : text[i] # Quote THEN "fine"
    ELSE IF FindSwallows(text, comma, records, LineOf(text)) # {} THEN "swallowed"
    ELSE IF Csv(text, comma, FALSE).bad THEN "quote" ELSE "fine"

-----------------------------------------------------------------------------
(***************************************************************************)
(* Trimming, bounds, and the apostrophe a spreadsheet takes as "text".     *)
(***************************************************************************)
Cell(row, c) == IF c \in DOMAIN row.cells THEN row.cells[c] ELSE <<>>
IsBlank(row) == \A c \in DOMAIN row.cells : row.cells[c] = <<>>
SignificantWidth(row) == Largest({c \in DOMAIN row.cells : row.cells[c] # <<>>})
Cut(seq, n) == SubSeq(seq, 1, IF Len(seq) < n THEN Len(seq) ELSE n)

TrimEdges(rows) ==
    LET width == Largest({SignificantWidth(rows[k]) : k \in DOMAIN rows})
        last == Largest({k \in DOMAIN rows : ~IsBlank(rows[k])})
    IN  [k \in 1 .. last |-> [rows[k] EXCEPT !.cells = Cut(@, width)]]
TooManyRows(rows) == Len(rows) > Limits.rows
Bound(rows) == [k \in DOMAIN rows |-> [rows[k] EXCEPT !.cells = Cut(@, Limits.columns)]]

\* A signed number is left unmarked.
NumberLiteral(value) ==
    Len(value) = 2 /\ value[1] \in {"+", "-"} /\ value[2] \in Numerals
NeedsTextMarker(value) == Len(value) >= 2 /\ value[1] \in Leads /\ ~NumberLiteral(value)
CarriesTextMarker(value) ==
    \E n \in DOMAIN value :
        /\ \A i \in 1 .. n : value[i] = Apostrophe
        /\ NeedsTextMarker(SubSeq(value, n + 1, Len(value)))
StripTextMarkers(rows) ==
    [k \in DOMAIN rows |-> [rows[k] EXCEPT !.cells =
        [c \in DOMAIN @ |-> IF CarriesTextMarker(@[c]) THEN Tail(@[c]) ELSE @[c]]]]
Marked(rows) ==
    \E k \in DOMAIN rows : \E c \in DOMAIN rows[k].cells : CarriesTextMarker(rows[k].cells[c])

(***************************************************************************)
(* ReadFile, for a text: one sheet, or the reason there is none.           *)
(***************************************************************************)
Refused(why) == [refused |-> why, notes |-> {}, errors |-> {}, sheets |-> <<>>]
File(sheets, notes, errors) ==
    [refused |-> "", notes |-> notes, errors |-> errors, sheets |-> sheets]
NoteIf(condition, note) == IF condition THEN {note} ELSE {}

Empty(f) == ~f.mark /\ TrimSpace(f.text) = <<>>
RecogniseMarkup(f) ==
    LET head == IF f.code = "utf16" THEN f.text ELSE TrimSpace(f.text)
    IN  head # <<>> /\ head[1] = "<" /\ ~(f.code = "utf16" /\ f.mark)
OneSheet(rows, notes) ==
    File(<<[name |-> <<>>, book |-> FALSE, hidden |-> FALSE, merges |-> {},
            rows |-> StripTextMarkers(rows)]>>,
         notes \cup NoteIf(Marked(rows), "marker"), {})
Shaped(rows, quoting, notes) ==
    IF quoting = "swallowed" THEN Refused("swallowed")
    ELSE IF TooManyRows(rows) THEN Refused("too many rows")
    ELSE OneSheet(Bound(rows), notes \cup NoteIf(quoting = "quote", "quote"))
Checked(decoded, comma, records) ==
    Shaped(TrimEdges(records), CheckQuoting(decoded.text, comma, records),
           decoded.notes \cup NoteIf(comma # ",", "delimiter"))
Separated(decoded, comma) == Checked(decoded, comma, ReadRecords(decoded.text, comma))
Decoded(decoded) ==
    IF decoded.flaw # "" THEN Refused(decoded.flaw)
    ELSE Separated(decoded, ChooseDelimiter(decoded.text))
ReadDelimited(f) == Decoded(DecodeText(f))

-----------------------------------------------------------------------------
(***************************************************************************)
(* A workbook: what its archive unpacks to, and its tabs in order.  A cell *)
(* says a text and may store a number: whole or not, spelled with an       *)
(* exponent or not, in a number format, which is one the standard reserves *)
(* or a code of its own.  A cell may hold a formula.                       *)
(***************************************************************************)
BoundExpansion(f) ==
    Len(f.parts) <= Limits.parts /\ FoldSeq(LAMBDA size, sum : size + sum, 0, f.parts) <= Limits.unzip

BuiltinDateNumFmts == (14 .. 17) \cup {22} \cup (27 .. 36) \cup (50 .. 58)
ExcelSerialMax == 2958465
From1904 == 1462

\* What is left of a format code without literals, escapes and brackets.
StripFormatLiterals(code) ==
    LET start == [quoted |-> FALSE, bracket |-> FALSE, escaped |-> FALSE, kept |-> <<>>]
        step(s, x) ==
            IF s.escaped THEN [s EXCEPT !.escaped = FALSE]
            ELSE IF x = "backslash" THEN [s EXCEPT !.escaped = TRUE]
            ELSE IF x = Quote THEN [s EXCEPT !.quoted = ~@]
            ELSE IF s.quoted THEN s
            ELSE IF x \in {"[", "]"} THEN [s EXCEPT !.bracket = x = "["]
            ELSE IF s.bracket THEN s ELSE [s EXCEPT !.kept = Append(@, x)]
    IN  FoldLeft(step, start, code).kept
LooksLikeDateFormat(code) ==
    \E i \in DOMAIN StripFormatLiterals(code) : StripFormatLiterals(code)[i] \in {"y", "d", "mmm"}
StyleIsDate(style) ==
    IF style.custom THEN LooksLikeDateFormat(style.code) ELSE style.id \in BuiltinDateNumFmts

\* Two zeros or more before the decimal point of the first section, and
\* neither a letter nor a share of anything.
Section(code) ==
    LET kept == StripFormatLiterals(code)
        ends == {i \in DOMAIN kept : kept[i] \in {";", "."}}
    IN  IF ends = {} THEN kept ELSE SubSeq(kept, 1, Smallest(ends) - 1)
Zeros(code) == Len(SelectSeq(Section(code), LAMBDA x : x = "0"))
ZeroPaddingFormat(code) ==
    ToSet(Section(code)) \subseteq {"0", "#", ",", "-", " "} /\ Zeros(code) >= 2
Padded(text, width) ==
    LET pad[n \in 0 .. width] == IF n = 0 THEN text ELSE "0" \o pad[n - 1]
    IN  pad[width]
Digits(n) == Smallest({d \in 1 .. 9 : n < 10 ^ d})

IsDateCell(cell) == cell.number \in 1 .. ExcelSerialMax /\ StyleIsDate(cell.style)
PaddedNumber(cell) ==
    cell.whole /\ ~cell.exponent /\ cell.style.custom /\ ZeroPaddingFormat(cell.style.code)
\* A date is named by its number in the calendar that begins with 1900.
DateOf(cell, date1904) == "date " \o ToString(cell.number + IF date1904 THEN From1904 ELSE 0)
ConvertCell(cell, date1904) ==
    LET value == CleanCell(cell.says)
        zeros == Zeros(cell.style.code) - Digits(cell.number)
    IN  IF value = <<>> \/ cell.number = Missing THEN value
        ELSE IF IsDateCell(cell) THEN <<DateOf(cell, date1904)>>
        ELSE IF PaddedNumber(cell) THEN <<Padded(ToString(cell.number), IF zeros > 0 THEN zeros ELSE 0)>>
        ELSE IF cell.whole /\ cell.exponent THEN <<ToString(cell.number)>> ELSE value
Uncached(tab) ==
    \E k \in DOMAIN tab.rows : \E c \in DOMAIN Cut(tab.rows[k], Limits.columns) :
        tab.rows[k][c].formula /\ CleanCell(tab.rows[k][c].says) = <<>>

\* A block is corners; one that begins or ends past the bounds is dropped.
MergedRanges(tab) ==
    {m \in ToSet(Cut(tab.merges, Limits.merges)) :
        m.left <= Limits.columns /\ m.bottom <= Limits.rows}
ConvertTab(tab, date1904) ==
    [name |-> tab.name, book |-> TRUE, hidden |-> tab.hidden, merges |-> MergedRanges(tab),
     rows |-> Bound(TrimEdges([k \in DOMAIN tab.rows |->
                  [number |-> k, width |-> 0,
                   cells |-> [c \in DOMAIN Cut(tab.rows[k], Limits.columns) |->
                                  ConvertCell(tab.rows[k][c], date1904)]]]))]
BoundGrid(tab) ==
    /\ Len(tab.rows) <= Limits.rows
    /\ MapThenSumSet(LAMBDA k : Len(Cut(tab.rows[k], Limits.columns)), DOMAIN tab.rows)
           <= Limits.cells
ReadTabs(tabs, all, date1904) ==
    IF \E k \in DOMAIN tabs : ~BoundGrid(tabs[k]) THEN Refused("too many cells")
    ELSE IF tabs = <<>> THEN Refused("no sheets")
    ELSE File([k \in DOMAIN tabs |-> ConvertTab(tabs[k], date1904)],
              NoteIf(Len(tabs) < Len(all), "unreadable tab"),
              NoteIf(\E k \in DOMAIN tabs : Uncached(tabs[k]), "uncached formula"))
ReadWorkbook(f) ==
    LET all == Cut(f.tabs, Limits.tabs)
    IN  IF ~BoundExpansion(f) THEN Refused("expands too far")
        ELSE ReadTabs(SelectSeq(all, LAMBDA t : t.readable), all, f.date1904)

ReadFile(f) ==
    IF f.kind = "other" THEN Refused("not a table")
    ELSE IF f.kind = "workbook" THEN ReadWorkbook(f)
    ELSE IF Empty(f) THEN Refused("empty")
    ELSE IF RecogniseMarkup(f) THEN Refused("not a table")
    ELSE ReadDelimited(f)

-----------------------------------------------------------------------------
(***************************************************************************)
(* PickSheet: which tab is meant.  A hidden one only when nothing visible  *)
(* holds anything, and never one of several.                               *)
(***************************************************************************)
Filled(sheets, hidden) ==
    {k \in DOMAIN sheets :
        sheets[k].hidden = hidden /\ \E r \in DOMAIN sheets[k].rows : ~IsBlank(sheets[k].rows[r])}
Named(sheets, hidden) ==
    {k \in Filled(sheets, hidden) : Folded(sheets[k].name) \in TabNames}
Chose(sheets, k, passedOver) ==
    [sheet |-> k, errors |-> {},
     notes |-> NoteIf(sheets[k].book, "tab") \cup NoteIf(sheets[k].hidden, "hidden tab read")
               \cup NoteIf(sheets[k].book /\ passedOver # {}, "hidden tab passed over")]
NotChosen(why) == [sheet |-> 0, errors |-> {why}, notes |-> {}]
Among(sheets, named, filled, passedOver) ==
    LET one(S) == CHOOSE k \in S : TRUE
    IN  IF Cardinality(named) = 1 THEN Chose(sheets, one(named), passedOver)
        ELSE IF named # {} THEN NotChosen("several tabs by the name")
        ELSE IF Cardinality(filled) = 1 THEN Chose(sheets, one(filled), passedOver)
        ELSE NotChosen("several tabs, none by the name")
PickSheet(sheets) ==
    LET among(hidden, passedOver) ==
            Among(sheets, Named(sheets, hidden), Filled(sheets, hidden), passedOver)
    IN  IF Filled(sheets, FALSE) # {} THEN among(FALSE, Named(sheets, TRUE))
        ELSE IF Filled(sheets, TRUE) # {} THEN among(TRUE, {})
        ELSE NotChosen("empty")

(***************************************************************************)
(* The header row, and the fields its columns bind to.                     *)
(***************************************************************************)
FieldsIn(row) ==
    {FieldForHeader(CleanCell(row.cells[c])) : c \in DOMAIN row.cells} \ {Missing}
LocateHeaderRow(rows) ==
    LET names(k) == Cardinality(FieldsIn(rows[k]))
        window == DOMAIN Cut(rows, Limits.scan)
        best == {k \in window : \A j \in window : names(j) <= names(k)}
        threshold == Smallest({2, Cardinality(Range(Aliases))})
    IN  IF best = {} \/ names(Smallest(best)) < threshold THEN 0 ELSE Smallest(best)
HeaderRowOf(rows) ==
    IF LocateHeaderRow(rows) = 0 THEN 0 ELSE rows[LocateHeaderRow(rows)].number

\* A block down one column gives its value to the empty cells it covers.
CoveredFrom(sheet, header, row, c) ==
    {m \in sheet.merges :
        /\ m.left = c /\ m.right = c /\ m.top > header
        /\ row.number \in m.top + 1 .. m.bottom
        /\ \E r \in DOMAIN sheet.rows :
               sheet.rows[r].number = m.top /\ Cell(sheet.rows[r], c) # <<>>}
ExpandMergedValues(sheet, header) ==
    LET from(row, c) == IF Cell(row, c) # <<>> THEN {} ELSE CoveredFrom(sheet, header, row, c)
        value(m, c) == Cell(sheet.rows[CHOOSE r \in DOMAIN sheet.rows :
                                           sheet.rows[r].number = m.top], c)
        filled(row) ==
            LET covered == {c \in 1 .. Limits.columns : from(row, c) # {}}
            IN  [c \in 1 .. Largest(covered \cup DOMAIN row.cells) |->
                     IF c \in covered THEN value(CHOOSE m \in from(row, c) : TRUE, c)
                     ELSE Cell(row, c)]
    IN  [k \in DOMAIN sheet.rows |-> [sheet.rows[k] EXCEPT !.cells = filled(sheet.rows[k])]]
MergedColumnSpans(sheet, header) ==
    {m \in sheet.merges : m.left # m.right /\ m.bottom > header}

TableWidth(rows, header) == Largest({Len(rows[k].cells) : k \in header .. Len(rows)})
BindHeader(rows, header) ==
    LET heading(c) == CleanCell(Cell(rows[header], c))
        field(c) == FieldForHeader(heading(c))
        columns == 1 .. TableWidth(rows, header)
        claims(f) == {c \in columns : field(c) = f}
        bound == {field(c) : c \in columns} \ {Missing}
        under(c) == \E k \in header + 1 .. Len(rows) : Cell(rows[k], c) # <<>>
    IN  [columns |-> [f \in bound |-> Smallest(claims(f))],
         ignored |-> {c \in columns : field(c) = Missing /\ (heading(c) # <<>> \/ under(c))},
         errors |-> NoteIf(\E f \in bound : Cardinality(claims(f)) > 1, "claimed twice")
                    \cup NoteIf(~(Keys \subseteq bound), "key column missing")]

\* A row with values past the last heading, and one the separator split.
CheckRowWidth(rows, header) ==
    \E k \in header + 1 .. Len(rows) : SignificantWidth(rows[k]) > SignificantWidth(rows[header])
CheckRowShift(rows, header) ==
    \E k \in header + 1 .. Len(rows) :
        /\ rows[header].width # 0 /\ rows[k].width > rows[header].width
        /\ SignificantWidth(rows[k]) \in 1 .. SignificantWidth(rows[header])

(***************************************************************************)
(* Read: each row below the headings that says something in a bound column *)
(* becomes a draft, under the number it has in the file.                   *)
(***************************************************************************)
Outcome(refused, errors, notes) ==
    [refused |-> refused, errors |-> errors, notes |-> notes,
     drafts |-> <<>>, columns |-> <<>>, ignored |-> {}]
Draft(row, columns) == [number |-> row.number, cells |-> [f \in DOMAIN columns |-> Cell(row, columns[f])]]
Says(row, columns) == \E f \in DOMAIN columns : Cell(row, columns[f]) # <<>>

ReadRows(rows, header, said, outcome) ==
    LET filled == Cardinality({k \in header + 1 .. Len(rows) : ~IsBlank(rows[k])})
        above == \E k \in 1 .. header - 1 : ~IsBlank(rows[k])
    IN  [outcome EXCEPT
            !.errors = @ \cup NoteIf(said = <<>>, "no data rows")
                         \cup NoteIf(CheckRowWidth(rows, header), "wider than the header")
                         \cup NoteIf(CheckRowShift(rows, header), "values shifted"),
            !.notes = @ \cup NoteIf(above, "rows above the header")
                        \cup NoteIf(filled > Len(said), "rows skipped"),
            !.drafts = [k \in DOMAIN said |-> Draft(said[k], outcome.columns)]]
ReadBelow(rows, header, said, outcome) ==
    IF outcome.columns = <<>> THEN outcome
    ELSE IF Len(said) > Limits.data THEN Outcome("too many rows", {}, {})
    ELSE ReadRows(rows, header, said, outcome)
ReadBound(rows, header, binding, notes, errors) ==
    ReadBelow(rows, header,
              SelectSeq(SubSeq(rows, header + 1, Len(rows)), LAMBDA row : Says(row, binding.columns)),
              [Outcome("", errors \cup binding.errors,
                       notes \cup NoteIf(binding.ignored # {}, "columns not imported"))
                  EXCEPT !.columns = IF binding.errors = {} THEN binding.columns ELSE <<>>,
                         !.ignored = binding.ignored])
ReadTable(rows, header, notes, errors) ==
    ReadBound(rows, header, BindHeader(rows, header), notes, errors)

CheckControlCharacters(sheet) ==
    \E r \in DOMAIN sheet.rows : \E c \in DOMAIN sheet.rows[r].cells :
        Nul \in ToSet(sheet.rows[r].cells[c])

ReadFound(rows, found, notes, errors) ==
    IF found = 0 THEN Outcome("", errors \cup {"no header row"}, notes)
    ELSE ReadTable(rows, found, notes, errors)
ReadExpanded(rows, notes, errors) == ReadFound(rows, LocateHeaderRow(rows), notes, errors)
ReadMerged(sheet, header, notes, errors) ==
    ReadExpanded(IF header = 0 THEN sheet.rows ELSE ExpandMergedValues(sheet, header),
                 notes \cup NoteIf(header # 0 /\ MergedColumnSpans(sheet, header) # {}, "merged"),
                 errors)
ReadSheet(sheet, notes, errors) ==
    IF CheckControlCharacters(sheet) THEN Outcome("control characters", {}, {})
    ELSE ReadMerged(sheet, HeaderRowOf(sheet.rows), notes, errors)

ReadPicked(file, picked) ==
    IF picked.sheet = 0 THEN Outcome("", file.errors \cup picked.errors, file.notes)
    ELSE ReadSheet(file.sheets[picked.sheet], file.notes \cup picked.notes, file.errors)
ReadSheets(file) ==
    IF file.refused # "" THEN Outcome(file.refused, {}, {})
    ELSE ReadPicked(file, PickSheet(file.sheets))
Read(f) == ReadSheets(ReadFile(f))

\* Validate: an outcome with an error is refused as a whole.
Accepted(outcome) == outcome.refused = "" /\ outcome.errors = {}

-----------------------------------------------------------------------------
(***************************************************************************)
(* The question: a file, and what its author means by it - the field of    *)
(* each column, the rows that say something with the numbers they have in  *)
(* the file, and the notes that ask the author to look again.  A sure file *)
(* leaves nothing to ask.                                                  *)
(***************************************************************************)
AskFile ==
    /\ asked = Nothing
    /\ \E u \in Uploads : asked' = [about |-> "file", file |-> u.file, meant |-> u.meant]

FieldsOf(meant) == Range(meant.fields) \ {Missing}
\* What a row of the author's says, by field.
SaidIn(row, meant) ==
    [f \in FieldsOf(meant) |-> row.values[CHOOSE c \in DOMAIN meant.fields : meant.fields[c] = f]]
Spoken(meant) ==
    SelectSeq([k \in DOMAIN meant.rows |->
                  [number |-> meant.rows[k].number, cells |-> SaidIn(meant.rows[k], meant)]],
              LAMBDA row : \E f \in FieldsOf(meant) : row.cells[f] # <<>>)
ReadAsMeant(outcome, meant) ==
    /\ outcome.drafts = Spoken(meant)
    /\ \A c \in DOMAIN meant.fields :
           meant.fields[c] = Missing /\ (\E k \in DOMAIN meant.rows : meant.rows[k].values[c] # <<>>)
               => c \in outcome.ignored
    /\ Len(outcome.drafts) < Len(meant.rows) => "rows skipped" \in outcome.notes
ReadSafely(outcome, meant) ==
    /\ Accepted(outcome) /\ outcome.notes \cap meant.doubts = {} => ReadAsMeant(outcome, meant)
    /\ meant.sure => Accepted(outcome)

\* A file that is accepted is read whole and as it was meant: no row is lost,
\* merged or renumbered, no value moves under another heading, and a column
\* or row that is left out is named - unless a note asks the customer to look.
\* A file that leaves no doubt is accepted (Reader.Read, and Validate, which
\* refuses an outcome with an error).
FilesReadWhole ==
    asked.about = "file" => ReadSafely(Read(asked.file), asked.meant)
=============================================================================
