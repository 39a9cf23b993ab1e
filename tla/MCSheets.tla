------------------------------ MODULE MCSheets ------------------------------
(***************************************************************************)
(* Files for Sheets, and what their authors mean by them: tables written   *)
(* as text by three kinds of author, and workbooks.                        *)
(***************************************************************************)
EXTENDS Sheets

MCAliases == <<"entity">> :> "entity" @@ <<"company", "name">> :> "entity" @@
             <<"type">> :> "type" @@ <<"due", "dates">> :> "dates"
MCKeys == {"entity", "type"}
MCTabNames == {<<"obligations">>}
MCAccented == {"mueller"}
MCForeign == {"moskva"}
MCSize == [w \in {"mueller", "moskva", "acme", "vat", "entity", "type", "owner"} |-> 6]
MCNumerals == {"500"}
MCLimits == [rows |-> 9, data |-> 3, columns |-> 6, tabs |-> 4, cells |-> 30, merges |-> 3,
             unzip |-> 100, parts |-> 3, scan |-> 4, sample |-> 4]

-----------------------------------------------------------------------------
(* Authors of text. *)
Has(v, tokens) == ToSet(v) \cap tokens # {}
Quoted(v) ==
    LET doubled == Joined([i \in DOMAIN v |-> IF v[i] = Quote THEN <<Quote, Quote>> ELSE <<v[i]>>])
    IN  <<Quote>> \o doubled \o <<Quote>>
\* The product's own export marks what a spreadsheet would evaluate.
Guarded(v) ==
    IF NeedsTextMarker(v) \/ CarriesTextMarker(v) THEN <<Apostrophe>> \o v ELSE v
Encoded(v, comma, author) ==
    LET w == IF author = "product" THEN Guarded(v) ELSE v
    IN  IF author # "careless" /\ Has(w, {comma, Quote, NewLine}) THEN Quoted(w) ELSE w
Line(row, comma, author) ==
    Joined([c \in DOMAIN row |->
        (IF c = 1 THEN <<>> ELSE <<comma>>) \o Encoded(row[c], comma, author)]) \o <<NewLine>>
Saved(rows, comma, author) ==
    Joined([k \in DOMAIN rows |-> Line(rows[k], comma, author)])
NumberOf(rows, k) ==
    1 + MapThenSumSet(LAMBDA j : 1 + MapThenSumSet(LAMBDA c :
            Len(SelectSeq(rows[j][c], LAMBDA x : x = NewLine)), DOMAIN rows[j]), 1 .. k - 1)

Heads == << <<"entity">>, <<"type">>, <<"owner">>, <<"due", Space, "dates", "(", "mm-dd", ")">> >>
HeadFields == <<"entity", "type", Missing, "dates", Missing>>

TextFile(text, code, mark, broken) ==
    [kind |-> "text", text |-> text, code |-> code, mark |-> mark, broken |-> broken]
Full(row) == [c \in DOMAIN HeadFields |-> IF c \in DOMAIN row THEN row[c] ELSE <<>>]
\* The rows from the header on, after so many lines.
Meant(rows, above, sure, doubts) ==
    LET filled == SelectSeq([k \in 1 .. Len(rows) |-> k],
                            LAMBDA k : k > above + 1 /\ \E c \in DOMAIN rows[k] : rows[k][c] # <<>>)
    IN  [fields |-> HeadFields, sure |-> sure, doubts |-> doubts,
         rows |-> [n \in DOMAIN filled |->
                      [number |-> NumberOf(rows, filled[n]), values |-> Full(rows[filled[n]])]]]

(* Quoting, separators and markers. *)
Names == {<<"acme">>, <<"acme", ",", "ag">>, <<"acme", Quote, "ag">>, <<Quote, "acme">>,
          <<"+", "41", "ag">>, <<Apostrophe, "+", "41", "ag">>, <<"-", "500">>, <<"acme", NewLine, "ag">>}
Dates == {<<>>, <<"0731">>, <<"0731", ";", "0131">>}
NamedRows(owner) ==
    {<<name, <<"vat">>, owner, dates>> : name \in Names, dates \in Dates}
Tables == {<<Heads, r1, r2>> : r1 \in NamedRows(<<>>),
               r2 \in {<< <<"beta">>, <<"cit">>, <<"ann">>, <<>> >>, << <<"b", "|", Quote>>, <<"cit">>, <<>>, <<"0630">> >>}}
QuoteMarks(rows) == Cardinality({p \in (DOMAIN rows) \X (DOMAIN Heads) : Has(rows[p[1]][p[2]], {Quote})})
SeveralLines(rows) == \E k \in DOMAIN rows : \E c \in DOMAIN Heads : Has(rows[k][c], {NewLine})
\* A mark that is not closed in the last row has no line below it to take in:
\* nothing but the note tells of it.
TextUploads ==
    {[file |-> TextFile(Saved(rows, comma, author), "utf8", FALSE, FALSE),
      meant |-> Meant(rows, 0, author # "careless",
                      IF author = "product" THEN {} ELSE {"marker"})] :
        rows \in Tables, comma \in Range(Delimiters), author \in {"careful", "product"}}
    \cup
    {[file |-> TextFile(Saved(rows, comma, "careless"), "utf8", FALSE, FALSE),
      meant |-> Meant(rows, 0, FALSE,
                      IF Has(rows[Len(rows)][1], {Quote}) THEN {"marker", "quote"} ELSE {"marker"})] :
        rows \in {t \in Tables : QuoteMarks(t) <= 1 /\ ~SeveralLines(t)}, comma \in Range(Delimiters)}

(* Encodings: what was saved, with or without a mark, sound or damaged. *)
Codes == {<<"utf8", m, b>> : m \in BOOLEAN, b \in BOOLEAN}
         \cup {<<"utf16", m, FALSE>> : m \in BOOLEAN} \cup {<<"codepage", FALSE, FALSE>>}
Sound(word, code) ==
    /\ ~code[3] /\ (code[1] = "codepage" => word \notin MCAccented \cup MCForeign)
    /\ (code[1] = "utf16" => code[2] \/ word \notin MCForeign)
EncodedUploads ==
    {[file |-> TextFile(Saved(<<Heads, << <<word>>, <<"vat">>, <<>>, <<word>> >> >>, ",", "careful"),
                        code[1], code[2], code[3]),
      meant |-> Meant(<<Heads, << <<word>>, <<"vat">>, <<>>, <<word>> >> >>, 0,
                      Sound(word, code), {})] :
        word \in {"acme", "mueller", "moskva"}, code \in Codes}

(* What stands above, between and below the rows. *)
Title == << <<"vat", Space, "register">> >>
Row(name) == << <<name>>, <<"vat">>, <<>>, <<"0731">> >>
Total == << <<>>, <<>>, <<"total">>, <<>> >>
Layouts ==
    {above \o <<Heads>> \o middle \o below :
        above \in {<<>>, <<Title>>, <<Title, << <<>> >> >>},
        middle \in {<<Row("a")>>, <<Row("a"), << <<>> >>, Row("b")>>, <<Row("a"), Row("b"), Row("c")>>},
        below \in {<<>>, <<Total>>, << << <<>>, <<>> >>, Total>>, <<Row("d")>>, <<Append(Row("d"), <<"note">>)>>}}
HeaderAt(rows) == CHOOSE k \in DOMAIN rows : rows[k] = Heads
Readable(rows) ==
    /\ \A k \in DOMAIN rows : Len(rows[k]) <= Len(Heads)
    /\ Cardinality({k \in DOMAIN rows : Len(rows[k]) = 4 /\ rows[k][1] # <<>>}) <= MCLimits.data + 1
LayoutUploads ==
    {[file |-> TextFile(Saved(rows, comma, "careful"), "utf8", FALSE, FALSE),
      meant |-> Meant(rows, HeaderAt(rows) - 1, Readable(rows), {})] :
        rows \in Layouts, comma \in {",", ";"}}
Others == {[file |-> [kind |-> "other"], meant |-> Meant(<<Heads>>, 0, FALSE, {})],
           [file |-> TextFile(<<Space, "<", "entity", NewLine>>, "utf8", FALSE, FALSE),
            meant |-> Meant(<<Heads>>, 0, FALSE, {})],
           [file |-> TextFile(<<Space, NewLine>>, "utf8", FALSE, FALSE),
            meant |-> Meant(<<Heads>>, 0, FALSE, {})]}

-----------------------------------------------------------------------------
(***************************************************************************)
(* Workbooks.  A cell is what it shows and what it stores.                 *)
(***************************************************************************)
General == [custom |-> FALSE, id |-> 0, code |-> <<>>]
Builtin(id) == [General EXCEPT !.id = id]
Custom(code) == [General EXCEPT !.custom = TRUE, !.code = code]
Text(v) == [shows |-> v, cell |-> [says |-> v, number |-> Missing, whole |-> FALSE, exponent |-> FALSE,
                                   style |-> General, formula |-> FALSE]]
Stored(shows, says, n, style) ==
    [shows |-> <<shows>>,
     cell |-> [says |-> <<says>>, number |-> n, whole |-> TRUE, exponent |-> says = "1.2E+4",
               style |-> style, formula |-> FALSE]]
Formula(result, says) == [Text(says) EXCEPT !.shows = result, !.cell.formula = TRUE]

Cells == {Text(<<"acme", NewLine, "ag">>), Text(<<Apostrophe, "+", "41">>), Text(<<Nbsp, "acme", Invisible>>),
          Stored("12345", "12345", 12345, General), Stored("12000", "1.2E+4", 12000, General),
          Stored("0012345", "12345", 12345, Custom(<<"0", "0", "0", "0", "0", "0", "0">>)),
          Stored("045", "45", 45, Custom(<<"[", "d", "]", "0", "0", "0", ";", "-", "0">>)),
          Stored("45", "45", 45, Custom(<<"0", ".", "0", "0", Quote, "d", Quote>>)),
          Stored("date 46000", "46000", 46000, Builtin(14)), Stored("date 46000", "46000", 46000, Builtin(30)),
          Stored("date 46000", "46000", 46000, Custom(<<"d", "backslash", "0", "mmm">>)),
          Stored("0", "0", 0, Builtin(14)), Stored("46000", "46000", 46000, Builtin(20)),
          Formula(<<"acme">>, <<"acme">>), Formula(<<"acme">>, <<>>)}
Shown(c) == IF c = Text(<<Nbsp, "acme", Invisible>>) THEN <<"acme">> ELSE c.shows

Tab(name, rows, merges, hidden) ==
    [name |-> name, rows |-> [k \in DOMAIN rows |-> [c \in DOMAIN rows[k] |-> rows[k][c].cell]],
     merges |-> merges, hidden |-> hidden, readable |-> TRUE]
Book(tabs, date1904) ==
    [kind |-> "workbook", parts |-> <<40, 50>>, tabs |-> tabs, date1904 |-> date1904]
Texts(row) == [c \in DOMAIN row |-> Text(row[c])]
Plain(name) == Texts(Row(name))
MeantRows(rows, doubts, sure) ==
    LET filled == SelectSeq([k \in 1 .. Len(rows) |-> k], LAMBDA k : k > 1 /\ rows[k] # <<>>)
    IN  [fields |-> HeadFields, sure |-> sure, doubts |-> doubts,
         rows |-> [n \in DOMAIN filled |-> [number |-> filled[n], values |-> Full(rows[filled[n]])]]]

\* Cells of every kind, in a column that is read and in one that is not.
CellUploads ==
    {[file |-> Book(<<Tab(<<"sheet">>, <<Texts(Heads), <<>>, <<c, Text(<<"vat">>), own, Text(<<>>)>> >>, <<>>, FALSE)>>, early),
      meant |-> MeantRows(<<Heads, <<>>,
                    << (IF early /\ c.shows = <<"date 46000">> THEN <<"date 47462">> ELSE Shown(c)),
                       <<"vat">>, own.shows, <<>> >> >>, {}, c # Formula(<<"acme">>, <<>>))] :
        c \in Cells, own \in {Text(<<>>), Text(<<"ann">>)}, early \in BOOLEAN}

\* A value merged down the rows it covers, across columns, or in the header.
Block(top, left, bottom, right) == [top |-> top, left |-> left, bottom |-> bottom, right |-> right]
Covered(type) == << <<"b">>, type, <<>>, <<"0630">> >>
MergeUploads ==
    {[file |-> Book(<<Tab(<<"sheet">>, <<Texts(Heads), Plain("a"), Texts(Covered(type))>>, <<merge>>, FALSE)>>, FALSE),
      meant |-> MeantRows(<<Heads, Row("a"),
                    IF merge = Block(2, 2, 3, 2) THEN Covered(<<"vat">>) ELSE Covered(type)>>,
                    {"merged"}, type # <<>>)] :
        type \in {<<>>, <<"vat">>}, merge \in {Block(2, 2, 3, 2), Block(2, 3, 3, 4), Block(1, 2, 2, 2), Block(3, 1, 3, 2)}}

\* Tabs: visible or hidden, named for the target or not, filled or not.
Old(name, hidden) == Tab(name, <<Texts(Heads), Plain("old")>>, <<>>, hidden)
OtherTabs == {Old(<<"obligations", "(", "old", ")">>, TRUE), Old(<<"copy">>, TRUE), Old(<<"copy">>, FALSE),
              Tab(<<"notes">>, <<>>, <<>>, FALSE)}
TabUploads ==
    {[file |-> Book(IF first THEN <<other, Tab(name, <<Texts(Heads), Plain("a")>>, <<>>, hidden)>>
                    ELSE <<Tab(name, <<Texts(Heads), Plain("a")>>, <<>>, hidden), other>>, FALSE),
      meant |-> MeantRows(<<Heads, Row("a")>>, IF hidden THEN {"tab"} ELSE {},
                         ~hidden /\ (name = <<"sheet">> => other # Old(<<"copy">>, FALSE)))] :
        name \in {<<"obligations">>, <<"sheet">>}, hidden \in BOOLEAN, first \in BOOLEAN,
        other \in OtherTabs}

Sized(rows, columns) == [k \in 1 .. rows |-> [c \in 1 .. columns |-> Text(<<"x">>)]]
BigUploads ==
    {[file |-> Book(<<Tab(<<"sheet">>, Sized(n, 5), <<>>, FALSE)>>, FALSE),
      meant |-> MeantRows(<<Heads>>, {}, FALSE)] : n \in {6, 10}}
    \cup {[file |-> [Book(<<Tab(<<"sheet">>, <<Texts(Heads), Plain("a")>>, <<>>, FALSE)>>, FALSE) EXCEPT !.parts = parts],
            meant |-> MeantRows(<<Heads, Row("a")>>, {}, parts = <<60, 40>>)] :
                parts \in {<<60, 40>>, <<60, 41>>, <<1, 1, 1, 1>>}}

MCUploads == TextUploads \cup EncodedUploads \cup LayoutUploads \cup Others
             \cup CellUploads \cup MergeUploads \cup TabUploads \cup BigUploads
=============================================================================
