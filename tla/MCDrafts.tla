------------------------------ MODULE MCDrafts ------------------------------
(* Files of one and two rows, against a small register. *)
EXTENDS Drafts

T(text) == [text |-> text]
W(spelling) == [spelling |-> spelling]
N(n) == [tokens |-> <<Num(n, 1)>>]
Date(m, d) == <<Num(m, 2), Mark("-"), Num(d, 2)>>
Toks(text) == [tokens |-> text]
Upper == Txt("eur", "upper", "nfc")
Tax == Txt("DE1", "plain", "nfc")
TaxAgain == Txt("DE1", "plain", "nfd")
Unclear == Toks(<<Num(5, 2), Mark("/"), Num(4, 2)>>)

(* Columns that a file may have, and what stands in them: none is an absent *)
(* column.                                                                  *)
Optional(field, cells) == {<<>>} \cup {field :> c : c \in cells}
RECURSIVE Combined(_)
Combined(columns) ==
    IF columns = <<>> THEN {<<>>}
    ELSE {row @@ cell : row \in Combined(Tail(columns)), cell \in Head(columns)}
Key == "entity" :> T(Txt("acme", "plain", "nfd")) @@ "obligationType" :> T(Txt("vat", "upper", "nfc"))

RuleColumns == <<
    Optional("deadlineType", {W("fixed"), W("offset")}),
    Optional("weekendAdjustment", {Blank, W("next")}),
    Optional("periodStart", {Blank, Toks(Date(4, 6))}),
    Optional("fixedDates", {Toks(Date(7, 31)), Unclear}),
    Optional("paymentFixedDates", {Toks(Date(8, 31))}),
    Optional("filingOffsetMonths", {N(2), N(30)}),
    Optional("paymentOffsetDays", {N(7)}) >>
RuleRows == {Key @@ row : row \in Combined(RuleColumns)}
TextRows == {Key @@ row : row \in Combined(<<
    Optional("taxReferenceNumber", {Blank, T(TaxAgain), T(Txt("DE2", "plain", "nfc")), Broken}),
    Optional("currency", {Blank, T(Txt("eur", "plain", "nfc"))}),
    Optional("jurisdiction", {T(Txt("berlin", "too long", "nfc"))}),
    Optional("periodicity", {Blank, W("yearly"), W("half yearly"), W("daily")}),
    Optional("weekendAdjustment", {W("none")}),
    Optional("fixedDates", {Blank, Toks(Date(7, 31) \o <<Mark(";"), Mark(" ")>> \o Date(1, 31))}) >>)}

Fixed == [NoRule EXCEPT !.type = "fixed", !.dates = << <<7, 31>> >>, !.weekend = "none", !.extra = 1]
Offset == [NoRule EXCEPT !.type = "period_offset", !.filing = <<2, 0>>, !.payment = <<0, 7>>, !.start = <<4, 6>>]
Rules == {NoRule, [NoRule EXCEPT !.weekend = "next-business-day"], Fixed, Offset, [Fixed EXCEPT !.readable = FALSE],
          [NoRule EXCEPT !.type = "fixed"], [Fixed EXCEPT !.filing = <<1, 0>>]}
AsStored(values) ==
    [f \in ObligationTexts \cup {"periodicity"} |->
        IF f = "periodicity" THEN "annual" ELSE IF f \in DOMAIN values THEN values[f] ELSE NoText]
Obligation(id, entity, values, rule) ==
    [id |-> id, entity |-> entity, type |-> 1, writable |-> TRUE, values |-> AsStored(values), rule |-> rule]

Entity(id, name, parent, year, writable) ==
    [id |-> id, parent |-> parent, writable |-> writable,
     values |-> [f \in EntityFields \ {"parent"} |->
        IF f = "name" THEN name ELSE IF f = "country" THEN Txt("de", "plain", "nfc")
        ELSE IF f = "financialYearEnd" THEN year
        ELSE IF f = "fiscalCalendarPattern" THEN "445"
        ELSE IF f \in FiscalEnums THEN DefaultOf[f] ELSE NoText]]
Acme == Entity(1, Txt("acme", "plain", "nfc"), 0, <<3, 31>>, TRUE)
Group == Entity(2, Txt("group", "plain", "nfc"), 0, <<>>, TRUE)
Twin == Entity(3, Txt("acme", "upper", "nfc"), 2, <<>>, TRUE)
Vat == [id |-> 1, code |-> "vat", name |-> "value added tax"]
Cit == [id |-> 2, code |-> "cit", name |-> "vat"]

Kept(entities, types, obligations) ==
    [entities |-> entities, types |-> types, obligations |-> obligations]
With1(values, rule) == Kept({Acme, Group}, {Vat}, {Obligation(1, 1, values, rule)})
Family(kind, files, stored) == [kind |-> kind, files |-> files, stored |-> stored]
Alone(rows) == {<<row>> : row \in rows}

RuleImports ==
    {Family("obligations", Alone(RuleRows), {With1(<<>>, rule) : rule \in Rules}),
     Family("obligations", Alone({("periodicity" :> W("quarterly")) @@ row : row \in RuleRows}),
            {Kept({Acme}, {Vat}, {})})}
TextImports ==
    {Family("obligations", Alone(TextRows),
        {With1(("taxReferenceNumber" :> Tax) @@ ("currency" :> Upper), Fixed),
         With1(<<>>, NoRule), Kept({Acme}, {Vat}, {}),
         Kept({Acme, Twin}, {Vat}, {}), Kept({Acme}, {Vat, Cit}, {}),
         Kept({[Acme EXCEPT !.writable = FALSE]}, {Vat},
              {[Obligation(1, 1, <<>>, Offset) EXCEPT !.writable = FALSE]})})}
\* Two rows, which mean one obligation, two of two entities, or repeat a key.
SecondRow(entity, type) ==
    ("entity" :> T(Txt(entity, "plain", "nfc"))) @@ ("obligationType" :> T(Txt(type, "plain", "nfc")))
        @@ ("periodicity" :> W("monthly"))
PairImports ==
    {Family("obligations",
        {<<Key @@ ("periodicity" :> W("annual")), SecondRow(entity, type)>> :
            entity \in {"acme", "group"}, type \in {"vat", "value added tax"}},
        {Kept({Acme, Group}, {Vat}, {Obligation(k, entity, <<>>, Fixed) : k \in ids}) :
            entity \in {1, 2}, ids \in {{}, {1}}})}

EntityRows == Combined(<<
    {"name" :> T(Txt("acme", "upper", "nfd")), "name" :> T(Txt("acme", "plain", "nfc")), "name" :> Blank},
    Optional("country", {Blank, T(Txt("fr", "plain", "nfc"))}),
    Optional("legalName", {Blank}),
    Optional("parent", {Blank, T(Txt("group", "upper", "nfd")), T(Txt("acme", "plain", "nfc")),
                        T(Txt("who", "plain", "nfc"))}),
    Optional("fiscalCalendarPattern", {Blank, W("monthly"), W("custom")}),
    Optional("financialYearEnd", {Toks(Date(12, 31)), Unclear}) >>)
GroupRow == ("name" :> T(Txt("group", "plain", "nfc"))) @@ ("country" :> T(Txt("nl", "plain", "nfc")))
ShortRows == {r \in EntityRows : {"legalName", "financialYearEnd"} \cap DOMAIN r = {}}
EntityImports ==
    {Family("entities", Alone(EntityRows),
            {Kept(entities, {}, {}) : entities \in {{Group}, {Acme, Group}, {[Acme EXCEPT !.parent = 2], Group},
                                                   {Acme, Twin}, {[Acme EXCEPT !.writable = FALSE]}}}),
     Family("entities", {<<GroupRow, row>> : row \in ShortRows} \cup {<<row, GroupRow>> : row \in ShortRows},
            {Kept(entities, {}, {}) : entities \in {{}, {Acme}, {Acme, Group}}})}

MCImports == RuleImports \cup TextImports \cup PairImports \cup EntityImports
=============================================================================
