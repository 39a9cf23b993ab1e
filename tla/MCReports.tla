----------------------------- MODULE MCReports -----------------------------
(* A small tenant for Reminders, Oracle and Reports. *)
EXTENDS Reminders

Alpha == [id |-> 1, name |-> 12, country |-> "AE"]
Beta == [id |-> 2, name |-> 11, country |-> None]
Obliged(id, name, template) == [id |-> id, name |-> name, code |-> id + 30, template |-> template]
Vat == Obliged(1, 22, "VAT")
Cit == Obliged(2, 21, "CIT")
Wht == Obliged(3, 23, "WHT")
Other == Obliged(4, 24, "TP")

D == Date(2025, 6, 11)  \* a Wednesday
Wf(id, status, year, entity, obligation) ==
    [id |-> id, status |-> status, category |-> IF year = None THEN "project" ELSE "recurring",
     year |-> year, entity |-> entity, obligation |-> obligation, createdAt |-> 24 * D - 2]
W1 == Wf(1, "active", 2025, Alpha, Vat)
W2 == Wf(2, "completed", 2024, Beta, Cit)
W3 == [Wf(3, "active", None, None, None) EXCEPT !.createdAt = 24 * D + 23]
W4 == Wf(4, "archived", 2025, Alpha, Wht)
W5 == Wf(5, "active", 2025, Beta, None)
W6 == Wf(6, "active", 2024, Alpha, Wht)
W7 == Wf(7, "active", 2025, Beta, Other)
MCPortfolio == {W1, W2, W3, W4, W5, W6, W7}

\* M2 ends before M10, and its code comes after it.
M1 == 1
M10 == 2
M2 == 3

Value(type, text) == [type |-> type, text |-> text]
Number(text) == Value("number", text)

Piece(id, wf, status, due) ==
    [id |-> id, name |-> 50 - id, wf |-> wf, status |-> status, due |-> due, filing |-> due + 1,
     completedAt |-> None, code |-> M1, end |-> D - 100, data |-> None, taskType |-> "filing",
     notes |-> None, assignee |-> "u1"]
\* Done at an hour of a day, in UTC.
DoneAt(x, day, hour) == [x EXCEPT !.status = "completed", !.completedAt = 24 * day + hour]
In2(x) == [x EXCEPT !.code = M2, !.end = D - 70]
In10(x) == [x EXCEPT !.code = M10, !.end = D + 170]
With(x, data) == [x EXCEPT !.data = data]

MCTasks == <<
    Piece(1, W1, "not_started", D - 1),
    In10(Piece(2, W1, "in_review", D)),
    In2(Piece(3, W6, "blocked", D + 1)),
    Piece(4, W2, "pending_approval", D + 3),
    [Piece(5, W3, "in_progress", D + 4) EXCEPT !.assignee = "u2"],
    [Piece(6, W4, "not_started", D - 2) EXCEPT !.filing = D - 2],
    DoneAt(Piece(7, W1, "completed", D - 1), D - 1, 22),
    DoneAt(In2(Piece(8, W6, "completed", D)), D + 1, 3),
    In2(DoneAt(With(Piece(9, W1, "completed", D - 5),
        "outputVat" :> Number("8") @@ "inputTax" :> Number("5") @@ "netVat" :> Number("0")
        @@ "penalty" :> Number("0")), D - 4, 12)),
    In10(With(Piece(10, W1, "in_progress", D + 30),
        "netVat" :> Value("string", "abc") @@ "vatPayable" :> Value("string", "-7")
        @@ "penaltyAmount" :> Value("string", "0") @@ "interest" :> Value("boolean", "false"))),
    With(Piece(11, W2, "not_started", D - 1),
         "taxLiability" :> Number("0") @@ "corporateTax" :> Number("5")
         @@ "taxableIncome" :> Number("8") @@ "cost" :> Number("5")),
    With(Piece(12, W6, "in_progress", D), "wht_amount" :> Number("8") @@ "whtAmount" :> Number("0.0")
        @@ "penaltyAmount" :> Number("0.0") @@ "penalty" :> Number("5")),
    With(Piece(13, W7, "in_review", D + 2),
         "amount" :> Value("null", "") @@ "taxAmount" :> Number("8") @@ "netVat" :> Number("5")),
    [With(Piece(14, W5, "not_started", D - 3), <<>>)
        EXCEPT !.taskType = "payment", !.notes = "paid late", !.assignee = None],
    [With(Piece(15, W5, "not_started", D - 3),
          "amount" :> Number("5") @@ "interestAmount" :> Number("8"))
        EXCEPT !.taskType = "payment", !.notes = "paid late", !.assignee = "u3"],
    In2(DoneAt(Piece(16, W7, "completed", D + 1), D + 1, 23))>>

\* Up to three of them.
MCTaskSets == LET tasks == ToSet(MCTasks) IN {{x, y, z} : x, y, z \in tasks}

\* UTC at the very hour of the digests, a zone whose day has begun before it, and
\* one whose day has not.
MCClocks == {[zone |-> 0, now |-> 24 * D + 8], [zone |-> 4, now |-> 24 * D + 21],
             [zone |-> -10, now |-> 24 * D + 5]}

MCTeam == "u1" :> [status |-> "active", kind |-> "human"]
          @@ "u2" :> [status |-> "active", kind |-> "service"]
          @@ "u3" :> [status |-> "disabled", kind |-> "human"]
=============================================================================
