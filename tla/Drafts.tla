------------------------------- MODULE Drafts -------------------------------
(***************************************************************************)
(* What an import makes of the rows of a file, once their cells are under  *)
(* fields: drafts (modules/imports/domain entity_row.go and                *)
(* obligation_row.go), a plan against what is stored (usecases/plan.go),   *)
(* and what a commit of that plan writes (usecases/changes.go, apply.go).  *)
(* The dry run shows the plan, the commit writes by other functions: they  *)
(* have to agree.                                                          *)
(*                                                                         *)
(* A file is a kind, and rows that give a cell to every column the file    *)
(* has.  A cell is blank, an error of the spreadsheet, a text, a spelling  *)
(* of a word of the vocabulary, or the tokens of Values.  A text is a key, *)
(* the style it is written in (case, spacing) and its Unicode form.        *)
(***************************************************************************)
EXTENDS Values, TLC

Blank == [blank |-> TRUE]
Broken == [error |-> "#REF!"]
Txt(key, style, form) == [key |-> key, style |-> style, form |-> form]
NoText == Txt("", "", "")
NormalizeKey(text) == text.key
SameText(a, b) == a.key = b.key /\ a.style = b.style

EntityTexts == {"name", "legalName", "country", "taxResidency"}
FiscalEnums == {"fiscalCalendarPattern", "fiscalWeekEndDay", "fiscalYearEndRule"}
EntityFields == EntityTexts \cup FiscalEnums \cup {"financialYearEnd", "parent"}
ObligationTexts == {"taxReferenceNumber", "jurisdiction", "jurisdictionState", "currency"}
RuleFields == {"deadlineType", "periodStart", "filingOffsetMonths", "filingOffsetDays",
               "paymentOffsetMonths", "paymentOffsetDays", "fixedDates", "paymentFixedDates",
               "weekendAdjustment"}
ObligationFields == {"entity", "obligationType", "periodicity"} \cup ObligationTexts \cup RuleFields
\* What a new record cannot do without, the keys of the file apart.
RequiredOnCreate(kind) == IF kind = "entities" THEN {"country"} ELSE {"periodicity"}
MissingOnCreate(kind, spoke) == RequiredOnCreate(kind) \ spoke

PeriodicityVocab == "annual" :> "annual" @@ "yearly" :> "annual" @@ "bi-annual" :> "bi-annual" @@
                    "half yearly" :> "bi-annual" @@ "quarterly" :> "quarterly" @@ "monthly" :> "monthly"
FiscalVocab(field) ==
    IF field = "fiscalCalendarPattern"
    THEN "standard" :> "standard" @@ "monthly" :> "standard" @@ "445" :> "445" @@ "custom" :> "custom"
    ELSE IF field = "fiscalWeekEndDay" THEN "friday" :> "friday" @@ "sat" :> "saturday"
    ELSE "last" :> "last" @@ "nearest" :> "nearest" @@ "closest" :> "nearest"
DeadlineTypeVocab == [s \in {"fixed", "fixed dates", "offset"} |-> IF s = "offset" THEN "period_offset" ELSE "fixed"]
WeekendVocab == "none" :> "none" @@ "next" :> "next-business-day" @@ "back" :> "prev-business-day"
DefaultOf == "fiscalCalendarPattern" :> "standard" @@ "fiscalWeekEndDay" :> "saturday" @@
             "fiscalYearEndRule" :> "nearest"

-----------------------------------------------------------------------------
(***************************************************************************)
(* A cell: blank, refused, or a value.                                     *)
(***************************************************************************)
Reading(cell, ok, value) ==
    IF Is(cell, "blank") THEN [is |-> "blank"]
    ELSE IF Is(cell, "error") \/ ~ok THEN [is |-> "refused"] ELSE [is |-> "value", value |-> value]
ReadText(cell) == Reading(cell, cell.text.style # "too long", cell.text)
ReadEnum(cell, vocab) == Reading(cell, cell.spelling \in DOMAIN vocab, vocab[cell.spelling])
ReadMonthDay(cell) ==
    Reading(cell, ParseMonthDay(cell.tokens) # Refusal, ParseMonthDay(cell.tokens))
ReadMonthDays(cell) ==
    IF Is(cell, "tokens") /\ PartsOf(cell.tokens) = <<>> THEN [is |-> "blank"]
    ELSE Reading(cell, ReadMonthDayList(cell.tokens) # Refusal, ReadMonthDayList(cell.tokens))
\* Upper-cased, and of three letters.
ReadCurrency(cell) ==
    Reading(cell, cell.text.style # "too long", Txt(cell.text.key, "upper", "nfc"))
\* None, or one number.
ReadOffset(cell, most) ==
    Reading(cell, ReadCount(cell.tokens, most) # Refusal, {ReadCount(cell.tokens, most)[1]})

Or(reading, otherwise) == IF reading.is = "value" THEN reading.value ELSE otherwise
Failed(reading) == reading.is = "refused"
CellOf(row, field) == IF field \in DOMAIN row THEN row[field] ELSE Blank
\* A column that is there must be filled, one that is not says nothing.
FailsRequired(row, field, reading) ==
    field \in DOMAIN row /\ (Failed(reading) \/ reading.is = "blank")

-----------------------------------------------------------------------------
(***************************************************************************)
(* The deadline rule of an obligation: two strategies flattened into       *)
(* columns.                                                                *)
(***************************************************************************)
NoRule == [type |-> "", weekend |-> "", start |-> <<>>, dates |-> <<>>, paydates |-> <<>>,
           filing |-> <<>>, payment |-> <<>>, extra |-> 0, readable |-> TRUE]

Offsets == {"filingOffsetMonths", "filingOffsetDays", "paymentOffsetMonths", "paymentOffsetDays"}
OffsetMax(field) ==
    IF field \in {"filingOffsetMonths", "paymentOffsetMonths"} THEN OffsetMonthsMax ELSE OffsetDaysMax
OffsetIn(row, field) == ReadOffset(CellOf(row, field), OffsetMax(field))
DatesIn(row, field) == ReadMonthDays(CellOf(row, field))
ReadDeadlineColumns(row) ==
    [declared |-> Or(ReadEnum(CellOf(row, "deadlineType"), DeadlineTypeVocab), ""),
     weekend |-> Or(ReadEnum(CellOf(row, "weekendAdjustment"), WeekendVocab), ""),
     start |-> Or(ReadMonthDay(CellOf(row, "periodStart")), <<>>),
     offset |-> [f \in Offsets |-> Or(OffsetIn(row, f), {})],
     dates |-> Or(DatesIn(row, "fixedDates"), <<>>),
     paydates |-> Or(DatesIn(row, "paymentFixedDates"), <<>>),
     badDates |-> Failed(DatesIn(row, "fixedDates")) \/ Failed(DatesIn(row, "paymentFixedDates")),
     badOffsets |-> \E f \in Offsets : Failed(OffsetIn(row, f))]
ColumnsFail(row, c) ==
    \/ Failed(ReadEnum(CellOf(row, "deadlineType"), DeadlineTypeVocab))
    \/ Failed(ReadEnum(CellOf(row, "weekendAdjustment"), WeekendVocab))
    \/ Failed(ReadMonthDay(CellOf(row, "periodStart")))
    \/ c.badDates \/ c.badOffsets
    \/ c.paydates # <<>> /\ DOMAIN c.dates # DOMAIN c.paydates

HasFixed(c) == c.dates # <<>> \/ c.paydates # <<>> \/ c.badDates
HasFilingOffset(c) == c.offset["filingOffsetMonths"] \cup c.offset["filingOffsetDays"] # {}
HasPaymentOffset(c) == c.offset["paymentOffsetMonths"] \cup c.offset["paymentOffsetDays"] # {}
HasOffset(c) == HasFilingOffset(c) \/ HasPaymentOffset(c)
DecideStrategy(c) ==
    IF c.declared = "fixed" THEN IF HasFixed(c) THEN "fixed" ELSE "incomplete"
    ELSE IF c.declared = "period_offset"
         THEN IF HasFilingOffset(c) THEN "period_offset" ELSE "incomplete"
    ELSE IF HasFixed(c) /\ HasOffset(c) THEN "ambiguous"
    ELSE IF HasFixed(c) THEN "fixed"
    ELSE IF HasFilingOffset(c) THEN "period_offset"
    ELSE IF HasOffset(c) /\ ~c.badOffsets THEN "incomplete" ELSE "none"
ExpectedFixedDates == "annual" :> 1 @@ "bi-annual" :> 2 @@ "quarterly" :> 4
ColumnRemarks(c, strategy, periodicity) ==
    {r \in {"unused offsets", "unused dates", "count of dates"} :
        \/ r = "unused offsets" /\ c.declared = "fixed" /\ strategy = "fixed" /\ HasOffset(c)
        \/ r = "unused dates" /\ c.declared = "period_offset" /\ strategy = "period_offset" /\ HasFixed(c)
        \/ /\ r = "count of dates" /\ strategy = "fixed" /\ ~c.badDates
           /\ periodicity \in DOMAIN ExpectedFixedDates
           /\ ExpectedFixedDates[periodicity] # Len(c.dates)}

ValueOr(found) == IF found = {} THEN 0 ELSE CHOOSE n \in found : TRUE
MonthsAndDays(c, months, days) == <<ValueOr(c.offset[months]), ValueOr(c.offset[days])>>
DeadlineRule(c, type, dates, paydates, filing, payment) ==
    [type |-> type, weekend |-> c.weekend, start |-> c.start, dates |-> dates, paydates |-> paydates,
     filing |-> filing, payment |-> payment, extra |-> 0, readable |-> TRUE]
ReadDeadlineRule(c, strategy) ==
    IF strategy = "fixed" THEN DeadlineRule(c, "fixed", c.dates, c.paydates, <<>>, <<>>)
    ELSE IF strategy = "period_offset"
    THEN DeadlineRule(c, "period_offset", <<>>, <<>>,
                      MonthsAndDays(c, "filingOffsetMonths", "filingOffsetDays"),
                      IF HasPaymentOffset(c)
                      THEN MonthsAndDays(c, "paymentOffsetMonths", "paymentOffsetDays") ELSE <<>>)
    ELSE DeadlineRule(c, "", <<>>, <<>>, <<>>, <<>>)

-----------------------------------------------------------------------------
(***************************************************************************)
(* Drafts: the fields the file speaks of, what it says of each, and        *)
(* whether the row is refused as it stands.                                *)
(***************************************************************************)
ObligationText(row, field) ==
    IF field = "currency" THEN ReadCurrency(CellOf(row, field)) ELSE ReadText(CellOf(row, field))
ObligationFails(row, c, strategy) ==
    \/ \E f \in {"entity", "obligationType"} : FailsRequired(row, f, ReadText(CellOf(row, f)))
    \/ \E f \in ObligationTexts : Failed(ObligationText(row, f))
    \/ FailsRequired(row, "periodicity", ReadEnum(CellOf(row, "periodicity"), PeriodicityVocab))
    \/ ColumnsFail(row, c) \/ strategy \in {"incomplete", "ambiguous"}
ObligationDraft(row, c, strategy, periodicity) ==
    [spoke |-> DOMAIN row \cap ObligationFields,
     entity |-> Or(ReadText(CellOf(row, "entity")), NoText),
     type |-> Or(ReadText(CellOf(row, "obligationType")), NoText),
     values |-> [f \in ObligationTexts \cup {"periodicity"} |->
                    IF f = "periodicity" THEN periodicity ELSE Or(ObligationText(row, f), NoText)],
     rule |-> ReadDeadlineRule(c, strategy),
     fails |-> ObligationFails(row, c, strategy),
     remarks |-> ColumnRemarks(c, strategy, periodicity)]
ObligationUnder(row, c) ==
    ObligationDraft(row, c, DecideStrategy(c),
                    Or(ReadEnum(CellOf(row, "periodicity"), PeriodicityVocab), ""))
ReadObligationRow(row) == ObligationUnder(row, ReadDeadlineColumns(row))

FiscalIn(row, field) == ReadEnum(CellOf(row, field), FiscalVocab(field))
\* A blank cell under one of the enumerations that have a default says nothing.
\* Seeded fault: a blank cell speaks.
SpeaksByColumn(row) == DOMAIN row \cap EntityFields
Speaks(row) ==
    (DOMAIN row \cap EntityFields) \ {f \in FiscalEnums : FiscalIn(row, f).is # "value"}
EntityText(row, field) == Or(ReadText(CellOf(row, field)), NoText)
SelfParent(row) ==
    /\ NormalizeKey(EntityText(row, "parent")) = NormalizeKey(EntityText(row, "name"))
    /\ NormalizeKey(EntityText(row, "name")) # ""
EntityFails(row) ==
    \/ \E f \in {"name", "country"} : FailsRequired(row, f, ReadText(CellOf(row, f)))
    \/ \E f \in EntityTexts \cup {"parent"} : Failed(ReadText(CellOf(row, f)))
    \/ \E f \in FiscalEnums : Failed(FiscalIn(row, f))
    \/ Or(FiscalIn(row, "fiscalCalendarPattern"), "") = "custom"
    \/ Failed(ReadMonthDay(CellOf(row, "financialYearEnd"))) \/ SelfParent(row)
ReadEntityRow(row) ==
    [spoke |-> Speaks(row),
     parent |-> IF SelfParent(row) THEN NoText ELSE EntityText(row, "parent"),
     values |-> [f \in EntityFields \ {"parent"} |->
                    IF f \in FiscalEnums THEN Or(FiscalIn(row, f), DefaultOf[f])
                    ELSE IF f = "financialYearEnd" THEN Or(ReadMonthDay(CellOf(row, f)), <<>>)
                    ELSE EntityText(row, f)],
     fails |-> EntityFails(row), remarks |-> {}]

-----------------------------------------------------------------------------
(***************************************************************************)
(* What an update would change, and what a commit writes: two readings of  *)
(* one merge.                                                              *)
(***************************************************************************)
TextFields == EntityTexts \cup ObligationTexts
Same(field, a, b) == IF field \in TextFields THEN SameText(a, b) ELSE a = b
Moved(draft, stored) ==
    {f \in DOMAIN draft.values \cap draft.spoke : ~Same(f, stored.values[f], draft.values[f])}
ChangeSet(draft, stored) ==
    [f \in Moved(draft, stored) |-> [from |-> stored.values[f], to |-> draft.values[f]]]
\* Seeded fault: the file replaces the record.
ReplaceValues(draft, stored) == [f \in DOMAIN draft.values |-> draft.values[f]]
MergeValues(draft, stored) ==
    [f \in DOMAIN draft.values |->
        IF f \in draft.spoke THEN draft.values[f] ELSE stored.values[f]]

DescribesRule(draft) == draft.rule.type # ""
PartialRule(draft) == ~DescribesRule(draft) /\ (draft.rule.start # <<>> \/ draft.rule.weekend # "")
\* Seeded fault: what the file says of deadlines is the rule.
ReplaceRule(draft, stored) == [draft.rule EXCEPT !.extra = stored.extra]
MergedRule(draft, stored) ==
    IF ~DescribesRule(draft) THEN stored
    ELSE [draft.rule EXCEPT
             !.weekend = IF "weekendAdjustment" \in draft.spoke THEN @ ELSE stored.weekend,
             !.start = IF "periodStart" \in draft.spoke THEN @ ELSE stored.start,
             !.extra = stored.extra]
\* A rule that cannot be decoded reads as none for the plan; the commit refuses it.
DecodeRule(stored) == IF stored.readable THEN stored ELSE NoRule
StoredSchedules(stored) == ~stored.readable \/ stored.type # ""
SameRule(rule, stored) == rule = stored

(***************************************************************************)
(* The sentence a rule is shown by, by its parts: none is no sentence.     *)
(***************************************************************************)
Told(rule) ==
    {p \in {"dates", "paydates"} : rule.type = "fixed" /\ rule[p] # <<>>}
    \cup {p \in {"filing", "payment"} : rule.type = "period_offset" /\ rule[p] # <<>>}
    \cup {p \in {"start"} : rule[p] # <<>>} \cup {p \in {"weekend"} : rule[p] \notin {"", "none"}}
    \cup {p \in {"extra"} : rule[p] # 0}
DescribeRule(rule) ==
    IF rule.readable THEN [p \in Told(rule) |-> rule[p]] ELSE [stored |-> rule]
SaysNothing(rule) == rule.readable /\ Told(rule) = {}
RuleChange(merged, stored) ==
    IF SameRule(merged, stored) THEN <<>> ELSE <<DescribeRule(stored), DescribeRule(merged)>>

-----------------------------------------------------------------------------
(***************************************************************************)
(* The plan of a file.  What is stored is a set of entities, of obligation *)
(* types and of obligations; `writable' is whether the caller may write a  *)
(* record.  A planned row has an action, the record it is about, the       *)
(* changes it shows, and remarks.                                          *)
(***************************************************************************)
Planned(action, target, fields, rest, remarks) ==
    [action |-> action, target |-> target, fields |-> fields, rest |-> rest, remarks |-> remarks]
InvalidRow == Planned("invalid", {}, <<>>, <<>>, {})
CreateRow(remarks) == Planned("create", {}, <<>>, <<>>, remarks)
PlanChange(target, fields, rest, remarks) ==
    IF DOMAIN fields = {} /\ rest = <<>> THEN Planned("unchanged", {target}, fields, rest, remarks)
    ELSE IF ~target.writable THEN InvalidRow
    ELSE Planned("update", {target}, fields, rest, remarks)
The(S) == CHOOSE x \in S : \A y \in S : x.id <= y.id

EntitiesByKey(stored, key) ==
    {e \in stored.entities : key # "" /\ NormalizeKey(e.values["name"]) = key}
TypesByKey(stored, key) == {t \in stored.types : key \in {t.code, t.name}}
Resolves(draft, stored) ==
    /\ Cardinality(EntitiesByKey(stored, NormalizeKey(draft.entity))) = 1
    /\ Cardinality(TypesByKey(stored, NormalizeKey(draft.type))) = 1
PairOf(draft, stored) ==
    <<The(EntitiesByKey(stored, NormalizeKey(draft.entity))).id,
      The(TypesByKey(stored, NormalizeKey(draft.type))).id>>

KeyOf(draft) == <<NormalizeKey(draft.entity), NormalizeKey(draft.type)>>
\* The last row that means a pair is the one the pair is found under.
FoundUnder(drafts, stored, pair) ==
    LET rows == {k \in DOMAIN drafts : Resolves(drafts[k], stored) /\ PairOf(drafts[k], stored) = pair}
    IN  {KeyOf(drafts[k]) : k \in {j \in rows : \A i \in rows : i <= j}}
ObligationsByPair(drafts, stored, draft) ==
    {o \in stored.obligations : KeyOf(draft) \in FoundUnder(drafts, stored, <<o.entity, o.type>>)}

DeadlineRemarks(draft, found) ==
    IF DescribesRule(draft) THEN {}
    ELSE IF found = {} THEN {"no deadline rule"}
    ELSE IF ~StoredSchedules(The(found).rule) THEN {"still no deadline rule"}
    ELSE IF PartialRule(draft) /\ ~SaysNothing(The(found).rule) THEN {"rule kept"} ELSE {}
PlanObligation(draft, stored, found) ==
    IF found # {}
    THEN PlanChange(The(found), ChangeSet(draft, The(found)),
                    RuleChange(MergedRule(draft, DecodeRule(The(found).rule)), The(found).rule),
                    draft.remarks \cup DeadlineRemarks(draft, found))
    ELSE IF MissingOnCreate("obligations", draft.spoke) # {}
            \/ ~The(EntitiesByKey(stored, NormalizeKey(draft.entity))).writable
         THEN InvalidRow ELSE CreateRow(draft.remarks \cup DeadlineRemarks(draft, found))
PlanObligationRow(drafts, n, stored) ==
    IF (\E k \in 1 .. n - 1 : KeyOf(drafts[k]) = KeyOf(drafts[n]))
       \/ ~Resolves(drafts[n], stored) \/ drafts[n].fails
    THEN InvalidRow
    ELSE PlanObligation(drafts[n], stored, ObligationsByPair(drafts, stored, drafts[n]))
PlanObligations(drafts, stored) ==
    [n \in DOMAIN drafts |-> PlanObligationRow(drafts, n, stored)]

(***************************************************************************)
(* Entities.  Loops and scopes are the matter of Register: here a parent   *)
(* is a record, or a row of the file.                                      *)
(***************************************************************************)
NewId(n) == 100 + n
Nowhere == -1
NameOf(draft) == NormalizeKey(draft.values["name"])
RowsNamed(drafts, key) == {n \in DOMAIN drafts : NameOf(drafts[n]) = key}
FirstNamed(drafts, key) == CHOOSE n \in RowsNamed(drafts, key) : \A k \in RowsNamed(drafts, key) : n <= k
ResolveParent(draft, drafts, stored) ==
    LET key == NormalizeKey(draft.parent)
    IN  IF key = "" THEN 0
        ELSE IF Cardinality(EntitiesByKey(stored, key)) = 1 THEN The(EntitiesByKey(stored, key)).id
        ELSE IF RowsNamed(drafts, key) # {} THEN NewId(FirstNamed(drafts, key)) ELSE Nowhere
MergeParent(draft, parent, target) == IF "parent" \in draft.spoke THEN parent ELSE target.parent
ParentChange(draft, parent, target) ==
    IF "parent" \in draft.spoke /\ parent # target.parent THEN <<target.parent, parent>> ELSE <<>>
PlanEntity(draft, parent, found) ==
    IF draft.fails \/ parent = Nowhere \/ Cardinality(found) > 1 THEN InvalidRow
    ELSE IF found # {}
    THEN PlanChange(The(found), ChangeSet(draft, The(found)),
                    ParentChange(draft, parent, The(found)), draft.remarks)
    ELSE IF MissingOnCreate("entities", draft.spoke) # {} THEN InvalidRow ELSE CreateRow(draft.remarks)
PlanEntityRow(drafts, n, stored) ==
    IF NameOf(drafts[n]) = "" \/ FirstNamed(drafts, NameOf(drafts[n])) # n THEN InvalidRow
    ELSE PlanEntity(drafts[n], ResolveParent(drafts[n], drafts, stored),
                    EntitiesByKey(stored, NameOf(drafts[n])))
PlanEntities(drafts, stored) == [n \in DOMAIN drafts |-> PlanEntityRow(drafts, n, stored)]

-----------------------------------------------------------------------------
(***************************************************************************)
(* The commit: all of the plan, or nothing.  It reads what is stored       *)
(* again, and writes whole records.                                        *)
(***************************************************************************)
RefusesCommit(plan, kind) ==
    \E n \in DOMAIN plan :
        \/ plan[n].action = "invalid"
        \/ kind = "obligations" /\ plan[n].action = "update" /\ ~The(plan[n].target).rule.readable
MergeObligation(draft, target) ==
    [target EXCEPT !.values = MergeValues(draft, target), !.rule = MergedRule(draft, target.rule)]
MergeEntity(draft, parent, target) ==
    [target EXCEPT !.values = MergeValues(draft, target), !.parent = MergeParent(draft, parent, target)]
CreatedObligation(draft, n, pair) ==
    [id |-> NewId(n), entity |-> pair[1], type |-> pair[2], writable |-> TRUE,
     values |-> draft.values, rule |-> draft.rule]
CreatedEntity(draft, n, parent) ==
    [id |-> NewId(n), parent |-> parent, writable |-> TRUE, values |-> draft.values]

With(plan, action) == {n \in DOMAIN plan : plan[n].action = action}
ApplyObligations(drafts, plan, stored) ==
    (stored.obligations \ {The(plan[n].target) : n \in With(plan, "update")})
    \cup {MergeObligation(drafts[n], The(plan[n].target)) : n \in With(plan, "update")}
    \cup {CreatedObligation(drafts[n], n, PairOf(drafts[n], stored)) : n \in With(plan, "create")}
ApplyEntities(drafts, plan, stored) ==
    (stored.entities \ {The(plan[n].target) : n \in With(plan, "update")})
    \cup {MergeEntity(drafts[n], ResolveParent(drafts[n], drafts, stored), The(plan[n].target)) :
             n \in With(plan, "update")}
    \cup {CreatedEntity(drafts[n], n, ResolveParent(drafts[n], drafts, stored)) :
             n \in With(plan, "create")}

DraftsOf(kind, rows) ==
    [n \in DOMAIN rows |->
        IF kind = "entities" THEN ReadEntityRow(rows[n]) ELSE ReadObligationRow(rows[n])]
PlanFile(kind, drafts, stored) ==
    IF kind = "entities" THEN PlanEntities(drafts, stored) ELSE PlanObligations(drafts, stored)
CommitFile(kind, drafts, plan, stored) ==
    IF RefusesCommit(plan, kind) THEN stored
    ELSE IF kind = "entities" THEN [stored EXCEPT !.entities = ApplyEntities(drafts, plan, stored)]
    ELSE [stored EXCEPT !.obligations = ApplyObligations(drafts, plan, stored)]

-----------------------------------------------------------------------------
(***************************************************************************)
(* The question: a file, and what is stored.                               *)
(***************************************************************************)
CONSTANT Imports    \* sets of files, each with the registers they are read against

\* Identifiers are drawn anew: those of a file are none of the stored ones.
Identified(records) ==
    /\ IsFiniteSet(records)
    /\ \A r \in records : r.id \in 0 .. NewId(0)
    /\ \A r, s \in records : r.id = s.id => r = s
EntityForm(e) ==
    /\ e = [id |-> e.id, parent |-> e.parent, writable |-> e.writable, values |-> e.values]
    /\ DOMAIN e.values = EntityFields \ {"parent"}
RuleForm(rule) ==
    /\ rule = [type |-> rule.type, weekend |-> rule.weekend, start |-> rule.start, dates |-> rule.dates,
               paydates |-> rule.paydates, filing |-> rule.filing, payment |-> rule.payment,
               extra |-> rule.extra, readable |-> rule.readable]
    /\ rule.type \in {"", "fixed", "period_offset"} /\ rule.readable \in BOOLEAN
ObligationForm(o) ==
    /\ o = [id |-> o.id, entity |-> o.entity, type |-> o.type, writable |-> o.writable,
            values |-> o.values, rule |-> o.rule]
    /\ DOMAIN o.values = ObligationTexts \cup {"periodicity"} /\ RuleForm(o.rule)
ASSUME ImportsAssumption ==
    \A family \in Imports :
        /\ family.kind \in {"entities", "obligations"}
        /\ \A rows \in family.files : Len(rows) \in Nat /\ DOMAIN rows = 1 .. Len(rows)
        /\ \A stored \in family.stored :
              /\ stored = [entities |-> stored.entities, types |-> stored.types,
                           obligations |-> stored.obligations]
              /\ Identified(stored.entities) /\ Identified(stored.types) /\ Identified(stored.obligations)
              /\ \A e \in stored.entities : EntityForm(e)
              /\ \A o \in stored.obligations : ObligationForm(o)

AskImport ==
    /\ asked = Nothing
    /\ \E family \in Imports : \E rows \in family.files, stored \in family.stored :
          asked' = [about |-> "import",
                    import |-> [kind |-> family.kind, rows |-> rows, stored |-> stored]]
ImportSpec == asked = Nothing /\ [][AskImport]_asked

RecordsOf(kind, stored) == IF kind = "entities" THEN stored.entities ELSE stored.obligations
ById(records, id) == CHOOSE r \in records : r.id = id
\* One obligation type by its code in one row and by its name in another: two
\* keys, and a file that the plan takes for two obligations.
SpelledTwice(drafts, stored) ==
    \E j, k \in DOMAIN drafts :
        /\ Resolves(drafts[j], stored) /\ Resolves(drafts[k], stored)
        /\ KeyOf(drafts[j]) # KeyOf(drafts[k]) /\ PairOf(drafts[j], stored) = PairOf(drafts[k], stored)
\* What dates are computed from: "none" moves no weekend, and a rule of one
\* strategy may have been stored with values of the other.
Idle(rule) ==
    (IF rule.type = "fixed" THEN {} ELSE {"dates", "paydates"})
    \cup (IF rule.type = "period_offset" THEN {} ELSE {"filing", "payment"})
Effective(rule) ==
    [p \in DOMAIN rule \ Idle(rule) |-> IF p = "weekend" /\ rule[p] = "none" THEN "" ELSE rule[p]]

FieldsAsShown(planned, draft, before, now) ==
    \A f \in DOMAIN before.values :
        IF f \in DOMAIN planned.fields
        THEN now.values[f] = planned.fields[f].to /\ before.values[f] = planned.fields[f].from
        ELSE /\ Same(f, now.values[f], before.values[f])
             /\ f \notin draft.spoke => now.values[f] = before.values[f]
RuleAsShown(planned, before, now) ==
    /\ planned.rest = <<>> => now = before
    /\ planned.rest # <<>> =>
          /\ planned.rest = <<DescribeRule(before), DescribeRule(now)>>
          /\ planned.rest[1] # planned.rest[2] \/ Effective(before) = Effective(now)
    /\ before.type # "" => now.type # ""
    /\ now.extra = before.extra
ParentAsShown(planned, before, now) == planned.rest = IF before = now THEN <<>> ELSE <<before, now>>
AsShown(kind, planned, draft, before, now) ==
    /\ planned.action = "unchanged" => now = before
    /\ FieldsAsShown(planned, draft, before, now)
    /\ IF kind = "entities" THEN ParentAsShown(planned, before.parent, now.parent)
       ELSE RuleAsShown(planned, before.rule, now.rule)

\* A stored rule that has a strategy and none of its values has no sentence: of the
\* deadline cells a row fills without describing a rule, nobody is told.
Hollow(rule) == rule.type # "" /\ SaysNothing(rule)
\* What a deadline cell says is in the rule, or the row has a remark.
OffsetApplied(row, field, rule) ==
    LET read == OffsetIn(row, field)
        pair == IF field \in {"filingOffsetMonths", "filingOffsetDays"} THEN rule.filing ELSE rule.payment
    IN  read.is = "value" =>
            /\ rule.type = "period_offset" /\ pair # <<>>
            /\ pair[IF OffsetMax(field) = OffsetMonthsMax THEN 1 ELSE 2] \in read.value
CellsApplied(row, rule) ==
    /\ \A f \in Offsets : OffsetApplied(row, f, rule)
    /\ Or(DatesIn(row, "fixedDates"), <<>>) \in {<<>>, rule.dates}
    /\ Or(DatesIn(row, "paymentFixedDates"), <<>>) \in {<<>>, rule.paydates}
    /\ Or(ReadMonthDay(CellOf(row, "periodStart")), <<>>) \in {<<>>, rule.start}
    /\ Or(ReadEnum(CellOf(row, "weekendAdjustment"), WeekendVocab), "") \in {"", rule.weekend}
    /\ Or(ReadEnum(CellOf(row, "deadlineType"), DeadlineTypeVocab), "") \in {"", rule.type}

\* A blank cell never puts a default in the place of a value.
DefaultsKept(row, before, now) ==
    \A f \in FiscalEnums :
        Is(CellOf(row, f), "blank") => now.values[f] = before.values[f]

RowsAsShown(kind, rows, drafts, plan, before, after) ==
    \A n \in DOMAIN plan :
        plan[n].target # {} =>
            /\ AsShown(kind, plan[n], drafts[n], The(plan[n].target),
                       ById(RecordsOf(kind, after), The(plan[n].target).id))
            /\ kind = "entities" =>
                   DefaultsKept(rows[n], The(plan[n].target), ById(after.entities, The(plan[n].target).id))
            /\ kind = "obligations" =>
                   \/ plan[n].remarks # {}
                   \/ ~DescribesRule(drafts[n]) /\ Hollow(The(plan[n].target).rule)
                   \/ CellsApplied(rows[n], ById(after.obligations, The(plan[n].target).id).rule)
OnlyRowsWritten(kind, plan, before, after) ==
    LET planned == UNION {plan[n].target : n \in DOMAIN plan}
    IN  /\ RecordsOf(kind, before) \ planned \subseteq RecordsOf(kind, after)
        /\ Cardinality(RecordsOf(kind, after)) =
               Cardinality(RecordsOf(kind, before)) + Cardinality(With(plan, "create"))
OneOfAType(obligations) ==
    \A o, p \in obligations : <<o.entity, o.type>> = <<p.entity, p.type>> => o = p
Settles(kind, drafts, after) ==
    \A n \in DOMAIN drafts : PlanFile(kind, drafts, after)[n].action = "unchanged"
Committed(kind, rows, drafts, plan, before, after) ==
    ~RefusesCommit(plan, kind) =>
        /\ RowsAsShown(kind, rows, drafts, plan, before, after)
        /\ OnlyRowsWritten(kind, plan, before, after)
        /\ \/ kind = "obligations" /\ SpelledTwice(drafts, before)
           \/ /\ OneOfAType(before.obligations) => OneOfAType(after.obligations)
              /\ Settles(kind, drafts, after)
Planning(kind, rows, drafts, plan, before) ==
    Committed(kind, rows, drafts, plan, before, CommitFile(kind, drafts, plan, before))
Drafting(kind, rows, drafts, before) ==
    Planning(kind, rows, drafts, PlanFile(kind, drafts, before), before)

(***************************************************************************)
(* changes.go has a dry run and a commit that cannot drift: what a commit  *)
(* writes is what the plan showed, from the value that was there to the    *)
(* value that is.  What the file does not speak of stays as it is, a rule  *)
(* is never erased or half replaced, a deadline cell is applied or         *)
(* remarked on, no second obligation of a type appears, and the same file  *)
(* again changes nothing.                                                  *)
(***************************************************************************)
PreviewIsEffect ==
    asked.about = "import" =>
        Drafting(asked.import.kind, asked.import.rows,
                 DraftsOf(asked.import.kind, asked.import.rows), asked.import.stored)
=============================================================================
