------------------------------ MODULE Segments ------------------------------
(***************************************************************************)
(* The files of the audit export and their readers: an entry of the chain  *)
(* and its hash (platform/audit), the document a cut writes and the checks *)
(* of one file and of a series (platform/audit/worm), and the verdict of   *)
(* the command an auditor runs (cmd/verify-audit-segment).                 *)
(*                                                                         *)
(* What is compared for equality only is a number: an id, an instant, an   *)
(* action, a credential.  Absent from the documents: the object key, the   *)
(* recipe, and the form of JSON.                                           *)
(***************************************************************************)
EXTENDS Integers, Sequences, FiniteSets, Questions

CONSTANTS
    Histories,     \* what happened to a chain: sequences of events
    SegmentCaps,   \* values of MaxEntriesPerSegment
    Sha(_)         \* sha256 of a text, a sequence of integers

\* An event is done by a build: it writes an entry, or cuts a segment.
ASSUME SegmentsAssumption ==
    /\ \A h \in Histories : h \in Seq([do : {"write", "cut"}, version : 1 .. 3, seals : BOOLEAN])
    /\ SegmentCaps \subseteq Nat \ {0, 1}

-----------------------------------------------------------------------------
(***************************************************************************)
(* An entry of the chain.                                                  *)
(***************************************************************************)
GenesisHash == 0
HashVersionNanosecond == 1
HashVersionMicrosecond == 2
HashVersionCredential == 3
CurrentHashVersion == HashVersionCredential

\* Version 0 is one that was not read.
HashesCredential(version) == version = 0 \/ version >= HashVersionCredential
IsPreCutover(version) == 0 < version /\ version < HashVersionMicrosecond

\* Details: an export record, or those of another action.  The header of a
\* record has the fields that are stated.
Exported == 1
Plain == [segmentSeq |-> 0, from |-> 0, to |-> 0, entries |-> 0, header |-> <<>>]
SealedFields == <<"segmentId", "exportedAt", "previousDigest", "preCutoverThroughSeq">>
SealedAll == {SealedFields[i] : i \in DOMAIN SealedFields}

DetailsText(d) ==
    <<d.segmentSeq, d.from, d.to, d.entries>>
      \o [i \in DOMAIN SealedFields |->
             IF SealedFields[i] \in DOMAIN d.header THEN d.header[SealedFields[i]] ELSE -1]

HashedFields(e, version) ==
    <<e.prevHash, e.tenant, e.seq, e.action, e.at>> \o DetailsText(e.details)
      \o (IF HashesCredential(version) THEN <<e.credential>> ELSE <<>>)

ComputeHash(e) == Sha(HashedFields(e, e.version))

\* The oldest builds hashed nanoseconds that no row keeps.
WrittenHash(e) ==
    IF IsPreCutover(e.version) THEN Sha(HashedFields(e, e.version) \o <<500>>) ELSE ComputeHash(e)

\* Recorder.Record.  Every tenth of the numbers is an instant.
Recorded(chain, tenant, version, action, credential, details) ==
    LET e == [seq |-> Len(chain) + 1, tenant |-> tenant, action |-> action,
              at |-> 10 * (Len(chain) + 1), details |-> details,
              credential |-> IF HashesCredential(version) THEN credential ELSE 0,
              prevHash |-> IF chain = <<>> THEN GenesisHash ELSE chain[Len(chain)].hash,
              version |-> version, hash |-> 0]
    IN  Append(chain, [e EXCEPT !.hash = WrittenHash(e)])

\* Verify, from seq 1 on: how many entries could only be link-checked, or -1.
VerifyAudit(chain) ==
    LET pre == {i \in DOMAIN chain : IsPreCutover(chain[i].version)} IN
    IF \A i \in DOMAIN chain :
          /\ chain[i].seq = i
          /\ chain[i].prevHash = IF i = 1 THEN GenesisHash ELSE chain[i - 1].hash
          /\ chain[i].version <= CurrentHashVersion
          /\ IF i \in pre THEN 1 .. i \subseteq pre ELSE ComputeHash(chain[i]) = chain[i].hash
    THEN Cardinality(pre) ELSE -1
VerifyChain(chain) == VerifyAudit(chain) = 0

-----------------------------------------------------------------------------
(***************************************************************************)
(* The document of a segment, and its file.                                *)
(***************************************************************************)
FormatVersion == 1
NoSegment == <<>>

\* Build, before it verifies what it built.
Document(header, tenant, entries) ==
    LET first == entries[1]
        last == entries[Len(entries)]
    IN  [formatVersion |-> FormatVersion, segmentId |-> header.id, segmentSeq |-> header.seq,
         tenant |-> tenant, exportedAt |-> header.exportedAt,
         from |-> first.seq, to |-> last.seq, count |-> Len(entries),
         firstAt |-> first.at, lastAt |-> last.at,
         startPrevHash |-> header.start, endHash |-> last.hash,
         genesis |-> header.start = GenesisHash,
         previous |-> header.previous, entries |-> entries]

EntryText(e) == HashedFields(e, CurrentHashVersion) \o <<e.hash, e.version>>
PreviousText(p) ==
    IF p = NoSegment THEN <<>> ELSE <<p.segmentId, p.segmentSeq, p.toSeq, p.endHash, p.digest>>

\* Of the bytes of the segment.
Digest(doc) ==
    Sha(<<doc.formatVersion, doc.segmentId, doc.segmentSeq, doc.tenant, doc.exportedAt, doc.from,
          doc.to, doc.count, doc.firstAt, doc.lastAt, doc.startPrevHash, doc.endHash,
          IF doc.genesis THEN 1 ELSE 0>>
          \o PreviousText(doc.previous)
          \o [i \in DOMAIN doc.entries |-> Sha(EntryText(doc.entries[i]))])

Sealed(doc) == [segment |-> doc, digest |-> Digest(doc)]

-----------------------------------------------------------------------------
(***************************************************************************)
(* VerifyDocument.  A report is that of a document which passes.           *)
(***************************************************************************)
Refused == [passes |-> FALSE]

ClaimsFit(doc) ==
    /\ doc.formatVersion = FormatVersion
    /\ doc.entries # <<>> /\ doc.count = Len(doc.entries)
    /\ doc.genesis <=> doc.startPrevHash = GenesisHash
    /\ doc.genesis => doc.from = 1
    /\ doc.previous # NoSegment => /\ doc.previous.toSeq + 1 = doc.from
                                   /\ doc.previous.endHash = doc.startPrevHash

\* Entries the verifier cannot recompute lead the file.
EntriesFit(doc) ==
    \A i \in DOMAIN doc.entries :
       LET e == doc.entries[i] IN
       /\ e.seq = doc.from + i - 1 /\ e.tenant = doc.tenant
       /\ e.prevHash = IF i = 1 THEN doc.startPrevHash ELSE doc.entries[i - 1].hash
       /\ e.version <= CurrentHashVersion
       /\ IF IsPreCutover(e.version)
          THEN \A k \in 1 .. i : IsPreCutover(doc.entries[k].version)
          ELSE ComputeHash(e) = e.hash

EndsFit(doc) ==
    LET first == doc.entries[1]
        last == doc.entries[Len(doc.entries)]
    IN  /\ doc.to = last.seq /\ doc.endHash = last.hash
        /\ doc.firstAt = first.at /\ doc.lastAt = last.at

\* position: five statements that are one.
PositionFits(doc) ==
    IF doc.genesis THEN doc.segmentSeq = 1 /\ doc.previous = NoSegment
    ELSE /\ doc.segmentSeq >= 2 /\ doc.previous # NoSegment
         /\ doc.previous.segmentSeq + 1 = doc.segmentSeq

ExportRecords(doc) ==
    {doc.entries[i].details : i \in {j \in DOMAIN doc.entries : doc.entries[j].action = Exported}}
NoConflict(records) == \A r, s \in records : r.segmentSeq = s.segmentSeq => r = s
RecordOf(records, seq) == {r \in records : r.segmentSeq = seq}

RangeAgrees(doc, r) == doc.from = r.from /\ doc.to = r.to /\ doc.count = r.entries
HeaderAgrees(doc, through, h) ==
    /\ doc.segmentId = h.segmentId /\ doc.exportedAt = h.exportedAt
    /\ h.previousDigest = IF doc.previous = NoSegment THEN 0 ELSE doc.previous.digest
    /\ through = h.preCutoverThroughSeq

\* Seeded fault: fields a record does not state read as empty.
CheckHeaderAsEmpty(doc, through, r) ==
    LET h == [f \in SealedAll |-> IF f \in DOMAIN r.header THEN r.header[f] ELSE 0]
    IN  IF RangeAgrees(doc, r) /\ HeaderAgrees(doc, through, h) THEN "sealed" ELSE "refused"
\* checkHeader: a record states the whole header or, before it was sealed, none.
CheckHeader(doc, through, r) ==
    CASE ~RangeAgrees(doc, r) -> "refused"
      [] RangeAgrees(doc, r) /\ DOMAIN r.header = {} -> "preSeal"
      [] RangeAgrees(doc, r) /\ DOMAIN r.header = SealedAll ->
            IF HeaderAgrees(doc, through, r.header) THEN "sealed" ELSE "refused"
      [] OTHER -> "refused"

HeaderOf(doc, through, own) ==
    IF own = {} THEN "none" ELSE CheckHeader(doc, through, CHOOSE r \in own : TRUE)

Reported(doc, pre, records) ==
    LET through == IF pre = 0 THEN 0 ELSE doc.from + pre - 1
        header == HeaderOf(doc, through, RecordOf(records, doc.segmentSeq))
    IN  IF ~NoConflict(records) \/ header = "refused" THEN Refused
        ELSE [passes |-> TRUE, doc |-> doc, digest |-> 0, pre |-> pre, through |-> through, header |-> header,
              proven |-> pre = 0 \/ doc.genesis]

VerifyDocument(doc) ==
    IF ClaimsFit(doc) /\ EntriesFit(doc) /\ EndsFit(doc) /\ PositionFits(doc)
    THEN Reported(doc, Cardinality({i \in DOMAIN doc.entries : IsPreCutover(doc.entries[i].version)}),
                  ExportRecords(doc))
    ELSE Refused

\* A series is verified by the digests of its files.
VerifyFile(file) ==
    LET report == VerifyDocument(file.segment) IN
    IF file.digest # Digest(file.segment) \/ ~report.passes THEN Refused
    ELSE [report EXCEPT !.digest = file.digest]

-----------------------------------------------------------------------------
(***************************************************************************)
(* VerifySeries.                                                           *)
(***************************************************************************)
Joins(prev, cur) ==
    /\ cur.tenant = prev.tenant /\ cur.segmentSeq = prev.segmentSeq + 1
    /\ cur.from = prev.to + 1 /\ cur.startPrevHash = prev.endHash

\* meets: the back-pointer names the very file.
Meets(prev, digest, p) ==
    /\ p # NoSegment
    /\ p.segmentSeq = prev.segmentSeq /\ p.segmentId = prev.segmentId
    /\ p.toSeq = prev.to /\ p.endHash = prev.endHash /\ p.digest = digest

\* anchorPreCutover: one run, from the beginning of the tenant's chain.
AnchorsPreCutover(reports) ==
    \A i \in DOMAIN reports :
       reports[i].pre > 0 =>
          /\ reports[1].doc.genesis
          /\ \A k \in 1 .. i - 1 : reports[k].pre = reports[k].doc.count

\* sealHeaders, of all records in the series.  A header without a record may
\* only be followed by others.
SealHeaders(reports, records) ==
    [i \in DOMAIN reports |->
        HeaderOf(reports[i].doc, reports[i].through, RecordOf(records, reports[i].doc.segmentSeq))]
HeadersFit(headers) ==
    \A i \in DOMAIN headers :
       /\ headers[i] # "refused"
       /\ headers[i] # "none" => \A k \in 1 .. i - 1 : headers[k] # "none"

SeriesReport(reports, records, headers) ==
    IF ~NoConflict(records) \/ ~HeadersFit(headers) THEN Refused
    ELSE [passes |-> TRUE, from |-> reports[1].doc.from, to |-> reports[Len(reports)].doc.to,
          genesis |-> reports[1].doc.genesis,
          through |-> CHOOSE n \in {reports[i].through : i \in DOMAIN reports} :
                         \A i \in DOMAIN reports : reports[i].through <= n,
          unsealed |-> {i \in DOMAIN headers : headers[i] = "none"},
          preSeal |-> {i \in DOMAIN headers : headers[i] = "preSeal"}]

VerifySeries(reports) ==
    IF /\ \A i \in 2 .. Len(reports) :
             /\ Joins(reports[i - 1].doc, reports[i].doc)
             /\ Meets(reports[i - 1].doc, reports[i - 1].digest, reports[i].doc.previous)
       /\ AnchorsPreCutover(reports)
    THEN LET records == UNION {ExportRecords(reports[i].doc) : i \in DOMAIN reports}
         IN  SeriesReport(reports, records, SealHeaders(reports, records))
    ELSE Refused

-----------------------------------------------------------------------------
(***************************************************************************)
(* verify-audit-segment: 0, everything asked for holds; 1, a check failed; *)
(* 2, nothing was checked.                                                 *)
(***************************************************************************)
Flags == {"series", "genesis", "strict", "sealed"}

\* sort.SliceStable by ordinal.
InOrder(reports) ==
    LET before(i, k) == \/ reports[i].doc.segmentSeq < reports[k].doc.segmentSeq
                        \/ reports[i].doc.segmentSeq = reports[k].doc.segmentSeq /\ i < k
        place(k) == Cardinality({i \in DOMAIN reports : before(i, k)}) + 1
    IN  [n \in DOMAIN reports |-> reports[CHOOSE k \in DOMAIN reports : place(k) = n]]

SeriesHolds(series, flags) ==
    series.passes /\ ("sealed" \in flags => series.unsealed = {} /\ series.preSeal = {})
EachHolds(reports, flags) ==
    \A i \in DOMAIN reports : /\ reports[i].proven
                              /\ "sealed" \in flags => reports[i].header = "sealed"

OrderedVerdict(reports, flags) ==
    IF /\ "genesis" \in flags => reports[1].doc.genesis
       /\ IF "series" \in flags THEN SeriesHolds(VerifySeries(reports), flags)
          ELSE EachHolds(reports, flags)
    THEN 0 ELSE 1

\* Once the files are read.
Verdict(reports, flags) ==
    IF reports = <<>> THEN 2
    ELSE IF \A i \in DOMAIN reports :
               reports[i].passes /\ ("strict" \in flags => reports[i].pre = 0)
         THEN OrderedVerdict(IF flags \cap {"series", "genesis"} # {} THEN InOrder(reports)
                             ELSE reports, flags)
         ELSE 1

-----------------------------------------------------------------------------
(***************************************************************************)
(* Exporter.cut, and what comes of a history of a chain.                   *)
(***************************************************************************)
\* previousOf the ledger's row.
PreviousOf(file) ==
    [segmentId |-> file.segment.segmentId, segmentSeq |-> file.segment.segmentSeq,
     toSeq |-> file.segment.to, endHash |-> file.segment.endHash, digest |-> file.digest]

PreCutoverThrough(chain, from, to) ==
    LET pre == {n \in DOMAIN chain \cap (from .. to) : IsPreCutover(chain[n].version)}
    IN  IF pre = {} THEN 0 ELSE CHOOSE n \in pre : \A m \in pre : m <= n

RecordDetails(header, from, to, through, seals) ==
    [segmentSeq |-> header.seq, from |-> from, to |-> to, entries |-> to - from + 1,
     header |-> IF ~seals THEN <<>> ELSE
                [segmentId |-> header.id, exportedAt |-> header.exportedAt,
                 previousDigest |-> IF header.previous = NoSegment THEN 0
                                    ELSE header.previous.digest,
                 preCutoverThroughSeq |-> through]]

\* A build refuses entries of a version it does not know.
Build(header, tenant, entries, build) ==
    LET doc == Document(header, tenant, entries) IN
    IF /\ \A i \in DOMAIN entries : entries[i].version <= build.version
       /\ VerifyDocument(doc).passes
    THEN <<Sealed(doc)>> ELSE <<>>

\* A refusal undoes the record as well.
CutRange(a, tenant, build, header, from, to) ==
    LET through == PreCutoverThrough(a.chain, from, to)
        details == RecordDetails(header, from, to, through, build.seals)
        chain == Recorded(a.chain, tenant, build.version, Exported, 0, details)
        built == Build(header, tenant, SubSeq(chain, from, to), build)
    IN  IF built = <<>> THEN a ELSE [chain |-> chain, files |-> a.files \o built]

Cut(a, cap, tenant, build) ==
    LET head == Len(a.chain)
        done == Len(a.files)
        last == IF done = 0 THEN NoSegment ELSE PreviousOf(a.files[done])
        from == IF done = 0 THEN 1 ELSE last.toSeq + 1
        to == IF head + 1 > from + cap - 1 THEN from + cap - 1 ELSE head + 1
        header == [id |-> 10 * done + 11, seq |-> done + 1, exportedAt |-> 10 * head + 12,
                   start |-> IF done = 0 THEN GenesisHash ELSE last.endHash, previous |-> last]
    IN  IF head < from THEN a ELSE CutRange(a, tenant, build, header, from, to)

Tenant == 1

\* A write is the `action' of somebody who holds a credential.
Did(a, cap, action, event) ==
    IF event.do = "cut" THEN Cut(a, cap, Tenant, event)
    ELSE [a EXCEPT !.chain = Recorded(@, Tenant, event.version, action, 7, Plain)]

Archive(history, cap, action) ==
    LET after[n \in 0 .. Len(history)] ==
            IF n = 0 THEN [chain |-> <<>>, files |-> <<>>]
            ELSE Did(after[n - 1], cap, action, history[n])
    IN  after[Len(history)]

AskSegments ==
    /\ asked = Nothing
    /\ \E h \in Histories, c \in SegmentCaps :
          asked' = [about |-> "segments", history |-> h, cap |-> c]
SegmentsSpec == asked = Nothing /\ [][AskSegments]_asked

-----------------------------------------------------------------------------
(***************************************************************************)
(* What a reader may conclude.  An archive is in order if the entries of   *)
(* its files that cannot be recomputed are the first of the chain.         *)
(***************************************************************************)
Unrecomputable(chain, from, to) == {n \in from .. to : IsPreCutover(chain[n].version)}
InOrderFrom(pre) == pre = 1 .. Cardinality(pre)

\* Where the chain has the record of segment k.
RecordAt(chain, k) ==
    CHOOSE n \in DOMAIN chain : chain[n].action = Exported /\ chain[n].details.segmentSeq = k

\* What a window of the files of a chain shows, by the chain itself.
WindowTold(chain, window, series) ==
    LET from == window[1].doc.from
        to == window[Len(window)].doc.to
        pre == Unrecomputable(chain, from, to)
        recordOf(i) == RecordAt(chain, window[i].doc.segmentSeq)
        seen == {i \in DOMAIN window : recordOf(i) <= to}
    IN  /\ series.passes <=> InOrderFrom(pre)
        /\ series.passes =>
              /\ series.through = Cardinality(pre)
              /\ series.unsealed = DOMAIN window \ seen
              /\ series.preSeal = {i \in seen : chain[recordOf(i)].details.header = <<>>}

\* One thing of a document is not what was written.
PreviousDamages(doc) ==
    IF doc.previous = NoSegment THEN {}
    ELSE {[part |-> "previous", doc |-> [doc EXCEPT !.previous[f] = @ + 1]] : f \in DOMAIN doc.previous}
           \cup {[part |-> "previous", doc |-> [doc EXCEPT !.previous = NoSegment]]}
HeaderDamages(doc) ==
    {[part |-> p, doc |-> [doc EXCEPT ![p] = @ + 1]] :
        p \in {"formatVersion", "segmentId", "segmentSeq", "tenant", "exportedAt", "from", "to",
               "count", "firstAt", "lastAt", "startPrevHash", "endHash"}}
      \cup {[part |-> "genesis", doc |-> [doc EXCEPT !.genesis = ~@]],
            [part |-> "entries", doc |-> [doc EXCEPT !.entries = Tail(@)]]}
EntryDamages(doc, i) ==
    LET e == doc.entries[i]
        with(part, changed) == [part |-> part, entry |-> i, doc |-> [doc EXCEPT !.entries[i] = changed]]
    IN  {with(p, [e EXCEPT ![p] = @ + 1]) : p \in {"seq", "tenant", "at", "credential", "prevHash", "hash"}}
          \cup {with("version", [e EXCEPT !.version = v]) : v \in (0 .. 4) \ {e.version}}
          \cup {with("action", [e EXCEPT !.action = @ + 50]),
                with("details", [e EXCEPT !.details.to = @ + 1])}
Damages(doc) ==
    HeaderDamages(doc) \cup PreviousDamages(doc) \cup UNION {EntryDamages(doc, i) : i \in DOMAIN doc.entries}

\* What nothing binds in the newest file of a chain: an unsealed header; in an
\* entry, what its version does not hash; and that a version was read.  A record
\* that is followed by others is missed, and one that is changed disagrees.
UnboundInEntry(chain, header, d, n) ==
    LET was == chain[n].version
        now == d.doc.entries[d.entry].version
        later == {k \in n + 1 .. d.doc.to : chain[k].action = Exported}
    IN  \/ /\ d.part \in {"action", "details"} /\ IsPreCutover(was)
           /\ IF chain[n].action = Exported THEN d.part = "action" /\ later = {} ELSE TRUE
        \/ d.part = "at" /\ IsPreCutover(was) /\ 1 < d.entry /\ d.entry < d.doc.count
        \/ d.part = "credential" /\ ~HashesCredential(was)
        \/ d.part = "version" /\ now = 0 /\ HashesCredential(was)
        \/ /\ d.part = "version" /\ IsPreCutover(now) /\ header # "sealed"
           /\ Unrecomputable(chain, 1, n) = 1 .. n - 1
Unbound(chain, header, d) ==
    \/ d.part \in {"segmentId", "exportedAt"} /\ header # "sealed"
    \/ /\ d.part \in {"action", "details", "at", "credential", "version"}
       /\ UnboundInEntry(chain, header, d, d.doc.from + d.entry - 1)

\* A file with a damage passes in its series, its digest made to fit, only if
\* nothing binds what was damaged; with its own digest it passes nowhere.
DamageTold(chain, reports, headers) ==
    \A i \in DOMAIN reports : \A d \in Damages(reports[i].doc) :
       /\ VerifyFile([segment |-> d.doc, digest |-> reports[i].digest]) = Refused
       /\ Verdict([reports EXCEPT ![i] = VerifyFile(Sealed(d.doc))], {"series"}) = 0
            <=> i = Len(reports) /\ Unbound(chain, headers[i], d)

\* A file lost, doubled, or of a chain with another beginning.
FilesTold(chain, reports, others) ==
    LET n == Len(reports)
        without(i) == SubSeq(reports, 1, i - 1) \o SubSeq(reports, i + 1, n)
        passes(rs) == Verdict(rs, {"series"}) = 0
    IN  /\ \A i \in 2 .. n - 1 : ~passes(without(i))
        /\ \A i \in 1 .. n : ~passes(Append(reports, reports[i]))
        /\ n > 1 => \A i \in DOMAIN others \cap (1 .. n) : ~passes([reports EXCEPT ![i] = others[i]])

\* What the command says of files given in another order, under any flags.
VerdictTold(chain, reports, headers) ==
    \A flags \in SUBSET Flags :
       LET n == Len(reports)
           pre == Unrecomputable(chain, 1, reports[n].doc.to)
           holds == /\ "strict" \in flags => pre = {}
                    /\ "series" \notin flags => pre \subseteq 1 .. reports[1].doc.to
                    /\ "sealed" \in flags =>
                          IF "series" \in flags THEN \A i \in 1 .. n : headers[i] = "sealed"
                          ELSE \A i \in 1 .. n : /\ RecordAt(chain, i) <= reports[i].doc.to
                                                 /\ headers[i] = "sealed"
       IN  Verdict([i \in 1 .. n |-> reports[n + 1 - i]], flags) = IF holds THEN 0 ELSE 1

ArchiveTold(chain, reports, others) ==
    /\ \A i \in DOMAIN reports : \A k \in i .. Len(reports) :
          WindowTold(chain, SubSeq(reports, i, k), VerifySeries(SubSeq(reports, i, k)))
    /\ VerifyAudit(chain) =
          LET pre == Unrecomputable(chain, 1, Len(chain))
          IN  IF InOrderFrom(pre) THEN Cardinality(pre) ELSE -1
    /\ VerifyChain(chain) <=> Unrecomputable(chain, 1, Len(chain)) = {}
    /\ reports # <<>> /\ VerifySeries(reports).passes =>
          LET headers == SealHeaders(reports, UNION {ExportRecords(reports[i].doc) : i \in DOMAIN reports})
          IN  /\ DamageTold(chain, reports, headers)
              /\ FilesTold(chain, reports, others)
              /\ VerdictTold(chain, reports, headers)

\* What was exported can be read back: whatever builds wrote and cut a chain,
\* and whichever of its files are at hand, the checks of a file, of a series and
\* the command (segment.go:492, segment.go:897, main.go:87) pass what is intact,
\* say exactly how much of it is proven, and refuse what is not.
ArchivesVerify ==
    asked.about = "segments" =>
       LET a == Archive(asked.history, asked.cap, 21)
           twin == Archive(asked.history, asked.cap, 41)
           reportsOf(files) == [i \in DOMAIN files |-> VerifyFile(files[i])]
       IN  /\ \A i \in DOMAIN a.files : VerifyFile(a.files[i]).passes
           /\ ArchiveTold(a.chain, reportsOf(a.files), reportsOf(twin.files))
=============================================================================
