# Zentax API: specification and verification

Zentax is a multi-tenant tax-compliance API: a Go monolith over one Postgres
database and one object store. Companies keep their entities, obligations,
workflows and filings in it; filings are prepared by one person and approved by
another; all of it is written to an audit trail that is exported to write-once
storage. This directory holds TLA+ modules of the parts where steps of several
actors, failures and time decide whether the program is right, TLC
configurations that check them on small instances, and TLAPS proofs of the
statements that matter most for every size.

Line references are to files under `src/`.

## 1. How the program runs

There are two kinds of actors.

* **Requests.** A route that declares `Tenant` or `Tx` runs in ONE Postgres
  transaction at READ COMMITTED (`delivery/httpkit/middlewares/tx.go`,
  `platform/database/exec.go`); the routes of sign-in declare none, so each of
  their statements commits by itself. In both, a handler reads rows with plain
  SELECTs, decides on them in Go, and writes with an UPDATE whose WHERE is all
  the database will check again. An UPDATE waits for a row lock and then applies
  to whatever the row has become. Most of the hazards below have this shape.
* **Scheduled jobs.** Every process runs the scheduler; an advisory lock elects
  one to do the work. Its jobs are the delivery of the outbox, the pruning of
  it, the reminders, the audit export and the retention of security events.

There is little shared memory: the scheduler's flags, the rate limiter and the
verification gate. Everything else meets in Postgres and in the object store.

## 2. Inventory

| Component | State | Operations | Talks to | What makes it right |
|---|---|---|---|---|
| Outbox (`platform/outbox`) | rows with status, attempts, next attempt, dedupe key | enqueue, claim, send, settle, release, prune | producers (same transaction), mail transport, audit | nothing owed is lost, settled rows stay, late passes cannot hurt, one message per key |
| Scheduler (`platform/scheduler`) | advisory lock in a pinned session, cached leadership, run flags | probe, start, time out, abandon, stop | all jobs | one runner, no pile-up, bounded overlap after a loss, work goes on |
| Audit chain (`platform/audit`) | hash-chained entries per tenant | record | every writing request | no fork, no gap |
| Audit export (`platform/audit/worm`) and its readers (`cmd/verify-audit-segment`) | ledger of segments, files | cut, resume, upload, confirm; verify a file, a series | chain, object store | segments meet, files verify as a series, all is exported; what was exported reads back, what is damaged does not |
| Task instances (`modules/taskinstances`) | status, content, submitter, approver | update, submit, approve, reject, generate | workflows, documents (review lock), audit | separation of duties, an approval attests what was submitted and is final |
| Workflows, workflow tasks | templates, lifecycle | CRUD, start, delete with cascade | task instances, documents, reclaim queue | approved filings are not collateral of a delete; one start |
| Documents (`modules/documents`) | rows, versions, objects, reclaim queue | upload, new version, edit, soft delete, download | object store, task instances | versions and bytes agree, review lock, nothing unfindable |
| Identity: sign-in (`modules/identity`) | lockout counter, sessions, TOTP secret, code budget | login, verify, enroll, enable, logout, disable | rate limits | budgets hold under concurrency, dead sessions stay dead |
| Identity: members, service accounts, tokens | users, grants, invites, tokens, an advisory lock | invite, reissue, accept, update, grants, issue, revoke | sign-in, audit, outbox | an admin remains, whoever is active can sign in, an invite is used once, a disable leaves nothing behind |
| Imports (`modules/imports`) | batches and planned rows | read a file, dry run, commit | entities, obligations, audit | a file is read as its author meant it, or questioned; what was previewed is what is written, or nothing; nobody writes outside its scope |
| Entities (`modules/entities`) | a forest of records | CRUD | authorization walks it, imports and workflows hang off it | two writers do not lose what the other showed; walks end |
| Deadlines and calendars (`shared/deadline`) | none | periods of a fiscal year, filing and payment dates | the generator, the preview | every day in one period, later periods not due earlier |
| Obligations, types, templates | reference data | CRUD | | |
| Authorization (`platform/authz`) | grants | gate of a route, gate of a write, scope of a read | every handler | whoever may write a record sees it, nobody sees past a scope |
| Audit-log reader (`modules/auditlog`) | none | list | authorization | a narrowed page tells nothing of what it withholds |
| Reports (`modules/reports`), and the oracle of `seed-demo verify` | none | seven reports | workflows, task instances, calendars, read scopes | totals and rows agree, a day is the tenant's day, two readings of one table agree |
| Notifications (`modules/notifications`) | none of its own | reminder pass, invite mail | outbox, scheduler | one digest per person and day, of what the reports call late |
| Security events (`platform/securityevent`) | append-only partitions by month | record, maintain | sign-in, client addresses, scheduler | ages out, never before its time; every event lands, with whom it is about |
| Front door (`delivery/httpkit/ratelimit`) | buckets of addresses, slots and queue of the verification gate, in memory | charge, sweep, enter, wait, leave | every public route | the budget is the rule's, no slot and no place is lost |
| Client addresses (`delivery/httpkit/clientaddr`) | none | resolve | front door, security events | who connected is who is named |
| HTTP kit, health, configuration, crypto, mail, metrics, commands, migrations, infrastructure | | | | plumbing; see section 8 |

`PROJECT.json` lists every component with its files and status, and under
"hazards" what is hard to test in each, at its line.

## 3. Modules

| Module | Models | Proofs |
|---|---|---|
| `Outbox` | producers, passes under a lease, transport outcomes, faults, prune | `PlatformProofs` |
| `OutboxPromise` | what the outbox promises a producer; `Outbox` implements it | `PlatformProofs` |
| `Scheduler` | loop, lease, jobs, stop, crash, lost session, of several processes | `SchedulerProofs` |
| `TaskApproval` | update, submit, approve, reject of overlapping requests, and the delete of the workflow | `TaskApprovalProofs` |
| `AuditExport` | appends to the chain of a tenant, and exporters of it | `AuditExportProofs` |
| `Segments` | entries and their hashes, the documents of the export, their verifiers and the command; extends `Questions` | `AuditExportProofs` |
| `Documents` | uploads, versions, edits, deletes, the object store, the reclaim queue | `DocumentsProofs` |
| `SignIn` | lockout, sessions, second factor and its enrolment, revocation | `SignInProofs` |
| `Members` | invites, acceptance, status, grants, tokens of the members of a tenant | `MembersProofs` |
| `Register` | the forest of entities under single edits and imported files | `RegisterProofs` |
| `Generator` | a recurring workflow, its steps and its starts, on the register; extends `Register` and `Calendar` | `RegisterProofs` |
| `Calendar` | fiscal calendars and deadlines, as operators on day numbers | `RegisterProofs` |
| `Sheets` | how an uploaded file becomes rows: decoding, records, tabs, headings, cells; extends `Questions` | |
| `Values` | what one cell says: a month and a day, a list of them, a number; extends `Questions` | |
| `Drafts` | rows as drafts, the plan of a file against what is stored, and what its commit writes; extends `Values` | `DocumentsProofs` |
| `Frontdoor` | the token buckets of addresses and the gate in front of password checks | `PlatformProofs` |
| `Stream` | the monthly partitions of the authentication events and the job that keeps them | `PlatformProofs` |
| `Attribution` | the address a request is charged to, and the events of the sign-in; extends `Questions` | |
| `Questions` | how a run asks the modules that keep no state | |
| `Access` | roles, grants, both gates of a request, the readers' scopes, the audit-log reader; extends `Register` | |
| `Scopes` | what a read is narrowed to; `Register` and `Reports` extend it | |
| `Reports` | the statements of the reports, as operators on a set of instances; extends `Calendar` and `Scopes` | `SchedulerProofs` |
| `Oracle` | the second reading of the same table by `seed-demo verify`, and its comparisons; extends `Reports` | `SchedulerProofs` |
| `Reminders` | the reminder pass: due work of a tenant's day, one digest per person; extends `Oracle` | `SchedulerProofs` |

Each `MC*` module extends one of them with what a configuration needs, the
permutations for symmetry. Where symmetry is used, the values are told apart by
nothing in the module, and the only temporal properties checked with it are of
the form `[][A]_v`, for which it is sound (and `KeepsPromise`, a safety
specification over messages, which the symmetry of `Outbox` does not permute).

### Outbox
A row has a status, its attempts, the time to `next_attempt_at` (`wait`,
relative to NOW) and a dedupe key. A pass of a runner is what `DeliverDue` keeps
in memory: the batch with the attempt count each message was claimed at
(`claim`), what is left of its lease, the message whose fate it knows and has
not written (`sending`, `outcome`). `StartPass` is the claiming UPDATE,
`Deliver` one round of the loop over the batch, `OutOfBudget` the release of the rest,
`Fault` a crash, a failed write or a cancelled context, `EnqueueInsert`,
`EnqueueConflict` and `EnqueueResolve` the three ways of Enqueue. A send may be
accepted without the runner ever learning it. `Punctual` chooses between the two
worlds the code talks about: passes that end inside their lease, as the clamp in
`Settings.withDefaults` intends, and passes that may be arbitrarily late.

### Frontdoor, Stream and Attribution
`Frontdoor` is what a request meets before its handler. `Arrive` reads the clock, `Take` is
`MemoryStore.Take` under its mutex with the eviction, the sweep and the bucket of the address;
`TakesSlot`, `FindsNoSlot`, `Joins`, `Granted`, `TimesOut`, `Disconnects`, `Leaves` and `Returns` are
`Gate.enter` with its deferred decrement and the release after the handler. The clock is read before
the mutex is waited for, so a request may be charged by a clock that is behind: `stalled`
names the addresses that has happened to. `credit` is the history the property needs, the
bucket the rule speaks of, which refills by the clock and is never forgotten. The gate counts
among the waiting those it is turning away, so a request may be shed while fewer than
`MaxQueued` wait; `GateExact` counts as the code does.

`Stream` has one action for a pass of the retention job (`Maintain`, one statement of
migration 35: what cuts it off undoes all of it), one for an event (`RecordEvent`,
stamped by a clock that may be on the other side of the turn of a month), and one for a
restart under other settings. Months in which nothing is maintained are simply possible.

`Attribution` is asked about every way into the system: who connected, what the
forwarded header held by then, which hops append to it and which are trusted. `Resolve` is
`clientaddr.go`. An event of a call site is classified, cut to what the table takes (`Row`), and read
again by its tenant and by digest.

### Scheduler
One loop per process (waiting, probing, in its turn, running a job, in the grace
period, returned), the cached answer `leader`, the pinned connection, the
lock and the session it lives in. Time is discrete and only `Tick` moves it.
`BeginProbe`, `PingAnswers`, `PingFails`, `ElectionWon`, `ElectionLost` and
`ElectionError` are `holdsLease` with `AdvisoryLease.Acquire`; `StartJob`,
`JobReturns`, `CutOff` and `Abandon` are `runJob` and `awaitJob`. A session may
be lost under its process, a process may be stopped or killed; Postgres reaps a
dead session in its own time. `lost[p]` counts the ticks since the session `p`
believes in went.

### TaskApproval
A request is `Load` (SELECT and checks), `Write` (the UPDATE, which takes the row
lock and applies to the row as it is then) and `Commit`, or `Abort`. The delete of
the workflow is its census, the BEFORE DELETE trigger of migration 23, the
cascade. The statuses the flow does not tell apart are one, `open`. History:
what was submitted (`prepared`), where the audit entries lead (`told`), which
instances saw two requests overlap (`raced`), and whether an approval was
committed before the DELETE fired (`attested`).

### AuditExport
The chain of one tenant as it commits, the drafts of transactions in flight, the
advisory lock they hold until they end; the ledger `audit_export_segments`; the
store; and for every exporter the place in its pass, the segment in hand, what
it may still do and the document format of its build. A file is the facts its
digest depends on. `Restart` is a crash or a deploy; `Fails` any step that errors.

### Segments
What the bytes of an archive say, apart from how exporters meet. `Recorded` appends an
entry under the hash version of a build, `Cut` writes the next document with its
position in the chain and the record of its own export, `VerifyFile` and
`VerifySeries` are the checks of `segment.go`, `Verdict` the exit of
`cmd/verify-audit-segment` under its flags. A question is a history: who wrote and who
cut, in which of four builds. sha256 is a constant operator `Sha`, from the fields hashed to a number; for TLC
it is `MCSha`, where a collision could only make the property fail. `ArchivesVerify` has every intact window of
files pass, say what it proves and no more, and every damage of one field refused, but for what
nothing binds, which `Unbound` spells out: in the newest file of a chain a header that no
later record has sealed; of an entry, the credential before version 3 and most fields of an entry from before the
cut-over; and a version that was not read at all.

### Documents
Rows, versions, objects and the queue `storage_reclaim`. A request is named by
the key of the object it uploads and passes through the check, the version bump (which
takes the row lock), the upload, the insert and the commit, each of which may
fail, with the compensation the code runs then. `QueueBlobReclaim` and
`EndDelete` are the two statements of the workflow's delete.

### SignIn
One account. A login is `LookUp`, `Charge` (the single statement that
judges and counts) and `Open`; a request of the second factor is one of verify,
enroll and enable, charged against the budget of its session before the code is
looked at. `Logout`, `LogoutAll`, `Disable` and `Reenable` are what other
requests do to the account meanwhile. Whether a password or a code is right is
the caller's choice.

### Members
The members of one tenant: `status`, who has set a `password`, who has a
tenant-wide `tenant_admin` grant, and the live credentials (invites, sessions,
tokens) with the user they belong to. A request is one transaction: `Load*` is
its unlocked look at the member, the later actions are its statements in the
order of the code, `guard` the advisory lock of `LockAdminGuard`, which a disable
of an admin takes before the row, `HasRow` and `Locks` the row locks its UPDATEs
hold until it ends, `WaitsFor` the requests that hold what its next statement wants. `seen` is the snapshot an
UPDATE by user id took before it began to wait: what was inserted meanwhile is
not in it. History: `raced` marks credentials minted while the user's others
were being ended, `stale` that an enable or a rename has landed on a status it
had not loaded. Signing in is one step here; its budgets are those of `SignIn`.

### Register
Entities have a name, a parent and the rest (`data`). Nothing makes a name
unique, and nothing but a foreign key looks at a parent. A single edit
is authorized, then writes by id (`Insert`, `Overwrite`, `Erase`). An
import is planned at upload (`Plan`, row by row, in the order of the checks of
`planEntityRow`), kept, claimed, planned again and compared (`StillHolds`), and
written in `ApplyOrder` with version-pinned UPDATEs. A version is modelled by
what it is for: `touched` holds the records that have moved since the dry run.
`Plan`, `Anchor`, `Cyclic`, `ApplyOrder` and `Written` are pure operators on a
file and a table; `OrderExists` relates two of them that the code computes in
different places.

### Generator and Calendar
A workflow, its steps and the instances made from them, with the plain reads of
`StartWorkflow` in their order: workflow and count, then entity and steps, then
the writes. Other requests rewrite or delete the workflow, its steps or the
entity below it. What is generated is dated by `Calendar`: dates are day
numbers, `Periods` is `shared/deadline`'s for all nine patterns and
periodicities, `FilingDeadline` and `PaymentDeadline` its rules. To check
the calendar itself, a behaviour may ask ONE question (a configuration and a
year, or a due rule and a year) whose answer an invariant judges; `asked`
(module `Questions`) holds it and nothing else changes. `Access`, `Reports`, `Reminders`,
`Segments` and `Sheets` are asked in the same way.

### Sheets
The reading half of an import. A text is a sequence of tokens: punctuation is itself, any other
token a word. `DecodeText` turns bytes into text, `Csv` text into records, lazily about
quotation marks or strictly, `Separated` chooses the separator, `ReadSheets` reads the cells,
merges and visibility of a workbook; one tab is chosen (`ReadPicked`), its headings are bound to
fields, the rows below become drafts. A question is a file and what its author means by it. There are three
authors of text: a careful one, who quotes what needs it, the product's own export, which also marks
what a spreadsheet would evaluate, and a careless one, who quotes nothing. `FilesReadWhole` has every
file refused, questioned, or read as exactly the rows it was meant to hold: no row lost, merged with its neighbour, shifted
by a column or read twice. The case it leaves to the author is a mark that is never closed in the last row, of which
the code notes only that it was there.

### Values and Drafts
`Values` has the three readers of a cell whose spelling depends on who wrote it: `ParseMonthDay`,
`ReadMonthDayList`, `ReadCount`. A cell is its tokens; a question is a cell, what it
holds and what was meant, in the notations of several locales. `Drafts` starts where `Sheets` ends: rows
become drafts of entities or obligations (`DraftsOf`), `PlanFile` is the dry run with its row
checks, remarks and changes, `CommitFile` what `changes.go` and `apply.go` write. The dry run shows by one set of functions and the
commit writes by another; `PreviewIsEffect` holds them together: a
row's effect is the change it showed, a blank cell puts no default in the place of a value, a rule is neither erased nor half
replaced, and the same file again changes nothing.

A rule is shown by its sentence, so the effect is compared by what the sentence determines: the dates a rule gives
(`Effective`). The weekend rule "none" is no weekend rule, and what a rule holds of the strategy it is not of is
`Idle`. A stored rule of a type but without values (`Hollow`; the API admits `{"type":"fixed"}`) has no sentence: see section 5.

### Access
The matrix of roles and capabilities, the middleware's gate
(`RequireCapability`), the gate of writes with its walk up the tree
(`Authorizes`), the scope of a read with its walk down (`ReadScope`), and the
audit-log reader, with the numbers and the total it withholds (`Trail`). A
question is a tree (loops included), the grants of a caller and its kind.

### Reports, Oracle and Reminders
`Reports` has what each statement selects, groups, counts and orders, from one
set of instances with their workflow joined in; dates are day numbers, instants
hours in UTC, and the zone of the tenant is an offset. Text that is only
compared is a rank. `Oracle` keeps the tallies of `cmd/seed-demo/oracle_reports.go`
and makes the comparisons of `verify_reports.go`. `Reminders` makes the digests of
the tenant's day. `ReportsAgree` holds all of them together: the oracle
finds nothing to complain of, totals are the sums of rows, drill-downs have what the
totals count, read scopes narrow rows and totals alike, a digest has what is
late or due by the same rule.

## 4. Runs

All finish within four minutes on two workers. Modules that share nothing share a run: each
behaviour is of one `world`, or asks one question.

| Run | Instance | Distinct states | Shows |
|---|---|---|---|
| `outbox_late` | 1 message, 1 key, 3 runners, 2 attempts, lease 2, 2 faults, passes of any lateness; 3 requests of 2 addresses, a rule of 1 per 2 units with bursts of 2, a gate of one slot and one place, clock to 4 | 1,808,850 | a refund is one's own, and `OutboxPromise` is kept; the budget of an address and the gate are exact (`DoorHolds`) |
| `outbox_punctual` | 2 messages, 2 runners, batches of 2, 1 fault, fair | 196,488 | one holder, everything settles and nothing is given up on untried (`EverySettlesTried`) |
| `outbox_false_undeliverable` | 1 message, 2 runners | | finding 1 |
| `scheduler` | 2 processes, 2 jobs, one of which wedges, 2 faults, fair | 833,838 | one runner, starts after a loss bounded, the healthy job keeps being run |
| `approval` | 1 instance, 2 people, 2 requests, 2 contents, the delete; 19 months of events under settings good and bad; every caller along every way in, every event of a call site | 411,773 | without overlap an approval is frozen, by another person, of what was submitted, with a trail that joins up (`RecordsAgree`, `ApprovedIsFrozen`); with overlap it is never deleted if it came before the DELETE; events age out and not before (`StreamAges`); callers are named and events land (`CallersNamed`) |
| `approval_frozen` | the same | | finding 2 |
| `audit_export` | 1 writer, 2 exporters, 2 formats, 2 faults, fair; archives of five to six events by three builds in turn, caps of 2 and 3 entries | 540,978 | no fork and cuts that meet (`SegmentsTileChain`), records and ledger agree and files verify as a series (`ExportsAgree`), all gets exported; what was exported reads back and damage shows |
| `documents` | 2 documents, one attached, 3 requests, 1 fault, fair; 747 files put to the reader of imports, cells in the notations of several locales, and files planned against what is stored | 231,736 | versions 1..n without a gap and their bytes there (`VersionsStand`), nothing unfindable, what is settled (locked under review, deleted) untouched, everybody answered; a file is read as it was meant, or questioned, and so is a cell; a commit writes what its plan showed |
| `signin` | 3 logins, 3 code requests, threshold 2, lockout 3, 2 codes, clock to 5 | 2,251,753 | guesses of passwords and codes bounded, and locks earned (`BudgetsHold`), secrets proven |
| `signin_stripped` | 1 login, 3 code requests | | finding 3 |
| `members` | 2 people, 1 machine, 2 credentials, 2 requests | 1,147,267 | an admin remains, the active can sign in, the disabled hold nothing and nobody has two live invites (`CredentialsEnd`), nobody stuck, activation is earned |
| `register` | 3 entities, 3 names, 2 contents, 5 files, 2 batches, 2 requests, 2 templates, the budgets of `MCBudgets`; every question put to the calendars, to access and to the reports | 876,056 | what was shown is what is written, no doubles, scope held, an order exists for every file without the shape of `OrderExists`, starts coexist and are dated as planned, periods tile, deadlines keep order; views follow grants; the reports, the oracle and the reminders agree |

### Why the bounds are enough
* A race of guarded statements needs two actors, an ABA needs three: `outbox_late`
  has three runners, so one may be stale while two take the message over, and
  two attempts so that a message can be released, re-claimed and exhausted.
* `scheduler` has two faults so that a loss can be followed by a stop or a crash
  of the successor, and a ProbeInterval of 2 so that a cached answer can be stale.
  `MaxLate` is 3 there, and reached.
* `signin` has one login more than the threshold, a lockout shorter than the
  clock, so that a lock is stamped, refuses, elapses and is earned again; and
  one code request more than the budget. The account starts without a secret,
  with an unconfirmed one or with MFA on, so that three code requests reach
  every refusal.
* `audit_export` cuts one entry a segment, the case in which an exporter that
  records its own exports might chase its tail. The archives it reads have
  two or three files, cut before, across and after each change of the format, in every order of builds,
  a newer one followed by an older one included.
* `documents` has three requests: one holds a row, one waits for it, one deletes.
* The files of an import have at most nine lines, three rows of data, six columns, four tabs and three merges,
  under four separators, three authors, UTF-8, UTF-16 and a code page, broken or not: two rows next to
  each other are what a reader can merge, and a third what it can lose. The limits of the reader are
  constants and are reached.
* `members` has two people, since the last of two admins is the question, one
  machine, which has tokens and no password, and two credentials, so that one can
  be ended while the other is minted. It starts from a tenant as it is founded, with
  one admin; everybody else is invited or created in the run.
* The front door has one slot, one place to wait and three requests: one holds, one waits, one is
  turned away. A bucket of the instance is full after four units and swept every two, so that it is forgotten and found
  again; two keys at most, so that a third address would evict. Its settings are reached in every order.
* The stream has nineteen months: a window of twelve or thirteen ends within them for the first months followed, and a run-ahead of
  one or three runs out when passes are missed. Windows of 11 are refused.
* The ways in are those of both editions, with headers of at most two entries: one that lies and one behind it.
* Cells are written month first, day first, year first, with names, with a year and a time; rows of a planned file are at most two,
  against at most two records: two rows that mean the same record, and two records one row may mean.
* `register` has three entities: a loop of two with one below it, a parent that
  moves between dry run and commit, and a rename into a name that exists all
  fit. A `Budget` says how many single edits, imports, starts and template
  edits one behaviour may make; the start states divide into one family per
  mix in `MCBudgets`, so that imports, edits and work meet two at a time, and
  three requests meet on a workflow.
* Access is asked about every tree over three records, loops included, every set of at most
  two grants, and people and machines. A third grant adds its scope to a union.
* The reports are asked about every set of at most three of sixteen instances in seven
  workflows: every pair of rows that could be confused in one group, and a third; under three
  clocks, at the hour of the digests, east and west of UTC on either side of midnight.
* The calendars are asked about three year ends (31 December, 29 February, 30 June),
  every pattern, both year-end rules and every periodicity, in 2023 to 2028: two leap
  years and their neighbours on both sides, and years of 52 and of 53 weeks.
* `MaxFaults`, `MaxHead`, `MaxClock`, `MaxLag`, `Budgets` and `MaxSegmentsPerRun`
  (a setting of the code) are the only bounds of counters. Each is a constant
  named in the guards. The proofs hold for every value of them.

### Deadlock
It is not reported: each instance has finitely many requests or a bounded clock
and simply ends. Where waiting for ever is a hazard it is stated, as
a liveness property (`EverybodyAnswered`, `WorkGoesOn`, `AllExported`,
`EverySettles`), or as a cycle of waits that must not exist (`NobodyStuck`).

### Fairness
* `Outbox`: time passes, some process is elected and starts passes (what `WorkGoesOn`
  of the scheduler provides), a pass that is under way goes on.
* `Scheduler`: the ticker fires, Postgres reaps dead sessions, a cancelled process
  exits, a job that heeds its context returns. Jobs in `Wedging` owe nothing.
  `Release` is strongly fair: a `select` of Go with both the ticker and the
  cancellation ready chooses at random, not the ticker for ever. One process (`Survivor`) is
  not killed, without which nothing can be promised.
* `AuditExport`: passes are run again and again, transactions end, and Postgres
  grants a lock in turn, hence `SF` on the exporter that waits for it.
* `Documents`: a request that can go on does, so does the DELETE.

`TaskApproval`, `SignIn`, `Members`, `Register` and `Generator` have no fairness
and no liveness: a client may abandon any of their requests.

## 5. What the code does otherwise than it says

1. **An undeliverable entry about a message that was sent**
   (`outbox_false_undeliverable`). `MarkDead` records the entry without looking
   at the number of rows its UPDATE matched (`platform/outbox/store.go:283`). A pass that has outlived
   its lease therefore audits as given up on what another runner delivered, while the
   comment at lines 249-250 has the evidence commit "with the fact, or neither". Passes that end
   inside their lease cannot do it: `LeaseIsEnough` is proved.
2. **An approved record is rewritten** (`approval_frozen`). The UPDATEs of edit,
   submission and rejection name the id alone
   (`modules/taskinstances/repositories/pg/sql.go:54`), so a request that loaded the row
   before its approval overwrites it afterwards. The same shape lets an
   approval commit whose separation-of-duties check was made on an earlier
   submitter (line 91).
3. **A discarded enrolment turns MFA off** (`signin_stripped`).
   `destroyEnrollment` (`modules/identity/usecases/mfa.go:390`) writes without a condition; a second confirmation that
   had read the account before the first one enabled MFA, and is then refused,
   clears the confirmed secret. The comment above it says this can never happen.

The next ones have no run of their own. The properties of `register` state what the code
does instead, with the case they except named in the property.

4. **The tree may have loops.** `modules/imports/usecases/plan.go:247` has the foreign key keep
   the stored tree acyclic. It only keeps parents existing: two single edits, or an edit and a
   file, make a loop, and then the walk up (`platform/authz/pg/resolver.go:30`, UNION ALL) does not end.
5. **A file whose order does not exist until it is committed.** A file that gives an
   existing record N the parent T and a new record T the parent N is planned valid, and
   refused at commit, where `entityApplyOrder` (`modules/imports/usecases/apply.go:118`) visits N first. Lines
   22-26 and 115-117 have the order always exist. `OrderExists` holds of every other file.
6. **A parent's name may have come to mean another record** between dry run
   and commit (`modules/imports/usecases/apply.go:75`): what is compared again is not the parent.
7. **A scoped grant may end up with a record outside its subtree**
   (`modules/entities/usecases/create.go:13`): a file that moves T out of the scope and creates a record under T
   is judged on the tree before it.
8. **Two starts of one workflow create its instances twice**
   (`modules/taskinstances/usecases/generator.go:192`): both count none, and no key forbids it.
9. **A rule is not always recoverable from the entry of the edit that changed it**
   (`modules/workflows/usecases/update.go`): an overlapping start writes the whole row back
   and undoes the edit without recording a field.
10. **A row changes without its version moving or an entry being written** when the
    delete of its parent sets its `parent_id` to NULL.
11. **The new entity of a workflow is not authorized**: an update that moves a workflow is judged on the entity it
    leaves, not on the one it moves to.
12. **A comment that is out of date**: `delivery/httpkit/middlewares/authz.go:18` has the narrowing of a
    scoped grant "not yet wired"; the writes call `Authorizer`, the reads `ReadScope`.
13. **A table of a custom calendar need not cover its year**: only contiguity is looked at, and a table
    that ends on 28 February fails in leap years for a next one that starts on 1 March.
14. **One obligation type may be named in two ways in one file**, by its code in one row and by its name in
    another. The natural keys differ (`modules/imports/usecases/plan.go`, `planObligations`), and no unique index is behind them, so
    two obligations of one type are created, where `modules/imports/domain/obligation_row.go:64` has an entity hold exactly one.

Known limits the modules show but no comment contradicts:
* A message whose send kills its process is charged on every claim and never given
  up on: `MaxAttempts` is compared after the send (`store.go:129`).
* Enqueue fails its caller's transaction if the row that owned the key gives it
  up between INSERT and SELECT (`outbox.go:313`).
* After a lost session two processes may run jobs for at most `MaxLate` ticks
  (`scheduler.go:249`); each job is therefore safe under two runners, which is
  what `outbox_late` and `audit_export` assume.
* A chain on which an older build goes on after a newer one is exported without
  complaint, file by file, and refused as a series: entries that cannot be recomputed
  must be the first (`segment.go:897`). `ArchivesVerify` has exactly these refused.
* A segment two builds of different formats worked on at once may not verify
  (`worm/export.go:489`); `ExportsAgree` excepts those.
* Of an uploaded file, columns past the limit are trimmed, merges past it not expanded, and tabs past it not looked at, without
  a word (`modules/imports/parsing/reader.go:133`); a text cell that is a number in the eyes of ParseFloat is rewritten ("12E4" becomes
  120000, `xlsx.go`); a careless row whose value holds the separator shifts when its width still fits; and a careless value wholly in
  quotation marks loses them. `FilesReadWhole` says which of these its authors do.
* An upload that commits between the collection of the keys and the DELETE leaves an
  object nobody refers to (`modules/workflows/usecases/delete.go:67`); `NothingUnfindable` names it as `late`.
* A check of the review lock can be stale (`documents/usecases/usecases.go:88`);
  `SettledUntouched` names those requests as `stale`.
* A login in flight across a disable leaves a session that works again after a
  re-enable (`login.go:206`); so does every credential minted while the user's
  others are ended, which `CredentialsEnd` names as `raced`.
* An enable or a rename writes the status it was sent over what the row has become
  (`identity/usecases/member.go:283`); `AdminRemains` and `ActivationIsEarned` name those as `stale`.
* A pass of the retention is one statement, so one that is cut off leaves nothing behind, where
  `bootstrap/security_event_retention.go:15` has "what was created stays created". A month is reported as blocked only while it is inside the window.
* Recording an event inside a transaction that has one open is a part of it: an INSERT that is refused aborts the caller's.
* "Apr-26" of a spreadsheet that means April 2026 is read as 26 April: month first is the notation of the product
  (`OwnNotation`). A weekend rule "none" where none was stored shows a change whose two sides are
  the same sentence (`Effective`). With finding 14, the row that comes first is planned as a create although
  an obligation exists, since `byPair` keeps the key of the last row.
* Deadline cells of a row that describes no rule are left out without a remark where the stored rule is `Hollow`, since the
  remark hangs on its sentence, which is empty: `imports/usecases/changes.go:206` has them as "a thing the customer is told".
* An approval that commits while a delete is firing can be cascaded away
  (migration 23, line 43).

## 6. Proofs

Each proof module EXTENDS the modules it is about. The assumptions are the named
ASSUMEs of those modules, and nothing else but the hypothesis of `ArchivesAlwaysVerify` (below): sets of actors,
settings and bounds are arbitrary.

| Module | Theorem | Property | Argument |
|---|---|---|---|
| `PlatformProofs` | `TypeCorrect` | `TypeOK` of `Outbox` | with `PassOK`: a known fate belongs to the batch |
| | `LateCorrect` | `ClaimsDistinct`, `SentWasAccepted`, `DeadIsAudited` | `LateInv` adds that a runner that knows of an acceptance is right |
| | `SettledStaysSettled`, `RefundIsOwn` | `SettledIsFinal`, `RefundsOwnCharge` | step by step from `LateInv` |
| | `LeaseIsEnough` | `OneHolder`, `PunctualUndeliverableIsDead` | `LeaseCovers`: the row waits at least as long as the lease of the pass that holds it |
| | `OutboxKeepsPromise` | `KeepsPromise` | refinement: `FateOf` maps every step to a step or a stutter of `OutboxPromise` |
| | `DoorTypeCorrect`, `DoorIsExact` | `DoorTypeOK`, `DoorHolds` | `GateInv` counts slots and places over the requests that hold them; `Timely` (nobody's clock is ahead, nor more than `MaxStall` behind) and `FullIsWhenFull` (the stored instant of a full bucket is that instant) carry `BudgetExact` through sweep, eviction and refill |
| | `StreamTypeCorrect`, `StreamKeepsItsAge` | `StreamTypeOK`, `StreamAges` | `StreamIInv`: what a pass reports was so when it ended and stays so for the month, and no month has both a partition and strays |
| | `CallersAlwaysNamed` | `CallersNamed` | for headers of any length: what our hops appended ends the chain, so that the last entry that is not ours is the origin (`ForeignLast`, `ChainForm`, `PathForm`); and every event of a call site is one the recorder classifies and the table takes (`EventsLanding`) |
| `TaskApprovalProofs` | `TypeCorrect`, `ApprovalsStick` | `TypeOK`, `ApprovalSticks` | `LockOK`: between UPDATE and COMMIT the holder alone changes the row |
| | `EarlyApprovalsSurvive` | `EarlyApprovalSurvives` | `EarlyInv`: a counted approval is never behind a DELETE that fired, and any request that was open during a delete is marked as overlapping |
| | `RecordsAlwaysAgree`, `ApprovedStaysFrozen` | `RecordsAgree`, `ApprovedIsFrozen` | `SoloInv`: on an instance that saw no overlap at most one request is under way (`Alone`), it has decided on the row as it stands (`DecidedOnThis`), and the row it is about to write, and only that, is what its audit entry will lead to |
| `SchedulerProofs` | `TypeCorrect`, `NeverPilesUp`, `AlwaysHandsBack`, `AtMostOneRunner`, `StartsOnlyUnderLease`, `LateStartsBounded` | `TypeOK`, `NoPileUp`, `HandsBack`, `OneRunner`, `StartsUnderLease`, `StaleStartsBounded` | one `IInv`: the flag follows the goroutine, the cached answer follows the connection, a live pinned session has the lock, and the time since a loss is paid for by the probe interval and the jobs that went before |
| | `ScopedReadersSeeTheirs`, `TilesOpenWhatTheyCount` | of `ReportsAgree`: `ScopedAsNarrowed`, `TilesDrillDown` | every statement narrows by `InScope` where it selects (`SameSelection`), and what it makes of the rows depends on the day and on them only (`SameDay`); the list with the status or the window of a tile has the rows the tile counts (`Drilled`) |
| | `RemindersTellTheTiles` | of `ReportsAgree`: `DigestsTellTheTiles` | the rows of a pass are the open ones of the tenant's day (`DueTasks`), each of one person and one section; a section is the beginning of the list its tile opens, in the same order (`SectionTells`) |
| | `ReportsTellOneStory` | `ReportsAgree` | one lemma for each comparison of `verify` (`HeatmapHolds` to `DashboardHolds`). What the oracle has tallied of a set of instances is what the statement counts in it: by adding one instance at a time (`FoldsAgree`), and sums do not depend on how the rows are numbered (`SumRenamed`). A cell or a group is known by its ids and by its labels alike (`RowKnown`, `ColKnown`). Both readings are sorted, by keys that differ, and there is one such list of a set (`SortedUnique`), which a map that keeps the order carries to the other (`MappedOrder`) |
| `AuditExportProofs` | `TypeCorrect`, `ChainNeverForks` | `TypeOK`, `ChainIntact` | `LockInv`: drafts exist under the lock only and continue the committed head |
| | `SegmentsFollow` | `CutsFollowLanded` | `HandInv`: what an exporter works on is in the ledger, what it is about to cut starts after the last landed segment |
| | `SegmentsTile` | `SegmentsTileChain` | the two before it together |
| | `ExportsAlwaysAgree` | `ExportsAgree` | `CuttingFits`: the entry of a claim and its ledger row are written in one transaction whose range is the row's; `FilesInv`, `FitInv`: the file of a segment is of its range and, of one build, of the rows the ledger has before it, so that each landed file continues the one before |
| | `ArchivesAlwaysVerify` | `ArchivesVerify` | `Standing`, by induction over the history: each entry has the hash of its text and the one before it (`StandsAt`), each file is a cut of the chain that continues the file before (`CutAt`), and the records of the chain are those of its cuts (`RecordsKept`). From it, what a window says (`WindowsTell`, `ChainTells`), that a series is put in order whatever order it is read in (`OrderIs`), the verdict under each flag (`VerdictTells`), that a file lost, doubled or of another chain breaks a link (`FilesTell`); and, part by part of a document, that a damage either changes a text that is hashed, and `Sha` tells two texts apart, or changes none, and is `Unbound` (`DamageTells`) |
| `SignInProofs` | `TypeCorrect`, `LocksMatch`, `SecretsProven`, `KilledStay` | `TypeOK`, `LockMatchesCount`, `EnabledSecretProven`, `KilledStaysKilled` | `IInv`: a confirmation about to enable has shown its code, a login that has not answered has no session |
| | `LockStill` | `LiveLockNeverMoves` | `Stamped`: nobody's clock is ahead of time |
| | `BudgetsAlwaysHold` | `BudgetsHold` | of passwords, `Timely` and `Budgeted`: the counter is at least the number of logins that have spent in the window that is running, a cardinality that each charge raises by one and each new window starts over; of codes, `OnOpened` and `GuessesPaid`: a guess that was made, or is about to be, was charged to its session before |
| `MembersProofs` | `TypeCorrect`, `AnAdminRemains` | `TypeOK`, `AdminRemains` | `GuardHeld` and `CountHolds`: whoever counts holds the lock of `LockAdminGuard`, and what it counted is still there when it commits, since whoever takes an admin away holds that lock |
| | `EveryActiveCanSignIn` | `ActiveCanSignIn` | `LoadedOK`: an enable that is to write "active" has seen a password, and no step takes a password away |
| | `NoCredentialOutlives` | `CredentialsEnd` | `EndsInv`: a request's row locks are the stages it has passed (`Sound`), no two requests hold one row (`Apart`), a credential's user exists. Who disables, or accepts an invite, holds the user's row from its UPDATE to its commit: what is minted meanwhile waits, or is marked |
| | `NobodyIsActivatedTwice` | `ActivationIsEarned` | from `EndsInv`: an accept that commits holds the one live invite, and spends it |
| | `WaitsAlwaysEnd` | `NobodyStuck` | `WaitInv`, with `EndsInv`: what a request has seen is its user's or gone, who has the guard is at a stage that holds it. The guard is taken before any row, so that its holder waits for rows at most; who holds a user's row waits only for acceptances of that user, and those for that row: so cycles are pairs, which the database breaks, however many requests there are |
| `DocumentsProofs` | `TypeCorrect`, `VersionsAlwaysStand`, `NothingIsUnfindable` | `TypeOK`, `VersionsStand`, `NothingUnfindable` | `IInv`: a creation's document is its own until it commits (`Creations`), a version bump holds the row from the UPDATE and its number is the next (`Changes`), the bytes of a committed version are there and nobody is about to take them (`Kept`), what the delete has collected, and only that, is queued (`Purging`) |
| | `SettledStayUntouched` | `SettledUntouched` | `Excused`: whoever is still at work on a document when the review begins had checked before |
| | `PreviewsAlwaysHold` | `PreviewIsEffect` | a row that is not refused describes a whole rule or none (`DraftRuleForm`), two rules told by one sentence have one effect (`OneSentence`), the cells of a row without remark are in the rule that is left (`CellsKept`). Rows that are carried out have keys of their own, hence targets of their own (`StandingObligations`, `StandingEntities`), so that the commit is a set of records with unique ids (`WrittenOut`), in which a second reading finds what the first wrote (`FoundAgain`); a parent that the file names is the same record before and after (`ParentStays`) |
| `RegisterProofs` | `TypeCorrect` | `GenTypeOK` | `Typing`: with `PlansInv`, that the plan of a commit under way is `Plan` of the table it read |
| | `StartsAlwaysCoexist` | `StartsCoexist` | `StartsInv`: starts that have counted none and those that have written are, together, no more than the requests; a start that counts after a write finds it |
| | `StartsFollowThePlan` | `StartsAsPlanned` | `DatedInv`: what a start has read is what is there unless it is marked `late`, and it writes the row it read |
| | `CommitsWriteWhatWasShown` | `OnlyWhatWasShown` | `ShownInv`: a record nobody has touched since the dry run is as it was shown, but for a parent that a delete set to NULL; what a commit overwrites is pinned to an untouched version |
| | `CommitsGiveNoDoubles` | `NoDoubles` | `SeenInv`: a commit that is not `late` writes to the table it planned on; then a name of the new table with two bearers is one of the file's rows twice, or a row and a stored record, and the plan has refused both. The case of two rows takes the first of them (`FirstOf`, by the well-foundedness of the numbers) |
| | `CommitsStayInScope` | `ScopeHeld` | `SeenInv` and `ShownInv`: what a commit creates hangs under the anchor it was judged by, what it moves was judged at both ends. The walk up the tree is opaque: the proof uses that the same walk was asked, not what it computes |
| | `OrdersAlwaysExist` | `OrderExists` | from `ClearInv`, that no row of a plan being committed was refused; `OrderForm`: what `ApplyOrder` has written after k rows has each row once, and behind its parent unless that was on the way up to it; a way up that meets itself is a set of rows in a loop (`WaysEnd`) |
| | `ViewsAlwaysFollow` | `ViewsFollowGrants` | `UpMeetsDown`: the walk of the gate up from a record meets a grant if and only if the walk of the reads down from the grant meets the record, on any tree, loops included; `ReadsAreWidest` for the gate of capabilities; `FoundForm`, by induction over the log, for a reader that learns nothing of what it may not see |
| | `CalendarsAlwaysHold` | `CalendarsHold` | months are counted through the years (`MonthStart`, `MonthStep`), and a day has one month (`DayForm`, `DayIs`): months of a fiscal year follow each other (`FiscalMonths`), the anchors of two years are 365 or 366 days apart (`AnchorStep`), so that the week-end days next to them are 52 or 53 weeks apart (`WeekYearLength`), which is what the patterns add up to (`WeeksForm`); a custom list is extended by what joins up (`JoinedForm`). Each of clamping, leaving a weekend and the next fixed date is monotone (`ClampedOrder`, `WeekendOrder`, `FirstFixedOrder`), and so is a deadline |

The invariants the runs check are not inductive by themselves; the strengthening
named in the last column is what has to hold of handlers in flight.

Assumptions worth a word: `RegisterAssumption` has finitely many ids and `GeneratorAssumption` finitely many requests
under way, for `StartsCoexist` counts them; `FrontdoorAssumption` says so of the requests at the door. No bound is assumed
of any of them. `CalendarAssumption` is `ValidateFiscalConfig`: days some year has, and a custom list that is not empty; its rules of
payments are those `entityobligations` stores, fixed dates among them being days. The assumptions about files say that they have the rows and columns `Sheets` makes, `ReportsAssumption` that tables are finite, have typed columns and ids of their own, and that NULL is no value of a column or of a filter, `OracleAssumption` what `verify` is run on (an answer fits the page of 5000 it asks for, and no two entities have one name, no two obligations one name and code, by which it finds its rows again), `RemindersAssumption` that no account is the filter for what nobody has, `AccessAssumption` that a log
(`Logs`) is a sequence of entries, `ImportsAssumption` that stored records are finitely many, have ids of their own, which no
row of a file has before it is written, and the fields of their tables, and that a rule is of one of the two strategies or of none, `AttributionAssumption` that a header (`Headers`) is a sequence of addresses and that callers
and our hops have different ones. `ArchivesAlwaysVerify` alone has a hypothesis that is no assumption of a module: `CollisionFree`, that no
two texts, of any length, have one hash and none has that of the beginning of a chain. It is what the archive relies on of sha256, some function
has it (there are as many finite sequences of integers as numbers), and `MCSha` of the runs does not: TLC checks the property with a
hash that is told apart where it matters, the theorem with an ideal one.

`PreviewsAlwaysHold` is about files of any length and any stored records, so for every pair of a row and what it finds.

The proofs of `OrderExists`, `ViewsFollowGrants`, `CalendarsHold` and `ArchivesVerify` rest on what recursive functions compute. The library's induction over the
numbers takes a predicate, which cannot be instantiated here; `AllNumbers` states it of a set: one that has 0 and the successor
of each of its numbers has them all, as `AllSubsets` does of the subsets of a finite set, for the folds of the oracle: one that has {}, and
every subset of which it has what is left without one element, has them all. `Iterates`, `Recurrence` and `Counting` derive from it that a function defined by recursion over the
numbers exists and has its equations; the walks of `Register` and `Access` are therefore functions over the number of steps, the
periods of `Calendar` over the number of those before them (`FiniteRecurrence`).

* Proved, and no longer a property of a run: `TypeOK` of the proved modules, `ClaimsDistinct`,
  `SentWasAccepted`, `DeadIsAudited`, `SettledIsFinal`, `PunctualUndeliverableIsDead`,
  `ApprovalSticks`, `NoPileUp`, `HandsBack`, `StartsUnderLease`,
  `LockMatchesCount`, `LiveLockNeverMoves`, `KilledStaysKilled`. TLC had agreed to each before.
* Checked by TLC alone, and why:
  * liveness under fairness: `EverySettlesTried` (with `ExhaustedWasTried`, which it contains), `WorkGoesOn`, `AllExported`, `EverybodyAnswered`;
  * `FilesReadWhole`, `ValuesReadAsMeant`: readings of literal data of the instance (notations, columns of a file), where
    the question itself says what was meant. TLC goes through all of them; a proof would repeat the cases.

ENABLED, and so every fair specification, is beyond the prover. `NobodyStuck` is therefore about who waits for whom
(`WaitsFor`); that a request under way has a step exactly when it waits for nobody, TLC has agreed to on the instance.

## 7. Plan

Done, in this order: outbox, approval, scheduler, audit export,
documents, sign-in, members, the register with its imports, the generator with the calendars,
access, the reports with their oracle and the reminders, the files of the audit export and their readers, the reading of imported files,
their cells and their drafts, the front door, the stream of events, the naming of callers. Proved: every safety
invariant and every action property of the modules that keep state, and the questions about callers, access, calendars, the plans of imported files, the reports and the files of the audit export.
What section 6 leaves to TLC is what the prover does not reach.

Next, of the model: the invite mail and the digests as producers of `Outbox`; an
abstract specification of an approval (draft, submitted, attested).

## 8. What is left out

* **Demo data** (`cmd/seed-demo`): what writes the demonstration tenant. Its verifier is `Oracle`.
* **Data** that no property tells apart: payloads, amounts, the
  text of mails and audit entries, hash values (a digest is the facts it depends on).
* **Row-level security**: the modules are about one tenant.
* **Of the reports**: collation (names are ranks and differ), the search filter, the columns one may
  sort by, the order of groups by label. Rows and totals are statements of their own at READ COMMITTED; here
  they read one table. A zone that is not known falls back to UTC, and summer time moves an offset: both left
  out. Of the audit log, its filters and paging.
* **Expiry** of sessions and pending sessions, which a lookup simply does not
  find.
* **The purge job** that drains `storage_reclaim`, which does not exist yet.
* **Of uploads**, the sniffing of content by signature and the size of a request: pure refusals that come before
  what `Sheets` and `Documents` start from.
* **HTTP plumbing, configuration, crypto, mail clients, metrics, infrastructure**, which keep no
  state of the system.
