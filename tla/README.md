# inafin.tenant-data: a TLA+ verification project

`inafin.tenant-data` receives tax documents for many tenants, keeps the bytes
(Bronze), turns them into versioned rows (Silver) and hands batches of rows to
a reconciliation engine that writes facts (Gold). This directory models the
parts of it where order, concurrency and failure decide whether a document is
kept, seen, replaced or lost, and checks and proves what must hold of them.

Paths below are relative to the repository; `src/` is its Python package.

## The system

| Part | State it keeps | Operations | Talks to |
|---|---|---|---|
| Bronze intake (`src/bronze`) | objects in the tenant's bucket, `artefact_ledger` | `receive`, `fetch` | object store, scanner, schema pins |
| Schema pins (`src/catalogue/pin.py`) | `schema_pin`, the tenant's copies of schemas | `ensure_schema_pin`, `roll_forward` | platform releases, object store |
| Release publication (`scripts/publish_schema_release.py`) | platform artifacts, `schema_release` | `publish --promote` | object store |
| Triggers and routing (`src/dispatch`) | `load_trigger` | `record_and_dispatch_trigger`, `dispatch_load` | every loader, publisher |
| Loaders (`src/silver`) | `ingest_batch`, business rows, `rejected_row`, `quarantined_artefact` | parse, validate, load, quarantine | pool |
| PDF extraction (`src/extraction`) | header rows and fact rows of the archetypes | `run_extraction`, `to_silver` | registry, text layer, loaders, fact services |
| Row replacement (`src/silver/supersede.py` and the loaders) | row versions, `superseded_at` | find, close, insert | Postgres locks and indexes |
| Doorbell (`src/events`) | a Kafka topic | `publish`, best effort | consumers |
| Reader (`src/reader/silver_reader.py`) | `batch_execution`, `fact_record`, `consumer_watermark` | `pending_batches`, `record_execution`, `artefact_outcome` | Silver views |
| Tenant-scoped pool (`src/core`) | the role a transaction assumes | `transaction` | everything |
| Provisioning (`src/provisioning`) | `tenant_registry`, schemas, roles, buckets | `provision`, `deprovision` | migrations, object store |
| Migration runner (`src/migrate`) | `__migration_version` per scope, privileges | `apply_shared`, `apply_all_tenants`, `drift_report` | Postgres |
| Isolation gate (`scripts/check_isolation.py`) | none; reads the catalogs | `check` | Postgres |
| API, CLI, connectors, catalogue rendering, generators | none of their own | | |

The interactions are calls inside one process and rows in shared tables. There
is no lock manager and no queue but the tables: what protects the system from
concurrent requests, workers and crashes is which statement shares a
transaction with which, the partial unique indexes, `SELECT .. FOR UPDATE`,
and `ON CONFLICT`. The hard behaviours are therefore:

- a batch is dated when its transaction starts and visible when it commits, and
  the reader's cursor is a date;
- two loads replace the same row under READ COMMITTED, where a statement that
  waited for a lock sees some rows newer than its own snapshot;
- two uploads of the same bytes, or two first uploads that both want to pin;
- a request that dies between two of its transactions, and is retried;
- an answer given at once and a status computed later from other tables;
- operators who migrate, provision and tear down at the same time, from
  different checkouts, with nothing locking them out of one another;
- privileges that people change by hand between two runs of the matrix;
- text with the same label twice, and tables whose rows wrap anywhere.

`PROJECT.json` lists the hazards line by line, with the property that covers
each one or the reason why none does.

## The modules

| Module | Models |
|---|---|
| `BatchQueue` | abstract: what the hand-off promises Pipeline 2, a durable queue |
| `Handoff` | the reader, its workers, the ingest transactions it polls, the doorbell; implements `BatchQueue` |
| `RowVersions` | abstract: what a versioned Silver table promises |
| `Supersede` | the statements that keep that promise; implements `RowVersions` |
| `SchemaPin` | pins, operators and release publication (no `Next` of its own) |
| `ArtefactStore` | abstract: what Bronze promises those who upload, a store that keeps a file once |
| `Intake` | `receive`, composed with `SchemaPin`; implements `ArtefactStore` |
| `Dispatch` | a trigger from `load_trigger` to its answer, and `artefact_outcome` |
| `Tenancy` | operators: migrate, provision, deprovision, with crashes and retries |
| `Isolation` | the privilege matrix, changes by hand, the gate, the pool's preamble |
| `LabelValue` | the grammars of PDF text and the fiscal-year windows: pure operators |
| `Extraction` | `run_extraction` to its last write, on top of `LabelValue` |
| `HandoffProofs`, `IntakeProofs`, `DispatchProofs`, `SupersedeProofs`, `TenancyProofs`, `IsolationProofs`, `LabelValueProofs`, `ExtractionProofs` | the theorems, each about the module it is named after |
| `MC*` | instances for TLC: symmetry sets, and the documents of `Extraction` |

Operators introduced by "Wrong on purpose" are mutants: each is a plausible
mistake in the definition that follows it, and each property of a passing run
is violated when one of them replaces that definition.

### Handoff

One consumer name and one document type. `now` is the database clock; an
ingest transaction takes `readyAt` when it begins (`DEFAULT now()`), becomes
`READY` when it commits, or disappears. `pending_batches` is two statements and
so two steps: `ReadWatermark`, then `SelectPending`, which may return any page
that `ORDER BY ready_at LIMIT` allows. `record_execution` is `InsertExecution`
(which waits for another open transaction with the same key), then
`CommitExecution` with facts and watermark, or `AlreadyExecuted`. The consumer
loop is the one of `tests/handoff/test_handoff.py`, since Pipeline 2 lives in
another repository. `Crash` forgets the page and rolls back; `Upgrade` deploys a
new version tuple to one worker.

`BatchQueue` has neither clock nor watermark nor workers: a batch is handed over,
waits, and is executed once per version. The refinement maps what waits to
`Waiting`, the batches that no version has executed *and* that are inside the
overlap window now, so a batch that slipped under the window would leave the
queue without having been executed.

### Supersede and RowVersions

A load is a transaction over the rows of one file, in file order. A version is
the load that inserted it, its key and its content. The state holds uncommitted
work: versions inserted and closed, row locks, and the version a load's
`FOR UPDATE` returned. A register loader collapses rows with equal hashes and
nothing else (`Files`): a file may hold several different rows of one key, and each
supersedes the one before it, which its own load sees (`Visible`) and nobody else
ever will. `promote` and the sales register group lines by key first (`Grouped`). `Recheck` is the step READ COMMITTED is known
for: after waiting, the `WHERE` is evaluated again on the locked row only, so
the replacement that made it fail is not found. `Rivals` is the partial unique
index. Three strategies occur in the code: `replace`, `compare` and `ignore`.
The refinement maps a key's current content, the set of committed loads and
what each load says of its keys (`LastOf`: of several rows of one key, the last)
to `RowVersions`, where a load replaces all its keys at once.

### Intake and SchemaPin

An upload is at one of the statements of `receive`; its identity is the
`ingest_id` it would get, a file's identity its hash. Objects are keyed by
`ingest_id`, so they are never overwritten. `SchemaPin` keeps `schema_pin` as a
sequence (its position is the identity column) and the bytes of a release as an
edition number; `InForce` is the `ORDER BY pinned_at DESC, id DESC` of
`current_pin`. An upload enters the pin after its ledger row is committed; a
failure inside the pin is swallowed, any other one ends the request. The uploads
are requests of their own or the files of one `upload_artefact_batch`, which
takes them up one after the other and stops at anything but `IntakeRejected`.

In `ArtefactStore` a file is kept in one step and an upload answered in another,
and only the upload that is kept is told it is new; the answers are the receipts.
The refinement maps the artefact a file is held as to the one that can be read, a
ledger row with these bytes under its key; bytes without a row, what a failure
between PUT and INSERT leaves, are not held.

### Dispatch

Every database transaction is one step. `PDF_EXTRACTION` is split by what the
extractor writes: a fact of its own (`CreateBatch`, then `RecordFact`: two
transactions, as the docstring of `src/extraction/base.py` says), a CSV for
`promote`, or a CSV for a register loader. What a parser makes of an artefact is
a choice at each trigger, because parser fixes and registry changes come between
triggers; `Extraction` opens that choice up for PDFs. The two GSTN returns have a
live statement each, replaced as a whole or left alone when the document hash
is the same. `Status` is `artefact_outcome`: quarantine first, then the batch,
then rejected rows. `ExitCode` is that of `tenantctl trigger`.

### Tenancy

An operator is a process running one command of `tenantctl` (or
`ProvisioningService.deprovision`) from one checkout, which is a release and the
files somebody edited in it. `work[o][s]` is that process inside `apply_shared`
or `apply_tenant` for scope `s`; the scopes of a fan-out are threads and advance
independently. The applied map is read once (`ReadApplied`) and is stale from
then on: a file another runner has applied meanwhile fails on the primary key of
the version table (`CanApply` is false, `Refused` follows). Body and version row
are one transaction (`Apply`); every statement of `provision` and of
`deprovision` outside a transaction is a step, and `Crash` may come between any
two. `Grant` is `apply_tenant_grants` over what exists; `guarded` says that the
roles can read the Silver identity row, which is what the pool's preamble needs.

### Isolation

A privilege is a record: the tenant and role that hold it, the owner and layer
of the schema, the kind of object, the privilege. `Matrix` is
`app.apply_tenant_grants` as of shared migration 063, `Revoked` what it revokes
first, and `GrantRule` and its neighbours are the rules of `check_isolation.py`,
one operator per group. `platform_ref` has three kinds of tables: the two the gate
names, and `reference` for all others (`hsn_master`, `document_type`, ...), which
every role reads through `platform_ref_reader`; nothing there is ever revoked.
TRUNCATE is a privilege of its own, since the rules on `platform_ref` do not test
it. Provisioning is three steps, as it is three transactions: `CreateSchemas`
leaves a PROVISIONING tenant, which the gate and the fan-out already see,
`FirstGrants` is the end of its `apply_tenant`, and `Activate`; `Abandon` is a
failure or a crash in between, and the command may be given again. Hand changes
take one role at a time (`subject`): no rule relates the privileges of two roles.
`healed` is history: the tenants whose matrix is newer than the last change to it.

### LabelValue and Extraction

A line is the label it starts with, whether a colon follows, and a rest known by
what the coercions look for: text, figure, date and its notation. `FindValue`
keeps the order of `_find_value`: the first line with a colon, else the first
table row, with the look-ahead that joins a wrapped date.

The pages a table is read from are a sequence of words, each of which may end its
line. A word is free text or one of the numbered pieces a row's values consist of,
so that a row can break anywhere: between name and values, between values, and
inside one (a GSTIN on two lines is two pieces). A `table_pattern` of the registry
is a form: SHAREHOLDING_PATTERN begins with a name of up to six words of any kind,
GSTIN_REGISTER with the GSTIN, has free text among its values (the state) and behind
them (the principal place, which stops before the next GSTIN). `Splits` are the ways
the regular expression can read a window of joined lines, `Split` the one its lazy
quantifiers settle on, `RowEnds` the windows of at most `MaxWindowLines` lines that
match and coerce, and `RowSpans` the scan of `parse_table_rows`, which takes the
shortest. It is a recursive function and not a `RECURSIVE` operator, so that it can
be proved about. What it is held against has no scan. `Found` says that the rows are
apart and in order, each complete on its last line and on none before, and that no
other line could have started one; `FiguresRead` says what that means for a list of
names and figures: figures with a name in reach are a row of their own, and a name
is the longest that six words and eight lines allow below the row before. The
payroll and FIRC registers have patterns of their own, and chunks instead of words.

`Extraction` runs concurrent extractions of one document type: registry
(`BuildRegistry`, which one malformed cell empties for everybody), text layer
and parse (`ReadAndExtract`), then one of three sinks: quarantine, a CSV for a
loader, or a batch and then a row with its facts (`CreateBatch`, `FindCurrent`,
`Recheck`, `Write`), where the row lock of `close_current` is held from the
lookup to the commit.

## What the runs check

| Run | Bounds | Shows |
|---|---|---|
| `handoff_safety` | 2 batches, 2 workers, 2 versions, page 1, clock 3, overlap 2, 1 crash | no batch under the window, one set of facts per key, the watermark equals the newest execution, refinement of `BatchQueue`, every committed batch is executed |
| `supersede_files` | 2 loads, 2 keys, 2 contents, files of 1 or 2 rows in every order, every strategy and initial table | one current version, one chain of versions, refinement of `RowVersions`, every load ends |
| `intake_receive` | 2 uploads alone or in a batch, 2 contents of which one is flagged, 1 operator, 2 releases | ledger, objects, receipts and pins agree; refused bytes leave no trace; refinement of `ArtefactStore`; every upload is answered |
| `dispatch_safety` | 2 triggers, 3 artefacts of which 2 known, 2 contents | loads are atomic, the doorbell follows the rows, answers, exit code and polling agree |
| `tenancy` | 2 tenants of which one is old, 2 operators, 2 releases and an extension that may be edited, 2 commands | a tenant that can be reached is whole, ACTIVE is not ahead of the grants, the chain is applied in order and once, success means at head, every command ends |
| `isolation` | 3 tenants of which 2 are old, 4 roles; 2 changes by hand, or 3 commands that may be interrupted | untouched, the gate has a finding exactly while a live tenant has not got its grants; what it cannot see in the tenants' schemas the next run revokes, and the rest are writes to reference data no rule looks at; a clean gate after a run means the matrix and those |
| `extraction` | 3 extractions, 2 PDFs, 11 document types; pages of up to 4 lines out of 6, windows of 3 lines, names of 3 words | declarations win over footnotes, table rows are found wherever they break, each once and in the shortest window, facts on file are whole snapshots, one holding per holder and day, a torn batch only after a failure that was reported |

The bounds are the smallest in which the cases happen. Two batches and a page of
one leave a batch out of a page; a clock of three with overlap two and commit
bound one lets a batch commit after a younger one was executed; what a longer
page could do is covered by the theorems. Two loads are what a lock conflict or
a deadlock takes, two keys what a lock order takes, and two rows what it takes to
name one key twice; a third load would only queue behind the same locks. Two uploads race for one hash or for one pin. Two
triggers are what a retry, or a second load of an artefact, takes. Two commands
are two runners at once, or a crash and its retry. An access that two hand
changes open needs `USAGE` on the schema and a privilege in it. A behaviour of
`isolation` has one or the other (`ApartSpec`), each of which a property asks
about; the theorems have both at once. The third tenant is the one that is
provisioned from nothing while the others are left alone or given up. Three
extractions are a current row, its replacement, and one that waited for the lock
in between; the probe PDF runs through all combinations of two lines from
a set of six. A page of four lines holds a row broken over three and
something before or after it, and is one longer than the window; a name of three
words is one the lines above can overrun. How a page is read depends on nothing but
its words, so one extraction reads it (`ReadOnce`). Every constant that only bounds
(`MaxTime`, `MaxCrashes`, `MaxEditions`, `MaxRuns`, `MaxHand`, `MaxCommands`) sits in
the guard of the action it limits; `MaxRows` is the longest file, `MaxLines` the
longest page. `MaxWindowLines` and `MaxWords` are the code's own bounds, eight and
six, made smaller.

Deadlock checking is off where requests simply come to an end (uploads, loads,
triggers, commands, extractions, changes by hand); it is on for the reader,
which polls for ever.

### Fairness

- `Handoff`: each worker keeps polling and executing. Nothing is assumed of the
  clock, of ingestion, of Kafka, of crashes (bounded) or of deployments. A
  worker that stops polling for good is outside what the code can promise.
- `Supersede`: Postgres runs a statement that is not waiting, and its deadlock
  detector runs. Failures are possible and never assumed.
- `Intake`: a request in progress is carried on with. Publication and operators
  get no fairness.
- `Tenancy`: a command runs on, and every thread of its pool is scheduled.
  Starting a command, and crashes, get none.

### Disagreements

Five runs end in a violation, each of a sentence the repository says of itself:

- `handoff_rerun`: a rule change is said to be "a full re-run"
  (`tests/handoff/test_handoff.py:316`). The watermark carries no version, so a
  new version gets only the batches inside the overlap window.
- `supersede_recorded`: a 409 is said to mean that the document is already
  recorded (`src/api/routes_ingest.py:204`). In this run the document is on file and
  both loads correct it (`CorrectionsSpec`): the second waits for the lock of the
  current row, finds no row once the first has committed, and its content is
  recorded nowhere. The first correction stands, so this is a
  lost update reported as a duplicate, not a corrupted table.
- `intake_moved`: a pin is said to move never by ingestion itself
  (`src/catalogue/pin.py:27`). Two first uploads around a promotion insert two
  pins, and the second one replaces the first.
- `dispatch_pending`: a dispatched trigger is said to be never PENDING
  (`src/dispatch/router.py:114`). The GSTN parsers refuse without a quarantine
  row, and an unchanged statement makes no batch.
- `dispatch_quarantined`: QUARANTINED is said to mean that no batch exists
  (`src/reader/silver_reader.py:113`). A verdict is never removed: in this run
  (`ParserFixSpec`) a file is refused, triggered again after a parser fix and
  loaded, and still polls QUARANTINED.

Also met, and not given a run:

- a PDF fact's batch can be READY without its fact (documented in
  `src/extraction/base.py:30-42`, while `src/dispatch/manifest.py:35` says that
  cannot happen); `TornOnlyByFailure` says when;
- the unique indexes of the fact tables ignore the header's number, and
  `close_prior_fact_rows` closes only the same header's facts: the next
  shareholding pattern with another number that covers a year already on file is
  refused with 409 and leaves such a batch;
- a colon-less date label takes the date of the next line when it has none of
  its own; a date with blanks in a table row is squeezed and then never parses;
  a lone comma counts as a figure and is refused by the database;
- the principal place of a GSTIN register is cut at the first line it has text on,
  for the shortest window wins, although the comment at
  `src/extraction/tablevalue.py:85` counts a wrapped one among the five lines of a
  row; a row without its place takes the first half of the next row's broken GSTIN
  for it, and that row is lost;
- a name is any six words, figures too: a header within six words of the first
  figures is part of the first name, figures without a name of their own are part
  of the next one, and so is a malformed row of five words above a name of one
  ("Bob 5 .% 1% No" and "Al 7 2% 2% No" give one holder, "Bob 5 .% 1% No Al"),
  although `tests/conformance/test_table_extraction.py:148` says that a row that
  does not coerce "must not bleed into the FOLLOWING valid row's name"; the names
  in that test are too long for it;
- the gate's rules on `platform_ref` name two of its tables and test INSERT, UPDATE
  and DELETE: a write on another one given by hand, or TRUNCATE, passes, and no run
  takes it back (`Unwatched`), although `scripts/check_isolation.py:361` says "Tenant
  reference data must be read-only to tenants" and line 10 that every rule "holds
  for any number of tables";
- the hash of a GSTN return leaves out fields that are stored (the filing date
  and status of a 3B), so a return that differs only there is dropped as
  unchanged;
- the UPDATE to ACTIVE has no condition, so provisioning that finishes after a
  deprovisioning wins; a teardown interrupted after Bronze was dropped, then
  provisioned again, gives an ACTIVE tenant without Bronze tables; a bucket that
  lost its default retention to a crash is accepted as it is;
- privileges given by hand on tables of the reconciliation schema are seen by
  the gate and never revoked by the matrix (which documents it); the gate does
  not look at deprovisioned tenants; the drift report compares names only;
- a PDF register answers ACCEPTED where polling says PARTIAL; triggering an
  artefact again doubles its rejected rows; rolling back to a release that was
  pinned before is a no-op; a release published again changes the copy whose hash
  a pin recorded; a deduplicated upload does not retry a pin that failed; a batch
  upload stops with a 500 at an unreachable scanner although
  `upload_artefact_batch` says "always 200".

## What is proved

Every safety invariant, every action property and all three refinements that the
passing runs check are also theorems: TLC shows them on the small instance of the
run, the theorem for every value of the constants: any tenants, workers, uploads, triggers, loads, extractions, releases
and changes by hand. Each proof module states its inductive invariant `IndInv` in
named parts, proves `IndInit`, `IndNext` (one step per action) and
`Inductive == Spec => []IndInv`, and derives the theorems from it. The parts were
model-checked on the bounds of the runs before they were proved. `LabelValueProofs`
is about operators and has no steps.

### Assumptions

They are the `ASSUME`s of the modelled components, which TLC evaluates in every
run. Most say that a bound is a number and that `None` is not a value. The others:

- `OverlapAssumption` of `Handoff`: `CommitBound < Overlap`, that is, an ingest
  transaction is shorter than the overlap window described at the top of
  `src/reader/silver_reader.py` (one hour by default); no code enforces it;
- `DocumentsAssumption` of `Extraction`: a PDF's text is a sequence of lines, and
  of words and chunks for those who read tables from it;
- `TableAssumption` of `LabelValue`: a window has lines, a name words, and the values
  of a row have pieces, before and after where free text may stand;
- `MonthAssumption` of `LabelValue`: the fiscal year starts in one of 12 months.

### Handoff

- `TypeCorrect`: `TypeOK`. Not inductive alone, because a worker that executes
  needs a page (`PageNonEmpty`).
- `NoBatchLost`: `Discoverable`. The watermark jumps to the `ready_at` of
  whatever is executed, so the invariant has to speak of pages that are still to
  be executed: `PageOrder` says that executing entry *i* cannot push the window
  past an unexecuted batch unless that batch is earlier in the same page. It is
  established by `SelectPending`, because `ORDER BY` leaves out only batches
  that are not older than those in the page and, by `Discoverable` itself,
  every unexecuted batch is offered. It is preserved by a late commit because
  of `CommitBound < Overlap`, and by an execution because the head of the page
  leaves it. `PageReady` and `Clocks` (a poll's watermark is not newer than the
  table's) carry the argument over the interleavings.
- `FactsOnce`: `FactsExactlyOnce`. The strengthening `KeyHeldOnce` says that a
  key in an open transaction is held by one worker and not yet committed.
- `WatermarkExact`: `WatermarkIsNewestExecuted`, and `GoldGrows`:
  `GoldOnlyGrows`, an action property, from the same invariant. The run leaves the
  last one to `ImplementsBatchQueue` (results are never taken back),
  `FactsExactlyOnce` (nor executions, then) and `WatermarkIsNewestExecuted`.
- `HandoffIsAQueue`: `ImplementsBatchQueue`. `QueueInv` joins the invariants of
  the three theorems above. By `Discoverable` the window costs nothing, and
  `Waiting` is every unexecuted batch (`AllWait`). So a clock tick, a poll, a
  crash or a moved watermark is a stutter, the commit of an ingest transaction is
  `HandOver`, and the commit of an execution is `Execute`: it writes the facts for
  the first time because of `KeyHeldOnce`, and takes no other batch out of the
  window although it moves it.

### Intake and SchemaPin

`IntakeTypeCorrect`, `LedgerBacked`, `ReceiptsTrue`, `NoTraceOfRefused`,
`PinsBacked` and `BronzeGrows` (an action property). The invariant has two
halves that touch only at the ledger. For `receive`, `Traces` says what an upload
has left behind at each of its statements, and `StoredIsClean` that everything
stored was scanned; a receipt is then true because `LedgerIsBacked` gives the
bytes one holder, and the ledger only grows. For the pin, `PinProgress` follows a
pinner from the CURRENT release over its bytes to the copy, and `OneInForce` says
that the `ORDER BY` of `current_pin` has a first row.

`IntakeIsAStore` is `ImplementsArtefactStore`. By `LedgerIsBacked` a file is held
as the upload that has its row (`HeldIsHolder`), so the INSERT is `Keep`, and a PUT,
a lost race or a failure is a stutter. The three ways to answer, the
dedup hit, the loser's lookup and the writer's own return, are `Tell`; with
`LedgerIsBacked` the refinement says what `ReceiptsAgree` says, and the run leaves
that one to it. That an answer is given once needs more than receipts that agree:
a failure ends the whole batch request, and `BatchOrder` says that the files it
takes down were not taken up yet, so an answered upload stays answered
(`AnsweredIsDone`).

### Dispatch

`DispatchTypeCorrect`, `AtomicLoads`, `DoorbellComplete`, `NoPendingAnswer` and
`StatusRepeatsAnswer`. An answer and a later `artefact_outcome` are computed from
different tables, so the invariant ties each answer to the rows behind it:
`Manifests` (batch and rows), `Rejections` (rejected rows and PARTIAL),
`Verdicts` (a quarantine row has a trigger that was told so, and conversely),
`StatementOnFile` and `AcceptedOnFile` (an unchanged return was once written).

### Supersede and RowVersions

`SupersedeTypeCorrect`, `OneCurrent`, `ChainOfVersions` and
`LoadsAreAtomicReplacements`. This is the lock discipline. `Closings` says that a
load closes committed versions and its own, that it has inserted the replacement or
is about to, and that it holds the lock until it commits; `Locks` that only
committed versions are locked by others than their writer; `Findings` that what a
`SELECT .. FOR UPDATE` returned is what its load has closed; `Links` and `OneRoot` tie the
column `supersedes` to the closing; `Unique` is the partial index, and says that of two
versions one is closed; `SomeCurrent` that closing never leaves a gap; `Accounted`
that of the rows of a key behind a load's cursor the last one has a version that
stands for it (`Stands`), inserted by the load or found unchanged and locked, which
nobody else can close before the commit. The last one is what the refinement needs:
every step but a commit leaves what readers see as it was, and a commit is `Apply`
of `RowVersions`, on all keys of the file at once. That a key is named several times
in a file costs `FirstOfKey` (a load that has not dealt with a key yet has no version
of it) and `LastExists`.

### Tenancy

`TenancyTypeCorrect`, `ReachableWhole`, `ActiveReachable`, `InOrder`,
`SuccessAtHead` and `AppliedOnce` (an action property). `Runners` carries them: what
a runner saw applied still is, for its map is stale but nothing takes a migration
back, and every file behind it has the body of its own checkout, because the
primary key of the version table lets one runner through. `GuardedIsWhole` says
that the grants a tenant has were made on a whole release, `Buckets` that the
bucket comes first, `Phases` which threads of a command can be running. Torn-down
tenants are outside these theorems, as they are outside the properties.

### Isolation

`IsolationTypeCorrect`, `GateAgreesWithMatrix`, `BlindSpotsAreRevoked` and
`TightOnceHealed`. `Running` says that a provisioning under way has its schemas.
`Pristine` says that without a change by hand the roles of a tenant hold what they
read in `platform_ref` once they exist, the matrix once it was applied, perhaps what
the engine owns, and nothing else: there the matrix is a fixed point, since what it
revokes it grants again, and a tenant without it fails the gate because
`recon_engine` lacks CREATE. `Fresh` says of a tenant whose matrix is newer than the
last change to it that it holds the matrix and, of what the matrix would revoke,
nothing else. The rest is about privileges and not about steps:
`GateLeavesTheMatrix` follows an access from rule to rule of the gate until it is an
intended one, one of `Revoked` or one of `Unwatched`.

### Extraction and LabelValue

`ExtractionTypeCorrect`, `WholeSnapshots`, `AnswersAreTrue`, `OneHolding`,
`FootnotesLose` and `TablesAreWhole`. `Stages` ties the place of an extraction to its batch, its row
and its answer; `Parsed` says that what gets past the quarantine was extracted in
full, for contracts too, because their label spec requires nothing;
`OneKeyEach` is the unique index of the fact table. A snapshot stays whole
because an outcome is not read again once its header is written. From
`FiscalYears` (a month is in the year that contains it, and two years share none)
the windows of a holder are disjoint. `FootnoteIgnored` is the fact about
`FindValue` for documents of any length: the first line that declares a label is
the first one of every longer document too.

`TableIsRead` says that `RowSpans` meets `Found` for every form, every sequence of
words and every bound. The argument is an induction down from the end of the pages,
written over sets of positions: if the scan were wrong anywhere, it would be wrong
at a last position (`FromBelow`, from the well-foundedness of `<`). Where a row
starts, `FirstEnd` gives the shortest window and `SpanTaken` puts this row before
those of the rest; elsewhere `LinePassedOver` shows that the rest is found the same
without the line. `ScanDefined` is what a recursive function needs first, that it
equals its own body. `FiguresAreRead` is about a list of names and figures:
`ListedSplits` shows that its pattern can read a window in one way only, and
`ListedEnds` that the windows that are rows are those from a line in reach to
figures that coerce; with `FewerLines` (a part of a window has no more lines than
the whole) `FiguresRead` follows from `Found`. `TablesAreWhole` (`EveryRowOnce`)
follows from both, since the rows of an outcome are parsed once.

### Only model-checked

- `EveryBatchExecuted`, `EveryLoadEnds`, `EveryUploadEnds`, `EveryCommandEnds`:
  liveness, for which the provers have neither fairness nor `ENABLED`.
- The five violations, which are counterexamples by nature.

## Not modelled

- Money, rates, dates below the month and the arithmetic of columns and totals;
  the JSON of GSTN returns; the columns of the register catalogue
  (`src/silver/registers/catalog.py`, a table of data). What a file parser finds
  is a choice among the verdicts it can reach.
- The PDF and OCR libraries: a choice of text layer.
- The table patterns of DIRECTOR_LIST_WITH_DIN and KMP_LIST beyond their form: a
  lookahead that names header words, and endings that may be absent.
- The document schema catalogue (`src/catalogue/document_schema.py`,
  `field_constraints.py`) and the generators under `scripts/` and `reference/`:
  they render files from other files, and keep no state.
- Connectors: most raise `NotImplementedError`, and what they would fetch enters
  through Bronze intake.
- Authentication, GraphQL reads, configuration, logging.
- `record` and `supersede` of the fact services, which only tests call.
- Pipeline 2 beyond its consumer loop. Postgres and S3 are modelled as the code
  uses them and marked external in the map.

## Plan

1. A composition of `Dispatch` with `Handoff` in which a torn PDF batch reaches
   the reader, and `roll_forward` to an older release as a property of
   `SchemaPin`; then proofs of what the two state.
2. A reference definition, as `Found` is for tables, of which table row
   `FindValue` reads a date or an amount from.
