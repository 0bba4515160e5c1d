# TLA+ verification of lawbar-tool

lawbar-tool is a desktop case-management tool for a law office with an OCR
pipeline behind it. This directory models the parts of it where order, failure
and concurrency decide correctness, checks the models with TLC on small
instances, and proves theorems about them with TLAPS. The source is the
reference throughout: every definition is a translation of the lines that
`PROJECT.json` ("map") names for it.

## 1. The system

| Part | Where | State | Operations | Modelled |
|---|---|---|---|---|
| OCR contract | `docs/contracts/src` | none (rules) | edge table, chain validator, retry classifier, queue interface | partly |
| SQLite OCR queue | `services/ocr-persistence/src/sqlite/SqliteOcrQueue.ts` | `ocr_queue_jobs`, `ocr_queue_receipts` | enqueue, claimNext, renewClaim, completeClaim, requeueClaim | yes |
| OCR persistence | `services/ocr-persistence/src` | `ocr_jobs`, `ocr_status_events`, `ocr_results`, outbox column | createOcrJob, enqueueNewOcrJob, appendOcrStatus(Once), saveOcrResult(Once), set/get/clearOcrPendingRetry, lists | the writes |
| OCR coordinator | `services/ocr-worker/src/coordinator.ts` | locals of one call | processOneOcrQueueClaim | yes |
| OCR worker loop, signals | `workerLoop.ts`, `processSignals.ts` | iteration count, stop flag | run until stopped, capped or failed | as repetition |
| In-memory queue, adapter | `inMemoryQueue.ts`, `adapter.ts` | maps of a test and development double | the queue interface | no |
| OCR engines, page fetcher | `services/ocr-worker/src/engines`, `fetcher` | none | bytes in, text out | no |
| OCR ingestion | `services/ocr-ingestion/src` | none | ingestDocumentForOcr: atomic path or create-then-enqueue | atomic path |
| OCR review | `services/ocr-review/src` | none | read-only projections | no |
| Case-box contract | `docs/contracts/case-box-contract/src` | none (rules) | entity lifecycles, audit chain build and verify | the chain |
| Case-box audit trail | `services/case-box-persistence/src` (`auditChain.ts`, `inMemoryMatter.ts`, `sqlite/auditRepoQueries.ts`, `archiveVerify.ts`) | matters, audit events, chain heads | audited writes, paging, chain and archive verification | yes |
| Case-box records | same, `inMemoryFact.ts`, `inMemoryEvidence.ts`, `inMemoryPrivilege.ts`, `inMemoryClassification.ts` | facts, evidence items, privilege markers, classifications | enter, decide, replace | yes |
| Case-box docket and deadlines | same, `inMemoryDocket.ts`, `inMemoryDeadline.ts` | docket entries, deadlines | propose, confirm, dismiss, edit, transition | yes |
| Case-box citation links | same, `sqlite/linkRepoQueries.ts`, `linkStatusResolverQueries.ts`, `exportCitationQueries.ts` | links; pages, geometries and anchors somebody else writes | create, unlink, relink, list, export | yes |
| Case-box, the rest | OCR links, claim tracks, migrations, the in-memory twin | | single audited writes | no |
| Desktop docket and deadline handlers | `apps/lawbar-desktop/src/caseBox` | none of their own | preflight, then write | yes |
| Desktop document store and opening | `documentStorage.ts`, `documentOpen.ts`, `documentVerify.ts` | the bytes, the copy handed out, the queue of opens | register, verify, open | yes |
| Backup and restore | `src/backup`, `backupRecord.ts`, `scripts/restore-from-backup.mjs` | the archive, the record of the last backup, staging | back up, verify, restore, publish | yes |
| Desktop link and evidence-catalogue handlers | `linkHandlers.ts`, `t3CatalogSource.ts` | none | link calls, the catalogue read page by page | partly |
| Desktop deadline screen | `renderer/screens/viewMatterDeadlines.ts` | loads by generation, the held proposal | load, refresh, buttons | yes |
| Desktop, the rest | `electron/main.ts`, readiness, thin handlers | runtime handles | startup, windows | no |
| Other screens, native evidence core, bake-off, tooling | `apps/lawbar-desktop/renderer`, `native`, `services/ocr-worker-bakeoff`, `scripts` | view state | | no |

How they interact. Ingestion writes a job row and a queue row, in one SQLite
transaction when both stores are the same file. Any number of worker processes
share that file. Each runs a loop around `processOneOcrQueueClaim`, which
claims a job, reads its record, appends `queued->claimed`, calls the engine,
persists what it returned transition by transition and page by page, and then
completes the claim, or, after a transient failure, records the next attempt
in an outbox column, completes the claim and enqueues the retry. Each of these
calls is a transaction of its own; nothing spans two of them. The desktop
application writes case-box entities through a persistence whose every write
appends to a hash-chained audit log and moves the chain's head anchor in the
same transaction.

Which behaviours are hard. Nothing renews a lease while an engine runs, so a
slow worker has its job delivered to a second one and both go on writing. A
process may die between any two of the writes above. The record, with the
outbox row in it, is read once and used two awaits later. Replays are told from
new transitions by equality of all fields, the millisecond included. The queue
decides with a clock read before it waits for SQLite's write lock. The list
under "hazards" in `PROJECT.json` has each of these at its line with the
properties that watch it.

On the case-box side, writes of the matter and of its documents share one
chain, so the last event of the chain is seldom the last one about the entity
being written. The next sequence number comes from the head's count and the
previous hash from the event the head names, so a damaged head decides where
the next write goes. The last event has no successor: only the stored head hash
protects it, and the next write moves that hash. A client reads the history page
by page while all of this goes on.

In the desktop application a handler reads, awaits and then writes, and a
screen loads, refreshes and is left while its calls are still under way; so
what a handler checked may no longer hold when it writes, and an answer may
reach a screen that has moved on. Replacements are named when a fact is accepted
or an evidence item superseded, in any order, so chains of them grow at both
ends. The order of a table is the order of times
that callers choose, so a page cursor or a "latest" row may be overtaken by a
row that lands before it. The status of a citation link is a column computed
from five other tables that change between computations, and even between the
computation and the reads that answer a call. A document's row is
in a database and its bytes in a file; a backup copies the two one after the
other while documents are registered, and what it copied may change on any of
the disks it passes.

## 2. The modules

### LeaseQueue: what the queue promises

The `OcrJobQueueBackend` interface without time: a logical job is idle, waiting
or leased under one receipt; receipts are minted once. `Claim` may take back
other leases in the same step.

### SqliteOcrQueue: the durable queue

`jobs` is `ocr_queue_jobs` by primary key (`state = "none"`: no such row),
`receipts` is the ledger `ocr_queue_receipts`. Every call is one
`BEGIN IMMEDIATE` transaction and so one action: `Enqueue`, `ClaimNext`
(selection, supersession of the receipt it takes a row from, lease, sweep of
every other elapsed lease), `RenewClaim`, `CompleteClaim`, `RequeueClaim`. Calls
that throw change nothing and are not steps; which error they throw is the
operator `Classify`. Any caller may present any receipt at any time, which
covers restarts: the tables are all the state there is. The time a call works
with is any of `SampledTimes`, up to `BusyWait` old. Cleared columns are NULL.
`lastSeq` is `MAX(enqueue_seq)`, and `LastSeqIsMax` checks that it is;
`served` is a history variable.

`OwnerBar`, `PayloadBar`, `MintedBar` map the tables to `LeaseQueue`.

### OcrContract: shared rules

The edge table, the transition-chain validator and the retry classifier as
operators.

### OcrCoordinator: the pipeline

One worker's call of `processOneOcrQueueClaim` is a record in `turn`, whose
`pc` names the await it is about to make:

| pc | action | code (`coordinator.ts`) |
|---|---|---|
| idle | `Claim` | claimNext, 196 |
| read | `ReadTerminal`, `ReadLive` | getOcrJob and the outbox override, 202-242 |
| clearStale, ackTerminal | `ClearStale`, `AckTerminal` | terminal short-circuit, 219-229, 762-779 |
| appendClaimed | `AppendClaimed` | queued->claimed, 245-268 |
| process | `WorkerReturns`, `WorkerRejected` | engine, validation, retry decision, 274-431 |
| processing, terminal, save | `PersistProcessing`, `PersistTerminal`, `SaveResult` | 440-460 |
| edge, setPending | `PersistEdge`, `SetPendingRetry` | 462-526 |
| complete, enqueue, clear | `Complete`, `EnqueueRetry`, `ClearPendingRetry` | 528-630 |
| requeue | `Requeue` | tryRequeueAs, 737-760 |

The store is four variables (`known`, `chain`, `results`, `pending`), the queue
a sequence of active rows in `enqueue_seq` order; that the SQLite queue behaves
so is what `SqliteOcrQueue` establishes. Abstractions:

- A worker runs one claim at a time, so a receipt is its worker; the receipt of
  a claim a worker walked away from belongs to `"nobody"`.
- An outcome is a worker terminal and a verdict for each page. That there is a
  verdict for each page is how the in-repository engines answer; validation,
  binding checks and normalisation are "accepted" or `WorkerRejected`.
- A stamp is a small number; only equality of stamps matters. `Clock` gives a
  later one, or, as a fault, the one of the last transition.
- `appendOcrStatusOnce` scans and appends in two transactions; here it is one
  step. The strict append validates the chain again, so the window can only
  turn a replay into a refusal.
- `run`, `runs`, `lapsed` and `faults.seen` are history variables.

What goes wrong is bounded by `MaxFaults` and drawn from `Faults`: `crash` (the
process dies between any two awaits), `expiry` (a live worker's lease elapses),
`write` (a store or queue write fails), `throw` (the engine throws or its
outcome is rejected), `tie` (equal milliseconds). The lease of an abandoned
claim always elapses and is not counted.

### AuditTrail: what the audit log promises

Entities and an append-only log; a write changes entities together with one
entry for each, saying what the entity was and what it became.

### CaseBoxAudit: audited writes and their verification

One matter, because matters share no rows. `matter` and `records` are the rows,
`events` the audit table by sequence, `head` the chain-head row (`NoHead`: none),
`reader` a client between two pages of `listAuditEvents`. A write is one
`BEGIN IMMEDIATE` transaction and one action:

| action | code |
|---|---|
| `CreateMatter` | createMatter, prepareCreateMatter |
| `TransitionMatter` | archiveMatter, unarchiveMatter: no look at the head |
| `EnsureMatterPartyIds` | the backfill of party ids; compares the row with the last event of the chain |
| `UpdateMatterDetails` | head check, comparison with the latest event about the matter, edit |
| `WriteRecord` | registerDocument as the pattern of every one-row write: row, event, head |
| `ConfirmDocketEntry` | two rows, two events, one head |
| `ListFirstPage`, `ListNextPage` | listAuditEvents with its cursor |
| `Damage` | an event lost or altered; the head lost, miscounted or made to name no event or another one; the matter's row altered |

`AppendEvents` is `insertAuditEvent` and `upsertAuditChainHead` with what
`loadSyntheticStoredEvents` makes of a damaged head; the UNIQUE constraint on
the sequence is a guard. `Verifies` and `ArchiveVerifies` are the two verifiers
without their error texts. Abstractions: SHA-256 is injective, so an event stands
for its hash and carries the whole preceding event as `prev_event_hash`; an
event's id is its sequence; a record's payload is a version number; an altered
event differs in `body`, which stands for any field but the two state hashes;
tenant, timestamps and event kinds are left out. `written` and `mishap` are
history variables; `mishap.builtOn` notes that a write was chained to an event
that is not the one the head hashes: an altered last event, or one the head was
made to name.

### DocketDesk: a deadline, from the button to the row

`entries` and `deadlines` are the two tables, `calls` the IPC calls under way,
`loads` the screen's loads by generation, `held` the proposal the add control
holds. A call is three steps that interleave with everything else: the preflight
read of its handler (`ConfirmPreflight`, `DismissPreflight`, `EditPreflight`,
`TransitionPreflight`), its write, which looks again (`ConfirmDocketEntry` and
the others), and the answer's arrival (`ReplyProposed`, `ReplyRefreshes`). A load
is asked, served a page at a time (`ServePage`) and drawn (`DeliverPage`) if its
generation is still the current one. `Remount` leaves the screen and mounts it
again while its calls go on. `unseen` is a history variable: a call whose screen
is gone has written since, which nothing tells the new screen.

A dismissal may be overtaken by a confirmation between its preflight and its
write. The code and one of its comments disagree about what happens then:
`docketHandlers.ts` (313-316) says that the handler must check the state itself
"even though persistence can dismiss proposed|confirmed", which "would orphan its
materialized deadline". The persistence cannot: `prepareDismissDocketEntry` asks
`assertValidDocketEntryTransition`, whose table has no edge out of confirmed
(`transitions.ts` 228-231). `DismissDocketEntry` follows the code, so
`DeadlineMirrorsEntry` holds through that race. Were the comment right, the check
in the handler would not be enough, because it is made before an await.

### CaseBoxRecords: what a lawyer decides on

One pool of ids, which also stand for the place of a row in its table's order;
the order is the callers' clocks, so a new row may land anywhere. Each write is
one action: enter and decide facts (`SupersessionSound` is about the chains of
replacements; a fact names what it replaces when it is accepted, and
`assertValidNewFact` refuses one that names it when it is entered), evidence items (the column named supersedes_evidence_id holds the
successor), privilege markers and classifications. `unclassified` is level 0, below the others,
although `confidentiality-invariants.ts` (117-120) keeps it outside its lattice:
the code asks for a reason to go back to it and none to leave it, as for a lowest
level, but calls leaving it for `normal` "operationally a loosening", which
`NoSilentDowngrade` does not count as one. `catalog` is the evidence catalogue, read page by page with an await between pages.

### CitationLinks: a status that is computed when asked for

`links` has the status column, `documents`, `pages`, `geometries` and `anchors` the
rows it is computed from. No program of the repository writes the last three,
so `External` does, at any time. A write is one transaction and one action. A
listing or an export is not, and `call` is the one under way:

| step | action | code |
|---|---|---|
| the statuses, in a transaction of their own | `ListLinks`, `ExportCitations` (`RefreshStatuses`) | `resolveLinkStatuses` |
| the rows of a listing | `AnswerListLinks` | `linkHandlers.ts` 257 |
| links and anchors of an export | `ReadAnchors` | `exportCitationQueries.ts` 145-160 |
| its pages, and the citations | `AnswerExport` | `exportCitationQueries.ts` 162-246 |

The app's main process takes these steps in one synchronous stretch, so no other
handler runs in between (`HandlerRuns`), but another program may write. `reply` is
the answer; `held` and `asOf` in a call are history, the links that held when
the statuses were computed and the writes made by then. Links are written by the
app alone, so when their rows are read does not matter.

`ReplyTellsTruth` says what such a call can promise: what it calls valid or clean
held when the statuses were computed, and the page of a clean citation could be
cited when the pages were read. It is all true of the rows at the moment of the
answer only if no other program wrote during the call. If a page is captured
again between the two, the export answers CLEAN for an anchor that is stale by
then, and the model reaches that; the comment in `exportCitationQueries.ts` (4-6)
that such an anchor "can NEVER export as a silently-valid citation" holds of what
was stale when the call began.

### DocumentVault: where the bytes of a case live

A file is its content: absent, torn (a copy under way or cut), whole, or bad. A
digest is the content it is the digest of.

| part | state | actions | code |
|---|---|---|---|
| registration | `files`, `storing`, `rows` | `StartStoring`, `FinishStoring`, `RegisterDocument`, `RegistrationFails` | `documentStorage.ts`, `documentHandlers.ts` |
| backup | `phase`, `listed`, `digest`, the archive (`dbs`, `docs`, `manifest`), `record` | `BeginBackup`, `Snapshot`, `CopyDocuments`, `VerifyBackup`, `WriteManifest`, `ManifestFails`, `SaveRecord`, `BackupFails` | `runBackup.ts`, `backupHandlers.ts` |
| restore | `restore`, `profile` | `BeginRestore`, `VerifyArchive`, `CopyToStaging`, `Publish` | `restore-from-backup.mjs` |
| opening | `wanted`, `status`, `copies`, `held` | `AskOpen`, `VerifyOriginal`, `CopyOriginal`, `CopyFails`, `RevealSucceeds`, `RevealFails` | `documentOpen.ts` |
| faults | `damage`, `crashes` | `DamageStore`, `DamageArchive`, `DamageDatabase`, `DamageStaging`, `Crash`, `CrashRestore` | the disk; `loadBackupRecord` |

A backup awaits between its phases; the app and the restore are two processes.
A write of the manifest or of the record may leave part of a file; the restore
refuses such a manifest, and such a record reads as no backup. Damage alters or
loses a document or a database, in the store, an archive or staging; it never
touches a manifest, whose digests the restore compares with what it finds, or the
record, which a start reads as no backup when it cannot be parsed.
Verification
reads files that only damage can change, so it is one step, and so is the
verification of staging with the rename that follows it. `before` and `stray` are
history variables. An open that fails to remove a copy says nothing and never
tries again, although a comment in `documentOpen.ts` (147) says that the next open
retries; `stray` has those copies.

`MC*` modules add the symmetry sets for TLC.
Operators commented `mutant` change one definition the way a plausible slip in
the code would; each is there to show that a property can fail.

## 3. The runs

| Run | What it shows | Result |
|---|---|---|
| `queue_safety` | the queue's tables, receipts, leases, order, and that it implements `LeaseQueue` | holds |
| `coord_faults` | two workers, two pages, two faults of any kind: one turn writes one attempt and its results; what a terminal state promises is on file unless a turn was cut short or met another in one millisecond | holds |
| `coord_single` | one worker, three faults, three attempts: attempts advance, the cap holds, no job is lost | holds |
| `coord_live` | two workers, two elapsed leases, no two transitions in one millisecond: every job becomes terminal and is not run again | holds |
| `coord_wedge` | after one engine throw every redelivery is refused and requeued at once | violated |
| `coord_lost` | two workers, no fault: a late clear erases the next attempt's outbox row | violated |
| `audit` | every order of writes, page reads and up to two pieces of damage: an undamaged history verifies, explains every row and is paged faithfully; verification says ok only of the committed history; a verified archive is continued at its end or refuses every write; no write touches a stored event | holds |
| `audit_backfill` | a matter from before party ids, one document: the backfill refuses, for good | violated |
| `desk` | two entries, two deadlines of one date, two calls of any kind under way, a screen of one row per page: an entry is confirmed exactly when one deadline repeats it; a late met is explained whatever the preflight saw; the screen at rest lists what is stored | holds |
| `records` | up to four rows of any table, in any order of entry and decision: replacements end and replace what was accepted; one confirmed marker per document and kind; no level falls without a reason; the catalogue misses nothing that was accepted all along | holds |
| `links` | two documents, two links, four writes to what a status depends on, before, between and during the calls: a listing or an export says valid or clean exactly of what held when it computed the statuses and could be cited when it answered | holds |
| `vault` | two documents, one backup and its restore, two opens, one document or database damaged anywhere, one death: an undamaged backup verifies, a published profile is complete, the last copy shown is there | holds |

The violated runs state what a doc or a comment says; "findings" quotes it. The
passing runs say under which conditions the same property does hold: e.g.
`SucceededHasResultsUnlessCut` holds until a process dies, a write fails or two
turns meet in one millisecond, and
`AttemptAdvances`, `RetryCapUnlessCut` and `NeverLost` hold with one worker
process. With two workers and elapsed leases a job may be retried more often than
`max_attempts` says, and a crash before `saveOcrResultOnce` leaves a job succeeded
without its results for good; a receipt that was swept answers `unknown_receipt`
after its job was claimed again, where `queue.ts` speaks of `stale_receipt`.

Bounds. Queue: two jobs and two transport ids give a conflict on either key, three
receipts a claim, its reclaim and a sweep beside it; leases of 2 with a clock to 4
let one lease elapse, be renewed and elapse again; three enqueues let a resolved
row be replaced. Coordinator: one job suffices, because jobs share nothing but
the order of the queue; two workers are what a lost lease brings together; two
pages give a partial success and a save that is interrupted half-way; two
attempts give a retry and the cap, three (with one worker) give a retry of a
retry; two faults give every pair of kinds, three (with one worker) a third in
the turn that recovers. Audit: two records and five events let document events fall between two
matter events, a docket confirmation append two at once, and pages of two be read
across appends; two pieces of damage cover every coordinated pair, such as an
event and its head. Desk: two deadlines of one date are what a cursor has to tell
apart, two calls what a preflight and a write interleave with; with one date the
run orders by id alone, and that a screen also orders by date is what the theorem
says (`DeskRestingScreenIsTrue`), for any dates. Records: four ids
give a fact, its replacement and the replacement's, or two markers of a document
that are decided in either order, and a page boundary between two items. Links:
a page, its geometry and an anchor take three writes, and a fourth makes the link
stale or its page uncitable before, between or in the middle of calls. Vault: two
documents so that one is registered while the other is backed up; one piece of
damage, because each verification compares with a digest and two do not cancel;
two opens because only neighbours in the queue meet. Deadlock checking is off because these bounds stop the system: clock and
receipts are used up, every job is settled, the last sequence is written, or every
id is used.

Fairness (`coord_live`). Every worker process keeps taking its own steps, which
is `runOcrWorkerLoop` without stop signal or cap, and a lease nobody will
complete elapses. Ingestion and live workers' leases carry no fairness.

## 4. The proofs

`SqliteOcrQueueProofs` proves, for any sets of ids and receipts, any lease
length and lock wait, from `QueueAssumption` (those are natural numbers and NULL
is not an id):

- `QueueInvariant`: `QInv == TypeOK /\ LedgerMatchesRows` is inductive. The ledger
  half is what the calls need: `Classify` looks at the ledger alone, so that an
  "active" answer is also true of the row (`ActiveReceipt`, `HeldRow`) is
  exactly this invariant. `QueueTypeOK` and `QueueLedgerMatchesRows` follow.
- `QueueResolutionFinal` and `QueueLeaseHonoured`: step properties from `QInv`. The
  second uses that a sampled time is never later than the clock.
- `QueueOneActiveRowPerJob`: only `Enqueue` makes a row active.
- `QueueFirstDeliveryFifo`: strengthened to `FifoInv`, which adds that an
  undelivered row is waiting and that sequence numbers do not repeat.
- `QueueLastSeqIsMax`: a transaction adds at most one row, one past `lastSeq`, and
  may delete the resolved row of the same transport id in exchange, so the
  largest number of the table never falls.

`CaseBoxAuditProofs` proves all eight properties of the audit, for any sets of records
and field values and any bounds, from `AuditAssumption` (a matter is not a record,
NULL is no id, number, payload or hash of a state):

- `AuditInvariant`: `AuditInv`, whose core is `Chained`: while the store is
  undamaged, sequences run from 1 without a gap, each event carries its
  predecessor, and the head names the last. Only with that are the next
  sequence and previous hash right (`NextWrite`). All writes go through one
  argument: each one appends a list of events that says exactly what it did
  (`WriteLogged`), and appending such a list keeps the chain and the history.
- `AuditCleanLogVerifies`, `AuditHistoryExplainsRows` follow from it;
  `AuditWritesOnlyAdd` also holds of damaged stores.
- `AuditImplementsTrail`: the initial stores map to initial trails, a write to
  one write of `AuditTrail`, everything else to a stutter, up to the first damage.
- `AuditTypeOK`, by `TypeInv`, whatever was damaged: a write hands over one event or
  two, chained to the head and to each other, and only the registration of the
  matter is a genesis (`Filed`, `WriteFiled`).
- `AuditVerifiedMeansIntact` and `AuditArchiveContinuesOrRefuses`, by `LineageInv`, which
  `AuditInv` cannot help with because the store may be damaged in any way and be
  written on afterwards. As long as the registration is stored its sequence is
  taken, so a write that goes through has found the event its head names and
  chains to it. Unless that event was not the one the head hashes (`mishap.builtOn`),
  the events ever committed form one chain in which no two
  are alike but for an altered field (`Distinct`, `Linked`), each is stored at one
  sequence at most (`Stored`), and the head hashes the last (`Anchored`). A chain
  that verifies is gapless from the registration to the head, so a first place
  where it left the committed history would have no predecessor there. "First"
  is the least element of a set of numbers (`Least`, by well-foundedness), which
  takes the place of an induction.
- `AuditPagesAreTheHistory`, by `ReaderInv`: a client that was given a cursor holds
  the events up to it; a page is the next ones in order (`PageRead`).

`DocumentVaultProofs` proves all four properties of the vault, for any documents,
archives, opens, damage and deaths, from `VaultAssumption` (the bounds are natural
numbers, NULL is no id):

- `TypeCorrect`, by `TypeInv`: a file is not torn once its copy has ended, which
  is why no row has the digest of a torn file.
- `RestoredComplete` and `BackupHonest`, by `VaultInv`. What a profile holds goes back
  to the snapshot it came from through the digest in the manifest, so the
  invariant follows the rows along that way: rows are final once written
  (`RowsAreFinal`), a snapshot covers what was registered before (`SnapshotCovers`),
  the digest of a manifest is that of such a snapshot and is not made twice
  (`ManifestCovers`, `ManifestIsLast`), readers have a manifest
  (`ReadersHaveManifest`); without damage the store and the archives are what was
  written (`StoreIntact`, `ArchivesIntact`).
- `LatestKept`, by `ViewerInv`: opens run one at a time and in order, the copy held
  is that of the last one shown, and the copy a row was verified for has the
  registered bytes because rows are final.

`CaseBoxRecordsProofs` proves all five properties of the records, for any
ids, matters, kinds and levels, from `RecordsAssumption` (ids and levels are
natural numbers, NULL is neither):

- `MarkersOneConfirmed`, by `MarkerInv`: a marker and its document share the matter, so
  the search of the marker's matter alone sees every marker of the document.
- `FactsSupersedeSoundly`, by `FactInv`: nobody supersedes a fact before it is accepted
  and no accepted fact is decided again, so whatever set a newly accepted fact
  joins keeps a last link.
- `LevelsKeepReasons`, by `LevelInv`: every document with a row has one that sorts
  last (`HasLatest`), and one more row either sorts last or changes nothing
  (`LevelAppended`).
- `RecordsCatalogComplete`, by `CatalogInv`: an item accepted all along is listed or
  still ahead of the cursor, and the rows listed are behind it (`BehindCursor`).
  What a page holds is worked out once (`PageFacts`): in the order of a finite set
  of numbers each one has a rank of its own (`Ranks`), every rank is taken
  (`RanksFilled`), so nothing is left out between a page and its cursor.
- `RecordsTypeOK`, from the same invariant.

`SqliteOcrQueueRefinement` proves, besides from `ReceiptAssumption` (a receipt is not
called "idle" or "waiting"), that the queue implements `LeaseQueue`:

- `QueueImplementsLeaseQueue`, by `RInv`, which is `QInv`, `OneActiveRowPerJob` and that
  an active row has a job. One active row per job is what makes owner and
  payload of a job functions of the rows; with the ledger matching the rows,
  each transaction changes one job there, and takes other jobs only back to
  waiting (the sweep). There is one lemma per operation.

`DocketDeskProofs` proves all four properties of the desk, for any entries,
deadlines, calls, dates and bounds, from `DeskAssumption` (dates and ids are
numbers, NULL is no id, date or cursor):

- `DeadlinesMirrorEntries`, by `Inv == RowsInv /\ CallsInv`: a confirmed entry and its
  deadline name each other (`RowsInv`), and a call about to write was checked
  against rows that have only grown since (`CallsInv`): nothing is deleted, and
  what a call was checked for is looked at again by its write.
- `LateMetsAreExplained`, from the same invariant: a deadline that can still be missed or
  met late has no trace of having been, and no call gives it one but the one
  that turns missed into met.
- `DeskRestingScreenIsTrue`, by `ScreenInv`, whose core is `ScreenTrue`. A screen may be
  wrong while it loads: a page was read before a write, or the write's own
  refresh has not begun. The invariant says when it may not: as long as no call
  of this screen that refreshes is between its write and its answer, and no call
  of an earlier one has written unseen (`Clean`), the current load has received
  exactly the first rows of the listing as it is now, and its cursor is the last
  of them. Whatever writes makes the screen not clean, and what makes it clean
  again begins a load. A page continues the listing where the cursor left it
  (`PageIs`, `PageExtends`): the listing gives each deadline one place and leaves no
  place empty (`Places`, `PlacesFilled`).
- `DeskTypeOK`, from the same invariant.

`CitationLinksProofs` proves the property of the links, for any pages, documents,
anchors, geometries and links, from `LinksAssumption` (the set of pages is finite,
"uncitable" is no label, NULL no link):

- `RepliesTellTruth`, by `RowsInv` and `CallInv`, which says that a call under way has
  the statuses of its own resolver and, once it has read the anchors, their
  places: rows are typed (`RowsTyped`), an anchor lies in a
  registered document of its link's matter (`AnchorsResolve`), and a document
  replaces one of its own matter only (`ReplacesInMatter`), so the resolver, which
  looks at one matter, misses no replacement. That a label is unique is
  counted in the code; the proof turns the count into "no other page has it".

`OcrCoordinatorProofs` proves nine properties of the coordinator, for any jobs,
workers, pages and attempts and any number of faults, from
`CoordinatorAssumption` (there is an attempt, NULL and "nobody" are no workers,
NULL is no result):

- `CoordinatorTypeOK`, by `TInv`, which adds to the types what the locals of a turn are
  at each await (`TurnOK`); a retry is decided while an attempt is left
  (`RetryHasBudget`), hence no attempt exceeds the maximum.
- `AttemptsHaveOneWriter`, `PagesHaveOneWriter` and `TerminalJobsStayUnlessTied`, by `OInv`, as
  long as no two transitions of a job share a millisecond. Nothing excludes a second worker:
  the lease elapses and both write. What decides is the transition: stamps rise
  (`Rising`), so the append of queued->claimed succeeds for one turn only, and
  that turn owns the chain until it is back at queued (`OneOwner`,
  `OwnerKnowsChain`); for every other turn the append is illegal, and it files
  nothing. In one millisecond two transitions are equal, the second is taken for
  a replay, and two turns go on: hence the condition.
- `DeadLettersExplained`, by `DInv`: a page on file never changes, and a turn at its last
  edge has filed all its pages or found them filed alike (`FiledOK`). It holds
  under every fault and needs no clock.
- `SuccessHasResults`, by `SInv`: the pages a turn has left to save are not on file
  (`FilesFresh`), so no other turn's page refuses the save. That needs the
  ownership of the chain, hence the same condition besides crashes and failed writes.
- `OneWorkerNeverLoses`, by `LInv`, for one worker process under any faults: before it
  completes a claim the job is terminal or its outbox row is written, and before
  it clears the outbox the job is terminal or in the queue again (`Recorded`).
  `coord_lost` shows that two workers do not keep this.
- `OneWorkerKeepsTheCap` and `OneWorkerAdvances`, by `BInv`, for one worker process that
  neither dies nor loses a write: the attempt that is due, one more than the
  failed->queued transitions of the chain (`Due`), is what the outbox holds, or
  else what the queue rows of the job hold (`NextDue`), but for the moment between
  the transition and the outbox row. The read of step 2 prefers the outbox, so
  it is also what the next turn runs (`TurnDue`), whatever the lease did. Equal
  milliseconds turn a failed->queued into a replay: then an attempt may run ahead
  of the chain, never behind it, which the cap does not mind and the count of
  attempts does. A retry is decided while an attempt is left, hence the cap.

Every leaf is found well within the provers' default time; long cases are split
into steps for that.

Only model-checked: liveness, that is `EventuallyTerminal` (liveness under fairness
is out of the prover's reach). The runs that end in a violation have a
counterexample instead of a proof. That the abstract modules are the right
abstractions of the code is what sections 2 and 5 argue; no proof speaks of it.

## 5. Not modelled, and why

Engines, fetchers and HTTP transport (an outcome or an exception to the
coordinator); CLI, configuration and logging (no state); the in-memory queue and
persistence (the doubles of the tests, or the same prepare functions again);
ingestion's fallback of two writes, whose orphan `ingest.ts` documents; the
screens other than the deadline screen (they load once and show the answer; a
shown export of citations is not refreshed by an unlink); OCR links, claim tracks
and other single audited writes (`WriteRecord` is their pattern); readiness and
startup; the native evidence core (the same pure computation in other
languages); the bake-off harness and scripts (not part of the running system);
schema validation of payloads, symlinks, path names and migrations (data).

What the models say of the code beyond the properties: neither verifier reads
`last_event_id`, so an archive whose head names no event verifies, and yet every
later write of the matter is refused, because `loadSyntheticStoredEvents` then
starts again at sequence 1; `assertMatterAuditHeadConsistent` lets a NULL through,
and no other write asks it. An archive whose head was made to name another of its
events verifies too, and the next write, unless it is an edit of the details, is
chained to that event and moves the hash with it; from then on the matter no
longer verifies. An export may cite as CLEAN an anchor that another program made
stale during the call (section 2). A comment on dismissing a confirmed entry is
not what the code does (section 2). Replacements may fork (two
facts may replace one); the catalogue is no snapshot and may list an item beside
its replacement; a call that outlives its screen leaves the next screen stale
until it loads again; a backup that throws in its verification or while writing
the manifest throws out of `runBackup`, whose comment says that it returns.

## 6. Plan

1. The page fetcher (`fetchPageBytes.ts`, `httpsTransport.ts`): who owns the deadline and
   the abort listener while a transport is pending, what an early refusal leaves
   of an unread response, a DNS lookup that cannot be aborted.
2. The worker loop with stop signal and cap; ingestion's fallback path.
3. Proofs: that the coordinator uses its queue as `LeaseQueue` allows. `SqliteOcrQueue`
   is shown to implement `LeaseQueue`; that the sequence of rows in `OcrCoordinator`
   is the same queue is by reading, because a receipt is its worker there, and
   a receipt of its own for every claim would make the model's states unbounded.
