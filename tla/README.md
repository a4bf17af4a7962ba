# ControlDB in TLA+

ControlDB records what agents do: an SDK turns an agent's actions into events,
asks a policy engine and human reviewers before it acts, a collector stores the
events as a hash chain per run and exports them as evidence, and two embedded
storage engines (C++ on RocksDB with a write-ahead log, and a Python backend on
RocksDB) can take the place of the SQL database. This project models the parts of
it that have state and can go wrong in ways a test hardly reaches, checks them
with TLC, and proves with TLAPS, for instances of any size, every safety property
of the passing runs but the one about redaction.

## Inventory

| Component | State | Operations | Interacts with | What is hard | What makes it correct |
|---|---|---|---|---|---|
| Write-ahead log, `core/src/wal.cpp` | log file, `applied.seq`, two atomic counters | append, mark_applied, read_unapplied, truncate_applied, open | owned by the storage engine | crash inside a write, truncation without a lock, numbering after a restart | recovery finds what was in flight; numbers stay above the watermark; order |
| Hash chain, `core/src/hash_chain.cpp` | none | compute_event_hash, verify_chain | engine, collector, SDKs | – | no false alarms, no missed change |
| Storage engine, `core/src/event_store.cpp` | RocksDB column families, `global_seq_`, `write_mu` | start/commit/rollback run, append_events, approvals, exports, timeline, query, verify | WAL; Python bindings | crash between WAL, batch and mark; failed writes; replays; cursors | chain, counters, index, append-only, atomic batches |
| Collector ingest and query, `ingest.py`, `query.py` on `storage/db.py` | `agent_runs`, `audit_events` | the same, over HTTP | SDKs; PostgreSQL | two replicas, retries, a rollback in the middle of a batch, readers between transactions | chain, each event once, answers that stay true, cursors that miss nothing |
| Evidence export, `export.py` | bundle files, `evidence_exports` | export_run, download | ingest (verify, append); a shared directory | four sessions and a file in one request, one file name per run | a valid bundle holds a whole chain; a download is what the row says |
| Approvals, `approvals.py` | `approvals` | request, decide, pending | SDK, reviewers | decisions and retries that race on two replicas | a row is one decision; nothing becomes pending again |
| Policy engine, `policy/engine.py` | the rules loaded at start | evaluate | SDK (`enforce_policy`) | what the engine decides, what the route answers and what the SDK reads are three things | the agent does what the engine decided |
| Redaction, `redaction.py` twice | none | walk over a payload | SDK before an event leaves, collector before it is stored | nesting, rules that overlap, two rule sets | no value a rule is about leaves |
| Python RocksDB backend, `storage/rocksdb_backend.py` | column families, `_seq`, sessions | an SQLAlchemy-like session, scans | ingest service | sessions that share a counter, crash, secondary indexes | sessions atomic, numbers unique, scans complete |
| Python SDK, `run.py`, `transport.py`, `client.py` | event buffer, spool file | emit, flush, commit, rollback, fail, policy and approval calls, flush_spool, close, exit | collector | lost answers, put-back, draining while posting | nothing lost, order, commit after the last event, posts end |
| TypeScript SDK | as above | as above, but every flush awaits | collector | flushes that overtake each other | as above |
| Raft, `core/src/raft/` | term, vote, log, roles | elections, replication, commit, apply | its unit test only | locks held across RPC | not modelled, see below |
| Auth, telemetry, dashboard, bindings, integrations | little or none | lookups, text, adapters | collector, SDKs | – | – |

Every component, with its sources and its status, is listed in `PROJECT.json`,
and so is every hazard found in the code, at its line, with the properties
about it.

## Modules

| Module | Models |
|---|---|
| `Wal` | the log file, the watermark file and a process that dies anywhere, also inside a `write()` |
| `HashChain` | hashes as collision-free functions of content and predecessor; `verify_chain` |
| `EventStore` | the write side of the engine; uses `HashChain` and an instance of `Wal` |
| `AuditLog` | what the engine promises, without mechanism: per run a log that grows at its end |
| `EventStoreReads` | timeline, query and verify as functions of the engine's database |
| `EventStoreProofs` | theorems about `EventStore` and `EventStoreReads`: consistency, kept rows, keys stored once, the refinement of `AuditLog`, complete cursors, an exact `verify` |
| `Ingest` | the collector's ingest service, SQL statement by SQL statement |
| `IngestReads` | a client that follows the cursors of timeline and query while `Ingest` runs |
| `Evidence` | evidence export on top of `Ingest`: sessions, the bundle file, its row and its event |
| `Json`, `Policy`, `Redaction` | pure parts: JSON values, rule matching and its answer, the walks over payloads |
| `Approvals` | the approvals service on several replicas, and the scope test of `auth.py` |
| `Governance` | the SDK's `enforce_policy` and `request_approval` against `Policy` and `Approvals`, while reviewers decide |
| `GovernedPayloads` | `Governance` with the walks of `Redaction` over the payloads of its events |
| `RocksBackend` | the collector's Python RocksDB backend: sessions, counter, indexes, scans |
| `Sdk` | one run of the Python SDK, its transport and its spool |
| `SdkTs` | one run of the TypeScript SDK, whose calls overlap |
| `Subsequences`, `SubsequenceProofs` | selection of a part of a sequence by position, what sequences contain, and the facts about both |
| `IngestProofs` | theorems about `Ingest`, `IngestReads` and `Evidence` |
| `WalProofs`, `GovernanceProofs`, `RocksProofs`, `SdkProofs`, `SdkTsProofs` | theorems about the modules they are named after |
| `MC_*` | instances for TLC |

Operators whose comment starts with "A mistake" are deliberate errors: each is
a variant of the definition that follows it, and replacing the definition by it
must make a named property fail. They show that the properties can fail.

### `Wal`

`walFile` is the log as a sequence of records, some of them torn; `appliedFile`
is `applied.seq`. `WalAppend`, `MarkApplied`, `TruncateRead` and `TruncateSwap`
(the two halves of `truncate_applied`, which takes no lock) and `Open` are the
functions of the class. `OwnerAppend`, `OwnerMark` and `GiveUp` are the use the
engine makes of them: one entry at a time, under `write_mu`. `inflight` and
`owed` are history: the entry whose mutation is undecided now, and the one that
was undecided when an earlier process died. The CRC is written by the code and
never compared. A record that is cut short therefore makes the reader take the
bytes of the next record for payload and go on out of step: `Reads` is the set of
what it may return, the records before the torn one (`Intact`) followed by any
entries made out of the rest, of which some may by chance be records again. A
torn record at the very end is not returned, because the read fails there. The
scan in `open` may take any larger number from behind a torn record. Entries of
an unknown content carry the payload `Garbled`.

### `EventStore`

`db` is RocksDB: one function per column family (`runs`, `events`,
`idempotency`, `approvals`, `exports`) and `seq` for `meta/global_seq`. The
secondary indexes `ev_by_run`, `ev_by_type` and `runs_by_org` are written in the
same batch as the rows and never changed, so they are functions of the rows. A
mutating call is a chain of steps of the one thread that holds `write_mu`, told
apart by `pc`:

* single-row calls (`start_run`, `commit_run`, `rollback_run`,
  `upsert_approval`, `update_approval_status`, `put_export`): read and log,
  `WriteRow` or `WriteRowFails`, `MarkRow`;
* `append_events`: read the run, per event `SkipDuplicate` or `LogEvent` and
  `MarkEvent` (in this order: the code marks inside the loop), then
  `WriteBatch` or `WriteBatchFails`.

`staged` is the database with the `WriteBatch` object under construction
applied. `Crash` may come between any two steps and inside `mark_applied`;
`Reopen` is the constructor. The engine neither reads nor truncates its log, so
those actions of `Wal` are not used here. The status of a run after an append is
computed event by event, while the code runs a second loop at the end; nothing
can see the difference. Timestamps, payloads, names and the environment are
left out. Calls that throw before they write, and calls that return an existing
row, change nothing and are not actions. The status of an approval is any string
of the caller, "requested" included, so `RowsKept` does not say that a decision is
final: it says that the status changes by an `update_approval_status` only, which
the log has announced. A caller of `start_run` leaves hash, count and status to
the engine, which would also store values of the caller's; every caller in the
repository does.

The log of a run in `AuditLog` is the list of contents its `last_event_hash`
stands for; with that mapping the engine implements `AuditLog!Spec`.

### `EventStoreReads`

The read calls take no lock and each reads through one iterator, which sees the
database of one moment. `Timeline`, `QueryByType`, `Query` and `Verify` are
those calls, including the conditions under which they hand out a cursor. The
5000 of `verify` is the constant `VerifyLimit`. `Follow` is a client that asks for
page after page until it gets no cursor, written as a recursive function of the
number of pages so that it can be reasoned about.

### `Ingest`

A replica is one process. Its handlers are `async def` functions that never
await, so a replica finishes a request before it takes the next one; requests
interleave only between replicas, of which the deployment has two. `req[c]` is
the request replica `c` serves: the run row it read (`base`), the object it
changes (`row`), the rows its transaction inserted (`mine`) and the ids it will
report (`accepted`). Between two actions of one request lies an SQL statement of
the other: the SELECT by key (`CheckKey`), the INSERT (`Insert`, or
`InsertClash` when a unique column refuses it), the UPDATE and COMMIT
(`Commit`). What SQLAlchemy and PostgreSQL do is external and taken from how
`ingest.py` uses them: a rollback expires the run object, which is read again on
its next use (`Expired`, `Loaded`); an UPDATE writes the columns that changed
(`Updated`); a statement sees committed rows and its own (`Seen`), and an INSERT
waits for an open transaction that holds the same unique value. The model sends
the UPDATE of the run at the commit; the code may send it earlier within the
transaction, which only excludes some of the interleavings checked here.

### `IngestReads`

`rd` is a client that asks for one page after the other; every page is a SELECT
of its own between the statements of the replicas. A sequence number is taken at
the INSERT and becomes visible at the COMMIT, so `hidden` records the numbers
that were taken and not yet visible when a page was read. The limit of 1000 in
`query()` is the constant `QueryCap`.

### `Evidence`

`export_run` is a series of steps on a replica: read the events, verify in a new
session, open the zip file (which empties it), write and close it, read it back
for the hash, insert the row, then the statements of an ordinary `append_events`
of `Ingest`, and the answer. The content of a file is the set of exports that
wrote into it since it was last emptied; an export that dies leaves the file as
it is. `opened` and `overlapped` are history: which export opened the file last
and which ones used it at the same time.

### `Policy`, `Redaction`, `Approvals`, `Governance`

`Policy` keeps the three readings of one result apart: `Decision` is what the
engine makes of a rule (`bool()` with defaults), `Answer` is what the route sends
(the rule's own fields overwrite the decision's), `Enforcement` is what the SDK
does with it (`is False`). `Redaction` has the SDK's and the collector's walks as
two recursive operators, and a reference (`Leaves`, `Secrets`) that looks at every
leaf with the keys above it. `Approvals` has a request read its row in one step
and write in another; an UPDATE writes the columns whose value differs from what
was read. `Governance` runs an agent's calls of `enforce_policy` in a scenario
(API key, policy files, input, redaction rules, capture mode) chosen in the
initial state: check, events, flush, and the request for approval with its
attempts, of which one that timed out may still be served by a replica. The
flush ends as module `Sdk` says: delivered, raised, or, for a client that fails
open without a spool, dropped, in which case the call goes on to its request. In
this module the buffer does not fill up. What the SDK and the collector make of a payload are the
operator parameters `Capture` and `Keep`, for which `GovernedPayloads` and the
run have `Prepared` and `Kept` of `Redaction`: the walks are recursive, and the
proofs about `Governance` hold whatever they do.

### `RocksBackend`

The database is one function from column family and key to value. A session
collects objects (`pending`), `flush` turns them into puts of a private batch one
by one, taking numbers from the shared counter (`WriteEvent`) and storing the
counter as it then is (`PersistSeq`), and `Write` applies the batch in one step.
An event object keeps the number of its first flush (`sequence`), also across a
rollback; a caller retries with that object or with a new one. Objects of other
classes, which is what the services add, are skipped (`SkipOther`). A run without
`started_at` is indexed under the time of the write (`Moments`). The hash of an
event is stored in the column family of the keys, under its key with ":hash"
behind it (`HashKey`), where it can meet the key of another event. `Open` and `Bootstrap` are the two halves of the constructor, `Crash` ends the
process anywhere. A caller of `add` is the ingest service: it asks for the
idempotency key first and retries what was not acknowledged. `regressed` records
that a write has lowered the stored counter, which is what `rocks_reopen` shows;
properties that depend on unique numbers are stated for databases where this has
not happened. Rows that are changed after `session.get` are not added again by
the services and so never written on this backend; the model has only `add`.

### `Sdk`

An event is the number of its emission. The agent thread is either in user code,
in a post, in `commit_run`, or gone; a second thread may run `flush_spool` at the
same time, which is why `Spool` has a lock. An attempt of a post succeeds, fails,
or is refused for good. A batch whose attempt has failed is in `late`: the
collector may process it at once, at any later time, more than once, or never
(`ProcessLate`), and so it may with the request of `commit_run`. After
`max_retries` attempts the batch is spooled, given up (`fail_open`) or raised,
in which case `_flush` puts the events back. `commit` stands for `commit()` and
`rollback()`, which differ in the event they emit and the route they call.
What the client does with a batch it cannot send (`onFailure`) is chosen in the
initial state and never changes.

### `SdkTs`

The stretches between two `await`s are the actions, and `call[c]` is a pending
call: what it is to do in the end (`goal`), its next stretch (`pc`), the batch it
is posting and what follows the post (`next`). `awaits` says whether the agent
awaits each call before it makes the next; if not, several calls are pending at
once. `run()` sends `startRun` without waiting for it, so `runStarted` may become
true at any time or never, and until then the collector refuses events. Failed
posts are processed late or never, as in `Sdk`, and so is what was on its way when
the process exits.
`Spool.write` creates a stream that opens the file and writes to it later, while
`drain` reads and unlinks the file at once: `inode` tells the files that had the
name apart, and `orphaned` records that a line went to one that has lost it. The
other threads of Node write while `drain` runs, so that lines written between its
read and its unlink are lost too. The attempts of a request are not counted, since `postEvents` treats a request that
was refused for good like one whose attempts are used up.

## Runs

All runs set `CHECK_DEADLOCK FALSE`: when the bounds are used up the model
stops, which the system does not.

| Run | Result | Shows |
|---|---|---|
| `wal` | holds | with crashes between and inside the steps, torn records and a truncation, what stands before a torn record is in order; without a torn record and a truncation recovery finds the entry in flight and the numbers stay above the watermark |
| `store_append` | holds | two tenants, two runs, an approval and an export: chain, run rows, keys, index, append-only, kept rows, refinement of `AuditLog`, the inductive invariant of the proofs; verify and the cursors of timeline and single-type queries |
| `store_replay` | violated | nothing replays the log after a crash |
| `ingest_retries` | holds | each event once, answers stay true, no rolled-back event is referenced, rows are kept, readers miss nothing that was committed, on two replicas with retries |
| `ingest_replay` | violated | a late replay breaks the chain |
| `evidence` | holds | a bundle that says valid is a whole chain; a download matches its row |
| `governance` | holds | the agent follows the decision, what it waits for is stored and, unless the client drops, announced before; decisions stay whole; redacted values are in no delivered event |
| `sdk` | holds | for clients that spool, drop or raise: nothing lost, posts and drains end; for a client that raises: order, and commit after the last event, also with requests processed late |
| `sdk_drain` | violated | a failing drain drops the entries behind the failure |
| `sdk_ts` | holds | overlapping calls and a late `startRun` lose nothing; order and commit for an agent that awaits its calls and a client that throws |
| `rocks` | holds | sessions atomic, nothing acknowledged lost or stored twice, pages complete, no number used twice while the stored counter grows; a ready database is bootstrapped; the list of runs is complete, and in order and without repetition for runs with a `started_at` |
| `rocks_reopen` | violated | the stored counter falls behind the stored events |

The runs marked "violated" each check one statement of a comment, a document or
a test against the code; `PROJECT.json` quotes the statement and the line.

Properties that hold only under a condition say so in their text. The conditions
stand for what the model shows to go wrong otherwise:

* after a truncation and a restart the log is empty, numbering starts again at
  1 and is below the watermark, so a recovery ignores new entries (`wal.cpp:85`)
  and `last_seq()` is not the "last WAL sequence number" that `wal.hpp:62` calls it;
* behind a torn record a reader is out of step: it may return entries nobody
  appended, and later ones need not be among them (`wal.cpp:159`, against "all
  committed entries" in `wal.hpp:14`); a truncation then writes them to the new
  log; an append between the two halves of a truncation is lost (`wal.cpp:183`,
  against "keeping only entries > applied_seq" in the line above it);
* the entries of a batch are marked applied before the batch is written
  (`event_store.cpp:620`), so even a replay would not find them;
* a key twice in one batch is stored twice (`event_store.cpp:560`), which is why
  `KeysUnique` and the refinement are checked for batches of distinct keys, as
  the SDKs send them;
* a query of the engine with two types skips events for good: its cursor is the
  last event scanned, and events of the second type below it are never returned
  (`event_store.cpp:745`); a query with neither types nor a run returns nothing
  (`event_store.cpp:735`, against `types.hpp:134`);
* two replicas that append to one run at the same time chain both events to the
  same predecessor (`ingest.py:202`), which `verify()` then reports; a clash
  behind a new event of the same batch rolls that event back although the answer
  reports it (`ingest.py:323`): `RollbackSafe` is checked for the batches the SDKs
  send, which begin with the same event when they are repeated;
* an event whose transaction was open while a client read past its number is
  missed by that client (`ingest.py:362`), and a query limit above 1000 or below
  1 gives one page and no cursor (`query.py:45`);
* a second export of a run overwrites the bundle of the first, whose row keeps
  the old hash (`export.py:62`), and exports at the same time mix in one file;
* two decisions of one approval at work on two replicas can leave a row with the
  status of one and the reviewer of the other (`approvals.py:54`); a decision is
  not final, a later one replaces it in the same row. `docs/security/threat-model.md:11`
  says "status transitions append new events (no in-place updates)", which is not
  what `decide` does;
* a client that fails open and has no spool drops the events it cannot post and
  goes on, also to the request for an approval (`transport.py:164`,
  against `run.py:353`, "Flush so the dashboard can pick up the request before the
  API call");
* a rule whose `allowed` is null denies in the engine and passes in the SDK
  (`app.py:260`, `run.py:306`);
* the collector's application creates the ingest service without redaction rules
  (`app.py:101`), and the input of a policy check or a request for approval is
  sent as it is: `RedactionHolds` is about events;
* on the Python RocksDB backend the stored counter can go back, after which a
  restarted process reuses numbers (`rocksdb_backend.py:501`), a project-wide
  query that reaches its limit is cut in the order of types
  (`rocksdb_backend.py:657`), objects of the services' SQLAlchemy classes are
  skipped (`rocksdb_backend.py:509`, against "all services ... work unchanged" in
  line 7), a run without
  `started_at` is listed once for every time it was written
  (`rocksdb_backend.py:522`), and an event whose key is another's with ":hash"
  behind it is not found by its key, so that a retry stores it again
  (`rocksdb_backend.py:545`);
* a batch that was spooled, dropped or given up can be stored after newer events,
  when it is drained or when the collector processes the failed request late
  (`transport.py:138`), so order is stated for clients that raise;
* a drain that fails, and in TypeScript a drain between the opening and the
  writing of the spool file (`transport.ts:48`) or a write between the reading and
  the unlinking (`transport.ts:60`), lose entries; a TypeScript agent
  that does not await its calls can see batches, and `commitRun`, overtake each
  other.

### Bounds

* `Wal`: four entries, two crashes, one torn record, one truncation, two misread
  entries: a crash that leaves a torn record, one that meets it, and a truncation
  before or after; a reader may make nothing, one entry or two of what is behind
  the torn record, and two entries can be out of order.
* `EventStore`: two runs, two interchangeable tenants, two keys, two
  batches of two events of which the second repeats a key of the first and has an
  event without key, four sequence numbers, five WAL
  entries, one approval, one export, one failed write, one crash. A used-up
  sequence number, its reuse after a crash and a replay of half a batch all fit
  into four numbers. Page sizes are 1 to 3, so that pages end before, at and
  after the end of a run that is or is not the last in the index, and a type
  filter meets up to three events.
* `Ingest` and `IngestReads`: two replicas, five requests, four ids and three
  keys, one failing statement, pages of one and of two. There is one run: a key or
  id of another run would be answered with that run's hash, but the SDKs build
  keys from the run id and ids at random.
* `Evidence`: two replicas, two exports of one run, two events that arrive in any
  order and at the same time, one export cut off. Two exports are what it takes
  for one file to be used twice.
* `Governance`: two calls, two attempts each, two decisions, two failures, two
  replicas. Scenarios vary the key, the policies with the input, the rules
  with the capture mode, and what the client does on failure, one group at a time around the refund policy of
  `deploy/policies`; payloads are nested two deep with a list.
* `RocksBackend`: two threads, three sessions of up to two objects, two openings,
  three numbers: two sessions that overlap and one that follows a restart. What one
  session may add (`Bodies`) is kept apart the way requests keep it apart: two
  events, of which one has a key and the other that key with ":hash" behind it; an
  event without key and an object of another class; two runs that start in the same
  millisecond; a run without `started_at`, which is written at two moments, one
  before and one after the others, and an approval.
* `Sdk`: batch size two, two attempts, three events, two drains of which one
  fails, so that a batch put back grows beyond the batch size and is processed
  late in its old and its new form.
* `SdkTs`: two pending calls, batch size two, three events, one drain. Three
  events are enough for a batch in flight beside a filling buffer and for a put
  back batch that is longer than the batch size. The two calls are symmetric.

### Fairness

Only the Python SDK is checked for liveness. `WF(Attempt)`, `WF(CommitRun)` and
`WF(FlushSpool)`: every request has a timeout (`httpx` with `timeout=10`), the
back-off is a bounded sleep and both loops are plain loops, so a started post and
a started drain keep taking steps. Nothing is assumed about whether requests
succeed. The TypeScript SDK gives `fetch` no timeout, so nothing is claimed there.

## Proofs

The theorems hold for all sets of runs, tenants, keys, replicas, threads, calls
and payloads and for all bounds. Each rests on an inductive invariant, which TLC
has checked on the instance of the run before it was proved.

| Module | Theorems (property) |
|---|---|
| `EventStoreProofs` | `TypeCorrect` (`TypeOK`), `InvariantHolds` (`IndInv`), `ChainHolds` (`ChainIntact`), `RunRowsCorrect` (`RunsMatchEvents`), `IndexCorrect` (`KeysIndexed`, a part of `IndInv`), `StoreAppendOnly` (`AppendOnly`), `RowsStay` (`RowsKept`), `KeysStoredOnce` (`KeysUnique`), `RefinesAuditLog` (`ImplementsAuditLog`), `CursorsAreComplete` (`CursorsComplete`), `VerifyIsExact` (`VerifyExact`) |
| `WalProofs` | `WalTypes` (`WalTypeOK`), `WalNumberingSound` (`NumberingSound`), `WalRecoveryFinds` (`RecoveryFindsInFlight`) |
| `IngestProofs` | `IngestTypes` (`TypeOK`), `EventsStoredOnce` (`StoredOnce`), `RowsAreKept` (`RowsKept`), `HeadsAreStored`, `AnswersAreStored` and `RollbackIsSafe` (`RollbackSafe`), `ReadersAreComplete` (`ReadersComplete`), `EvidenceInvariant`, `BundlesAreIntact` (`ValidMeansIntact`), `DownloadsMatch` (`DownloadMatches`) |
| `GovernanceProofs` | `EnforcementIsDecision` (`EnforcementFollowsDecision`), `AskedIsAnswerable` (`AskedIsStored`), `DecisionsAreWhole` (`DecisionWhole`), `ApprovalsAreKept` (`ApprovalsKept`) |
| `RocksProofs` | `RocksTypes` (`TypeOK`), `BootstrapComplete` (`ReadyIsComplete`), `SessionsStoredOnce` (`StoredOnce`), `EventsNeverReplaced` (`NeverReplaced`), `SessionsAreAtomic` (`SessionsAtomic`), `PagesAreComplete` (`PagesComplete`), `RunsAreListed` (`RunsListed`) |
| `SdkProofs` | `SdkTypes` (`TypeOK`), `SdkLosesNothing` (`NothingLost`), `SdkKeepsOrder` (`InOrder`), `SdkCommitsComplete` (`CommittedComplete`) |
| `SdkTsProofs` | `SdkTsLosesNothing` (`NothingLost`), `SdkTsKeepsOrder` (`InOrder`), `SdkTsCommitsComplete` (`CommittedComplete`) |
| `SubsequenceProofs` | `SelectAtSelects`: what `SelectAt` computes, for every sequence |

### Assumptions

Bounds are natural numbers, batch sizes and numbers of attempts are not zero,
"no key", "no run", "no payload" are not keys, runs, payloads, and batches are
sequences of events. Beyond that:

* `DistinctKeys`, a hypothesis of `KeysStoredOnce` and `RefinesAuditLog`: no
  batch repeats an idempotency key. `append_events` does not look at the batch
  under construction, so without it the statements are false; the SDKs make a key
  of run, step number and type and never repeat one;
* `OneTypeLists`, a hypothesis of `CursorsAreComplete`: queries name one event
  type. With two the statement is false, as said above under Runs;
* `RepeatedFromStart`, a hypothesis of `AnswersAreStored`: no batch repeats an
  event itself, and a batch that repeats an event of another one repeats what was
  before it there. The SDKs send such batches (a failed batch is put back in front
  of the buffer); without it the statement is false (`ingest.py:323`);
* `OneRun`, a hypothesis of `HeadsAreStored`: any batch may be sent to any run in
  the model, and a key of another run would be answered with that run's hash. The
  SDKs make keys of the run id, so that runs do not meet. `RollbackIsSafe` has both
  hypotheses. `MC_Ingest` asserts both for its instance, and `MC_EventStore`
  asserts `OneTypeLists`;
* `RocksEvents`: the objects that are events say so (the kind of a row is its
  class in the code); `RocksStarted`: a run has a `started_at` or none, and times
  are numbers; `RocksObjects`: callers add rows of the backend or objects of other
  classes, in any grouping (`Bodies`);
* `GovernanceIds`: ids made by `generate_approval_id`, which are random, do not
  come twice, and none is the word by which the model names another outcome;
* `GovernanceRules`: policies are finite lists of rules whose results are those
  `Policy` describes.

### Arguments

**Storage engine.** None of the safety properties is inductive alone.
`ChainIntact` after a `WriteBatch` needs to know what the batch holds, and that
its numbers are above all numbers in use; this in turn depends on the counter of
a live process being at least the persisted one, also after a failed write (the
counter is ahead) and after a reopening (it is equal). `IndInv` says so: the
database is `Consistent` (chained, numbered up to `seq`, run rows and index
match), `db.seq <= globalSeq` while the process lives, and the batch under
construction is either an append in progress (`AppendStaged`: the old events plus
events of the call's run above them, chained, indexed and counted, with the
call's head the newest) or a single row that leaves events and chain heads alone
(`RowStaged`). The lemma `AppendKeepsChain` carries the argument: appending a row
that is chained to the newest of its run keeps `Linked` and makes the row the
newest. `KeepInv` adds that a staged row keeps the rows there are, and `KeysInv`
that the keys of an append in progress are new to the database, come from the
part of the batch already gone through, and that every log names indexed keys
only. With these the refinement goes step by step: `WriteBatch` maps to the
append of the contents added to one log, `WriteRow` to the start or the end of a
run or to a stutter, everything else to a stutter.

**Write-ahead log.** `OrderInv` says that as long as no record was torn, or the log
never truncated, the part of the log before a torn record and what a truncation has
copied are numbered upwards and not above `last_seq_`; with both, a truncation may
have made records of what it misread. `CleanInv` is about logs without torn records and truncations: the
log is complete, both watermarks are behind its last number, and undecided
entries are above the watermark. What a recovery returns is `SelectAt` of the
readable part; `SelectAtSelects` turns that into positions.

**Ingest.** `RowsInv`: the committed rows and the rows of all open transactions
differ in number, id and key. An INSERT looks at all of them (it waits for open
transactions that hold the same value), a COMMIT moves rows from one to the
other, a rollback removes some. `Typed` carries what the statements of one request
read of each other, among it that a request's object has the tenant of its row.
`RollbackSafe` has two halves. `HeadsInv`: a hash that a run, a request or an
event goes on from is that of a row committed before, or of the same transaction;
a rollback takes the rows away together with the run row's new hash, and the
request goes on from the event it clashed with, which is committed. `AnswersInv`: the stored events are closed
(with an event of a batch, all those before it in the batch are stored), and a
transaction holds events of its own batch only. So when a clash rolls rows back,
the event it clashed with is committed, and with it everything the request had
inserted before is there already.

**Readers of ingest.** `ReadsInv` (with `Behind`): every matching event up to the
cursor was given to the client or is in `hidden`, and so is every number up to the
cursor that an open transaction holds. A page takes the next matching numbers in
order and its last one becomes the cursor; numbers given out later are above it.

**Evidence.** `ExportsInv`: for every export at work and every row, the events read
are rows of the run and, if called valid, a chain (`BundleOK`, which stays true
because rows are kept). The verdict is about a later moment: what was read contains
the predecessors of its events (`Followed`, from `HeadsInv`), so it is a chain when
the later, larger set is one. An export that opened the file last and had it to
itself finds there what it wrote (`FileOK`, `Alone`). Steps of `Ingest` leave the
files alone and the event of an export is an ordinary append, so that `IngestInv`
holds along with it.

**Readers of the engine.** A scan (`Ascending`) chooses for every place the number
of that rank; `AscendingOrders` shows by counting that this puts a finite set in
order, and `OrdersUnique` that nothing else does. A page (`PageFor`) is all that
is left, or all up to its cursor; `FollowAll` concludes by induction over pages
that the concatenation orders the whole set, and that there are no more pages
than events. `verify` reads a first page, which is an initial part of the run
(`FirstPage`), in which the predecessor of an event is the one scanned before it
(`ScanPredecessors`): with `Linked` from `IndInv` the check succeeds. A row with
another type has another content, so its hash does not recompute
(`TypeIsHashed`).

**Approvals and enforcement.** `ServiceInv` is about rows and decisions at work:
a decision keeps what the row was given, carries itself, and has read the row as
it still is unless another of the same approval is at work, which is what
`crossed` records. `AskedInv` says that every row, and every row about to be
inserted by an attempt the client may have given up, was asked for by a call that
was made, whose event has left the agent unless the client drops what it cannot
send. The rest is about the agent: a call follows the
engine's answer, and `VerdictFollows` compares the three readings of a rule's
result (decision, answer, verdict) for all results a rule can have.

**Python RocksDB backend.** `SessionInv` describes the batch of a session on its
own (its puts are those of the objects added, its numbers are its own, its
indexes agree). `Apart` and `Numbering` keep sessions from each other: no two hold
the same event object, no two objects have the same number, and none has one above
the counter. `CounterInv` is about the database while the stored counter has not
gone back: it covers all numbers in use, so no session holds a number that is
taken, and an object whose number is in use was acknowledged or is about to be.
That is what `regressed` excepts and `rocks_reopen` shows to fail.

**SDKs.** For a client that raises, what is stored, the buffer, the batch and every
batch that may still be processed late are `InPlace`: increasing, and `Gapless`,
which says that every event before one of theirs is stored or among them. Such a
batch adds to the store exactly the events that come next (`StoreInPlace`), so that
storing it keeps the order, whatever part of it was stored before
(`AppendNewIncreasing`), and leaves the other batches as they should be. For
the TypeScript client
this needs `OneCall`: an agent that awaits has one call pending, and while it
posts the buffer is empty.

**Sequences.** The library's induction theorems take an operator as a parameter,
which the provers cannot instantiate. `NatSetInduction` states induction for a
set of numbers instead and is proved from the well-foundedness of `<`; a proof by
induction defines the set of numbers for which its statement holds. `SelectAt`
has its recursion written as a function for this purpose.

### Only model-checked

* Liveness (`CallsEnd`).
* `RedactionHolds` of `GovernedPayloads`: the walks over nested payloads are
  recursive over data, for which the prover has no induction, and declared
  `RECURSIVE`, with which it cannot be used.
* What the theorems with hypotheses leave open is not true of the code; the list
  under Runs says what happens then.

## Not modelled

* Raft: `node.cpp:181` reads `cfg.cfg.peers`, which no type has, so the sources do
  not compile; nothing but their unit test creates a node, and only in
  single-node mode. With peers, `run_election` (`node.cpp:267`) waits for tasks
  that lock the mutex it holds, so that no election ends and no behaviour of a
  cluster is left to check.
* Canonical JSON and the agreement of its three implementations; timestamps;
  names, reasons and texts.
* In the engine: bootstrap, organisations, projects and API keys; compaction and
  snapshots; `mvcc.hpp` and `snapshot.hpp`, which have no implementation; the
  Python bindings.
* Evaluation of policies by an OPA server, which is one HTTP request; redaction
  callbacks; the TypeScript versions of policy checks and redaction.
* The Python WAL object, which the backend creates and never writes.
* Lookup of API keys, configuration, metrics, dashboard, listing routes.
* Framework integrations, which turn callbacks into the emit calls of `Sdk`;
  benchmarks and examples.

## Plan

The modules are complete as far as the repository's behaviour goes, and the
safety properties are proved up to the one above. When the code changes, the
places to look at first are the conditions listed under Runs: a lock or a version
column in `ingest.py`, a replay in the constructor of the engine, or a cursor per
type would each allow a property to be stated without its exception.
