# A TLA+ verification of FlowDB

FlowDB is an embedded LSM-tree store written in Rust (`src/src`), with a JSON
document layer (`src/src/jsondb`) on top.  This directory holds TLA+ models of
its write path, its storage and recovery, its reads and the document layer, the
TLC runs that check them, and TLAPS proofs.
`PROJECT.json` maps every definition to source lines and lists the runs, the
mutants that show each property can fail, the findings, the hazards and the
theorems.

## 1. Inventory

### Components

| component (source) | state | operations |
|---|---|---|
| group-commit pipeline (`write_worker.rs`, `WritePipeline`) | `queue`, `committing` flag, worker mutex, one `Completion` per submission | `submit`, `drain_and_process`, `wait_for_completion` |
| write worker (`write_worker.rs`, `WriteWorker`) | WAL, memtables, references to manifest and index | `process_batch_group`, `process_batch_inner`, `do_flush` |
| write-ahead log (`wal.rs`) | segments (file, bytes written, largest sequence number), next segment id | `open`/`load_existing`, `write_encoded`, `sync_all`, `replay_from`, `truncate_before` |
| memtables (`memtable.rs`) | active table, list of frozen tables | `insert`, `freeze`, `pop_frozen`, `should_flush`, `frozen_backpressure`, look-ups |
| manifest (`manifest.rs`) | log of JSON lines, state: SSTs, block infos, `last_flushed_seq` | `open`, `append`, `snapshot`, `next_sst_id` |
| compaction (`compaction.rs`) | none between runs | `run` |
| garbage collection (`gc.rs`) | none between runs | `run` |
| block index (`block_meta_index.rs`) | blocks per time bucket, blooms per SST | `add_sst`, `remove_sst`, queries |
| engine (`engine.rs`) | sequence counter, cached readers, maintenance thread | `open`, writes, deletes, `patch_record`, reads, `flush`, `close`, `shutdown`, `trigger_gc`, `trigger_compaction` |
| read path (`engine.rs`, `sstable.rs`, `cache.rs`, `bloom.rs`) | reader map, block cache | `get`, `query`, `scan` |
| JsonDB (`jsondb/`) | schema registry, counters, write lock | stores, indexes, documents, transactions, queries |
| statistics, derive macro, Node bindings, stress tool | counters or none | - |

### Interaction

Every write goes `Engine::write_*` -> sequence numbers from an atomic counter
-> `do_write` -> `WritePipeline::submit`.  One of the submitting threads
becomes the commit leader and runs `process_batch_group` under the worker
mutex: append to the WAL, insert into the active memtable, fsync, and possibly
`do_flush`.  The same mutex is taken by `Engine::flush`, `close`, `shutdown`
and by the maintenance thread.  `do_flush`, compaction and GC share the manifest
(a mutex), the block index (a read-write lock) and the SST directory; compaction
and GC run outside the worker mutex, in the maintenance thread and in any thread
that triggers them.  After a crash, `Engine::open` rebuilds everything from the
manifest, the SST files and the WAL.

### What is hard

* Leader election by an atomic flag next to a queue under a mutex (a lost
  wake-up), groups that fail half-way, callers that must all be answered.
* Durability across rollover, flush, checkpoint, truncation and crash; sequence
  numbers drawn outside the mutex and restarted at open; torn tails.
* Three unsynchronised writers of the manifest, the index and the directory,
  which allocate SST ids by looking at the manifest.
* A manifest that is a log of lines: torn lines, entries that were reported as
  failed, snapshots that replace the file under a crash.
* Reads that hold no lock across these changes, through caches keyed by an id
  that is handed out again; several versions of a key over memtables and SSTs
  that do not keep sequence numbers.
* JsonDB transactions that commit without the write lock of the direct
  operations; index rows as byte keys, and queries answered from an index.

### What makes each component correct

* pipeline: one leader; Ok only after commit (and fsync); push order; no
  submission dropped; every call returns.
* WAL, memtables, flush, recovery: what has been promised is recoverable and
  visible at every point; restart rebuilds memory.
* manifest file: a restart comes back to the entries that were reported as done.
* manifest, compaction, GC: no unexpired flushed record lost or hidden; manifest,
  index and files agree when nothing runs.
* read path: a scan returns what is stored and matches, once; a point read finds
  a record wherever it has moved and prefers the newest version in memory;
  deletes stay; patches are not lost; no background work makes a read miss.
* JsonDB: index entries are those of the documents, unique values are unique,
  generated keys are new, the schema cache is the persisted schema, a
  transaction reads its own writes; index reads and queries give the answer that
  looking at every document would give.

## 2. Modules

| module | about |
|---|---|
| `GroupCommit` | abstract promise of `submit`: submissions are committed once to a log, forced to disk, answered once; Ok only to what is committed (and forced under `SyncMode::Always`) |
| `WritePipeline` | the pipeline, thread by thread; implements `GroupCommit` |
| `WritePipeline_proofs` | TLAPS proofs about `WritePipeline`: types, one leader, Ok is committed; commit order, nothing dropped, the refinement |
| `Durability` | sequence numbers, segmented WAL, memtables, the steps of `do_flush`, checkpoint, truncation, crash, `Engine::open` |
| `Durability_proofs` | proofs about `Durability`: types; promised records are recoverable and visible, a restart is exact |
| `SstLifecycle` | SST files, manifest and index under flush, compaction and GC |
| `SstLifecycle_proofs` | proofs about `SstLifecycle`: types, nothing lost, nothing hidden, agreement when quiet |
| `JsonDb` | documents, index entries, counter and schema of one store; direct writes under `write_lock`, schema operations and transactions without it |
| `JsonDb_proofs` | proofs about `JsonDb`: types and its six safety invariants |
| `NatFacts` | lemmas: a non-empty set of naturals has a least, a bounded one a greatest element; one step at a time reaches every number |
| `Manifest` | the manifest as a file of lines: appends, torn lines, snapshots, replay; the rebuild of legacy bloom filters in `Engine::open` |
| `Manifest_proofs` | proofs about `Manifest`: types, a restart keeps the state, bloom filters are sound |
| `Lookup` | records with key, time stamp, version and expiry: memtables, SST blocks, block index, bloom filters, point reads, scans, merges, `patch_record` |
| `Lookup_proofs` | proofs about `Lookup`: shape of the tables, newest version in memory, range deletes, patches, point look-ups, complete scans |
| `ReadRace` | extends `SstLifecycle` with `get_sync` and scans, the reader map and the block cache, lock by lock |
| `ReadRace_proofs` | proofs about `ReadRace`: types, what a get and what a scan finds |
| `JsonQuery` | byte encoding of values and keys, index reads of JsonDB and of a transaction, the query builder, against reference definitions |
| `MC*` | the instances TLC runs |

**WritePipeline.**  A thread's `pc` is its place in `submit`: `elect` before the
compare-and-swap, `drain` before the look at the queue, `lock`, `write`, `sync`,
`flush` inside `process_batch_group`, `signal`, `release` before the store of
false, `wait`.  A step is one critical section or one atomic operation.  The
WAL append and the memtable insert that follows under the same mutex are one
step.  With `IoFaults` every append, sync and flush may fail, and so may the
rollover behind an append, which leaves the batch in the log; each leaves
`process_batch_group` by `?` exactly as the code does.  All other holders of
the worker mutex are the one actor `Other`.  The log, its fsynced prefix and
the push order are history; the backpressure loop is left to `Durability`.

**Durability.**  The leader election is gone; what stays of the queue is that
numbers are drawn (`Allocate`) before the push (`Enqueue`).  A record is its
batch, the size of the batch, its number and whether it has a TTL.  A WAL
segment has records, the length of the fsynced prefix, `written_bytes` (counted
in records and reset to 0 by `load_existing`, as in the code) and `max_seq`.
`do_flush` is one action per step (freeze, pop, SST, Flush entry, Checkpoint
entry, index, truncate, sync), each of which can be the last before a crash.  A
crash leaves of every segment at least the fsynced records, then a clean cut or
(`Tearing`) half a record; unlinked files may come back until the directory is
fsynced.  `find_max_seq_in_segment` checks no checksum, so half a record with
an intact header counts for `max_seq`; `replay_from` stops at it.  `promised`
collects what the engine has vouched for: batches answered Ok under
`SyncMode::Always`, or all answered batches at a sync tick.  The backpressure
loop and its guard are in the model, and never run: `do_flush` freezes and pops
under one hold of the worker mutex, so the inductive invariant contains that the
frozen list is empty whenever a writer looks at it.  The repository's README and
`record.rs` say that writers block until a flush completes; they never do.

The variable `hazards` records which of four known weaknesses has struck:
`reorder` (a batch appended with a number that the log or the checkpoint already
covers), `torn` (an append behind torn bytes), `flushfail` (an error in
`do_flush`, which drops the popped memtable), `ghost` (a failed batch that is in
the log).  The passing properties say what holds while none of the first three
has struck.  What `reorder` costs when numbers are used again after a restart is
the violation run `durability_reuse`; the other three have no run of their own
and are described in `PROJECT.json`, "hazards".

**SstLifecycle.**  `manifest`, `files`, `tmp` and `index` map SST ids to sets of
records; flush, each compactor and each collector have a program counter.  A
record stands for everything one flush wrote, so a merge is a union.  `Expire`
stands for an expired record and also for one whose block can no longer be read,
which a merge passes over without an error just as it drops expired records.  `clash`
records that an id was handed out while another run was working on it or the
index still pointed to it.

**JsonDb.**  The engine is a map (`docs`, `entries`, `counter`, `disk` for the
schema record) to which `write_internal` applies a batch in one step.  It stands
for one memtable, and range deletes are what its reads make of them:
`get_bytes` does not see them, a look-up of one index value does not meet their
records, and a scan of the documents hides the whole range, later documents
included (`rangeDeleted`).  A call
that writes reads and builds its batch in one step (`job`, pc `write`), the
batch takes effect in a second one, a schema operation updates the cache in a
third (pc `publish`); `apply_store` of a new auto-increment store goes on to its
second write (pc `auto`).  `write_internal` may also fail with the batch left
out, or fail with the batch in, as `WritePipeline` shows it can.  A document is
the value of its indexed field or `Absent`.  Again `hazards` records what is
known to go wrong: `stale` (a batch applied after what it was built from had
changed), `crossed` (two schema operations overlapped), `ghost` (a schema
operation failed after its write), `dup` (a unique index created over
duplicates), `relic` (a store or an index created under the name of a deleted
one), `txauto` (a transaction generated a key).  `raced` are the threads
whose unwritten batch a write without lock has overtaken:
`LockedWritesAreFresh` says that nothing else makes a direct write stale, which
is what the comment on `JsonDB::write_lock` claims.

**Manifest.**  The file is a sequence of lines and an unterminated tail.  An
append writes its line and syncs file and directory; a crash or an error may
leave nothing, a part, the JSON without its newline, or the line, and an append
to a tail continues it, which makes a line that does not parse.  The entry is
applied to the state only after the sync.  A snapshot is a rename and a sync of
the directory; until the sync the old file may come back.  `do_flush` makes
its two appends under one lock, releases it, and puts its SST and filter into the
index in a later step (`FlushIndexes`).  A merge or a collection may have removed
the SST in between, and its id may be in use again; `overtaken` keeps the ids of
such flushes, whose filters `BloomsSound` says nothing about.  `spoiled` says that the file may have missed an
entry or kept one that was reported as failed since the last open or snapshot:
after that, `CrashKeepsState` promises nothing, and neither does the code.
`After` is the loop of `Manifest::open`, the state after each line.  The legacy
filters of an older hash version (of up to `MaxLegacy` SSTs), their rebuild on
open and its failures are here because they append to the manifest.

**Lookup.**  Operations are atomic except `patch_record`.  A read is a set of
possible results where the code leaves the choice among equal elements to a
binary search or a heap.  The properties quantify over reads, so every state is
asked for every key and scan.  A put takes a TTL of its own or
`default_ttl_secs` (`DefaultTtl`, 0 for none), and a patch goes through the same
`write_batch`: with a default TTL it gets a new `expire_at`, and `PatchesCompose`
asks that it be kept only without one.  What the reads presume is stated by name:
`ScanReaches` (in memory a scan of all keys without a time range ends at `~`; a
merged SST is written in descending order, so its block bounds are swapped and
only a full scan finds all of it; a prefix that cannot be incremented, kind
`open`, ends at the constant `Fallback` in the block index; a time range must
reach back to the bucket in which the block begins), `PointReaches` (all records of the key in one block of an SST that a
flush has written), `Lone` (one version, never range-deleted).  Range
tombstones apply whatever their sequence number, and a merge drops them;
`RangeDeleteHides` asks, while one is stored, that what was written before it is
hidden, and leaves open whether the code may hide what came later.  Memory
returns a record until `expire_at` inclusive, SSTs until just before it; the
properties speak of records with `expire_at > now`, where all paths agree.

**ReadRace.**  One step is one critical section of a read: the active memtable, the
frozen ones, index, reader map, opening the file, cache, block.  What could be
found when the read began is expected of it, except for the memtable that a flush
has popped and not yet indexed, at the beginning or when the read turns to the
frozen ones.  With one SST in the index
`get_sync` drops the index lock before it opens the block; with several,
`query_point_inline` keeps it, so a merge waits with its index update.  A scan
copies the index and the readers and then works without a lock.  `dirty` says an
id was handed out while a cached reader or block of the old SST was around.
Open files stay readable after their unlink.

**JsonQuery.**  Documents and a transaction's buffer are chosen, then one call
is made, whose result is compared with a definition that does not know of keys
and indexes.  A byte is 0..15 and a number's payload is one byte, so that it can
be the separator or the largest byte.  Strings may hold the separator: `encoding.rs`
neither escapes nor refuses it.  A look-up misses nothing all the same; its answer is
exact where no string goes on with a separator at the end of another (`Separable`,
`BytesInOrder`).  The exceptions are named, and each was needed: `Separable`,
`BytesInOrder`, `IndexComplete`, `IndexApart`, `LimitSafe`, `OneKind`, `MovedInto`.

### Known behaviours the antecedents leave out

The three violation runs show three defects.  The code has more of them, which
the models contain and the antecedents of the properties exclude, so that a passing
run says nothing in their favour.  Each is a hazard of `PROJECT.json`, at its line.

* `Durability`: a batch that drew its number first and reached the log second can
  fall behind a checkpoint (`reorder`); appends behind a torn record are unreadable
  (`torn`); an error in `do_flush` drops the popped memtable (`flushfail`).
* `Durability`, `SstLifecycle`, `ReadRace`: from `pop_frozen` to `add_sst` the records
  of a flush are in no table, and readers miss them.
* `SstLifecycle`: a merge passes over a block it cannot read and unlinks the file.
* `ReadRace`: `get_sync` on an index of one SST, and a scan, pass over a file that was
  unlinked in between; a reused id is read through the cached reader of the old SST.
* `Manifest`: a line appended behind a torn tail is lost with the tail (`spoiled`); a
  flush that indexes its SST after it was removed leaves a filter that belongs to no
  SST or to an older one (`overtaken`).
* `JsonDb`: a batch of a transaction or a schema operation overwrites what came after
  its reads (`stale`); `Transaction::put_auto` does not reserve its key (`txauto`); a
  unique index may be created over duplicates (`dup`); a store created under the name of a deleted one finds
  old documents by `get` and hides new ones from scans (`relic`).
* `Lookup`: look-ups by key miss records of merged SSTs; a range delete hides later
  writes, and a merge forgets it; an expired newest version uncovers older ones; a
  record is visible in memory in the microsecond of its `expire_at`; a default TTL
  overwrites the expiry of a patched record; keys beyond `~`, beyond EF BF BF, or in
  a block of an earlier bucket are left out of some scans.
* `JsonQuery`: with filters or a sort after the scan, a limit leaves out matches;
  an `In` filter also scans indexes whose names go on from its own; documents without a
  row in a composite index are missing; the string "a" also finds "a\x00b".

## 3. Runs

| run | instance | shows |
|---|---|---|
| `pipeline` | 2 threads, 2 submissions each, `Always`, faults; 106k states | type, one leader, Ok is committed, push order, nothing dropped, refinement of `GroupCommit`, and liveness of what a leader still looks for |
| `pipeline_stall` | 2 threads, 1 submission, no fault | **violated**: `EverySubmitReturns`, the lost wake-up |
| `durability` | 2 writers, 3 batches of one record, 2 crashes, faults, torn tails, segments of 2 records; 1.8M states | promised records are recoverable and visible, restart restores memory |
| `durability_interval` | 1 writer, 3 batches of 1 or 2 records with and without TTL, 1 crash, `IntervalMs`; 1.7M states | what a sync tick covers is recoverable and visible |
| `durability_reuse` | 1 writer, 1 crash | **violated**: sequence numbers restart below the log |
| `lifecycle` | 3 flushes, 1 compactor, 1 collector, 1 failure, 1 crash; 3.7M states | nothing lost or hidden, manifest, index and files agree in the end |
| `lifecycle_clash` | the same without failure and crash | **violated**: a reused id costs a flushed SST |
| `jsondb` | 2 threads, 3 calls, 2 keys, 2 values, 1 index, 1 restart, failing writes; 322k states | indexes agree with documents, unique values, fresh locked writes, cache and persisted schema, generated keys, read-your-writes |
| `lookup` | 3 cells (2 keys, 2 time stamps), 1 range, 3 writes, 5 SST ids, blocks of 2, 2 patchers, a clock, default TTL 1; 313k states | complete scans, point reads, newest version in memory, range deletes, patches |
| `readers` | `lifecycle` with 2 flushes and no failure, 1 get, 1 scan, 2 calls, 1 restart; 1.1M states | a read overlapped by background work finds what it should |
| `manifest` | threshold 2, 4 SSTs, 6 appends, 2 crashes, 1 failure, up to 2 legacy SSTs; 3.1M states | a restart keeps the manifest's state, filters of the index are sound |
| `jsonquery` | 3 keys, 8 documents, 3 indexes, 260 queries; 506k states | look-ups miss nothing; index reads, transaction reads and queries are exact outside the stated exceptions |

*Bounds.*  Two threads with two submissions give groups of one and two, a leader
that finds a second group, a leader that follows another one, and a thread that
pushes at every point of a leader's run.  Three batches over segments of two
records give a rollover, a flush between appends and an append after a restart;
two crashes give a restart of a restarted engine.  `SeqStride` 2 and 3 makes the
stride overflow.  Three flushes and a threshold of two give a merge that meets
a flush, a second merge over the result of the first, and a collection of the
newest SST.  Three calls of two threads give a commit of two writes against a
direct write or a schema operation, and three schema operations in a row; the
same instance with four calls (more than four million states) passes as well.
`CONSTRAINT NoClash` stops `lifecycle` where a clash has
happened: its properties say nothing from there on, and `lifecycle_clash` looks
beyond.  In `readers`, `Undisturbed` does the same for clashes and reused ids of
cached readers, and `OneAtATime` keeps the instance in time: the get and the
scan do not overlap (they share nothing but the caches, which a first
call fills for the second), reads start after the first flush has begun, only
the record of the first flush expires (collecting the newest SST hands its id out
again, which `Undisturbed` cuts off anyway), and the restart comes after
the flushes and leaves one call.  Three writes
and five SSTs give versions of one cell in memory, a frozen table and SSTs, a
merge of a merged SST, and a range delete before and after what it covers; block
size 2 lets versions of a key fall into two blocks, and three bloom bits give
false positives; `LastKeyPlain` keeps deletes and
TTLs of its own from the last key; with them (576 thousand states), and without a
default TTL, it passes as well.  In `manifest` six appends and a threshold of two give two snapshots,
and a crash on either side of each; two legacy
SSTs give an open that crashes or fails between two rebuilds.  `SmallTransactions` limits `jsonquery` to two
stored documents under a transaction; without one there are three.  Deadlock is not checked: bounded instances end, and an idle engine may
stop.

*Fairness* (`WritePipeline!FairSpec`, needed for the two liveness properties
only).  Weak fairness of each thread's steps: the scheduler runs a runnable
thread, I/O calls return.  Strong fairness of `LockWorker`: parking_lot mutexes
are eventually fair.  Weak fairness of `OtherRuns`: whoever holds the mutex
releases it.  None for `Enqueue`: nothing obliges a caller to submit, which is
what makes the lost wake-up permanent.

*Mutants.*  For every property of a passing run `PROJECT.json` names a small
change of one definition (an unchecked flag, a loop that ends early, a sync of
the last segment only, `min_expire` for `max_expire`, ...) under which TLC finds
the property violated.

## 4. Proofs

Checked by TLAPS for every value of the constants, from the named ASSUMEs of
the modules alone (bounds are naturals, `Threshold` is positive, the special
values are different from each other), which TLC evaluates on every run.  The
properties are seldom inductive as they stand; what each is strengthened to,
and why, is the content of a proof.

**`WritePipeline_proofs`**

* `TypeCorrect`: `Spec => []TypeOK`.  `AppendFacts` states what the sequence
  operators do.
* `LeaderIsUnique`: `Spec => []OneLeader`, inductive together with the type.
* `OkMeansCommitted`: `Spec => []OkIsCommitted`.  The property says nothing about
  submissions on their way, so it is strengthened to `CommitInv`:
  `GroupProgress` (what the leader has gone through is in the log; past the
  sync it is fsynced; an "ok" result means all of the group is), `AnswersAreSafe`
  (a submission that is done without error, or has returned ok, is in the log
  and fsynced) and `CallsAreOpen` (a submission waiting in a queue or a group
  has not been answered yet, so an error of an earlier group never turns into
  an ok).  `SafeIsStable` shows that being in the log and fsynced survives
  every step.
* `CommitsInOrder` (`CommitOrder`), `NoneDropped` (`NothingDropped`).  Both rest on
  `OrderInv`, which reads the pipeline against the sequence `arrivals` of all
  pushes: no submission is pushed twice, the queue is the end of `arrivals`, the
  leader's group the part just in front of it, everything in the WAL lies in
  front of what the leader has still to write and everything signalled in front
  of what it has still to signal.
* `RefinesGroupCommit` (`ImplementsGroupCommit`): the initial states are initial
  states of `GroupCommit` and every step is one of its steps or a stutter.  An
  append needs `OrderInv` (the submission was not committed before), an answer
  needs `CommitInv`.

**`SstLifecycle_proofs`**, for any number of compactors and collectors

* `TypesHold` (`TypeOK`); the type also needs that the manifest has a largest id,
  or `next_sst_id` returns nothing (`NextSstIdIsNew`).
* `FlushedStays` (`NothingLost`), `FlushedIsFound` (`NothingHidden`),
  `QuietMeansAgreement` (`QuietAgreement`).  The invariant is `SafeInv == ~clash =>
  Safe`.  Its parts: `DrawnIdsAreFree` (an id drawn and not yet recorded is in no
  list of another run, which is what `~clash` says at the draw and what later
  steps keep), `WrittenIsThere` (file and temporary file have what their run
  wrote), `RunsAreSound` (a merge has the unexpired records of its candidates, what
  is dropped or collected has none), `FilesMatch`, `LiveInManifest`,
  `LiveIsReachable` (a live record is in a file that is announced and that no merge
  is about to unlink) and `IndexFollows`.

**`ReadRace_proofs`**, for any number of gets, scans, compactors and collectors

* `ReadersOnlyRead`: every behaviour of `ReadSpec` is one of `SstLifecycle`, so its
  `TypeInv` and `SafeInv` hold here.
* `ReadTypesHold` (`ReadTypeOK`), `GetsFind` (`GetFindsIndexed`), `ScansFind`
  (`ScanFinds`).  The invariant is `ReadInv == ~clash /\ ~dirty => Good`, and the
  argument has two halves.  *What is where*: `OneContent` (the file, the index
  entry, the open reader, the cached block and what a get or a scan has at hand of an
  SST id agree, even when the file is long unlinked), which rests on `DrawnAway` (a
  drawn id is not around in memory) and on `ContentStep` (a step of the background
  makes only SSTs of drawn ids appear).  *What can be read*: `IndexServes` (what the index
  announces is read through an SST that no merge is unlinking, though not always
  the one that announces it) with `FlushIsNew`, and `ServesStep` (no step of the
  background takes that away from an unexpired record).  On top of them
  `GetGood` says what a get in progress can count on: with the index lock, every SST that
  holds the record is still to be asked; without it, an SST to ask has the record in
  every copy, or a file was unlinked; `ScanGood` says the same of a scan.

**`Durability_proofs`**

* `TypesHold` (`TypeOK`).
* `PromisesSurvive` (`PromisedIsRecoverable`), `PromisesAreVisible`
  (`PromisedIsVisible`), `RestartIsExact` (`RestartRestoresMemory`), from
  `RecoveryInv`: `Kept` (what the engine has taken over, from the write on and not
  only from the promise, is in an SST or behind the checkpoint in the log and in
  memory), `Durable` (for promised records also fsynced), `GroupSynced` (under
  `SyncMode::Always` the log is fsynced before the group is answered),
  `FlushSound` (what a flush has in hand is the SST it has recorded), `Indexed` and
  `MemoryIsLog`.  As in the properties, the parts hold as long as none of the
  hazards the model names has struck.

**`JsonDb_proofs`**

* `TypesHold` (`TypeOK`), `GeneratedKeysAreFresh` (`AutoKeysFresh`),
  `CacheIsPersisted` (`RestartKeepsSchema`), `EntriesFollowDocuments`
  (`IndexesAgree`), `UniqueStaysUnique` (`UniqueHolds`), `LockKeepsFresh`
  (`LockedWritesAreFresh`), `TransactionsReadTheirWrites` (`ReadYourWrites`).  The
  many operations have four kinds of steps (`Quiet`: a call begins, is
  buffered or fails; `Effect`: a batch takes effect; `Publish`; `Restart`), and the
  invariant is shown for those.  `JsonInv` has `AutoInv` (only the holder of
  `write_lock` has a generated key on its way, above all committed ones),
  `SchemaInv` (at most one schema operation is between its write and the cache),
  `IndexInv` (the rows are those of the documents, and scans see all documents),
  `BackfillInv` (a unique index that is being built has no value twice), `UniqueHolds`
  and `LockedWritesAreFresh`, the last being what makes a batch built earlier correct
  when it takes effect.

**`Manifest_proofs`**, for any number of lines, SSTs, legacy SSTs, crashes and failures

* *Replay.*  `AfterSteps` says what one more line does, `AfterAgrees` that the loop
  over two logs passes the same states as long as the lines are the same, and
  `WholeAppend` that an appended line is one more `ApplyEntry`.  `WroteOK` uses them for each of
  the four ways a write may end: a line that does not parse leaves the state
  alone, so replay yields the state without or with the entry.
* `SnapshotReplays`: the lines of a snapshot, in any order of the hash map, replay
  to the state they were made from.  By induction over the lines
  the SSTs replayed so far agree with those of the state (`PartOf`).
* `TypesHold` (`TypeOK`).  `Good` says of a state that its three maps describe the same
  SSTs, with positive and bounded ids, and that each legacy filter is one of an SST that
  the older version wrote.  `ManifestInv` has `Good` of the state and of
  what every part of a file replays to (`FilesOK`, also of the file that a rename may
  bring back), `RebuildOK` (what is still to be rebuilt is in the state),
  `PendingOK` (the entry under way can be applied: its id is new or known) and the
  counters.
* `RestartKeepsState` (`CrashKeepsState`), from `CrashInv`: as long as the file is not
  spoiled, replaying it, and the one a rename has replaced, gives the state of
  the engine; after a crash it may have the pending entry as well.
* `FiltersSound` (`BloomsSound`), from `BloomInv`: `Current` (a filter of the old hash is
  one still to be rebuilt), `IndexFirst` (during the append of a merge or a
  collection the index is already ahead of the manifest), `Known` (a filter of an id
  outside the manifest is left from the one failure) and `Match` (a filter was built
  from the SST that has its id, unless the flush between its appends and the index
  will set it).  The last three are about the ids outside `overtaken`.

**`Lookup_proofs`**, for any keys, time stamps, ranges, block sizes, SSTs and patchers

* *Operators.*  What the loops of the code return is shown once per operator, by
  induction over their rounds (`Iterates`, `SameLoop`): `OnlyIs` (a filter keeps the
  order), `SortedBefore` and `SortedAfter` (a stable sort is a permutation in
  order), `FlattenIs`, `SearchFindsKey` (the binary search ends at the only block that can hold
  the key), `BlocksFlatten` (cutting into blocks loses nothing), `DrainKeeps` (what every pop
  of the heap keeps holds of all results), `DrainEnds` (the heap is empty after as many pops
  as there are records).
* The invariant is `LookupInv`: `LogOK` (a sequence number is a position in the log),
  `MemoryOK` (one table of memory has records, all of the log; the active one by
  sequence number, a frozen one sorted), `SstsOK` (every SST is `Blocks` of some
  records of the log, in ascending order if a flush wrote it), `PatchOK` (a patch
  between its read and its write holds what was the newest version at its read, and
  no other patch has been written since) and `PatchesCompose`.
* `TablesShaped` (`TypeOK`) and `PatchesLoseNothing` (`PatchesCompose`).  The latter is
  inductive only with `PatchOK`, which needs `GetSyncNewest`: while memory has
  the newest version, `get_sync` returns it.  It holds for every default TTL: the
  value is kept with any, the expiry with none.
* `RangeDeletesHide` (`RangeDeleteHides`): `ScanSeesRange` (the block of a range delete is
  a candidate of a full scan) and `DrainIs` (nothing a tombstone covers is returned,
  and so nothing that was written before it).
* `NewestHidesOlder` (`MemoryWins`).  For scans the argument is about the pops:
  nothing but the newest version is popped before it (`PopsNewestFirst`); when it is
  popped, no next record comes before it (`PopsNewest`); and from then on pops are of
  other versions, which are skipped, until none is left (`PopsAmong`).  That needs
  the sources which hold other versions to be in ascending order, hence the
  exception for merged SSTs, which are not.
* `PointReadsSucceed` (`PointReadsFind`): a flushed file is in ascending order, so that the
  block infos leave the key only one block (`AloneIsOnly`), which the bloom filter and
  the expiry let through (`PointBlockHolds`); every other SST answers with nothing or with
  the same record, in whatever order the ids are asked (`GetSyncFinds`, `GetLatestFinds`).
* `ScansReturnOnce` (`ScanComplete`) needs a second invariant, `OnceOK`: if only one record
  was ever written at a key and time stamp, there is at most one copy of it, in memory or in
  one SST, at one position.  "At most one copy" is said as an order (`Once(s, c)`: no two
  positions of `s` have cell `c`), so that the lemmas about what keeps an order carry it
  through sorting, filtering, concatenating (`FlattenOrdered`) and cutting; a pop of the heap skips
  nothing that is not a second copy (`DrainOnce`, `DrainFinds`).  On top of it
  `HomeIsCandidate` (the block index offers the record's block) and `ScanSpares` (no range
  delete that the scan has seen covers it).

**What stays with TLC.**  Liveness (`DrainedIsAnswered`, `EverySubmitReturns`):
fairness and `ENABLED` are beyond the prover.  `JsonQuery`: that
its byte encoding keeps the order of the values, for every value, is an induction over
data, and its reads rest on that; TLC compares them with their reference
definitions on small values.  Elsewhere an induction over the naturals was possible for
one concrete predicate at a time, through its least counterexample (`NatFacts`): the
replay of the manifest and the loops of `Lookup` are reasoned about in this way.

## 5. Assumptions and what is left out

* In `Durability` and `SstLifecycle` a manifest append is all or nothing;
  `Manifest` has the torn lines.
* A successful fsync covers data of an earlier failed one.
* In `SstLifecycle` directory operations are durable in the order they are made
  (compaction does not fsync the directory after its rename).
* A merge opens its candidates in one step and reads them as they were then; the
  unlinked file of an open reader stays readable.
* At most one failing operation in `lifecycle`; any number in the other runs.
* Two concurrent compactors are within the model but beyond the time of a run.
* In `JsonDb` a batch is atomic and durable, takes effect in the order of its
  sequence numbers and is never flushed: what a flush or a compaction does to
  range deletes is in `Lookup`.  The reads of one call are one step; one
  store, one indexed field.
* In `JsonQuery` the engine is an ordered map and the index rows are those of the
  documents.  Both are assumptions: `Lookup` names where scans of the engine are not
  those of an ordered map (merged SSTs, keys with several versions, range deletes), and
  `JsonDb` where rows differ from documents.  Primary keys contain no separator and
  are given encoded (the code gives 1 and "1" the same key, which is outside the
  model).
* In `ReadRace` an SST has one block and a record is what one flush wrote.
* In `Lookup` the merge candidates are any SSTs (sizes are left out), and the bloom
  filter has two hash functions that are small formulas.
* A crash before the fsync may leave a prefix of a batch, which open replays;
  the properties of `Durability` are about single records.
* Every section under a lock is one step, and the statistics at the end of
  `do_flush` are left out, so a deadlock by the order of locks is outside the models.
  There is one to be looked at: `do_flush` holds the manifest mutex
  (`write_worker.rs:205`) while it takes the index lock (`:211`), and a merge with no
  records left takes them in the opposite order (`compaction.rs:162`, `:164`).
* Not modelled: the byte formats of the WAL (record checksums) and of the SST (block
  headers, lz4) beyond readable and torn records, the hash functions, JSON parsing, statistics,
  bindings, derive macro, stress tool.  They keep no state another part depends
  on, or are codecs that tests cover better.  The reasons are in `PROJECT.json`,
  "components".

## 6. Plan

The model covers what carries state, and the safety invariants of
`WritePipeline`, `Durability`, `SstLifecycle`, `ReadRace`, `JsonDb`, `Manifest` and
`Lookup` are proved.  Left:

1. The order of the encoded keys in `JsonQuery` for byte sequences of any length, by induction
   over their length as in `Manifest_proofs`.
2. Larger instances: two compactors in `lifecycle`, a get and a scan at once in
   `readers`, and the durability of directory entries in `SstLifecycle`
   (compaction renames without a directory sync).
