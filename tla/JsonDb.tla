------------------------------- MODULE JsonDb --------------------------------
(***************************************************************************)
(* The document layer of FlowDB (src/src/jsondb): one object store with    *)
(* its documents, secondary-index entries, auto-increment counter and      *)
(* schema record in the engine, the in-memory schema cache, the direct     *)
(* operations under write_lock, and the schema operations and              *)
(* transactions, which take no lock.                                       *)
(*                                                                         *)
(* Every call that writes reads what it needs, builds one batch and hands  *)
(* it to Engine::write_internal; other threads run in between.  The reads  *)
(* of one call are one step and the batch is applied in one step.  The     *)
(* engine is one memtable here: batches are atomic and durable, a flush    *)
(* does not happen (modules WritePipeline, Durability and SstLifecycle are *)
(* about that), and its point reads and scans see range deletes as the     *)
(* code does: get_bytes not at all, a scan by hiding the whole range.      *)
(*                                                                         *)
(* A document is the value of its indexed field, or Absent when it has     *)
(* none; primary keys are the numbers put_auto hands out, so that explicit *)
(* and generated keys meet.                                                *)
(***************************************************************************)
EXTENDS Naturals, FiniteSets

CONSTANTS Threads,    \* application threads
          Nobody,     \* write_lock is free
          Indexes,    \* names of secondary indexes
          Values,     \* values of the indexed field
          Absent,     \* the document has no such field
          None,       \* no document
          Untouched,  \* the transaction has no write for the key
          MaxKey,     \* bound: primary keys
          MaxCalls,   \* bound: calls that write or buffer
          MaxRestarts \* bound: restarts

ASSUME JsonDbAssumption ==
    /\ Nobody \notin Threads
    /\ {Absent, None, Untouched} \cap Values = {}
    /\ Cardinality({Absent, None, Untouched}) = 3
    /\ MaxKey \in Nat /\ MaxCalls \in Nat /\ MaxRestarts \in Nat

VARIABLES
    docs,      \* engine: [Keys -> document or None]
    entries,   \* engine: index entries <<index, value, key>>
    rangeDeleted, \* engine: there is a DeleteRange record over the documents
    counter,   \* engine: the auto-increment counter, 0 when there is none
    disk,      \* engine: the schema record
    schema,    \* JsonDB::schema
    lock,      \* JsonDB::write_lock
    job,       \* [Threads -> the write in progress]
    tx,        \* [Threads -> Transaction]
    calls,     \* calls made
    restarts,  \* restarts so far
    hazards,   \* which of the known hazards have struck (history)
    raced,     \* threads whose batch an unlocked write has overtaken (history)
    assigned,  \* generated keys that have been committed (history)
    reissued   \* a generated key was committed twice (history)

vars == <<docs, entries, rangeDeleted, counter, disk, schema, lock, job, tx, calls, restarts,
          hazards, raced, assigned, reissued>>

engine == <<docs, entries, rangeDeleted, counter, disk>>
history == <<hazards, raced, assigned, reissued>>

Keys == 1..MaxKey
Docs == Values \cup {Absent}

\* StoreDef: which indexes there are, and of which kind.
NoStore == [exists |-> FALSE, auto |-> FALSE, ix |-> [i \in Indexes |-> "none"]]
NewStore == [NoStore EXCEPT !.exists = TRUE]

Defined(def) == {i \in Indexes : def.ix[i] # "none"}

-----------------------------------------------------------------------------
(* Batches *)

\* Engine::scan over the documents: a range delete in the memtable hides every
\* document of the range, whichever was written first.
ScannedDocs == IF rangeDeleted THEN {} ELSE {k \in Keys : docs[k] # None}

\* extract_index_values: no entry for a document without the field.
Rows(def, k, d) == IF d \in Values THEN {<<i, d, k>> : i \in Defined(def)} ELSE {}

\* A batch of InternalRecords: documents and index entries put and deleted,
\* the counter and schema records, and the range delete over the documents.
\* The range deletes over index prefixes change nothing: every look-up scans a
\* longer prefix, which does not meet their records.
Batch(writes, del, add, ctr) ==
    [doc |-> writes, del |-> del, add |-> add, ctr |-> ctr,
     wipeStore |-> FALSE, def |-> NoStore, newDef |-> FALSE]

EmptyBatch == Batch(<<>>, {}, {}, 0)

\* Mutant: the entries of the old document stay.
OldRowsKept(def, writes) == {}

\* The entries of the documents that are replaced or deleted.
OldRows(def, writes) == UNION {Rows(def, k, docs[k]) : k \in DOMAIN writes}

\* build_put_batch, build_delete_batch and the loop of Transaction::commit.
WriteBatch(def, writes, ctr) ==
    Batch(writes, OldRows(def, writes),
          UNION {Rows(def, k, writes[k]) : k \in DOMAIN writes}, ctr)

\* Mutant: only the engine is asked, not the other writes of the transaction.
ConflictInEngine(def, writes) ==
    \E i \in Indexes, k \in DOMAIN writes :
        /\ def.ix[i] = "unique"
        /\ \E e \in entries : e[1] = i /\ e[2] = writes[k] /\ e[3] # k

\* The unique check: another key has the value, in the engine or among the
\* writes of the same transaction.
Conflict(def, writes) ==
    \E i \in Indexes, k \in DOMAIN writes :
        /\ def.ix[i] = "unique" /\ writes[k] \in Values
        /\ \/ \E e \in entries : e[1] = i /\ e[2] = writes[k] /\ e[3] # k
           \/ \E other \in DOMAIN writes \ {k} : writes[other] = writes[k]

\* create_index: the new definition and an entry for every document.
IndexBatch(def, i, kind) ==
    LET new == [def EXCEPT !.ix[i] = kind] IN
    [EmptyBatch EXCEPT !.def = new, !.newDef = TRUE,
        !.add = {<<i, docs[k], k>> : k \in {x \in ScannedDocs : docs[x] \in Values}}]

DropIndexBatch(def, i) ==
    [EmptyBatch EXCEPT !.def = [def EXCEPT !.ix[i] = "none"], !.newDef = TRUE]

DropStoreBatch ==
    [EmptyBatch EXCEPT !.def = NoStore, !.newDef = TRUE, !.wipeStore = TRUE]

CreateStoreBatch == [EmptyBatch EXCEPT !.def = NewStore, !.newDef = TRUE]

\* apply_store: the definition with auto_increment set.
AutoBatch(def) ==
    [EmptyBatch EXCEPT !.def = [def EXCEPT !.auto = TRUE], !.newDef = TRUE]

-----------------------------------------------------------------------------
(* A call in progress: what it was asked, and the batch it has built.        *)

IdleJob == [pc |-> "idle", op |-> "none", locked |-> FALSE, writes |-> <<>>,
            ctr |-> 0, auto |-> {}, i |-> "none", kind |-> "none",
            apply |-> FALSE, batch |-> EmptyBatch]

ClosedTx == [open |-> FALSE, writes |-> [k \in Keys |-> Untouched], next |-> 0,
             ctr |-> 0, auto |-> {}]

Init ==
    /\ docs = [k \in Keys |-> None]
    /\ entries = {}
    /\ rangeDeleted = FALSE
    /\ counter = 0
    /\ disk \in {NoStore} \cup [exists : {TRUE}, auto : {TRUE},
                                ix : [Indexes -> {"plain", "unique"}]]
    /\ schema = disk
    /\ lock = Nobody
    /\ job = [t \in Threads |-> IdleJob]
    /\ tx = [t \in Threads |-> ClosedTx]
    /\ calls = 0
    /\ restarts = 0
    /\ hazards = {}
    /\ raced = {}
    /\ assigned = {}
    /\ reissued = FALSE

\* A thread makes one more call.
Calls(t) ==
    /\ job[t].pc = "idle"
    /\ calls < MaxCalls
    /\ calls' = calls + 1

Start(t, new) == job' = [job EXCEPT ![t] = new]

\* The batch the call would build from the engine as it is now.
Rebuilt(j) ==
    CASE j.op = "write" -> WriteBatch(disk, j.writes, j.ctr)
      [] j.op = "createIndex" -> IndexBatch(disk, j.i, j.kind)
      [] j.op = "dropIndex" -> DropIndexBatch(disk, j.i)
      [] j.op = "dropStore" -> DropStoreBatch
      [] j.op = "createStore" -> CreateStoreBatch
      [] j.op = "setAuto" -> AutoBatch(disk)

\* What the call has read is no longer so.
Stale(j) ==
    \/ Rebuilt(j) # j.batch
    \/ j.op = "write" /\ Conflict(disk, j.writes)
    \/ j.ctr > 0 /\ j.ctr # counter + 1
    \/ j.op # "createStore" /\ ~disk.exists
    \/ j.op = "createStore" /\ disk.exists
    \/ j.op = "createIndex" /\ disk.ix[j.i] # "none"

-----------------------------------------------------------------------------
(* JsonDB::put, delete, put_auto: under write_lock *)

\* Mutant: the mutex is not waited for.
LockFreeAlways == TRUE

LockFree == lock = Nobody

DirectJob(writes, ctr, auto) ==
    [IdleJob EXCEPT !.pc = "write", !.op = "write", !.locked = TRUE,
        !.writes = writes, !.ctr = ctr, !.auto = auto,
        !.batch = WriteBatch(schema, writes, ctr)]

\* The batch is built, or the unique check fails and the call returns.
Direct(t, writes, ctr, auto) ==
    /\ LockFree
    /\ schema.exists
    /\ IF Conflict(schema, writes)
       THEN UNCHANGED <<lock, job>>
       ELSE lock' = t /\ Start(t, DirectJob(writes, ctr, auto))
    /\ UNCHANGED <<engine, schema, tx, restarts, history>>

Put(t, k, d) == Calls(t) /\ Direct(t, [x \in {k} |-> d], 0, {})

Delete(t, k) == Calls(t) /\ Direct(t, [x \in {k} |-> None], 0, {})

\* Mutant: the counter record is left out of the batch.
CounterForgotten(id) == 0

\* prepare_counter: the counter record that goes with the generated key.
CounterRecord(id) == id

PutAuto(t, d) ==
    LET id == counter + 1 IN
    /\ Calls(t)
    /\ schema.auto
    /\ id \in Keys
    /\ Direct(t, [x \in {id} |-> d], CounterRecord(id), {id})

-----------------------------------------------------------------------------
(* Schema operations: no lock *)

SchemaJob(op, i, kind, batch) ==
    [IdleJob EXCEPT !.pc = "write", !.op = op, !.i = i, !.kind = kind,
                    !.batch = batch]

\* create_object_store, or apply_store of an auto-increment store that does
\* not exist: it goes on to set auto_increment once the store is there.  (What
\* apply_store does about indexes are calls of create_index and delete_index.)
CreateStore(t, apply) ==
    /\ Calls(t)
    /\ ~schema.exists
    /\ Start(t, [SchemaJob("createStore", "none", "none", CreateStoreBatch)
                    EXCEPT !.apply = apply])
    /\ UNCHANGED <<engine, schema, lock, tx, restarts, history>>

\* The second write of apply_store.  If the store has been deleted meanwhile
\* the unwrap of the cached definition panics and the call is over.
SetAuto(t) ==
    /\ job[t].pc = "auto"
    /\ Start(t, IF schema.exists
                THEN SchemaJob("setAuto", "none", "none", AutoBatch(schema))
                ELSE IdleJob)
    /\ UNCHANGED <<engine, schema, lock, tx, calls, restarts, history>>

DropStore(t) ==
    /\ Calls(t)
    /\ schema.exists
    /\ Start(t, SchemaJob("dropStore", "none", "none", DropStoreBatch))
    /\ UNCHANGED <<engine, schema, lock, tx, restarts, history>>

\* Backfill does not check uniqueness: "dup" when it indexes a value twice.
CreateIndex(t, i, kind) ==
    /\ Calls(t)
    /\ schema.exists
    /\ schema.ix[i] = "none"
    /\ Start(t, SchemaJob("createIndex", i, kind, IndexBatch(schema, i, kind)))
    /\ hazards' = IF kind = "unique"
                     /\ \E k, l \in Keys : k # l /\ docs[k] = docs[l]
                                             /\ docs[k] \in Values
                  THEN hazards \cup {"dup"} ELSE hazards
    /\ UNCHANGED <<engine, schema, lock, tx, restarts, raced, assigned,
                   reissued>>

DropIndex(t, i) ==
    /\ Calls(t)
    /\ schema.exists
    /\ schema.ix[i] # "none"
    /\ Start(t, SchemaJob("dropIndex", i, "none", DropIndexBatch(schema, i)))
    /\ UNCHANGED <<engine, schema, lock, tx, restarts, history>>

-----------------------------------------------------------------------------
(* Transactions: writes are buffered, commit takes no lock *)

Begin(t) ==
    /\ job[t].pc = "idle"
    /\ ~tx[t].open
    /\ schema.exists
    /\ tx' = [tx EXCEPT ![t].open = TRUE]
    /\ UNCHANGED <<engine, schema, lock, job, calls, restarts, history>>

\* Transaction::put (d a document) and delete (d = None).
TxWrite(t, k, d) ==
    /\ tx[t].open
    /\ schema.exists
    /\ Calls(t)
    /\ tx' = [tx EXCEPT ![t].writes[k] = d]
    /\ UNCHANGED <<engine, schema, lock, job, restarts, history>>

\* Transaction::put_auto: only the first key is taken from the counter of the
\* engine, and only it gets a counter record.
TxPutAuto(t, d) ==
    LET first == tx[t].next = 0
        id == IF first THEN counter + 1 ELSE tx[t].next + 1
    IN
    /\ tx[t].open
    /\ schema.exists /\ schema.auto
    /\ Calls(t)
    /\ id \in Keys
    /\ tx' = [tx EXCEPT ![t].writes[id] = d, ![t].next = id,
                        ![t].ctr = IF first THEN id ELSE @,
                        ![t].auto = @ \cup {id}]
    /\ hazards' = hazards \cup {"txauto"}
    /\ UNCHANGED <<engine, schema, lock, job, restarts, raced, assigned,
                   reissued>>

Buffered(t) == {k \in Keys : tx[t].writes[k] # Untouched}

\* Transaction::commit consumes the transaction: it returns an error, has
\* nothing to write, or goes on to write_internal.
Commit(t) ==
    LET writes == [k \in Buffered(t) |-> tx[t].writes[k]] IN
    /\ tx[t].open
    /\ job[t].pc = "idle"
    /\ tx' = [tx EXCEPT ![t] = ClosedTx]
    /\ IF writes = <<>> \/ ~schema.exists \/ Conflict(schema, writes)
       THEN UNCHANGED job
       ELSE Start(t, [IdleJob EXCEPT !.pc = "write", !.op = "write",
                        !.writes = writes, !.ctr = tx[t].ctr, !.auto = tx[t].auto,
                        !.batch = WriteBatch(schema, writes, tx[t].ctr)])
    /\ UNCHANGED <<engine, schema, lock, calls, restarts, history>>

Abort(t) ==
    /\ tx[t].open
    /\ job[t].pc = "idle"
    /\ tx' = [tx EXCEPT ![t] = ClosedTx]
    /\ UNCHANGED <<engine, schema, lock, job, calls, restarts, history>>

-----------------------------------------------------------------------------
(* Engine::write_internal and what follows it *)

Apply(b) ==
    /\ docs' = [k \in Keys |-> IF k \in DOMAIN b.doc THEN b.doc[k] ELSE docs[k]]
    /\ entries' = (entries \ b.del) \cup b.add
    /\ rangeDeleted' = (rangeDeleted \/ b.wipeStore)
    /\ counter' = IF b.wipeStore THEN 0
                  ELSE IF b.ctr > 0 THEN b.ctr ELSE counter
    /\ disk' = IF b.newDef THEN b.def ELSE disk

\* Threads with a batch built but not written.
Writers == {u \in Threads : job[u].pc = "write"}

\* A schema operation writes while the cache still lags behind another: the
\* two may update it in the other order.
Crosses(j) == j.batch.newDef /\ \E u \in Threads : job[u].pc = "publish"

\* A store or an index is created under the name of a deleted one.
MeetsRelics(j) ==
    \/ j.op = "createStore" /\ rangeDeleted
    \/ j.op = "createIndex" /\ \E e \in entries : e[1] = j.i

\* History of a batch that takes effect.
Record(t, mishaps) ==
    LET j == job[t] IN
    /\ hazards' = hazards \cup mishaps \cup (IF Stale(j) THEN {"stale"} ELSE {})
                \cup (IF Crosses(j) THEN {"crossed"} ELSE {})
                \cup (IF MeetsRelics(j) THEN {"relic"} ELSE {})
    /\ raced' = (IF j.locked THEN raced ELSE raced \cup Writers) \ {t}
    /\ assigned' = IF j.batch.wipeStore THEN {} ELSE assigned \cup j.auto
    /\ reissued' = (reissued \/ j.auto \cap assigned # {})

\* Mutant: the guard of write_lock outlives the call.
ReturnsHolding(t) ==
    /\ job' = [job EXCEPT ![t] = IdleJob]
    /\ UNCHANGED lock

\* The call returns: write_lock, if it was held, is released.
Returns(t) ==
    /\ job' = [job EXCEPT ![t] = IdleJob]
    /\ lock' = IF lock = t THEN Nobody ELSE lock

\* The batch is in; a schema operation goes on to update the cache.
Write(t) ==
    /\ job[t].pc = "write"
    /\ Apply(job[t].batch)
    /\ Record(t, {})
    /\ IF job[t].batch.newDef
       THEN job' = [job EXCEPT ![t].pc = "publish"] /\ UNCHANGED lock
       ELSE Returns(t)
    /\ UNCHANGED <<schema, tx, calls, restarts>>

\* write_internal returns an error and nothing has been written.
WriteFails(t) ==
    /\ job[t].pc = "write"
    /\ Returns(t)
    /\ raced' = raced \ {t}
    /\ UNCHANGED <<engine, schema, tx, calls, restarts, hazards, assigned,
                   reissued>>

\* write_internal returns an error although the batch is in (one batch of its
\* group failed, or the flush after it): a schema operation then leaves the
\* cache as it was ("ghost").
WriteErrsLate(t) ==
    /\ job[t].pc = "write"
    /\ Apply(job[t].batch)
    /\ Record(t, IF job[t].batch.newDef THEN {"ghost"} ELSE {})
    /\ Returns(t)
    /\ UNCHANGED <<schema, tx, calls, restarts>>

\* Mutant: the cache is not updated.
PublishedNot(def) == schema

\* Schema::insert or remove
Published(def) == def

\* Whoever built a batch between the write and this step built it from the old
\* schema.
Publish(t) ==
    /\ job[t].pc = "publish"
    /\ schema' = Published(job[t].batch.def)
    /\ Start(t, IF job[t].apply THEN [IdleJob EXCEPT !.pc = "auto"] ELSE IdleJob)
    /\ raced' = raced \cup Writers
    /\ UNCHANGED <<engine, lock, tx, calls, restarts, hazards, assigned,
                   reissued>>

\* The process ends; from_engine loads the schema from the engine.
Restart ==
    /\ restarts < MaxRestarts
    /\ restarts' = restarts + 1
    /\ schema' = disk
    /\ lock' = Nobody
    /\ job' = [t \in Threads |-> IdleJob]
    /\ tx' = [t \in Threads |-> ClosedTx]
    /\ raced' = {}
    /\ UNCHANGED <<engine, calls, hazards, assigned, reissued>>

-----------------------------------------------------------------------------
DirectCall(t) ==
    \/ \E k \in Keys, d \in Docs : Put(t, k, d)
    \/ \E k \in Keys : Delete(t, k)
    \/ \E d \in Docs : PutAuto(t, d)

SchemaCall(t) ==
    \/ \E apply \in BOOLEAN : CreateStore(t, apply)
    \/ SetAuto(t)
    \/ DropStore(t)
    \/ \E i \in Indexes, kind \in {"plain", "unique"} : CreateIndex(t, i, kind)
    \/ \E i \in Indexes : DropIndex(t, i)

Transact(t) ==
    \/ Begin(t) \/ Commit(t) \/ Abort(t)
    \/ \E k \in Keys, d \in Docs \cup {None} : TxWrite(t, k, d)
    \/ \E d \in Docs : TxPutAuto(t, d)

Finish(t) == Write(t) \/ WriteFails(t) \/ WriteErrsLate(t) \/ Publish(t)

Next ==
    \/ \E t \in Threads : DirectCall(t) \/ SchemaCall(t) \/ Transact(t)
                          \/ Finish(t)
    \/ Restart

Spec == Init /\ [][Next]_vars

-----------------------------------------------------------------------------
(* Properties *)

StoreDefs == [exists : BOOLEAN, auto : BOOLEAN,
              ix : [Indexes -> {"none", "plain", "unique"}]]

TypeOK ==
    /\ docs \in [Keys -> Docs \cup {None}]
    /\ entries \subseteq Indexes \X Values \X Keys
    /\ rangeDeleted \in BOOLEAN
    /\ counter \in 0..MaxKey
    /\ disk \in StoreDefs /\ schema \in StoreDefs
    /\ lock \in Threads \cup {Nobody}
    /\ \A t \in Threads :
        /\ job[t].pc \in {"idle", "write", "publish", "auto"}
        /\ job[t].locked <=> lock = t
        /\ tx[t].writes \in [Keys -> Docs \cup {None, Untouched}]
        /\ tx[t].auto \subseteq Buffered(t)
    /\ calls \in 0..MaxCalls /\ restarts \in 0..MaxRestarts
    /\ hazards \subseteq {"stale", "dup", "ghost", "crossed", "relic", "txauto"}
    /\ raced \subseteq Threads
    /\ assigned \subseteq Keys /\ reissued \in BOOLEAN

\* Put, delete, commit, create_index and delete_index together: as long as no
\* batch was applied after what it was built from had changed, and no name of a
\* deleted store or index was used again, the entries of every index in the
\* engine are exactly those of the documents, through failures and restarts.
IndexesAgree ==
    hazards \cap {"stale", "relic"} = {} /\ disk.exists =>
        {e \in entries : e[1] \in Defined(disk)}
            = UNION {Rows(disk, k, docs[k]) : k \in Keys}

\* The unique checks of build_put_batch and commit: under the same condition,
\* and unless the index was created over duplicates, no two documents have the
\* same value in a unique index.
UniqueHolds ==
    hazards \cap {"stale", "relic", "dup"} = {} =>
        \A i \in Indexes : disk.ix[i] = "unique" =>
            \A k, l \in Keys : docs[k] \in Values /\ docs[k] = docs[l] => k = l

\* What leaves the schema cache different from the engine.
CacheHazards == {"stale", "ghost", "crossed"}

\* What write_lock is for: the batch of a direct put, delete or put_auto is
\* still the right one when it is applied, unless a transaction or a schema
\* operation, which do not take the lock, has written in between (or left the
\* schema cache behind the engine).
LockedWritesAreFresh ==
    \A t \in Threads :
        /\ job[t].pc = "write" /\ job[t].locked
        /\ t \notin raced
        /\ hazards \cap CacheHazards = {}
        /\ \A u \in Threads : job[u].pc # "publish"
        => ~Stale(job[t])

\* from_engine finds what the running process knows: whenever no schema
\* operation is between its write and the update of the cache, the cached
\* schema is the persisted one, unless two of them have overlapped or one has
\* failed after its write.
RestartKeepsSchema ==
    /\ hazards \cap CacheHazards = {}
    /\ \A t \in Threads : job[t].pc # "publish"
    => schema = disk

\* Generated keys are not given out twice as long as only JsonDB::put_auto
\* generates them.
AutoKeysFresh == "txauto" \notin hazards => ~reissued

\* What a transaction sees: its own writes over the engine.
View(t) == [k \in Keys |-> IF k \in Buffered(t) THEN tx[t].writes[k] ELSE docs[k]]

\* Mutant: buffered documents without an entry in the engine are not added.
BufferedMatchesNone(t, v) == {}

\* The second loop of Transaction::get_by_index.
BufferedMatches(t, v) ==
    {<<k, tx[t].writes[k]>> : k \in {x \in Buffered(t) : tx[t].writes[x] = v}}

\* Transaction::get_by_index: the entries of the engine, corrected by the
\* buffer, then the buffer.
TxGetByIndex(t, i, v) ==
    LET scanned == {e[3] : e \in {x \in entries : x[1] = i /\ x[2] = v}}
        corrected == {k \in scanned \cap Buffered(t) : tx[t].writes[k] = v}
        others == {k \in scanned \ Buffered(t) : docs[k] # None}
    IN  {<<k, v>> : k \in corrected} \cup {<<k, docs[k]>> : k \in others}
        \cup BufferedMatches(t, v)

\* Transaction::scan
TxScan(t) ==
    LET puts == {k \in Buffered(t) : tx[t].writes[k] # None}
        inEngine == {k \in Keys : docs[k] # None}
    IN
    {<<k, docs[k]>> : k \in ScannedDocs \ Buffered(t)}
    \cup {<<k, tx[t].writes[k]>> : k \in ScannedDocs \cap puts}
    \cup {<<k, tx[t].writes[k]>> : k \in puts \ inEngine}

\* "Within a transaction, subsequent reads (including index lookups) see the
\* effects of prior buffered writes": get_by_index and scan return what the
\* buffer laid over the engine holds, while the indexes agree.
ReadYourWrites ==
    \A t \in Threads :
        /\ tx[t].open /\ schema.exists /\ disk.exists
        /\ hazards \cap (CacheHazards \cup {"relic"}) = {}
        =>
        /\ TxScan(t) = {<<k, View(t)[k]>> :
                            k \in {x \in Keys : View(t)[x] # None}}
        /\ \A i \in Defined(schema) \cap Defined(disk), v \in Values :
            TxGetByIndex(t, i, v) =
                {<<k, v>> : k \in {x \in Keys : View(t)[x] = v}}
=============================================================================
