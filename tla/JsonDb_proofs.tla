---------------------------- MODULE JsonDb_proofs -----------------------------
(***************************************************************************)
(* Proofs about the document layer, for any set of threads, indexes and    *)
(* values, any number of keys, calls and restarts.                         *)
(***************************************************************************)
EXTENDS JsonDb, FiniteSetTheorems, TLAPS

-----------------------------------------------------------------------------
(* Types *)

IndexRows == Indexes \X Values \X Keys

WritesOK(writes) ==
    DOMAIN writes \subseteq Keys /\ \A k \in DOMAIN writes : writes[k] \in Docs \cup {None}

BatchOK(b) ==
    /\ WritesOK(b.doc)
    /\ b.del \subseteq IndexRows /\ b.add \subseteq IndexRows
    /\ b.ctr \in 0..MaxKey
    /\ b.wipeStore \in BOOLEAN /\ b.newDef \in BOOLEAN
    /\ b.def \in StoreDefs

JobFields == {"pc", "op", "locked", "writes", "ctr", "auto", "i", "kind", "apply", "batch"}

SchemaOps == {"createIndex", "dropIndex", "dropStore", "createStore", "setAuto"}

\* A call in progress.  Only a direct write holds the lock, and only a schema
\* operation has a definition to publish.
JobOK(j) ==
    /\ DOMAIN j = JobFields
    /\ j.pc \in {"idle", "write", "publish", "auto"}
    /\ j.locked \in BOOLEAN
    /\ WritesOK(j.writes) /\ BatchOK(j.batch)
    /\ j.auto \subseteq Keys /\ j.ctr \in 0..MaxKey
    /\ j.locked => j.pc = "write" /\ ~j.batch.newDef
    /\ j.pc = "write" => j.op \in SchemaOps \cup {"write"}
    /\ j.op \in {"createIndex", "dropIndex"} => j.i \in Indexes
    /\ j.op = "createIndex" => j.kind \in {"plain", "unique"}

TxOK(x) ==
    /\ x \in [open : BOOLEAN, writes : [Keys -> Docs \cup {None, Untouched}],
              next : 0..MaxKey, ctr : 0..MaxKey, auto : SUBSET Keys]
    /\ \A k \in x.auto : x.writes[k] # Untouched

StoreOK ==
    /\ docs \in [Keys -> Docs \cup {None}]
    /\ entries \subseteq IndexRows
    /\ rangeDeleted \in BOOLEAN
    /\ counter \in 0..MaxKey
    /\ disk \in StoreDefs /\ schema \in StoreDefs

CallsOK ==
    /\ lock \in Threads \cup {Nobody}
    /\ DOMAIN job = Threads /\ DOMAIN tx = Threads
    /\ \A t \in Threads : JobOK(job[t]) /\ (job[t].locked <=> lock = t)
    /\ \A t \in Threads : TxOK(tx[t])

HistoryOK ==
    /\ calls \in 0..MaxCalls /\ restarts \in 0..MaxRestarts
    /\ hazards \subseteq {"stale", "dup", "ghost", "crossed", "relic", "txauto"}
    /\ raced \subseteq Threads
    /\ assigned \subseteq Keys /\ reissued \in BOOLEAN

TypeInv == StoreOK /\ CallsOK /\ HistoryOK

-----------------------------------------------------------------------------
(* The inductive invariants *)

\* The generated keys of a batch: at most one, with its counter record.
OneKey(j) == \A k \in j.auto : k = j.batch.ctr

\* No value is indexed for two documents.
Injective(rows) == \A e, f \in rows : e[2] = f[2] => e[3] = f[3]

\* Only the holder of write_lock has a generated key, above all committed ones.
AutoInv ==
    "txauto" \notin hazards =>
        /\ ~reissued
        /\ \A k \in assigned : k <= counter
        /\ \A t \in Threads : tx[t].auto = {} /\ tx[t].ctr = 0
        /\ \A t \in Threads : job[t].pc = "write" =>
            /\ OneKey(job[t])
            /\ job[t].batch.ctr > 0 => job[t].locked /\ job[t].batch.ctr > counter

\* One schema operation at a time is between its write and the update of the
\* cache, and it will put there what it has written.
SchemaInv ==
    hazards \cap CacheHazards = {} =>
        /\ \A t, u \in Threads : job[t].pc = "publish" /\ job[u].pc = "publish" => t = u
        /\ \A t \in Threads : job[t].pc = "publish" => disk = job[t].batch.def
        /\ (\A t \in Threads : job[t].pc # "publish") => schema = disk

\* The entries are those of the documents, and scans see the documents.
IndexInv ==
    hazards \cap {"stale", "relic"} = {} /\ disk.exists =>
        /\ ~rangeDeleted
        /\ {e \in entries : e[1] \in Defined(disk)}
            = UNION {Rows(disk, k, docs[k]) : k \in Keys}

\* A unique index that is being built has no value twice.
BackfillInv ==
    "dup" \notin hazards =>
        \A t \in Threads :
            job[t].pc = "write" /\ job[t].op = "createIndex" /\ job[t].kind = "unique" =>
                Injective(job[t].batch.add)

JsonInv ==
    /\ AutoInv /\ SchemaInv /\ IndexInv
    /\ BackfillInv /\ UniqueHolds /\ LockedWritesAreFresh

-----------------------------------------------------------------------------
(* Constants, definitions and batches *)

LEMMA MarksDiffer ==
    /\ Absent # None /\ Absent # Untouched /\ None # Untouched
    /\ Absent \notin Values /\ None \notin Values /\ Untouched \notin Values
    /\ None \notin Docs /\ Untouched \notin Docs
  <1>1. \A a, b : IsFiniteSet({a, b}) /\ Cardinality({a, b}) <= 2
    <2> SUFFICES ASSUME NEW a, NEW b PROVE IsFiniteSet({a, b}) /\ Cardinality({a, b}) <= 2
      OBVIOUS
    <2>1. IsFiniteSet({a}) /\ Cardinality({a}) = 1
      BY FS_Singleton
    <2>2. {a, b} = {a} \cup {b}
      OBVIOUS
    <2>3. IsFiniteSet({a} \cup {b}) /\ Cardinality({a} \cup {b}) \in {1, 2}
      BY <2>1, FS_AddElement
    <2> QED BY <2>2, <2>3
  <1>2. Absent # None /\ Absent # Untouched /\ None # Untouched
    <2>1. \A a, b : {Absent, None, Untouched} # {a, b}
      <3> SUFFICES ASSUME NEW a, NEW b, {Absent, None, Untouched} = {a, b} PROVE FALSE
        OBVIOUS
      <3>1. Cardinality({a, b}) = 3
        BY JsonDbAssumption
      <3>2. Cardinality({a, b}) <= 2
        BY <1>1
      <3> QED BY <3>1, <3>2
    <2>2. Absent = None => {Absent, None, Untouched} = {None, Untouched}
      OBVIOUS
    <2>3. Absent = Untouched => {Absent, None, Untouched} = {None, Untouched}
      OBVIOUS
    <2>4. None = Untouched => {Absent, None, Untouched} = {Absent, None}
      OBVIOUS
    <2> QED BY <2>1, <2>2, <2>3, <2>4
  <1>3. Absent \notin Values /\ None \notin Values /\ Untouched \notin Values
    BY JsonDbAssumption
  <1> QED
    BY <1>2, <1>3 DEF Docs

LEMMA StoreDefFacts ==
    /\ NoStore \in StoreDefs /\ ~NoStore.exists /\ \A i \in Indexes : NoStore.ix[i] = "none"
    /\ NewStore \in StoreDefs /\ NewStore.exists /\ \A i \in Indexes : NewStore.ix[i] = "none"
  <1>1. /\ NoStore \in StoreDefs /\ ~NoStore.exists /\ \A i \in Indexes : NoStore.ix[i] = "none"
    BY DEF NoStore, StoreDefs
  <1>2. NewStore \in StoreDefs /\ NewStore.exists = TRUE /\ NewStore.ix = NoStore.ix
    BY <1>1 DEF NewStore, StoreDefs
  <1> QED
    BY <1>1, <1>2

\* The definition new is def with the kind of one index changed.
OneIndexSet(def, new, i, kind) ==
    /\ new \in StoreDefs /\ new.exists = def.exists /\ new.ix[i] = kind
    /\ \A j \in Indexes : j # i => new.ix[j] = def.ix[j]

LEMMA RowsFacts ==
    ASSUME NEW def, NEW k \in Keys, NEW d
    PROVE  /\ Rows(def, k, d) \subseteq IndexRows
           /\ \A i, v, l : <<i, v, l>> \in Rows(def, k, d) <=>
                i \in Defined(def) /\ v = d /\ l = k /\ d \in Values
  BY DEF Rows, IndexRows, Defined

LEMMA NoWrites == WritesOK(<<>>) /\ DOMAIN <<>> = {}
  BY DEF WritesOK

LEMMA EmptyBatchFacts ==
    /\ EmptyBatch.doc = <<>> /\ EmptyBatch.del = {} /\ EmptyBatch.add = {} /\ EmptyBatch.ctr = 0
    /\ ~EmptyBatch.wipeStore /\ ~EmptyBatch.newDef /\ EmptyBatch.def = NoStore
    /\ BatchOK(EmptyBatch)
  <1>1. /\ EmptyBatch.doc = <<>> /\ EmptyBatch.del = {} /\ EmptyBatch.add = {}
        /\ EmptyBatch.ctr = 0 /\ EmptyBatch.wipeStore = FALSE /\ EmptyBatch.newDef = FALSE
        /\ EmptyBatch.def = NoStore
    BY DEF EmptyBatch, Batch
  <1>2. 0 \in 0..MaxKey
    BY JsonDbAssumption
  <1>3. WritesOK(EmptyBatch.doc) /\ EmptyBatch.def \in StoreDefs
    BY <1>1, NoWrites, StoreDefFacts
  <1>4. BatchOK(EmptyBatch)
    BY <1>1, <1>2, <1>3 DEF BatchOK
  <1> QED
    BY <1>1, <1>4

LEMMA WriteBatchFacts ==
    ASSUME StoreOK, NEW def \in StoreDefs, NEW writes, WritesOK(writes), NEW ctr \in 0..MaxKey,
           NEW b, b = WriteBatch(def, writes, ctr)
    PROVE  /\ BatchOK(b)
           /\ b.doc = writes /\ b.ctr = ctr /\ ~b.wipeStore /\ ~b.newDef
           /\ b.del = UNION {Rows(def, k, docs[k]) : k \in DOMAIN writes}
           /\ b.add = UNION {Rows(def, k, writes[k]) : k \in DOMAIN writes}
  <1>1. /\ b.doc = writes /\ b.ctr = ctr /\ b.wipeStore = FALSE /\ b.newDef = FALSE
        /\ b.def = NoStore
        /\ b.del = UNION {Rows(def, k, docs[k]) : k \in DOMAIN writes}
        /\ b.add = UNION {Rows(def, k, writes[k]) : k \in DOMAIN writes}
    BY DEF WriteBatch, Batch, OldRows
  <1>2. \A k \in DOMAIN writes : /\ Rows(def, k, docs[k]) \subseteq IndexRows
                                 /\ Rows(def, k, writes[k]) \subseteq IndexRows
    BY RowsFacts DEF WritesOK
  <1>3. b.del \subseteq IndexRows /\ b.add \subseteq IndexRows
    BY <1>1, <1>2, Zenon
  <1> QED
    BY <1>1, <1>3, StoreDefFacts DEF BatchOK

\* What the schema operations write.
LEMMA IndexBatchFacts ==
    ASSUME StoreOK, NEW def \in StoreDefs, NEW i \in Indexes, NEW kind \in {"plain", "unique"},
           NEW b, b = IndexBatch(def, i, kind)
    PROVE  /\ BatchOK(b) /\ b.doc = <<>> /\ b.del = {} /\ b.ctr = 0 /\ ~b.wipeStore
           /\ b.newDef /\ OneIndexSet(def, b.def, i, kind)
           /\ b.add = {<<i, docs[k], k>> : k \in {x \in ScannedDocs : docs[x] \in Values}}
  <1>0. 0 \in 0..MaxKey /\ WritesOK(<<>>)
    BY JsonDbAssumption, NoWrites
  <1>1. /\ b.doc = <<>> /\ b.del = {} /\ b.ctr = 0 /\ b.wipeStore = FALSE /\ b.newDef = TRUE
        /\ b.def = [def EXCEPT !.ix[i] = kind]
        /\ b.add = {<<i, docs[k], k>> : k \in {x \in ScannedDocs : docs[x] \in Values}}
    BY DEF IndexBatch, EmptyBatch, Batch
  <1>2. b.add \subseteq IndexRows
    BY <1>1 DEF ScannedDocs, IndexRows
  <1>3. OneIndexSet(def, b.def, i, kind)
    BY <1>1 DEF StoreDefs, OneIndexSet
  <1>4. b.def \in StoreDefs
    BY <1>3 DEF OneIndexSet
  <1> QED
    BY <1>0, <1>1, <1>2, <1>3, <1>4 DEF BatchOK

LEMMA DropIndexBatchFacts ==
    ASSUME NEW def \in StoreDefs, NEW i \in Indexes,
           NEW b, b = DropIndexBatch(def, i)
    PROVE  /\ BatchOK(b) /\ b.doc = <<>> /\ b.del = {} /\ b.add = {} /\ b.ctr = 0
           /\ ~b.wipeStore /\ b.newDef /\ OneIndexSet(def, b.def, i, "none")
  <1>0. 0 \in 0..MaxKey /\ WritesOK(<<>>)
    BY JsonDbAssumption, NoWrites
  <1>1. /\ b.doc = <<>> /\ b.del = {} /\ b.add = {} /\ b.ctr = 0 /\ b.wipeStore = FALSE
        /\ b.newDef = TRUE /\ b.def = [def EXCEPT !.ix[i] = "none"]
    BY DEF DropIndexBatch, EmptyBatch, Batch
  <1>2. OneIndexSet(def, b.def, i, "none")
    BY <1>1 DEF StoreDefs, OneIndexSet
  <1>3. b.def \in StoreDefs
    BY <1>2 DEF OneIndexSet
  <1> QED
    BY <1>0, <1>1, <1>2, <1>3 DEF BatchOK

LEMMA StoreBatchFacts ==
    ASSUME NEW def \in StoreDefs, NEW b,
           b = DropStoreBatch \/ b = CreateStoreBatch \/ b = AutoBatch(def)
    PROVE  /\ BatchOK(b) /\ b.doc = <<>> /\ b.del = {} /\ b.add = {} /\ b.ctr = 0 /\ b.newDef
           /\ b = DropStoreBatch => b.wipeStore /\ b.def = NoStore
           /\ b = CreateStoreBatch => ~b.wipeStore /\ b.def = NewStore
           /\ b = AutoBatch(def) => ~b.wipeStore /\ b.def.exists = def.exists /\ b.def.ix = def.ix
  <1>0. 0 \in 0..MaxKey /\ WritesOK(<<>>)
    BY JsonDbAssumption, NoWrites
  <1>1. /\ b.doc = <<>> /\ b.del = {} /\ b.add = {} /\ b.ctr = 0 /\ b.newDef = TRUE
        /\ b.wipeStore \in BOOLEAN
    BY DEF DropStoreBatch, CreateStoreBatch, AutoBatch, EmptyBatch, Batch
  <1>2. b = DropStoreBatch => b.wipeStore = TRUE /\ b.def = NoStore
    BY DEF DropStoreBatch, EmptyBatch, Batch
  <1>3. b = CreateStoreBatch => b.wipeStore = FALSE /\ b.def = NewStore
    BY DEF CreateStoreBatch, EmptyBatch, Batch
  <1>4. b = AutoBatch(def) => b.wipeStore = FALSE /\ b.def = [def EXCEPT !.auto = TRUE]
    BY DEF AutoBatch, EmptyBatch, Batch
  <1>5. b.def \in StoreDefs
    <2>1. [def EXCEPT !.auto = TRUE] \in StoreDefs
      BY DEF StoreDefs
    <2> QED BY <1>2, <1>3, <1>4, <2>1, StoreDefFacts
  <1>6. BatchOK(b)
    BY <1>0, <1>1, <1>5 DEF BatchOK
  <1>7. b = AutoBatch(def) => b.def.exists = def.exists /\ b.def.ix = def.ix
    BY <1>4 DEF StoreDefs
  <1> QED
    BY <1>1, <1>2, <1>3, <1>4, <1>6, <1>7

-----------------------------------------------------------------------------
(* Jobs *)

LEMMA IdleJobFacts ==
    /\ JobOK(IdleJob) /\ IdleJob.pc = "idle" /\ ~IdleJob.locked
    /\ JobOK([IdleJob EXCEPT !.pc = "auto"])
    /\ [IdleJob EXCEPT !.pc = "auto"].pc = "auto" /\ ~[IdleJob EXCEPT !.pc = "auto"].locked
  <1>1. ASSUME NEW j, j = IdleJob \/ j = [IdleJob EXCEPT !.pc = "auto"]
        PROVE  JobOK(j) /\ ~j.locked
    <2>1. /\ DOMAIN j = JobFields /\ j.pc \in {"idle", "auto"} /\ j.locked = FALSE
          /\ j.writes = <<>> /\ j.batch = EmptyBatch /\ j.auto = {} /\ j.ctr = 0 /\ j.op = "none"
      BY <1>1 DEF IdleJob, JobFields
    <2>2. 0 \in 0..MaxKey
      BY JsonDbAssumption
    <2> QED BY <2>1, <2>2, NoWrites, EmptyBatchFacts DEF JobOK
  <1>2. IdleJob.pc = "idle" /\ [IdleJob EXCEPT !.pc = "auto"].pc = "auto"
    BY DEF IdleJob
  <1> QED
    BY <1>1, <1>2

LEMMA WriteJobFacts ==
    ASSUME StoreOK, NEW writes, WritesOK(writes), NEW ctr \in 0..MaxKey, NEW auto \in SUBSET Keys,
           NEW j, DOMAIN j = JobFields, j.pc = "write", j.op = "write", j.locked \in BOOLEAN,
           j.writes = writes, j.ctr = ctr, j.auto = auto,
           j.batch = WriteBatch(schema, writes, ctr)
    PROVE  JobOK(j) /\ j.batch.ctr = ctr
  <1>1. BatchOK(j.batch) /\ ~j.batch.newDef /\ j.batch.ctr = ctr
    BY WriteBatchFacts DEF StoreOK
  <1> QED
    BY <1>1 DEF JobOK

LEMMA SchemaJobFacts ==
    ASSUME NEW op \in SchemaOps, NEW i, NEW kind, NEW batch, BatchOK(batch),
           op \in {"createIndex", "dropIndex"} => i \in Indexes,
           op = "createIndex" => kind \in {"plain", "unique"},
           NEW j, DOMAIN j = JobFields, j.pc = "write", j.op = op, j.locked = FALSE,
           j.i = i, j.kind = kind, j.batch = batch, j.auto = {}, j.ctr = 0, j.writes = <<>>
    PROVE  JobOK(j)
  <1>1. 0 \in 0..MaxKey
    BY JsonDbAssumption
  <1> QED
    BY <1>1, NoWrites DEF JobOK

LEMMA ClosedTxFacts == TxOK(ClosedTx) /\ ClosedTx.auto = {} /\ ClosedTx.ctr = 0 /\ ~ClosedTx.open
  BY JsonDbAssumption DEF ClosedTx, TxOK

-----------------------------------------------------------------------------
(* The steps, by what they may disturb *)

\* What a thread has read stays so while the engine is left alone.
LEMMA SameStale ==
    ASSUME UNCHANGED engine, NEW u \in Threads, NEW j, job'[u] = j
    PROVE  Stale(job[u])' <=> Stale(j)
  <1>1. /\ docs' = docs /\ entries' = entries /\ rangeDeleted' = rangeDeleted
        /\ counter' = counter /\ disk' = disk
    BY DEF engine
  <1>2. ScannedDocs' = ScannedDocs
    BY <1>1 DEF ScannedDocs, Keys
  <1> QED
    BY <1>1, <1>2 DEF Stale, Rebuilt, WriteBatch, Batch, OldRows, IndexBatch, DropIndexBatch,
                      AutoBatch, DropStoreBatch, CreateStoreBatch, Conflict

\* The call j of thread t has built its batch from the cache and the engine.
Built(t, j) ==
    /\ j.pc = "write"
    /\ j.locked /\ schema = disk => ~Stale(j)
    /\ tx[t].auto = {} /\ tx[t].ctr = 0 =>
        OneKey(j) /\ (j.batch.ctr > 0 => j.locked /\ j.batch.ctr > counter)
    /\ "dup" \notin hazards' /\ j.op = "createIndex" /\ j.kind = "unique" =>
        Injective(j.batch.add)

Others(t) ==
    /\ DOMAIN job' = Threads /\ DOMAIN tx' = Threads
    /\ \A u \in Threads \ {t} : job'[u] = job[u] /\ tx'[u] = tx[u]

\* A call begins, is buffered or fails: thread t now has the call j and the
\* transaction x, the engine and the cache are as before.
Quiet(t, j, x) ==
    /\ UNCHANGED <<engine, schema, assigned, reissued, restarts>>
    /\ Others(t) /\ job'[t] = j /\ tx'[t] = x
    /\ job[t].pc # "publish"
    /\ JobOK(j) /\ (j.pc = "idle" \/ Built(t, j))
    /\ TxOK(x)
    /\ "txauto" \in hazards' \/ (tx[t].auto = {} /\ tx[t].ctr = 0 => x.auto = {} /\ x.ctr = 0)
    /\ j.locked => lock = Nobody
    /\ lock' = IF j.locked THEN t ELSE IF lock = t THEN Nobody ELSE lock
    /\ hazards \subseteq hazards' /\ hazards' \subseteq hazards \cup {"dup", "txauto"}
    /\ raced \ {t} \subseteq raced' /\ raced' \subseteq raced
    /\ j.pc = "write" => raced' = raced
    /\ calls' \in 0..MaxCalls

\* The batch of thread t takes effect.
Effect(t) ==
    LET j == job[t] IN
    /\ j.pc = "write" /\ Apply(j.batch)
    /\ UNCHANGED <<schema, tx, calls, restarts>>
    /\ Others(t) /\ JobOK(job'[t]) /\ ~job'[t].locked
    /\ \/ job'[t].pc = "idle" /\ (j.batch.newDef => "ghost" \in hazards')
       \/ job'[t].pc = "publish" /\ j.batch.newDef /\ job'[t].batch = j.batch
    /\ lock' = IF lock = t THEN Nobody ELSE lock
    /\ hazards \subseteq hazards'
    /\ hazards' \subseteq hazards \cup {"stale", "crossed", "relic", "ghost"}
    /\ Stale(j) => "stale" \in hazards'
    /\ Crosses(j) => "crossed" \in hazards'
    /\ MeetsRelics(j) => "relic" \in hazards'
    /\ raced' = (IF j.locked THEN raced ELSE raced \cup Writers) \ {t}
    /\ assigned' = IF j.batch.wipeStore THEN {} ELSE assigned \cup j.auto
    /\ reissued' = (reissued \/ j.auto \cap assigned # {})

LEMMA QuietTypes ==
    ASSUME TypeInv, NEW t \in Threads, NEW j, NEW x, Quiet(t, j, x)
    PROVE  TypeInv'
  <1>1. StoreOK'
    BY DEF TypeInv, StoreOK, Quiet, engine
  <1>2. CallsOK'
    <2>1. lock' \in Threads \cup {Nobody}
      BY DEF TypeInv, CallsOK, Quiet
    <2>2. DOMAIN job' = Threads /\ DOMAIN tx' = Threads
      BY DEF Quiet, Others
    <2>3. ASSUME NEW u \in Threads
          PROVE  JobOK(job'[u]) /\ (job'[u].locked <=> lock' = u) /\ TxOK(tx'[u])
      <3>1. CASE u = t
        BY <3>1, JsonDbAssumption DEF Quiet
      <3>2. CASE u # t
        <4>1. job'[u] = job[u] /\ tx'[u] = tx[u]
          BY <3>2 DEF Quiet, Others
        <4>2. JobOK(job[u]) /\ (job[u].locked <=> lock = u) /\ TxOK(tx[u])
          BY DEF TypeInv, CallsOK
        <4>3. lock' = u <=> lock = u
          BY <3>2, JsonDbAssumption DEF Quiet
        <4> QED BY <4>1, <4>2, <4>3
      <3> QED BY <3>1, <3>2
    <2> QED
      BY <2>1, <2>2, <2>3 DEF CallsOK, JobOK, TxOK
  <1>3. HistoryOK'
    BY DEF TypeInv, HistoryOK, Quiet
  <1> QED
    BY <1>1, <1>2, <1>3 DEF TypeInv

LEMMA EffectTypes ==
    ASSUME TypeInv, NEW t \in Threads, Effect(t)
    PROVE  TypeInv'
  <1> DEFINE b == job[t].batch
  <1>0. BatchOK(b) /\ job[t].auto \subseteq Keys
    BY DEF TypeInv, CallsOK, JobOK
  <1>1. StoreOK'
    <2>1. Apply(b) /\ schema' = schema
      BY DEF Effect
    <2>2. docs' \in [Keys -> Docs \cup {None}]
      BY <1>0, <2>1 DEF TypeInv, StoreOK, Apply, BatchOK, WritesOK
    <2>3. entries' \subseteq IndexRows
      BY <1>0, <2>1 DEF TypeInv, StoreOK, Apply, BatchOK
    <2>4. rangeDeleted' \in BOOLEAN
      BY <1>0, <2>1 DEF TypeInv, StoreOK, Apply, BatchOK
    <2>5. counter' \in 0..MaxKey
      BY <1>0, <2>1, JsonDbAssumption DEF TypeInv, StoreOK, Apply, BatchOK
    <2>6. disk' \in StoreDefs /\ schema' \in StoreDefs
      BY <1>0, <2>1 DEF TypeInv, StoreOK, Apply, BatchOK
    <2> QED BY <2>2, <2>3, <2>4, <2>5, <2>6 DEF StoreOK, IndexRows, Keys, Docs, StoreDefs
  <1>2. CallsOK'
    <2>1. lock' \in Threads \cup {Nobody}
      BY DEF TypeInv, CallsOK, Effect
    <2>2. DOMAIN job' = Threads /\ DOMAIN tx' = Threads
      BY DEF Effect, Others
    <2>3. ASSUME NEW u \in Threads
          PROVE  JobOK(job'[u]) /\ (job'[u].locked <=> lock' = u) /\ TxOK(tx'[u])
      <3>0. TxOK(tx'[u])
        BY DEF TypeInv, CallsOK, Effect
      <3>1. CASE u = t
        BY <3>0, <3>1, JsonDbAssumption DEF Effect
      <3>2. CASE u # t
        <4>1. job'[u] = job[u]
          BY <3>2 DEF Effect, Others
        <4>2. JobOK(job[u]) /\ (job[u].locked <=> lock = u)
          BY DEF TypeInv, CallsOK
        <4>3. lock' = u <=> lock = u
          BY <3>2, JsonDbAssumption DEF Effect
        <4> QED BY <3>0, <4>1, <4>2, <4>3
      <3> QED BY <3>1, <3>2
    <2> QED
      BY <2>1, <2>2, <2>3 DEF CallsOK, JobOK, TxOK
  <1>3. HistoryOK'
    <2>1. /\ calls' \in 0..MaxCalls /\ restarts' \in 0..MaxRestarts
          /\ hazards' \subseteq {"stale", "dup", "ghost", "crossed", "relic", "txauto"}
      BY DEF TypeInv, HistoryOK, Effect
    <2>2. raced' \subseteq Threads
      BY DEF TypeInv, HistoryOK, Effect, Writers
    <2>3. assigned' \subseteq Keys
      BY <1>0 DEF TypeInv, HistoryOK, Effect
    <2>4. reissued' \in BOOLEAN
      BY DEF TypeInv, HistoryOK, Effect
    <2> QED BY <2>1, <2>2, <2>3, <2>4 DEF HistoryOK, Keys
  <1> QED
    BY <1>1, <1>2, <1>3 DEF TypeInv

-----------------------------------------------------------------------------
(* Calls *)

\* The calls and transactions of the other threads, when one of them changes.
LEMMA OthersFacts ==
    ASSUME TypeInv, NEW t \in Threads, NEW j, NEW x,
           job' = job \/ job' = [job EXCEPT ![t] = j],
           tx' = tx \/ tx' = [tx EXCEPT ![t] = x]
    PROVE  /\ Others(t)
           /\ job' = [job EXCEPT ![t] = j] => job'[t] = j
           /\ tx' = [tx EXCEPT ![t] = x] => tx'[t] = x
  BY DEF TypeInv, CallsOK, Others

\* put, delete and put_auto.
LEMMA DirectIsQuiet ==
    ASSUME TypeInv, NEW t \in Threads, NEW writes, WritesOK(writes),
           NEW ctr \in 0..MaxKey, NEW auto \in SUBSET Keys,
           \A k \in auto : k = ctr, ctr > 0 => ctr = counter + 1,
           Calls(t), Direct(t, writes, ctr, auto)
    PROVE  \E j, x : Quiet(t, j, x)
  <1>0. /\ UNCHANGED <<engine, schema, assigned, reissued, restarts, hazards, raced, tx>>
        /\ lock = Nobody /\ job[t].pc = "idle" /\ schema.exists
    BY DEF Direct, history, LockFree, Calls
  <1>1. calls' \in 0..MaxCalls
    BY JsonDbAssumption DEF TypeInv, HistoryOK, Calls
  <1>2. TxOK(tx[t]) /\ JobOK(job[t]) /\ StoreOK /\ counter \in 0..MaxKey
    BY DEF TypeInv, CallsOK, StoreOK
  <1>3. CASE Conflict(schema, writes)
    <2>1. lock' = lock /\ job' = job
      BY <1>3 DEF Direct
    <2>2. Others(t)
      BY <1>0, <2>1, OthersFacts
    <2>3. ~job[t].locked /\ lock # t
      BY <1>0, <1>2, JsonDbAssumption DEF JobOK
    <2>4. Quiet(t, job[t], tx[t])
      BY <1>0, <1>1, <1>2, <2>1, <2>2, <2>3 DEF Quiet
    <2> QED BY <2>4
  <1>4. CASE ~Conflict(schema, writes)
    <2>0. PICK j : j = DirectJob(writes, ctr, auto)
      OBVIOUS
    <2>1. lock' = t /\ job' = [job EXCEPT ![t] = j]
      BY <1>4, <2>0 DEF Direct, Start
    <2>2. Others(t) /\ job'[t] = j
      BY <1>0, <2>1, OthersFacts
    <2>3. /\ JobOK(j) /\ j.pc = "write" /\ j.op = "write" /\ j.locked = TRUE
          /\ j.writes = writes /\ j.ctr = ctr /\ j.auto = auto
          /\ j.batch = WriteBatch(schema, writes, ctr) /\ j.batch.ctr = ctr
      <3>1. /\ DOMAIN j = JobFields /\ j.pc = "write" /\ j.op = "write" /\ j.locked = TRUE
            /\ j.writes = writes /\ j.ctr = ctr /\ j.auto = auto
            /\ j.batch = WriteBatch(schema, writes, ctr)
        BY <2>0 DEF DirectJob, IdleJob, JobFields
      <3>2. j.locked \in BOOLEAN
        BY <3>1
      <3>3. JobOK(j) /\ j.batch.ctr = ctr
        BY <1>2, <3>1, <3>2, WriteJobFacts
      <3> QED BY <3>1, <3>3
    <2>4. schema = disk => ~Stale(j)
      <3> SUFFICES ASSUME schema = disk PROVE ~Stale(j)
        OBVIOUS
      <3>1. Rebuilt(j) = j.batch
        BY <2>3 DEF Rebuilt
      <3>2. ~(j.ctr > 0 /\ j.ctr # counter + 1)
        BY <2>3
      <3>3. ~Conflict(disk, j.writes) /\ disk.exists
        BY <1>0, <1>4, <2>3
      <3> QED BY <2>3, <3>1, <3>2, <3>3 DEF Stale
    <2>5. OneKey(j) /\ (j.batch.ctr > 0 => j.batch.ctr > counter)
      BY <1>2, <2>3 DEF OneKey
    <2>6. Built(t, j)
      BY <2>3, <2>4, <2>5 DEF Built
    <2>7. Quiet(t, j, tx[t])
      BY <1>0, <1>1, <1>2, <2>1, <2>2, <2>3, <2>6 DEF Quiet
    <2> QED BY <2>7
  <1> QED
    BY <1>3, <1>4

LEMMA DirectCallIsQuiet ==
    ASSUME TypeInv, NEW t \in Threads, DirectCall(t)
    PROVE  \E j, x : Quiet(t, j, x)
  <1>0. 0 \in 0..MaxKey /\ counter \in 0..MaxKey
    BY JsonDbAssumption DEF TypeInv, StoreOK
  <1>1. ASSUME NEW k \in Keys, NEW d \in Docs, Put(t, k, d)
        PROVE  \E j, x : Quiet(t, j, x)
    <2>1. WritesOK([x \in {k} |-> d])
      BY DEF WritesOK
    <2>2. Calls(t) /\ Direct(t, [x \in {k} |-> d], 0, {})
      BY <1>1 DEF Put
    <2> QED BY <1>0, <2>1, <2>2, DirectIsQuiet
  <1>2. ASSUME NEW k \in Keys, Delete(t, k)
        PROVE  \E j, x : Quiet(t, j, x)
    <2>1. WritesOK([x \in {k} |-> None])
      BY DEF WritesOK
    <2>2. Calls(t) /\ Direct(t, [x \in {k} |-> None], 0, {})
      BY <1>2 DEF Delete
    <2> QED BY <1>0, <2>1, <2>2, DirectIsQuiet
  <1>3. ASSUME NEW d \in Docs, PutAuto(t, d)
        PROVE  \E j, x : Quiet(t, j, x)
    <2>1. PICK id : id = counter + 1
      OBVIOUS
    <2>2. /\ Calls(t) /\ id \in Keys /\ Direct(t, [x \in {id} |-> d], id, {id})
      BY <1>3, <2>1 DEF PutAuto, CounterRecord
    <2>3. WritesOK([x \in {id} |-> d])
      BY <2>2 DEF WritesOK
    <2>4. id \in 0..MaxKey
      BY <2>2 DEF Keys
    <2> QED BY <2>1, <2>2, <2>3, <2>4, DirectIsQuiet
  <1> QED
    BY <1>1, <1>2, <1>3 DEF DirectCall

\* A schema operation builds its batch.
LEMMA SchemaJobIsQuiet ==
    ASSUME TypeInv, NEW t \in Threads, job[t].pc \in {"idle", "auto"},
           NEW op \in SchemaOps, NEW i, NEW kind, NEW b, BatchOK(b), b.ctr = 0,
           op \in {"createIndex", "dropIndex"} => i \in Indexes,
           op = "createIndex" => kind \in {"plain", "unique"},
           "dup" \notin hazards' /\ op = "createIndex" /\ kind = "unique" => Injective(b.add),
           NEW j, DOMAIN j = JobFields, j.pc = "write", j.op = op, j.locked = FALSE,
           j.i = i, j.kind = kind, j.batch = b, j.auto = {}, j.ctr = 0, j.writes = <<>>,
           job' = [job EXCEPT ![t] = j],
           UNCHANGED <<engine, schema, assigned, reissued, restarts, raced, tx, lock>>,
           hazards \subseteq hazards' /\ hazards' \subseteq hazards \cup {"dup", "txauto"},
           calls' \in 0..MaxCalls
    PROVE  \E k, x : Quiet(t, k, x)
  <1>1. JobOK(j)
    BY SchemaJobFacts
  <1>2. Others(t) /\ job'[t] = j
    BY OthersFacts
  <1>3. TxOK(tx[t]) /\ lock # t
    BY DEF TypeInv, CallsOK, JobOK
  <1>4. Built(t, j)
    BY <1>1 DEF Built, OneKey
  <1>5. Quiet(t, j, tx[t])
    BY <1>1, <1>2, <1>3, <1>4 DEF Quiet
  <1> QED BY <1>5

\* Nothing is started: the call returns at once, or fails and releases the lock.
LEMMA IdleIsQuiet ==
    ASSUME TypeInv, NEW t \in Threads, job[t].pc # "publish",
           NEW j, JobOK(j), j.pc = "idle",
           (job' = job /\ job[t] = j) \/ job' = [job EXCEPT ![t] = j],
           NEW x, TxOK(x), (tx' = tx /\ tx[t] = x) \/ tx' = [tx EXCEPT ![t] = x],
           lock' = IF lock = t THEN Nobody ELSE lock,
           UNCHANGED <<engine, schema, assigned, reissued, restarts>>,
           hazards \subseteq hazards' /\ hazards' \subseteq hazards \cup {"dup", "txauto"},
           "txauto" \in hazards' \/ (tx[t].auto = {} /\ tx[t].ctr = 0 => x.auto = {} /\ x.ctr = 0),
           raced' = raced \/ raced' = raced \ {t},
           calls' \in 0..MaxCalls
    PROVE  \E k, y : Quiet(t, k, y)
  <1>1. Others(t) /\ job'[t] = j /\ tx'[t] = x
    BY OthersFacts
  <1>2. ~j.locked
    BY DEF JobOK
  <1>3. Quiet(t, j, x)
    BY <1>1, <1>2 DEF Quiet
  <1> QED BY <1>3

\* The rows of a backfill repeat a value only if two documents have it.
LEMMA BackfillFacts ==
    ASSUME StoreOK, NEW i, NEW rows,
           rows = {<<i, docs[k], k>> : k \in {x \in ScannedDocs : docs[x] \in Values}},
           ~\E k, l \in Keys : k # l /\ docs[k] = docs[l] /\ docs[k] \in Values
    PROVE  Injective(rows)
  <1> SUFFICES ASSUME NEW e \in rows, NEW f \in rows, e[2] = f[2] PROVE e[3] = f[3]
    BY DEF Injective
  <1>1. PICK k \in {x \in ScannedDocs : docs[x] \in Values} : e = <<i, docs[k], k>>
    OBVIOUS
  <1>2. PICK l \in {x \in ScannedDocs : docs[x] \in Values} : f = <<i, docs[l], l>>
    OBVIOUS
  <1>3. k \in Keys /\ l \in Keys
    BY DEF ScannedDocs
  <1> QED BY <1>1, <1>2, <1>3

LEMMA SchemaCallIsQuiet ==
    ASSUME TypeInv, NEW t \in Threads, SchemaCall(t)
    PROVE  \E j, x : Quiet(t, j, x)
  <1>0. /\ StoreOK /\ schema \in StoreDefs /\ JobOK(job[t]) /\ TxOK(tx[t])
        /\ job[t].locked <=> lock = t
    BY DEF TypeInv, StoreOK, CallsOK
  <1>c. Calls(t) => calls' \in 0..MaxCalls
    BY JsonDbAssumption DEF Calls, TypeInv, HistoryOK
  <1>b. /\ BatchOK(CreateStoreBatch) /\ CreateStoreBatch.ctr = 0
        /\ BatchOK(DropStoreBatch) /\ DropStoreBatch.ctr = 0
        /\ BatchOK(AutoBatch(schema)) /\ AutoBatch(schema).ctr = 0
    BY <1>0, StoreBatchFacts
  <1>1. ASSUME NEW apply \in BOOLEAN, CreateStore(t, apply)
        PROVE  \E j, x : Quiet(t, j, x)
    <2>1. PICK j : j = [SchemaJob("createStore", "none", "none", CreateStoreBatch)
                            EXCEPT !.apply = apply]
      OBVIOUS
    <2>2. /\ Calls(t) /\ job' = [job EXCEPT ![t] = j] /\ job[t].pc \in {"idle", "auto"}
          /\ UNCHANGED <<engine, schema, assigned, reissued, restarts, raced, tx, lock, hazards>>
      BY <1>1, <2>1 DEF CreateStore, Start, history, Calls
    <2>3. "createStore" \in SchemaOps
      BY DEF SchemaOps
    <2>4. calls' \in 0..MaxCalls
      BY <1>c, <2>2
    <2>5. /\ DOMAIN j = JobFields /\ j.pc = "write" /\ j.op = "createStore" /\ j.locked = FALSE
          /\ j.i = "none" /\ j.kind = "none" /\ j.batch = CreateStoreBatch /\ j.auto = {} /\ j.ctr = 0
          /\ j.writes = <<>>
      BY <2>1 DEF SchemaJob, IdleJob, JobFields
    <2> QED BY <1>b, <2>2, <2>3, <2>4, <2>5, SchemaJobIsQuiet
  <1>2. ASSUME SetAuto(t)
        PROVE  \E j, x : Quiet(t, j, x)
    <2>1. /\ job[t].pc = "auto" /\ calls' \in 0..MaxCalls
          /\ UNCHANGED <<engine, schema, assigned, reissued, restarts, raced, tx, lock, hazards>>
      BY <1>2 DEF SetAuto, history, TypeInv, HistoryOK
    <2>2. CASE schema.exists
      <3>1. PICK j : j = SchemaJob("setAuto", "none", "none", AutoBatch(schema))
        OBVIOUS
      <3>2. job' = [job EXCEPT ![t] = j]
        BY <1>2, <2>2, <3>1 DEF SetAuto, Start
      <3>3. "setAuto" \in SchemaOps
        BY DEF SchemaOps
      <3>4. /\ DOMAIN j = JobFields /\ j.pc = "write" /\ j.op = "setAuto" /\ j.locked = FALSE
            /\ j.i = "none" /\ j.kind = "none" /\ j.batch = AutoBatch(schema) /\ j.auto = {} /\ j.ctr = 0
            /\ j.writes = <<>>
        BY <3>1 DEF SchemaJob, IdleJob, JobFields
      <3> QED BY <1>b, <2>1, <3>2, <3>3, <3>4, SchemaJobIsQuiet
    <2>3. CASE ~schema.exists
      <3>1. job' = [job EXCEPT ![t] = IdleJob]
        BY <1>2, <2>3 DEF SetAuto, Start
      <3>2. lock # t
        BY <1>0, <2>1 DEF JobOK
      <3> QED BY <1>0, <2>1, <3>1, <3>2, IdleJobFacts, IdleIsQuiet
    <2> QED BY <2>2, <2>3
  <1>3. ASSUME DropStore(t)
        PROVE  \E j, x : Quiet(t, j, x)
    <2>1. PICK j : j = SchemaJob("dropStore", "none", "none", DropStoreBatch)
      OBVIOUS
    <2>2. /\ Calls(t) /\ job' = [job EXCEPT ![t] = j] /\ job[t].pc \in {"idle", "auto"}
          /\ UNCHANGED <<engine, schema, assigned, reissued, restarts, raced, tx, lock, hazards>>
      BY <1>3, <2>1 DEF DropStore, Start, history, Calls
    <2>3. "dropStore" \in SchemaOps
      BY DEF SchemaOps
    <2>4. calls' \in 0..MaxCalls
      BY <1>c, <2>2
    <2>5. /\ DOMAIN j = JobFields /\ j.pc = "write" /\ j.op = "dropStore" /\ j.locked = FALSE
          /\ j.i = "none" /\ j.kind = "none" /\ j.batch = DropStoreBatch /\ j.auto = {} /\ j.ctr = 0
          /\ j.writes = <<>>
      BY <2>1 DEF SchemaJob, IdleJob, JobFields
    <2> QED BY <1>b, <2>2, <2>3, <2>4, <2>5, SchemaJobIsQuiet
  <1>4. ASSUME NEW i \in Indexes, NEW kind \in {"plain", "unique"}, CreateIndex(t, i, kind)
        PROVE  \E j, x : Quiet(t, j, x)
    <2>0. PICK b : b = IndexBatch(schema, i, kind)
      OBVIOUS
    <2>1. PICK j : j = SchemaJob("createIndex", i, kind, b)
      OBVIOUS
    <2>2. /\ Calls(t) /\ job' = [job EXCEPT ![t] = j] /\ job[t].pc \in {"idle", "auto"}
          /\ UNCHANGED <<engine, schema, assigned, reissued, restarts, raced, tx, lock>>
      BY <1>4, <2>0, <2>1 DEF CreateIndex, Start, Calls
    <2>3. hazards \subseteq hazards' /\ hazards' \subseteq hazards \cup {"dup", "txauto"}
      BY <1>4 DEF CreateIndex
    <2>4. /\ BatchOK(b) /\ b.ctr = 0
          /\ b.add = {<<i, docs[k], k>> : k \in {x \in ScannedDocs : docs[x] \in Values}}
      BY <1>0, <2>0, IndexBatchFacts
    <2>5. "dup" \notin hazards' /\ kind = "unique" => Injective(b.add)
      <3> SUFFICES ASSUME "dup" \notin hazards', kind = "unique" PROVE Injective(b.add)
        OBVIOUS
      <3>1. ~\E k, l \in Keys : k # l /\ docs[k] = docs[l] /\ docs[k] \in Values
        BY <1>4 DEF CreateIndex
      <3> QED BY <1>0, <2>4, <3>1, BackfillFacts
    <2>6. "createIndex" \in SchemaOps
      BY DEF SchemaOps
    <2>7. calls' \in 0..MaxCalls
      BY <1>c, <2>2
    <2>8. /\ DOMAIN j = JobFields /\ j.pc = "write" /\ j.op = "createIndex" /\ j.locked = FALSE
          /\ j.i = i /\ j.kind = kind /\ j.batch = b /\ j.auto = {} /\ j.ctr = 0
          /\ j.writes = <<>>
      BY <2>1 DEF SchemaJob, IdleJob, JobFields
    <2> QED BY <2>2, <2>3, <2>4, <2>5, <2>6, <2>7, <2>8, SchemaJobIsQuiet
  <1>5. ASSUME NEW i \in Indexes, DropIndex(t, i)
        PROVE  \E j, x : Quiet(t, j, x)
    <2>0. PICK b : b = DropIndexBatch(schema, i)
      OBVIOUS
    <2>1. PICK j : j = SchemaJob("dropIndex", i, "none", b)
      OBVIOUS
    <2>2. /\ Calls(t) /\ job' = [job EXCEPT ![t] = j] /\ job[t].pc \in {"idle", "auto"}
          /\ UNCHANGED <<engine, schema, assigned, reissued, restarts, raced, tx, lock, hazards>>
      BY <1>5, <2>0, <2>1 DEF DropIndex, Start, history, Calls
    <2>3. "dropIndex" \in SchemaOps
      BY DEF SchemaOps
    <2>4. calls' \in 0..MaxCalls
      BY <1>c, <2>2
    <2>5. BatchOK(b) /\ b.ctr = 0
      BY <1>0, <2>0, DropIndexBatchFacts
    <2>6. /\ DOMAIN j = JobFields /\ j.pc = "write" /\ j.op = "dropIndex" /\ j.locked = FALSE
          /\ j.i = i /\ j.kind = "none" /\ j.batch = b /\ j.auto = {} /\ j.ctr = 0
          /\ j.writes = <<>>
      BY <2>1 DEF SchemaJob, IdleJob, JobFields
    <2> QED BY <2>2, <2>3, <2>4, <2>5, <2>6, SchemaJobIsQuiet
  <1> QED
    BY <1>1, <1>2, <1>3, <1>4, <1>5 DEF SchemaCall

LEMMA TransactIsQuiet ==
    ASSUME TypeInv, NEW t \in Threads, Transact(t)
    PROVE  \E j, x : Quiet(t, j, x)
  <1>0. /\ StoreOK /\ counter \in 0..MaxKey /\ JobOK(job[t]) /\ TxOK(tx[t])
        /\ job[t].locked <=> lock = t
        /\ calls \in 0..MaxCalls
    BY DEF TypeInv, StoreOK, CallsOK, HistoryOK
  <1>1. job[t].pc = "idle" /\ lock # t /\ ~job[t].locked
    BY <1>0 DEF Transact, Begin, Commit, Abort, TxWrite, TxPutAuto, Calls, JobOK
  <1>c. Calls(t) => calls' \in 0..MaxCalls
    BY <1>0, JsonDbAssumption DEF Calls
  <1>2. ASSUME Begin(t)
        PROVE  \E j, x : Quiet(t, j, x)
    <2>1. PICK x : x = [tx[t] EXCEPT !.open = TRUE]
      OBVIOUS
    <2>2. /\ tx' = [tx EXCEPT ![t] = x]
          /\ UNCHANGED <<engine, schema, assigned, reissued, restarts, raced, lock, hazards, calls,
                         job>>
      BY <1>2, <2>1 DEF Begin, history
    <2>3. TxOK(x) /\ x.auto = tx[t].auto /\ x.ctr = tx[t].ctr
      BY <1>0, <2>1 DEF TxOK
    <2> QED BY <1>0, <1>1, <2>2, <2>3, IdleIsQuiet
  <1>3. ASSUME Abort(t)
        PROVE  \E j, x : Quiet(t, j, x)
    <2>1. /\ tx' = [tx EXCEPT ![t] = ClosedTx]
          /\ UNCHANGED <<engine, schema, assigned, reissued, restarts, raced, lock, hazards, calls,
                         job>>
      BY <1>3 DEF Abort, history
    <2> QED BY <1>0, <1>1, <2>1, ClosedTxFacts, IdleIsQuiet
  <1>4. ASSUME NEW k \in Keys, NEW d \in Docs \cup {None}, TxWrite(t, k, d)
        PROVE  \E j, x : Quiet(t, j, x)
    <2>1. PICK x : x = [tx[t] EXCEPT !.writes[k] = d]
      OBVIOUS
    <2>2. /\ tx' = [tx EXCEPT ![t] = x] /\ Calls(t)
          /\ UNCHANGED <<engine, schema, assigned, reissued, restarts, raced, lock, hazards, job>>
      BY <1>4, <2>1 DEF TxWrite, history
    <2>3. TxOK(x) /\ x.auto = tx[t].auto /\ x.ctr = tx[t].ctr
      <3>1. d # Untouched
        BY MarksDiffer
      <3> QED BY <1>0, <2>1, <3>1 DEF TxOK
    <2>4. calls' \in 0..MaxCalls
      BY <1>c, <2>2
    <2> QED BY <1>0, <1>1, <2>2, <2>3, <2>4, IdleIsQuiet
  <1>5. ASSUME NEW d \in Docs, TxPutAuto(t, d)
        PROVE  \E j, x : Quiet(t, j, x)
    <2>0. PICK id \in Keys :
            /\ tx' = [tx EXCEPT ![t].writes[id] = d, ![t].next = id,
                                ![t].ctr = IF tx[t].next = 0 THEN id ELSE @,
                                ![t].auto = @ \cup {id}]
            /\ Calls(t) /\ hazards' = hazards \cup {"txauto"}
            /\ UNCHANGED <<engine, schema, assigned, reissued, restarts, raced, lock, job>>
      BY <1>5 DEF TxPutAuto
    <2>1. PICK x : x = [tx[t] EXCEPT !.writes[id] = d, !.next = id,
                                !.ctr = IF tx[t].next = 0 THEN id ELSE @,
                                !.auto = @ \cup {id}]
      OBVIOUS
    <2>2. tx' = [tx EXCEPT ![t] = x]
      BY <2>0, <2>1
    <2>3. TxOK(x)
      <3>1. d # Untouched /\ id \in 0..MaxKey
        BY MarksDiffer DEF Keys
      <3> QED BY <1>0, <2>1, <3>1 DEF TxOK
    <2>4. calls' \in 0..MaxCalls
      BY <1>c, <2>0
    <2>5. /\ "txauto" \in hazards' /\ hazards \subseteq hazards'
          /\ hazards' \subseteq hazards \cup {"dup", "txauto"}
      BY <2>0
    <2> QED BY <1>0, <1>1, <2>0, <2>2, <2>3, <2>4, <2>5, IdleIsQuiet
  <1>6. ASSUME Commit(t)
        PROVE  \E j, x : Quiet(t, j, x)
    <2>0. PICK writes : writes = [k \in Buffered(t) |-> tx[t].writes[k]]
      OBVIOUS
    <2>1. /\ tx' = [tx EXCEPT ![t] = ClosedTx] /\ calls' \in 0..MaxCalls
          /\ UNCHANGED <<engine, schema, assigned, reissued, restarts, raced, lock, hazards, calls>>
      BY <1>0, <1>6 DEF Commit, history
    <2>2. CASE writes = <<>> \/ ~schema.exists \/ Conflict(schema, writes)
      <3>1. job' = job
        BY <1>6, <2>0, <2>2 DEF Commit
      <3> QED BY <1>0, <1>1, <2>1, <3>1, ClosedTxFacts, IdleIsQuiet
    <2>3. CASE ~(writes = <<>> \/ ~schema.exists \/ Conflict(schema, writes))
      <3>1. PICK j : j = [IdleJob EXCEPT !.pc = "write", !.op = "write",
                        !.writes = writes, !.ctr = tx[t].ctr, !.auto = tx[t].auto,
                        !.batch = WriteBatch(schema, writes, tx[t].ctr)]
        OBVIOUS
      <3>2. job' = [job EXCEPT ![t] = j]
        BY <1>6, <2>0, <2>3, <3>1 DEF Commit, Start
      <3>3. /\ DOMAIN j = JobFields /\ j.pc = "write" /\ j.op = "write" /\ j.locked = FALSE
            /\ j.writes = writes /\ j.ctr = tx[t].ctr /\ j.auto = tx[t].auto
            /\ j.batch = WriteBatch(schema, writes, tx[t].ctr)
        BY <3>1 DEF IdleJob, JobFields
      <3>4. j.locked \in BOOLEAN /\ tx[t].ctr \in 0..MaxKey /\ tx[t].auto \in SUBSET Keys
        BY <1>0, <3>3 DEF TxOK
      <3>5. WritesOK(writes)
        BY <1>0, <2>0 DEF WritesOK, TxOK, Buffered
      <3>6. JobOK(j) /\ j.batch.ctr = tx[t].ctr
        BY <1>0, <3>3, <3>4, <3>5, WriteJobFacts
      <3>7. Built(t, j)
        BY <3>3, <3>6 DEF Built, OneKey
      <3>8. Others(t) /\ job'[t] = j /\ tx'[t] = ClosedTx
        BY <2>1, <3>2, OthersFacts
      <3>9. Quiet(t, j, ClosedTx)
        BY <1>1, <2>1, <3>3, <3>6, <3>7, <3>8, ClosedTxFacts DEF Quiet
      <3> QED BY <3>9
    <2> QED BY <2>2, <2>3
  <1> QED
    BY <1>2, <1>3, <1>4, <1>5, <1>6 DEF Transact

LEMMA WriteFailsIsQuiet ==
    ASSUME TypeInv, NEW t \in Threads, WriteFails(t)
    PROVE  \E j, x : Quiet(t, j, x)
  <1>1. /\ job[t].pc # "publish" /\ job' = [job EXCEPT ![t] = IdleJob]
        /\ lock' = IF lock = t THEN Nobody ELSE lock
        /\ raced' = raced \ {t}
        /\ UNCHANGED <<engine, schema, assigned, reissued, restarts, hazards, calls, tx>>
    BY DEF WriteFails, Returns
  <1>2. TxOK(tx[t]) /\ calls' \in 0..MaxCalls
    BY <1>1 DEF TypeInv, CallsOK, HistoryOK
  <1> QED
    BY <1>1, <1>2, IdleJobFacts, IdleIsQuiet

-----------------------------------------------------------------------------
(* Batches that take effect *)

LEMMA WriteIsEffect ==
    ASSUME TypeInv, NEW t \in Threads, Write(t) \/ WriteErrsLate(t)
    PROVE  Effect(t)
  <1> DEFINE b == job[t].batch
  <1>0. /\ JobOK(job[t]) /\ (job[t].locked <=> lock = t) /\ b.newDef \in BOOLEAN
    BY DEF TypeInv, CallsOK, JobOK, BatchOK
  <1>1. /\ job[t].pc = "write" /\ Apply(b) /\ UNCHANGED <<schema, tx, calls, restarts>>
    BY DEF Write, WriteErrsLate
  <1>2. PICK mishaps \in SUBSET {"ghost"} :
            Record(t, mishaps) /\ (WriteErrsLate(t) /\ b.newDef => "ghost" \in mishaps)
    BY DEF Write, WriteErrsLate
  <1>3. /\ hazards \subseteq hazards'
        /\ hazards' \subseteq hazards \cup {"stale", "crossed", "relic", "ghost"}
        /\ mishaps \subseteq hazards'
        /\ Stale(job[t]) => "stale" \in hazards'
        /\ Crosses(job[t]) => "crossed" \in hazards'
        /\ MeetsRelics(job[t]) => "relic" \in hazards'
    BY <1>2 DEF Record
  <1>4. /\ raced' = (IF job[t].locked THEN raced ELSE raced \cup Writers) \ {t}
        /\ assigned' = IF b.wipeStore THEN {} ELSE assigned \cup job[t].auto
        /\ reissued' = (reissued \/ job[t].auto \cap assigned # {})
    BY <1>2 DEF Record
  <1>5. CASE Write(t) /\ b.newDef
    <2>1. PICK j : j = [job[t] EXCEPT !.pc = "publish"]
      OBVIOUS
    <2>2. job' = [job EXCEPT ![t] = j] /\ lock' = lock
      BY <1>5, <2>1 DEF Write
    <2>3. Others(t) /\ job'[t] = j
      BY <1>1, <2>2, OthersFacts
    <2>4. /\ DOMAIN j = JobFields /\ j.pc = "publish" /\ j.op = job[t].op
          /\ j.locked = job[t].locked /\ j.writes = job[t].writes /\ j.ctr = job[t].ctr
          /\ j.auto = job[t].auto /\ j.i = job[t].i /\ j.kind = job[t].kind /\ j.batch = b
      BY <1>0, <2>1 DEF JobOK, JobFields
    <2>5. ~job[t].locked
      BY <1>0, <1>5 DEF JobOK
    <2>6. JobOK(j) /\ ~j.locked
      BY <1>0, <2>4, <2>5 DEF JobOK
    <2>7. lock' = IF lock = t THEN Nobody ELSE lock
      BY <1>0, <2>2, <2>5
    <2> HIDE DEF b
    <2>8. \/ job'[t].pc = "idle" /\ (b.newDef => "ghost" \in hazards')
          \/ job'[t].pc = "publish" /\ b.newDef /\ job'[t].batch = b
      BY <1>5, <2>3, <2>4
    <2> USE DEF b
    <2> QED BY <1>1, <1>3, <1>4, <2>3, <2>6, <2>7, <2>8 DEF Effect
  <1>6. CASE WriteErrsLate(t) \/ ~b.newDef
    <2>1. Returns(t)
      BY <1>6 DEF Write, WriteErrsLate
    <2>2. job' = [job EXCEPT ![t] = IdleJob] /\ lock' = IF lock = t THEN Nobody ELSE lock
      BY <2>1 DEF Returns
    <2>3. Others(t) /\ job'[t] = IdleJob
      BY <1>1, <2>2, OthersFacts
    <2>4. JobOK(job'[t]) /\ ~job'[t].locked /\ job'[t].pc = "idle"
      BY <2>3, IdleJobFacts
    <2>5. b.newDef => "ghost" \in hazards'
      BY <1>2, <1>3, <1>6
    <2> QED BY <1>1, <1>3, <1>4, <2>2, <2>3, <2>4, <2>5 DEF Effect
  <1> QED
    BY <1>5, <1>6

-----------------------------------------------------------------------------
(* Type correctness *)

LEMMA PublishFacts ==
    ASSUME TypeInv, NEW t \in Threads, Publish(t)
    PROVE  /\ Others(t) /\ JobOK(job'[t]) /\ ~job'[t].locked
           /\ job'[t].pc \in {"idle", "auto"} /\ job[t].pc = "publish" /\ lock # t
           /\ schema' = job[t].batch.def /\ raced' = raced \cup Writers
           /\ UNCHANGED <<engine, lock, tx, calls, restarts, hazards, assigned, reissued>>
  <1>1. PICK j : j = IF job[t].apply THEN [IdleJob EXCEPT !.pc = "auto"] ELSE IdleJob
    OBVIOUS
  <1>2. job' = [job EXCEPT ![t] = j] /\ tx' = tx
    BY <1>1 DEF Publish, Start
  <1>3. Others(t) /\ job'[t] = j
    BY <1>2, OthersFacts
  <1>4. JobOK(j) /\ ~j.locked /\ j.pc \in {"idle", "auto"}
    BY <1>1, IdleJobFacts
  <1>5. lock # t
    BY DEF TypeInv, CallsOK, JobOK, Publish
  <1> QED
    BY <1>3, <1>4, <1>5 DEF Publish, Published

LEMMA InitTypes == Init => TypeInv
  <1> SUFFICES ASSUME Init PROVE TypeInv
    OBVIOUS
  <1> USE DEF Init
  <1>1. StoreOK
    <2>1. disk \in StoreDefs /\ schema \in StoreDefs
      BY StoreDefFacts DEF StoreDefs
    <2>2. counter \in 0..MaxKey
      BY JsonDbAssumption
    <2>3. docs \in [Keys -> Docs \cup {None}] /\ entries \subseteq IndexRows
      OBVIOUS
    <2> QED BY <2>1, <2>2, <2>3 DEF StoreOK
  <1>2. CallsOK
    BY IdleJobFacts, ClosedTxFacts, JsonDbAssumption DEF CallsOK
  <1>3. HistoryOK
    <2>1. calls \in 0..MaxCalls /\ restarts \in 0..MaxRestarts
      BY JsonDbAssumption
    <2>2. hazards = {} /\ raced = {} /\ assigned = {} /\ reissued = FALSE
      OBVIOUS
    <2> HIDE DEF Init
    <2> QED BY <2>1, <2>2 DEF HistoryOK
  <1> QED
    BY <1>1, <1>2, <1>3 DEF TypeInv

LEMMA NextTypes == TypeInv /\ [Next]_vars => TypeInv'
  <1> SUFFICES ASSUME TypeInv, [Next]_vars PROVE TypeInv'
    OBVIOUS
  <1>1. ASSUME NEW t \in Threads, DirectCall(t) \/ SchemaCall(t) \/ Transact(t) \/ WriteFails(t)
        PROVE  TypeInv'
    <2>1. \E j, x : Quiet(t, j, x)
      BY <1>1, DirectCallIsQuiet, SchemaCallIsQuiet, TransactIsQuiet, WriteFailsIsQuiet
    <2> QED BY <2>1, QuietTypes
  <1>2. ASSUME NEW t \in Threads, Write(t) \/ WriteErrsLate(t)
        PROVE  TypeInv'
    BY <1>2, WriteIsEffect, EffectTypes
  <1>3. ASSUME NEW t \in Threads, Publish(t)
        PROVE  TypeInv'
    <2>0. /\ Others(t) /\ JobOK(job'[t]) /\ ~job'[t].locked /\ lock # t
          /\ schema' = job[t].batch.def /\ raced' = raced \cup Writers
          /\ UNCHANGED <<engine, lock, tx, calls, restarts, hazards, assigned, reissued>>
      BY <1>3, PublishFacts
    <2>1. StoreOK'
      <3>1. schema' \in StoreDefs
        BY <2>0 DEF TypeInv, CallsOK, JobOK, BatchOK
      <3> QED BY <2>0, <3>1 DEF TypeInv, StoreOK, engine
    <2>2. CallsOK'
      <3>1. ASSUME NEW u \in Threads
            PROVE  JobOK(job'[u]) /\ (job'[u].locked <=> lock' = u) /\ TxOK(tx'[u])
        BY <2>0 DEF TypeInv, CallsOK, Others
      <3> QED BY <2>0, <3>1 DEF TypeInv, CallsOK, Others, JobOK, TxOK
    <2>3. HistoryOK'
      BY <2>0 DEF TypeInv, HistoryOK, Writers
    <2> QED BY <2>1, <2>2, <2>3 DEF TypeInv
  <1>4. CASE Restart
    <2>1. StoreOK'
      BY <1>4 DEF TypeInv, StoreOK, Restart, engine
    <2>2. CallsOK'
      <3>1. lock' = Nobody /\ DOMAIN job' = Threads /\ DOMAIN tx' = Threads
        BY <1>4 DEF Restart
      <3>2. ASSUME NEW u \in Threads
            PROVE  JobOK(job'[u]) /\ (job'[u].locked <=> lock' = u) /\ TxOK(tx'[u])
        <4>1. job'[u] = IdleJob /\ tx'[u] = ClosedTx
          BY <1>4 DEF Restart
        <4> QED BY <3>1, <4>1, IdleJobFacts, ClosedTxFacts, JsonDbAssumption
      <3> QED BY <3>1, <3>2 DEF CallsOK, JobOK, TxOK
    <2>3. HistoryOK'
      BY <1>4, JsonDbAssumption DEF TypeInv, HistoryOK, Restart
    <2> QED BY <2>1, <2>2, <2>3 DEF TypeInv
  <1>5. CASE UNCHANGED vars
    <2>1. StoreOK'
      BY <1>5 DEF TypeInv, StoreOK, vars
    <2>2. CallsOK'
      BY <1>5 DEF TypeInv, CallsOK, JobOK, TxOK, vars
    <2>3. HistoryOK'
      BY <1>5 DEF TypeInv, HistoryOK, vars
    <2> QED BY <2>1, <2>2, <2>3 DEF TypeInv
  <1> QED
    BY <1>1, <1>2, <1>3, <1>4, <1>5 DEF Next, Finish

\* The jobs, transactions and batches have their types, and with them the
\* state has.
THEOREM TypesInvariant == Spec => []TypeInv
  BY InitTypes, NextTypes, PTL DEF Spec

\* In every reachable state the stored documents, entries, counters and
\* definitions have their types, write_lock is held exactly by the direct write
\* in progress, and a transaction buffers every key it has generated.
THEOREM TypesHold == Spec => []TypeOK
  <1>1. TypeInv => TypeOK
    <2> SUFFICES ASSUME TypeInv PROVE TypeOK
      OBVIOUS
    <2>1. ASSUME NEW t \in Threads
          PROVE  /\ job[t].pc \in {"idle", "write", "publish", "auto"}
                 /\ job[t].locked <=> lock = t
                 /\ tx[t].writes \in [Keys -> Docs \cup {None, Untouched}]
                 /\ tx[t].auto \subseteq Buffered(t)
      BY DEF TypeInv, CallsOK, JobOK, TxOK, Buffered
    <2> QED
      BY <2>1 DEF TypeOK, TypeInv, StoreOK, CallsOK, HistoryOK, IndexRows
  <1> QED
    BY <1>1, TypesInvariant, PTL

-----------------------------------------------------------------------------
(* Calls keep the invariants *)

LEMMA QuietKeeps ==
    ASSUME TypeInv, JsonInv, NEW t \in Threads, NEW j, NEW x, Quiet(t, j, x)
    PROVE  JsonInv'
  <1>0. /\ docs' = docs /\ entries' = entries /\ rangeDeleted' = rangeDeleted
        /\ counter' = counter /\ disk' = disk /\ schema' = schema
        /\ assigned' = assigned /\ reissued' = reissued
    BY DEF Quiet, engine
  <1>1. /\ hazards \subseteq hazards'
        /\ job'[t] = j /\ tx'[t] = x /\ (j.pc = "idle" \/ Built(t, j)) /\ JobOK(j)
        /\ job[t].pc # "publish" /\ j.pc # "publish"
        /\ \A u \in Threads \ {t} : job'[u] = job[u] /\ tx'[u] = tx[u]
    BY DEF Quiet, Others, Built
  <1>2. AutoInv'
    <2> SUFFICES ASSUME "txauto" \notin hazards'
                 PROVE  /\ ~reissued' /\ \A k \in assigned' : k <= counter'
                        /\ \A u \in Threads : /\ tx'[u].auto = {} /\ tx'[u].ctr = 0
                                              /\ job'[u].pc = "write" =>
                                                    /\ OneKey(job'[u])
                                                    /\ job'[u].batch.ctr > 0 =>
                                                        /\ job'[u].locked
                                                        /\ job'[u].batch.ctr > counter'
      BY DEF AutoInv, OneKey
    <2>1. /\ ~reissued /\ \A k \in assigned : k <= counter
          /\ \A u \in Threads : /\ tx[u].auto = {} /\ tx[u].ctr = 0
                                /\ job[u].pc = "write" =>
                                    /\ OneKey(job[u])
                                    /\ job[u].batch.ctr > 0 =>
                                        job[u].locked /\ job[u].batch.ctr > counter
      BY <1>1 DEF JsonInv, AutoInv
    <2>2. /\ tx'[t].auto = {} /\ tx'[t].ctr = 0
          /\ job'[t].pc = "write" =>
                OneKey(job'[t])
                /\ (job'[t].batch.ctr > 0 => job'[t].locked /\ job'[t].batch.ctr > counter')
      BY <1>0, <1>1, <2>1 DEF Quiet, Built
    <2> QED BY <1>0, <1>1, <2>1, <2>2
  <1>3. SchemaInv'
    BY <1>0, <1>1 DEF JsonInv, SchemaInv
  <1>4. IndexInv'
    BY <1>0, <1>1 DEF JsonInv, IndexInv, Rows, Defined, Keys
  <1>5. BackfillInv'
    <2> SUFFICES ASSUME "dup" \notin hazards', NEW u \in Threads,
                        job'[u].pc = "write", job'[u].op = "createIndex", job'[u].kind = "unique"
                 PROVE  Injective(job'[u].batch.add)
      BY DEF BackfillInv, Injective
    <2>1. CASE u = t
      BY <1>1, <2>1 DEF Built
    <2>2. CASE u # t
      BY <1>1, <2>2 DEF JsonInv, BackfillInv
    <2> QED BY <2>1, <2>2
  <1>6. UniqueHolds'
    BY <1>0, <1>1 DEF JsonInv, UniqueHolds, Keys
  <1>7. LockedWritesAreFresh'
    <2> SUFFICES ASSUME NEW u \in Threads, job'[u].pc = "write", job'[u].locked, u \notin raced',
                        hazards' \cap CacheHazards = {}, \A w \in Threads : job'[w].pc # "publish"
                 PROVE  ~Stale(job[u])'
      BY DEF LockedWritesAreFresh, CacheHazards
    <2>1. hazards \cap CacheHazards = {} /\ \A w \in Threads : job[w].pc # "publish"
      BY <1>1
    <2>2. CASE u # t
      <3>1. job'[u] = job[u] /\ u \notin raced
        BY <1>1, <2>2 DEF Quiet
      <3>2. ~Stale(job[u])
        BY <2>1, <3>1 DEF JsonInv, LockedWritesAreFresh
      <3>3. UNCHANGED engine
        BY DEF Quiet
      <3> QED BY <3>1, <3>2, <3>3, SameStale
    <2>3. CASE u = t
      <3>1. schema = disk
        BY <2>1 DEF JsonInv, SchemaInv
      <3>2. ~Stale(j)
        BY <1>1, <2>3, <3>1 DEF Built
      <3>3. UNCHANGED engine
        BY DEF Quiet
      <3> QED BY <1>1, <2>3, <3>2, <3>3, SameStale
    <2> QED BY <2>2, <2>3
  <1> QED
    BY <1>2, <1>3, <1>4, <1>5, <1>6, <1>7 DEF JsonInv

-----------------------------------------------------------------------------
(* Batches that take effect keep the invariants *)

\* The batch b of the write j replaces the entries of the old documents by those
\* of the new ones.
FreshWrite(j, b) ==
    /\ disk.exists /\ ~Conflict(disk, j.writes) /\ WritesOK(j.writes)
    /\ b.doc = j.writes /\ ~b.wipeStore /\ ~b.newDef
    /\ \A i \in Defined(disk), v \in Values, k \in Keys :
        /\ <<i, v, k>> \in b.del <=> k \in DOMAIN j.writes /\ docs[k] = v
        /\ <<i, v, k>> \in b.add <=> k \in DOMAIN j.writes /\ j.writes[k] = v

\* The batch b is what the operation of j builds from the engine as it is.
Fresh(j, b) ==
    /\ j.op \in SchemaOps \cup {"write"}
    /\ j.op = "write" => FreshWrite(j, b)
    /\ j.op # "write" => b.doc = <<>> /\ b.del = {} /\ b.newDef
    /\ j.op \notin {"write", "createIndex"} => b.add = {}
    /\ j.op = "createIndex" =>
         /\ disk.exists /\ disk.ix[j.i] = "none" /\ ~b.wipeStore
         /\ j.i \in Indexes /\ j.kind \in {"plain", "unique"}
         /\ OneIndexSet(disk, b.def, j.i, j.kind)
         /\ b.add = {<<j.i, docs[k], k>> : k \in {x \in ScannedDocs : docs[x] \in Values}}
    /\ j.op = "dropIndex" =>
         /\ disk.exists /\ ~b.wipeStore /\ j.i \in Indexes
         /\ OneIndexSet(disk, b.def, j.i, "none")
    /\ j.op = "dropStore" => b.def = NoStore
    /\ j.op = "createStore" => ~b.wipeStore /\ b.def = NewStore
    /\ j.op = "setAuto" => disk.exists /\ ~b.wipeStore /\ b.def.ix = disk.ix

\* A batch that is not stale is the one its operation builds from the engine.
LEMMA FreshBatch ==
    ASSUME TypeInv, NEW t \in Threads, job[t].pc = "write", ~Stale(job[t]),
           NEW j, j = job[t], NEW b, b = j.batch
    PROVE  Fresh(j, b)
  <1>0. JobOK(j) /\ StoreOK /\ disk \in StoreDefs
    BY DEF TypeInv, CallsOK, StoreOK
  <1>1. /\ Rebuilt(j) = b
        /\ ~(j.op = "write" /\ Conflict(disk, j.writes))
        /\ ~(j.op # "createStore" /\ ~disk.exists)
        /\ ~(j.op = "createIndex" /\ disk.ix[j.i] # "none")
    BY DEF Stale
  <1>2. j.op \in SchemaOps \cup {"write"}
    BY <1>0 DEF JobOK
  <1>3. ASSUME j.op = "write"
        PROVE  FreshWrite(j, b)
    <2>1. b = WriteBatch(disk, j.writes, j.ctr)
      BY <1>1, <1>3 DEF Rebuilt
    <2>2. WritesOK(j.writes) /\ j.ctr \in 0..MaxKey
      BY <1>0 DEF JobOK
    <2>3. /\ b.doc = j.writes /\ ~b.wipeStore /\ ~b.newDef
          /\ b.del = UNION {Rows(disk, k, docs[k]) : k \in DOMAIN j.writes}
          /\ b.add = UNION {Rows(disk, k, j.writes[k]) : k \in DOMAIN j.writes}
      BY <1>0, <2>1, <2>2, WriteBatchFacts
    <2>4. ASSUME NEW i \in Defined(disk), NEW v \in Values, NEW k \in Keys
          PROVE  /\ <<i, v, k>> \in b.del <=> k \in DOMAIN j.writes /\ docs[k] = v
                 /\ <<i, v, k>> \in b.add <=> k \in DOMAIN j.writes /\ j.writes[k] = v
      <3>1. DOMAIN j.writes \subseteq Keys
        BY <2>2 DEF WritesOK
      <3>2. <<i, v, k>> \in UNION {Rows(disk, l, docs[l]) : l \in DOMAIN j.writes} <=>
                \E l \in DOMAIN j.writes : <<i, v, k>> \in Rows(disk, l, docs[l])
        BY Zenon
      <3>3. <<i, v, k>> \in UNION {Rows(disk, l, j.writes[l]) : l \in DOMAIN j.writes} <=>
                \E l \in DOMAIN j.writes : <<i, v, k>> \in Rows(disk, l, j.writes[l])
        BY Zenon
      <3>4. \A d : \A l \in Keys : <<i, v, k>> \in Rows(disk, l, d) <=> d = v /\ l = k
        BY RowsFacts
      <3>5. (\E l \in DOMAIN j.writes : <<i, v, k>> \in Rows(disk, l, docs[l]))
                <=> k \in DOMAIN j.writes /\ docs[k] = v
        BY <3>1, <3>4
      <3>6. (\E l \in DOMAIN j.writes : <<i, v, k>> \in Rows(disk, l, j.writes[l]))
                <=> k \in DOMAIN j.writes /\ j.writes[k] = v
        BY <3>1, <3>4
      <3> QED BY <2>3, <3>2, <3>3, <3>5, <3>6
    <2> QED BY <1>1, <1>3, <2>2, <2>3, <2>4 DEF FreshWrite
  <1>4. ASSUME j.op = "createIndex"
        PROVE  /\ disk.exists /\ disk.ix[j.i] = "none" /\ ~b.wipeStore
               /\ j.i \in Indexes /\ j.kind \in {"plain", "unique"}
               /\ OneIndexSet(disk, b.def, j.i, j.kind)
               /\ b.doc = <<>> /\ b.del = {} /\ b.newDef
               /\ b.add = {<<j.i, docs[k], k>> : k \in {x \in ScannedDocs : docs[x] \in Values}}
    <2>1. b = IndexBatch(disk, j.i, j.kind)
      BY <1>1, <1>4 DEF Rebuilt
    <2>2. j.i \in Indexes /\ j.kind \in {"plain", "unique"}
      BY <1>0, <1>4 DEF JobOK
    <2>3. /\ OneIndexSet(disk, b.def, j.i, j.kind) /\ ~b.wipeStore
          /\ b.doc = <<>> /\ b.del = {} /\ b.newDef
          /\ b.add = {<<j.i, docs[k], k>> : k \in {x \in ScannedDocs : docs[x] \in Values}}
      BY <1>0, <2>1, <2>2, IndexBatchFacts
    <2> QED BY <1>1, <1>4, <2>2, <2>3
  <1>5. ASSUME j.op = "dropIndex"
        PROVE  /\ disk.exists /\ ~b.wipeStore /\ j.i \in Indexes
               /\ OneIndexSet(disk, b.def, j.i, "none")
               /\ b.doc = <<>> /\ b.del = {} /\ b.newDef /\ b.add = {}
    <2>1. b = DropIndexBatch(disk, j.i)
      BY <1>1, <1>5 DEF Rebuilt
    <2>2. j.i \in Indexes
      BY <1>0, <1>5 DEF JobOK
    <2>3. /\ OneIndexSet(disk, b.def, j.i, "none") /\ ~b.wipeStore
          /\ b.doc = <<>> /\ b.del = {} /\ b.newDef /\ b.add = {}
      BY <1>0, <2>1, <2>2, DropIndexBatchFacts
    <2> QED BY <1>1, <1>5, <2>2, <2>3
  <1>6. ASSUME j.op \in {"dropStore", "createStore", "setAuto"}
        PROVE  /\ b.doc = <<>> /\ b.del = {} /\ b.newDef /\ b.add = {}
               /\ j.op = "dropStore" => b.def = NoStore
               /\ j.op = "createStore" => ~b.wipeStore /\ b.def = NewStore
               /\ j.op = "setAuto" => disk.exists /\ ~b.wipeStore /\ b.def.ix = disk.ix
    <2>1. /\ j.op = "dropStore" => b = DropStoreBatch
          /\ j.op = "createStore" => b = CreateStoreBatch
          /\ j.op = "setAuto" => b = AutoBatch(disk)
      BY <1>1 DEF Rebuilt
    <2>2. /\ b.doc = <<>> /\ b.del = {} /\ b.add = {} /\ b.newDef
          /\ b = DropStoreBatch => b.wipeStore /\ b.def = NoStore
          /\ b = CreateStoreBatch => ~b.wipeStore /\ b.def = NewStore
          /\ b = AutoBatch(disk) => ~b.wipeStore /\ b.def.exists = disk.exists /\ b.def.ix = disk.ix
      BY <1>0, <1>6, <2>1, StoreBatchFacts
    <2> QED BY <1>1, <1>6, <2>1, <2>2
  <1> QED
    BY <1>2, <1>3, <1>4, <1>5, <1>6 DEF SchemaOps, Fresh

\* The counter: one holder of write_lock at a time has a generated key, and its
\* batch carries the counter along.
LEMMA EffectAuto ==
    ASSUME TypeInv, JsonInv, NEW t \in Threads, Effect(t)
    PROVE  AutoInv'
  <1> SUFFICES ASSUME "txauto" \notin hazards'
               PROVE  /\ ~reissued' /\ \A k \in assigned' : k <= counter'
                      /\ \A u \in Threads : /\ tx'[u].auto = {} /\ tx'[u].ctr = 0
                                            /\ job'[u].pc = "write" =>
                                                  /\ OneKey(job'[u])
                                                  /\ job'[u].batch.ctr > 0 =>
                                                      /\ job'[u].locked
                                                      /\ job'[u].batch.ctr > counter'
    BY DEF AutoInv, OneKey
  <1>0. "txauto" \notin hazards
    BY DEF Effect
  <1>1. /\ ~reissued /\ \A k \in assigned : k <= counter
        /\ \A u \in Threads : /\ tx[u].auto = {} /\ tx[u].ctr = 0
                              /\ job[u].pc = "write" =>
                                  /\ OneKey(job[u])
                                  /\ job[u].batch.ctr > 0 =>
                                      job[u].locked /\ job[u].batch.ctr > counter
    BY <1>0 DEF JsonInv, AutoInv
  <1>2. PICK c, auto : c = job[t].batch.ctr /\ auto = job[t].auto
    OBVIOUS
  <1>3. /\ c \in 0..MaxKey /\ auto \subseteq Keys /\ counter \in 0..MaxKey /\ assigned \subseteq Keys
    BY <1>2 DEF TypeInv, CallsOK, JobOK, BatchOK, StoreOK, HistoryOK
  <1>4. /\ \A k \in auto : k = c
        /\ c > 0 => job[t].locked /\ c > counter
    BY <1>1, <1>2 DEF Effect, OneKey
  <1>5. /\ counter' = IF job[t].batch.wipeStore THEN 0 ELSE IF c > 0 THEN c ELSE counter
        /\ assigned' = IF job[t].batch.wipeStore THEN {} ELSE assigned \cup auto
        /\ reissued' = (reissued \/ auto \cap assigned # {})
        /\ tx' = tx
    BY <1>2 DEF Effect, Apply
  <1>6. \A k \in auto : k = c /\ c > 0
    BY <1>3, <1>4 DEF Keys
  <1>7. auto \cap assigned = {}
    <2> SUFFICES ASSUME NEW k \in auto, k \in assigned PROVE FALSE
      OBVIOUS
    <2>1. k = c /\ c > counter /\ k <= counter
      BY <1>1, <1>4, <1>6
    <2> QED BY <1>3, <2>1
  <1>8. ~reissued'
    BY <1>1, <1>5, <1>7
  <1>9. ASSUME NEW k \in assigned' PROVE k <= counter'
    <2>1. ~job[t].batch.wipeStore /\ (k \in assigned \/ k \in auto)
      BY <1>5, <1>9
    <2>2. counter' = IF c > 0 THEN c ELSE counter
      BY <1>5, <2>1
    <2>3. k \in Keys
      BY <1>3, <2>1
    <2>4. CASE k \in auto
      BY <1>3, <1>6, <2>2, <2>4
    <2>5. CASE k \in assigned
      <3>1. k <= counter
        BY <1>1, <2>5
      <3> QED BY <1>3, <1>4, <2>2, <2>3, <3>1 DEF Keys
    <2> QED BY <2>1, <2>4, <2>5
  <1>10. ASSUME NEW u \in Threads, job'[u].pc = "write"
         PROVE  /\ OneKey(job'[u])
                /\ job'[u].batch.ctr > 0 => job'[u].locked /\ job'[u].batch.ctr > counter'
    <2>1. u # t
      BY <1>10 DEF Effect
    <2>2. job'[u] = job[u]
      BY <2>1 DEF Effect, Others
    <2>3. PICK d : d = job[u].batch.ctr
      OBVIOUS
    <2>4. d \in 0..MaxKey
      BY <2>3 DEF TypeInv, CallsOK, JobOK, BatchOK
    <2>5. OneKey(job[u]) /\ (d > 0 => job[u].locked /\ d > counter)
      BY <1>1, <1>10, <2>2, <2>3
    <2>6. ~(job[t].locked /\ job[u].locked)
      BY <2>1 DEF TypeInv, CallsOK
    <2>7. d > 0 => counter' = 0 \/ counter' = counter
      BY <1>4, <1>5, <2>5, <2>6
    <2>8. d > 0 => d > counter'
      BY <1>3, <2>4, <2>5, <2>7
    <2> QED BY <2>2, <2>3, <2>5, <2>8
  <1> QED
    BY <1>1, <1>5, <1>8, <1>9, <1>10

LEMMA EffectSchema ==
    ASSUME TypeInv, JsonInv, NEW t \in Threads, Effect(t)
    PROVE  SchemaInv'
  <1> SUFFICES ASSUME hazards' \cap CacheHazards = {}
               PROVE  /\ \A u, w \in Threads : job'[u].pc = "publish" /\ job'[w].pc = "publish" => u = w
                      /\ \A u \in Threads : job'[u].pc = "publish" => disk' = job'[u].batch.def
                      /\ (\A u \in Threads : job'[u].pc # "publish") => schema' = disk'
    BY DEF SchemaInv, CacheHazards
  <1>0. /\ hazards \cap CacheHazards = {} /\ ~Crosses(job[t]) /\ "ghost" \notin hazards'
    BY DEF Effect, CacheHazards
  <1>1. /\ \A u, w \in Threads : job[u].pc = "publish" /\ job[w].pc = "publish" => u = w
        /\ \A u \in Threads : job[u].pc = "publish" => disk = job[u].batch.def
        /\ (\A u \in Threads : job[u].pc # "publish") => schema = disk
    BY <1>0 DEF JsonInv, SchemaInv
  <1>2. /\ schema' = schema /\ job[t].pc = "write"
        /\ \A u \in Threads \ {t} : job'[u] = job[u]
        /\ disk' = IF job[t].batch.newDef THEN job[t].batch.def ELSE disk
    BY DEF Effect, Others, Apply
  <1>3. CASE job[t].batch.newDef
    <2>1. job'[t].pc = "publish" /\ job'[t].batch = job[t].batch
      BY <1>0, <1>3 DEF Effect
    <2>2. \A u \in Threads : job[u].pc # "publish"
      BY <1>0, <1>3 DEF Crosses
    <2> QED BY <1>2, <1>3, <2>1, <2>2
  <1>4. CASE ~job[t].batch.newDef
    <2>1. job'[t].pc = "idle"
      BY <1>4 DEF Effect
    <2> QED BY <1>1, <1>2, <1>4, <2>1
  <1> QED
    BY <1>3, <1>4

\* The entries of the indexes of def are those of the documents dd.
Agree(ents, def, dd) ==
    {e \in ents : e[1] \in Defined(def)} = UNION {Rows(def, k, dd[k]) : k \in Keys}

\* The same, entry by entry.
AgreeEach(ents, def, dd) ==
    \A i \in Defined(def), v \in Values, k \in Keys : <<i, v, k>> \in ents <=> dd[k] = v

LEMMA AgreesPointwise ==
    ASSUME NEW ents \in SUBSET IndexRows, NEW def, NEW dd
    PROVE  Agree(ents, def, dd) <=> AgreeEach(ents, def, dd)
  <1> DEFINE left == {e \in ents : e[1] \in Defined(def)}
             right == UNION {Rows(def, k, dd[k]) : k \in Keys}
  <1>1. \A i, v, k : <<i, v, k>> \in right <=>
                        i \in Defined(def) /\ k \in Keys /\ v \in Values /\ dd[k] = v
    <2> SUFFICES ASSUME NEW i, NEW v, NEW k
                 PROVE  <<i, v, k>> \in right <=>
                            i \in Defined(def) /\ k \in Keys /\ v \in Values /\ dd[k] = v
      OBVIOUS
    <2>1. <<i, v, k>> \in right <=> \E l \in Keys : <<i, v, k>> \in Rows(def, l, dd[l])
      BY Zenon
    <2>2. \A l \in Keys : <<i, v, k>> \in Rows(def, l, dd[l]) <=>
                            i \in Defined(def) /\ v = dd[l] /\ k = l /\ dd[l] \in Values
      BY RowsFacts
    <2> QED BY <2>1, <2>2
  <1>2. \A i, v, k : <<i, v, k>> \in left <=> i \in Defined(def) /\ <<i, v, k>> \in ents
    OBVIOUS
  <1>3. left \subseteq IndexRows /\ right \subseteq IndexRows
    <2>1. left \subseteq IndexRows
      OBVIOUS
    <2>2. \A k \in Keys : Rows(def, k, dd[k]) \subseteq IndexRows
      BY RowsFacts
    <2>3. right \subseteq IndexRows
      BY <2>2, Zenon
    <2> QED BY <2>1, <2>3
  <1> HIDE DEF left, right
  <1>4. \A e \in IndexRows : e = <<e[1], e[2], e[3]>> /\ e[2] \in Values /\ e[3] \in Keys
    BY DEF IndexRows
  <1>5. ASSUME left = right, NEW i \in Defined(def), NEW v \in Values, NEW k \in Keys
        PROVE  <<i, v, k>> \in ents <=> dd[k] = v
    BY <1>1, <1>2, <1>5
  <1>6. ASSUME \A i \in Defined(def), v \in Values, k \in Keys : <<i, v, k>> \in ents <=> dd[k] = v
        PROVE  left = right
    <2>1. \A i, v, k : <<i, v, k>> \in IndexRows =>
                (<<i, v, k>> \in left <=> <<i, v, k>> \in right)
      BY <1>1, <1>2, <1>6 DEF IndexRows
    <2>2. \A e \in IndexRows : e \in left <=> e \in right
      BY <1>4, <2>1
    <2> QED BY <1>3, <2>2
  <1> QED
    BY <1>5, <1>6 DEF left, right, Agree, AgreeEach

\* The same of the engine as it is, while the agreement holds.
LEMMA IndexInvPointwise ==
    ASSUME StoreOK, IndexInv, hazards \cap {"stale", "relic"} = {}, disk.exists
    PROVE  /\ ~rangeDeleted
           /\ \A i \in Defined(disk), v \in Values, k \in Keys :
                <<i, v, k>> \in entries <=> docs[k] = v
  <1>1. /\ ~rangeDeleted /\ entries \in SUBSET IndexRows
        /\ Agree(entries, disk, docs)
    BY DEF IndexInv, StoreOK, Agree
  <1>2. AgreeEach(entries, disk, docs)
    BY <1>1, AgreesPointwise
  <1> QED
    BY <1>1, <1>2 DEF AgreeEach

LEMMA EffectIndex ==
    ASSUME TypeInv, JsonInv, NEW t \in Threads, Effect(t), TypeInv'
    PROVE  IndexInv'
  <1> SUFFICES ASSUME hazards' \cap {"stale", "relic"} = {}, disk'.exists
               PROVE  ~rangeDeleted' /\ Agree(entries', disk', docs')
    BY DEF IndexInv, Agree, Defined, Rows, Keys
  <1>0. PICK j, b : j = job[t] /\ b = j.batch
    OBVIOUS
  <1>1. /\ hazards \cap {"stale", "relic"} = {} /\ ~Stale(job[t]) /\ ~MeetsRelics(job[t])
        /\ job[t].pc = "write"
    BY DEF Effect
  <1>2. /\ docs' = [k \in Keys |-> IF k \in DOMAIN b.doc THEN b.doc[k] ELSE docs[k]]
        /\ entries' = (entries \ b.del) \cup b.add
        /\ rangeDeleted' = (rangeDeleted \/ b.wipeStore)
        /\ disk' = IF b.newDef THEN b.def ELSE disk
    BY <1>0 DEF Effect, Apply
  <1>3. /\ StoreOK /\ IndexInv /\ entries' \in SUBSET IndexRows /\ entries \subseteq IndexRows
        /\ disk \in StoreDefs /\ disk' \in StoreDefs /\ docs \in [Keys -> Docs \cup {None}]
    BY DEF TypeInv, StoreOK, JsonInv, IndexRows, Keys, StoreDefs
  <1>f. Fresh(j, b)
    BY <1>0, <1>1, FreshBatch
  <1>4. /\ j.op = "write" => FreshWrite(j, b)
        /\ j.op # "write" => b.doc = <<>> /\ b.del = {} /\ b.newDef
        /\ j.op \notin {"write", "createIndex"} => b.add = {}
    BY <1>f DEF Fresh
  <1>5. /\ j.op = "createIndex" =>
                /\ disk.exists /\ disk.ix[j.i] = "none" /\ ~b.wipeStore
                /\ j.i \in Indexes /\ j.kind \in {"plain", "unique"}
                /\ OneIndexSet(disk, b.def, j.i, j.kind)
                /\ b.add = {<<j.i, docs[k], k>> : k \in {x \in ScannedDocs : docs[x] \in Values}}
        /\ j.op = "dropIndex" =>
                /\ disk.exists /\ ~b.wipeStore /\ j.i \in Indexes
                /\ OneIndexSet(disk, b.def, j.i, "none")
        /\ j.op = "dropStore" => b.def = NoStore
        /\ j.op = "createStore" => ~b.wipeStore /\ b.def = NewStore
        /\ j.op = "setAuto" => disk.exists /\ ~b.wipeStore /\ b.def.ix = disk.ix
    BY <1>f DEF Fresh
  <1>6. j.op \in {"createIndex", "dropIndex", "dropStore", "createStore", "setAuto", "write"}
    BY <1>f DEF Fresh, SchemaOps
  <1>7. disk.exists =>
            /\ ~rangeDeleted
            /\ \A i \in Defined(disk), v \in Values, k \in Keys :
                <<i, v, k>> \in entries <=> docs[k] = v
    BY <1>1, <1>3, IndexInvPointwise
  <1> SUFFICES /\ ~rangeDeleted'
               /\ \A i \in Defined(disk'), v \in Values, k \in Keys :
                    <<i, v, k>> \in entries' <=> docs'[k] = v
    BY <1>3, AgreesPointwise DEF AgreeEach
  <1>8. CASE j.op = "write"
    <2>1. /\ disk' = disk /\ ~rangeDeleted'
          /\ \A k \in Keys : docs'[k] = IF k \in DOMAIN j.writes THEN j.writes[k] ELSE docs[k]
      BY <1>2, <1>4, <1>7, <1>8 DEF FreshWrite
    <2>2. ASSUME NEW i \in Defined(disk), NEW v \in Values, NEW k \in Keys
          PROVE  <<i, v, k>> \in entries' <=> docs'[k] = v
      <3>1. /\ <<i, v, k>> \in b.del <=> k \in DOMAIN j.writes /\ docs[k] = v
            /\ <<i, v, k>> \in b.add <=> k \in DOMAIN j.writes /\ j.writes[k] = v
        BY <1>4, <1>8 DEF FreshWrite
      <3>3. <<i, v, k>> \in entries <=> docs[k] = v
        BY <1>4, <1>7, <1>8 DEF FreshWrite
      <3> QED BY <1>2, <2>1, <3>1, <3>3
    <2> QED BY <2>1, <2>2
  <1>a. ASSUME j.op # "write"
        PROVE  disk' = b.def /\ entries' = entries \cup b.add /\ \A k \in Keys : docs'[k] = docs[k]
    BY <1>2, <1>4, <1>a
  <1>9. CASE j.op = "createIndex"
    <2>1. ~rangeDeleted' /\ ~rangeDeleted
      BY <1>2, <1>5, <1>7, <1>9
    <2>2. ASSUME NEW i \in Defined(disk'), NEW v \in Values, NEW k \in Keys
          PROVE  <<i, v, k>> \in entries' <=> docs'[k] = v
      <3>1. <<i, v, k>> \in b.add <=> i = j.i /\ docs[k] = v
        <4>1. ScannedDocs = {x \in Keys : docs[x] # None}
          BY <2>1 DEF ScannedDocs
        <4> QED BY <1>5, <1>9, <4>1, MarksDiffer
      <3>2. CASE i = j.i
        <4>1. <<i, v, k>> \notin entries
          BY <1>0, <1>1, <1>9, <3>2 DEF MeetsRelics
        <4> QED BY <1>9, <1>a, <3>1, <3>2, <4>1
      <3>3. CASE i # j.i
        <4>1. i \in Defined(disk)
          BY <1>5, <1>9, <1>a, <3>3 DEF OneIndexSet, Defined
        <4> QED BY <1>5, <1>7, <1>9, <1>a, <3>1, <3>3, <4>1
      <3> QED BY <3>2, <3>3
    <2> QED BY <2>1, <2>2
  <1>10. CASE j.op = "dropIndex"
    <2>1. ~rangeDeleted'
      BY <1>2, <1>5, <1>7, <1>10
    <2>2. Defined(disk') \subseteq Defined(disk)
      BY <1>5, <1>10, <1>a DEF OneIndexSet, Defined
    <2> QED BY <1>4, <1>5, <1>7, <1>10, <1>a, <2>1, <2>2
  <1>11. CASE j.op = "dropStore"
    BY <1>5, <1>11, <1>a, StoreDefFacts
  <1>12. CASE j.op = "createStore"
    <2>1. ~rangeDeleted'
      BY <1>0, <1>1, <1>2, <1>5, <1>12 DEF MeetsRelics
    <2>2. Defined(disk') = {}
      BY <1>5, <1>12, <1>a, StoreDefFacts DEF Defined
    <2> QED BY <2>1, <2>2
  <1>13. CASE j.op = "setAuto"
    <2>1. ~rangeDeleted'
      BY <1>2, <1>5, <1>7, <1>13
    <2>2. Defined(disk') = Defined(disk)
      BY <1>5, <1>13, <1>a DEF Defined
    <2> QED BY <1>4, <1>5, <1>7, <1>13, <1>a, <2>1, <2>2
  <1> QED
    BY <1>6, <1>8, <1>9, <1>10, <1>11, <1>12, <1>13

\* A fresh write to a unique index meets no other document with its value: such a
\* document would have an entry, and the unique check looks at the entries.
LEMMA EffectUnique ==
    ASSUME TypeInv, JsonInv, NEW t \in Threads, Effect(t)
    PROVE  UniqueHolds'
  <1> SUFFICES ASSUME hazards' \cap {"stale", "relic", "dup"} = {},
                      NEW i \in Indexes, disk'.ix[i] = "unique",
                      NEW k \in Keys, NEW l \in Keys,
                      docs'[k] \in Values, docs'[k] = docs'[l], k # l
               PROVE  FALSE
    BY DEF UniqueHolds, Keys
  <1>0. PICK j, b : j = job[t] /\ b = j.batch
    OBVIOUS
  <1>1. /\ hazards \cap {"stale", "relic", "dup"} = {} /\ ~Stale(job[t])
        /\ job[t].pc = "write"
    BY DEF Effect
  <1>2. /\ docs' = [x \in Keys |-> IF x \in DOMAIN b.doc THEN b.doc[x] ELSE docs[x]]
        /\ disk' = IF b.newDef THEN b.def ELSE disk
    BY <1>0 DEF Effect, Apply
  <1>3. StoreOK /\ IndexInv /\ disk \in StoreDefs
    BY DEF TypeInv, StoreOK, JsonInv
  <1>4. disk.ix[i] = "unique" => ~(docs[k] \in Values /\ docs[k] = docs[l])
    BY <1>1 DEF JsonInv, UniqueHolds
  <1>f. Fresh(j, b)
    BY <1>0, <1>1, FreshBatch
  <1>5. /\ j.op = "write" => FreshWrite(j, b)
        /\ j.op # "write" => b.doc = <<>> /\ b.del = {} /\ b.newDef
        /\ j.op \notin {"write", "createIndex"} => b.add = {}
    BY <1>f DEF Fresh
  <1>6. /\ j.op = "createIndex" =>
                /\ disk.exists /\ disk.ix[j.i] = "none" /\ ~b.wipeStore
                /\ j.i \in Indexes /\ j.kind \in {"plain", "unique"}
                /\ OneIndexSet(disk, b.def, j.i, j.kind)
                /\ b.add = {<<j.i, docs[x], x>> : x \in {y \in ScannedDocs : docs[y] \in Values}}
        /\ j.op = "dropIndex" =>
                /\ disk.exists /\ ~b.wipeStore /\ j.i \in Indexes
                /\ OneIndexSet(disk, b.def, j.i, "none")
        /\ j.op = "dropStore" => b.def = NoStore
        /\ j.op = "createStore" => ~b.wipeStore /\ b.def = NewStore
        /\ j.op = "setAuto" => disk.exists /\ ~b.wipeStore /\ b.def.ix = disk.ix
    BY <1>f DEF Fresh
  <1>7. j.op \in {"createIndex", "dropIndex", "dropStore", "createStore", "setAuto", "write"}
    BY <1>f DEF Fresh, SchemaOps
  <1>8. disk.exists =>
            /\ ~rangeDeleted
            /\ \A n \in Defined(disk), v \in Values, x \in Keys :
                <<n, v, x>> \in entries <=> docs[x] = v
    <2>1. hazards \cap {"stale", "relic"} = {}
      BY <1>1
    <2> QED BY <1>3, <2>1, IndexInvPointwise
  <1>9. CASE j.op = "write"
    <2>1. /\ disk.ix[i] = "unique" /\ disk.exists /\ ~Conflict(disk, j.writes)
          /\ \A x \in Keys : docs'[x] = IF x \in DOMAIN j.writes THEN j.writes[x] ELSE docs[x]
      BY <1>2, <1>5, <1>9 DEF FreshWrite
    <2>2. i \in Defined(disk)
      BY <2>1 DEF Defined
    <2>3. ASSUME NEW x \in Keys, NEW y \in Keys, x # y, x \in DOMAIN j.writes,
                 j.writes[x] \in Values, docs'[y] = j.writes[x]
          PROVE  FALSE
      <3>1. CASE y \in DOMAIN j.writes
        <4>1. j.writes[y] = j.writes[x]
          BY <2>1, <2>3, <3>1
        <4> QED BY <2>1, <2>3, <3>1, <4>1 DEF Conflict
      <3>2. CASE y \notin DOMAIN j.writes
        <4>1. docs[y] = j.writes[x]
          BY <2>1, <2>3, <3>2
        <4>2. <<i, j.writes[x], y>> \in entries
          BY <1>8, <2>1, <2>2, <2>3, <4>1
        <4> QED BY <2>1, <2>3, <4>2 DEF Conflict
      <3> QED BY <3>1, <3>2
    <2>4. CASE k \in DOMAIN j.writes
      BY <2>1, <2>3, <2>4
    <2>5. CASE k \notin DOMAIN j.writes /\ l \in DOMAIN j.writes
      BY <2>1, <2>3, <2>5
    <2>6. CASE k \notin DOMAIN j.writes /\ l \notin DOMAIN j.writes
      BY <1>4, <2>1, <2>6
    <2> QED BY <2>4, <2>5, <2>6
  <1>a. ASSUME j.op # "write"
        PROVE  disk' = b.def /\ docs'[k] = docs[k] /\ docs'[l] = docs[l]
    BY <1>2, <1>5, <1>a
  <1>10. CASE j.op = "createIndex"
    <2>1. CASE i = j.i
      <3>1. j.kind = "unique"
        BY <1>6, <1>10, <1>a, <2>1 DEF OneIndexSet
      <3>2. Injective(b.add)
        BY <1>0, <1>1, <1>10, <3>1 DEF JsonInv, BackfillInv
      <3>3. ScannedDocs = {x \in Keys : docs[x] # None}
        BY <1>6, <1>8, <1>10 DEF ScannedDocs
      <3>4. <<j.i, docs[k], k>> \in b.add /\ <<j.i, docs[l], l>> \in b.add
        BY <1>6, <1>10, <1>a, <3>3, MarksDiffer
      <3> QED BY <1>10, <1>a, <3>2, <3>4 DEF Injective
    <2>2. CASE i # j.i
      <3>1. disk.ix[i] = "unique"
        BY <1>6, <1>10, <1>a, <2>2 DEF OneIndexSet
      <3> QED BY <1>4, <1>10, <1>a, <3>1
    <2> QED BY <2>1, <2>2
  <1>11. CASE j.op = "dropIndex"
    <2>1. disk.ix[i] = "unique"
      BY <1>6, <1>11, <1>a DEF OneIndexSet
    <2> QED BY <1>4, <1>11, <1>a, <2>1
  <1>12. CASE j.op = "dropStore" \/ j.op = "createStore"
    BY <1>6, <1>12, <1>a, StoreDefFacts
  <1>13. CASE j.op = "setAuto"
    BY <1>4, <1>6, <1>13, <1>a
  <1> QED
    BY <1>7, <1>9, <1>10, <1>11, <1>12, <1>13

\* An unlocked write marks every other writer, and a locked one is alone.
LEMMA EffectKeeps ==
    ASSUME TypeInv, JsonInv, NEW t \in Threads, Effect(t)
    PROVE  JsonInv'
  <1>0. TypeInv'
    BY EffectTypes
  <1>1. /\ \A u \in Threads \ {t} : job'[u] = job[u]
        /\ job'[t].pc # "write" /\ hazards \subseteq hazards'
    BY DEF Effect, Others
  <1>2. BackfillInv'
    <2> SUFFICES ASSUME "dup" \notin hazards', NEW u \in Threads,
                        job'[u].pc = "write", job'[u].op = "createIndex", job'[u].kind = "unique"
                 PROVE  Injective(job'[u].batch.add)
      BY DEF BackfillInv, Injective
    <2> QED BY <1>1 DEF JsonInv, BackfillInv
  <1>3. LockedWritesAreFresh'
    <2> SUFFICES ASSUME NEW u \in Threads, job'[u].pc = "write", job'[u].locked, u \notin raced'
                 PROVE  FALSE
      BY DEF LockedWritesAreFresh
    <2>1. u # t /\ job'[u] = job[u]
      BY <1>1
    <2>2. u \in Writers
      BY <2>1 DEF Writers
    <2>3. job[t].locked
      BY <2>1, <2>2 DEF Effect
    <2> QED BY <2>1, <2>3 DEF TypeInv, CallsOK
  <1> QED
    BY <1>0, <1>2, <1>3, EffectAuto, EffectSchema, EffectIndex, EffectUnique DEF JsonInv

-----------------------------------------------------------------------------
(* The invariant and what follows from it *)

LEMMA PublishKeeps ==
    ASSUME TypeInv, JsonInv, NEW t \in Threads, Publish(t)
    PROVE  JsonInv'
  <1>1. /\ \A u \in Threads \ {t} : job'[u] = job[u]
        /\ job'[t].pc \in {"idle", "auto"} /\ job[t].pc = "publish"
        /\ schema' = job[t].batch.def /\ raced' = raced \cup Writers
        /\ UNCHANGED <<engine, lock, tx, calls, restarts, hazards, assigned, reissued>>
    BY PublishFacts DEF Others
  <1>2. /\ docs' = docs /\ entries' = entries /\ rangeDeleted' = rangeDeleted
        /\ counter' = counter /\ disk' = disk
    BY <1>1 DEF engine
  <1>3. AutoInv'
    <2> SUFFICES ASSUME "txauto" \notin hazards'
                 PROVE  /\ ~reissued' /\ \A k \in assigned' : k <= counter'
                        /\ \A u \in Threads : /\ tx'[u].auto = {} /\ tx'[u].ctr = 0
                                              /\ job'[u].pc = "write" =>
                                                    /\ OneKey(job'[u])
                                                    /\ job'[u].batch.ctr > 0 =>
                                                        /\ job'[u].locked
                                                        /\ job'[u].batch.ctr > counter'
      BY DEF AutoInv, OneKey
    <2> QED BY <1>1, <1>2 DEF JsonInv, AutoInv
  <1>4. SchemaInv'
    <2> SUFFICES ASSUME hazards' \cap CacheHazards = {}
                 PROVE  /\ \A u \in Threads : job'[u].pc # "publish"
                        /\ schema' = disk'
      BY DEF SchemaInv, CacheHazards
    <2>1. /\ \A u, w \in Threads : job[u].pc = "publish" /\ job[w].pc = "publish" => u = w
          /\ \A u \in Threads : job[u].pc = "publish" => disk = job[u].batch.def
      BY <1>1 DEF JsonInv, SchemaInv
    <2> QED BY <1>1, <1>2, <2>1
  <1>5. IndexInv'
    BY <1>1, <1>2 DEF JsonInv, IndexInv, Rows, Defined, Keys
  <1>6. BackfillInv'
    <2> SUFFICES ASSUME "dup" \notin hazards', NEW u \in Threads,
                        job'[u].pc = "write", job'[u].op = "createIndex", job'[u].kind = "unique"
                 PROVE  Injective(job'[u].batch.add)
      BY DEF BackfillInv, Injective
    <2> QED BY <1>1 DEF JsonInv, BackfillInv
  <1>7. UniqueHolds'
    BY <1>1, <1>2 DEF JsonInv, UniqueHolds, Keys
  <1>8. LockedWritesAreFresh'
    <2> SUFFICES ASSUME NEW u \in Threads, job'[u].pc = "write", u \notin raced'
                 PROVE  FALSE
      BY DEF LockedWritesAreFresh
    <2> QED BY <1>1 DEF Writers
  <1> QED
    BY <1>3, <1>4, <1>5, <1>6, <1>7, <1>8 DEF JsonInv

\* No call is in progress and no transaction is open, at the start and after a
\* restart.
LEMMA InitJson == Init => JsonInv
  <1> SUFFICES ASSUME Init PROVE JsonInv
    OBVIOUS
  <1>0. /\ \A t \in Threads : job[t] = IdleJob /\ tx[t] = ClosedTx
        /\ docs = [k \in Keys |-> None] /\ entries = {} /\ rangeDeleted = FALSE
        /\ schema = disk /\ assigned = {} /\ reissued = FALSE
    BY DEF Init
  <1>1. \A t \in Threads : job[t].pc = "idle" /\ tx[t].auto = {} /\ tx[t].ctr = 0
    BY <1>0, IdleJobFacts, ClosedTxFacts
  <1>2. AutoInv /\ SchemaInv /\ BackfillInv /\ LockedWritesAreFresh
    BY <1>0, <1>1 DEF AutoInv, SchemaInv, BackfillInv, LockedWritesAreFresh
  <1>3. IndexInv
    <2>1. \A k \in Keys : Rows(disk, k, docs[k]) = {}
      BY <1>0, MarksDiffer DEF Rows
    <2>2. UNION {Rows(disk, k, docs[k]) : k \in Keys} = {}
      BY <2>1
    <2> QED BY <1>0, <2>2 DEF IndexInv
  <1>4. UniqueHolds
    BY <1>0, MarksDiffer DEF UniqueHolds
  <1> QED
    BY <1>2, <1>3, <1>4 DEF JsonInv

LEMMA RestartKeeps ==
    ASSUME TypeInv, JsonInv, Restart
    PROVE  JsonInv'
  <1>1. /\ \A t \in Threads : job'[t] = IdleJob /\ tx'[t] = ClosedTx
        /\ docs' = docs /\ entries' = entries /\ rangeDeleted' = rangeDeleted /\ disk' = disk
        /\ counter' = counter /\ schema' = disk
        /\ UNCHANGED <<hazards, assigned, reissued>>
    BY DEF Restart, engine
  <1>2. \A t \in Threads : job'[t].pc = "idle" /\ tx'[t].auto = {} /\ tx'[t].ctr = 0
    BY <1>1, IdleJobFacts, ClosedTxFacts
  <1>3. AutoInv'
    BY <1>1, <1>2 DEF JsonInv, AutoInv
  <1>4. SchemaInv' /\ BackfillInv' /\ LockedWritesAreFresh'
    BY <1>1, <1>2 DEF SchemaInv, BackfillInv, LockedWritesAreFresh
  <1>5. IndexInv'
    BY <1>1 DEF JsonInv, IndexInv, Rows, Defined, Keys
  <1>6. UniqueHolds'
    BY <1>1 DEF JsonInv, UniqueHolds, Keys
  <1> QED
    BY <1>3, <1>4, <1>5, <1>6 DEF JsonInv

LEMMA NextJson == TypeInv /\ JsonInv /\ [Next]_vars => JsonInv'
  <1> SUFFICES ASSUME TypeInv, JsonInv, [Next]_vars PROVE JsonInv'
    OBVIOUS
  <1>1. ASSUME NEW t \in Threads, DirectCall(t) \/ SchemaCall(t) \/ Transact(t) \/ WriteFails(t)
        PROVE  JsonInv'
    <2>1. \E j, x : Quiet(t, j, x)
      BY <1>1, DirectCallIsQuiet, SchemaCallIsQuiet, TransactIsQuiet, WriteFailsIsQuiet
    <2> QED BY <2>1, QuietKeeps
  <1>2. ASSUME NEW t \in Threads, Write(t) \/ WriteErrsLate(t)
        PROVE  JsonInv'
    BY <1>2, WriteIsEffect, EffectKeeps
  <1>3. ASSUME NEW t \in Threads, Publish(t)
        PROVE  JsonInv'
    BY <1>3, PublishKeeps
  <1>4. CASE Restart
    BY <1>4, RestartKeeps
  <1>5. CASE UNCHANGED vars
    <2>0. /\ docs' = docs /\ entries' = entries /\ rangeDeleted' = rangeDeleted /\ disk' = disk
          /\ counter' = counter /\ schema' = schema /\ job' = job /\ tx' = tx
          /\ hazards' = hazards /\ raced' = raced /\ assigned' = assigned /\ reissued' = reissued
      BY <1>5 DEF vars
    <2>1. AutoInv' /\ SchemaInv' /\ BackfillInv'
      BY <2>0 DEF JsonInv, AutoInv, SchemaInv, BackfillInv, OneKey, Injective
    <2>2. IndexInv' /\ UniqueHolds'
      BY <2>0 DEF JsonInv, IndexInv, UniqueHolds, Rows, Defined, Keys
    <2>3. LockedWritesAreFresh'
      <3>1. UNCHANGED engine
        BY <2>0 DEF engine
      <3>2. \A u \in Threads : Stale(job[u])' <=> Stale(job[u])
        BY <2>0, <3>1, SameStale
      <3> QED BY <2>0, <3>2 DEF JsonInv, LockedWritesAreFresh
    <2> QED BY <2>1, <2>2, <2>3 DEF JsonInv
  <1> QED
    BY <1>1, <1>2, <1>3, <1>4, <1>5 DEF Next, Finish

\* The invariant the properties of the document layer follow from.
THEOREM JsonInvariant == Spec => [](TypeInv /\ JsonInv)
  <1>1. Init => TypeInv /\ JsonInv
    BY InitTypes, InitJson
  <1>2. TypeInv /\ JsonInv /\ [Next]_vars => (TypeInv /\ JsonInv)'
    BY NextTypes, NextJson
  <1> QED
    BY <1>1, <1>2, PTL DEF Spec

\* put_auto under write_lock never commits a generated key twice, whatever the
\* other calls, failures and restarts do, as long as no transaction generates
\* keys.
THEOREM GeneratedKeysAreFresh == Spec => []AutoKeysFresh
  <1>1. JsonInv => AutoKeysFresh
    BY DEF JsonInv, AutoInv, AutoKeysFresh
  <1> QED
    BY <1>1, JsonInvariant, PTL

\* With no schema operation between its write and the update of the cache, the
\* cached schema is the one from_engine would load, unless two schema operations
\* have overlapped or one has failed after its write.
THEOREM CacheIsPersisted == Spec => []RestartKeepsSchema
  <1>1. JsonInv => RestartKeepsSchema
    BY DEF JsonInv, SchemaInv, RestartKeepsSchema
  <1> QED
    BY <1>1, JsonInvariant, PTL

\* The entries of every index are exactly those of the documents, as long as no
\* stale batch was applied and no deleted name was used again.
THEOREM EntriesFollowDocuments == Spec => []IndexesAgree
  <1>1. JsonInv => IndexesAgree
    BY DEF JsonInv, IndexInv, IndexesAgree
  <1> QED
    BY <1>1, JsonInvariant, PTL

\* A unique index holds no value twice, under the same condition and unless it
\* was built over duplicates.
THEOREM UniqueStaysUnique == Spec => []UniqueHolds
  <1>1. JsonInv => UniqueHolds
    BY DEF JsonInv
  <1> QED
    BY <1>1, JsonInvariant, PTL

\* The batch of a direct call under write_lock is still right when it is
\* applied, unless an unlocked write has come in between.
THEOREM LockKeepsFresh == Spec => []LockedWritesAreFresh
  <1>1. JsonInv => LockedWritesAreFresh
    BY DEF JsonInv
  <1> QED
    BY <1>1, JsonInvariant, PTL

LEMMA ViewIsRead ==
    ASSUME TypeInv, JsonInv, NEW t \in Threads, disk.exists,
           hazards \cap (CacheHazards \cup {"relic"}) = {}
    PROVE  /\ TxScan(t) = {<<k, View(t)[k]>> : k \in {x \in Keys : View(t)[x] # None}}
           /\ \A i \in Defined(schema) \cap Defined(disk), v \in Values :
                TxGetByIndex(t, i, v) = {<<k, v>> : k \in {x \in Keys : View(t)[x] = v}}
  <1>0. PICK buffered, writes : buffered = Buffered(t) /\ writes = tx[t].writes
    OBVIOUS
  <1>1. buffered \subseteq Keys
    BY <1>0 DEF Buffered
  <1>2. /\ ~rangeDeleted /\ entries \subseteq IndexRows
        /\ \A i \in Defined(disk), v \in Values, k \in Keys :
            <<i, v, k>> \in entries <=> docs[k] = v
    <2>1. StoreOK /\ IndexInv /\ hazards \cap {"stale", "relic"} = {}
      BY DEF TypeInv, JsonInv, CacheHazards
    <2> QED BY <2>1, IndexInvPointwise DEF StoreOK
  <1>3. \A k \in Keys : View(t)[k] = IF k \in buffered THEN writes[k] ELSE docs[k]
    BY <1>0 DEF View
  <1>4. TxScan(t) = {<<k, View(t)[k]>> : k \in {x \in Keys : View(t)[x] # None}}
    <2>1. ScannedDocs = {k \in Keys : docs[k] # None}
      BY <1>2 DEF ScannedDocs
    <2>2. TxScan(t) =
            {<<k, docs[k]>> : k \in {x \in Keys : docs[x] # None} \ buffered}
            \cup {<<k, writes[k]>> : k \in {x \in Keys : docs[x] # None}
                                            \cap {x \in buffered : writes[x] # None}}
            \cup {<<k, writes[k]>> : k \in {x \in buffered : writes[x] # None}
                                            \ {x \in Keys : docs[x] # None}}
      BY <1>0, <2>1 DEF TxScan
    <2> QED BY <1>1, <1>3, <2>2
  <1>5. ASSUME NEW i \in Defined(schema) \cap Defined(disk), NEW v \in Values
        PROVE  TxGetByIndex(t, i, v) = {<<k, v>> : k \in {x \in Keys : View(t)[x] = v}}
    <2>1. {e[3] : e \in {x \in entries : x[1] = i /\ x[2] = v}} = {k \in Keys : docs[k] = v}
      <3>1. \A e \in entries : e = <<e[1], e[2], e[3]>> /\ e[3] \in Keys
        BY <1>2 DEF IndexRows
      <3>2. ASSUME NEW e \in entries, e[1] = i, e[2] = v
            PROVE  e[3] \in Keys /\ docs[e[3]] = v
        <4>1. e[3] \in Keys /\ <<i, v, e[3]>> \in entries
          BY <3>1, <3>2
        <4> QED BY <1>2, <1>5, <4>1
      <3>3. ASSUME NEW k \in Keys, docs[k] = v
            PROVE  \E e \in {x \in entries : x[1] = i /\ x[2] = v} : e[3] = k
        <4>1. <<i, v, k>> \in entries
          BY <1>2, <1>5, <3>3
        <4> QED BY <4>1
      <3> QED BY <3>2, <3>3
    <2>2. TxGetByIndex(t, i, v) =
            {<<k, v>> : k \in {x \in {y \in Keys : docs[y] = v} \cap buffered : writes[x] = v}}
            \cup {<<k, docs[k]>> : k \in {x \in {y \in Keys : docs[y] = v} \ buffered :
                                            docs[x] # None}}
            \cup {<<k, writes[k]>> : k \in {x \in buffered : writes[x] = v}}
      BY <1>0, <2>1 DEF TxGetByIndex, BufferedMatches
    <2>3. v # None
      BY MarksDiffer
    <2> QED BY <1>1, <1>3, <2>2, <2>3
  <1> QED
    BY <1>4, <1>5

\* Transaction::scan and get_by_index return exactly what the buffered writes
\* laid over the engine hold, while the indexes agree with the documents.
THEOREM TransactionsReadTheirWrites == Spec => []ReadYourWrites
  <1>1. TypeInv /\ JsonInv => ReadYourWrites
    BY ViewIsRead DEF ReadYourWrites
  <1> QED
    BY <1>1, JsonInvariant, PTL
=============================================================================
