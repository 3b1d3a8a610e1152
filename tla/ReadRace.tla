------------------------------- MODULE ReadRace -------------------------------
(***************************************************************************)
(* Engine::get_sync and ScanIterator::build racing flush, compaction and GC *)
(* of SstLifecycle, with what they share beside the block index: the map of *)
(* open SstReaders and the block cache, both keyed by SST id               *)
(* (src/src/engine.rs, sstable.rs, cache.rs).                              *)
(*                                                                         *)
(* As in SstLifecycle a record is the number of its flush, and it leaves    *)
(* the memtables when the flush begins.  An SST has one block.  A reader    *)
(* that is open keeps reading the file it has mapped, unlinked or not.     *)
(***************************************************************************)
EXTENDS SstLifecycle, FiniteSetsExt

CONSTANTS Gets,      \* threads that may call get_sync or get_bytes
          Scans,     \* threads that may run ScanIterator::build
          MaxReads   \* bound: calls of all threads

ASSUME ReadAssumption == MaxReads \in Nat

VARIABLES
    readers,   \* Engine::readers: [SST id -> records of the open file]
    cache,     \* BlockCache: [SST id -> records of the block]
    rd,        \* [Gets -> get in progress]
    sc,        \* [Scans -> scan in progress]
    evicting,  \* evict_stale_readers between its two locks: ids of the manifest
    reads,     \* calls begun
    dirty      \* an id was handed out while a reader or block of it was around

readVars == <<readers, cache, rd, sc, evicting, reads, dirty>>
allVars == <<vars, readVars>>

\* A get: the record it looks for, the SSTs still to ask, the reader it has got,
\* whether it holds the index lock and what it came to; gap: the record could not
\* be found when the get began or looked at the frozen memtables, alone: the index
\* had one SST, unlinked: a file was gone.
IdleGet == [pc |-> "idle", rec |-> 0, todo |-> {}, file |-> {}, locked |-> FALSE,
            found |-> FALSE, gap |-> FALSE, alone |-> FALSE, unlinked |-> FALSE]

\* A scan over all records: whether it is a full scan, the blocks still to read
\* (with what the index says of them), its snapshot of the reader map, the block
\* at hand, what it has seen, the records that it has seen or that could be found
\* both when it began and when it looked at the frozen memtables, and the ones in
\* blocks it had to skip.
IdleScan == [pc |-> "idle", full |-> FALSE, todo |-> <<>>, opened |-> <<>>, cur |-> 0,
             file |-> {}, seen |-> {}, must |-> {}, skipped |-> {}]

ReadInit ==
    /\ Init
    /\ readers = <<>> /\ cache = <<>>
    /\ rd = [t \in Gets |-> IdleGet]
    /\ sc = [t \in Scans |-> IdleScan]
    /\ evicting = [on |-> FALSE, ids |-> {}]
    /\ reads = 0
    /\ dirty = FALSE

InMemtables == Records \ 1..flushes

\* What a reader can find: in the memtables or through the index.
Findable == InMemtables \cup UNION {index[i] : i \in DOMAIN index}

-----------------------------------------------------------------------------
(* Engine::get_sync *)

SetGet(t, new) == rd' = [rd EXCEPT ![t] = new]

\* memtables.get looks at the active memtable, where a record that has not been
\* flushed is unless it is frozen ...
GetActive(t, r, hit) ==
    /\ rd[t].pc = "idle"
    /\ reads < MaxReads
    /\ hit => r \in InMemtables
    /\ reads' = reads + 1
    /\ SetGet(t, [IdleGet EXCEPT !.rec = r, !.found = hit, !.gap = r \notin Findable,
                  !.pc = IF hit THEN "done" ELSE "frozen"])
    /\ UNCHANGED <<readers, cache, sc, evicting, dirty, vars>>

\* ... then, under a lock of their own, at the frozen ones; found there, the SSTs
\* are not asked.
GetFrozen(t) ==
    LET r == rd[t].rec IN
    /\ rd[t].pc = "frozen"
    /\ SetGet(t, [rd[t] EXCEPT !.found = r \in InMemtables, !.gap = @ \/ r \notin Findable,
                  !.pc = IF r \in InMemtables THEN "done" ELSE "index"])
    /\ UNCHANGED <<readers, cache, sc, evicting, reads, dirty, vars>>

\* Mutant: the lock is dropped before the blocks are searched.
KeepsIndexLockNever == FALSE

\* single_sst_point answers only for an index of one SST, and get_sync then drops
\* the lock before it opens the block; query_point_inline keeps it.
KeepsIndexLock == Cardinality(DOMAIN index) # 1

\* The index names the SSTs whose block may hold the key, the ones that hold it
\* among them.
GetIndex(t) ==
    /\ rd[t].pc = "index"
    /\ \E todo \in SUBSET DOMAIN index :
        LET holding == {i \in DOMAIN index : rd[t].rec \in index[i]} IN
        /\ holding \subseteq todo
        /\ SetGet(t, [rd[t] EXCEPT !.todo = todo,
                      !.alone = (Cardinality(DOMAIN index) = 1),
                      !.locked = KeepsIndexLock /\ todo # {},
                      !.pc = IF todo = {} THEN "done" ELSE "open"])
    /\ UNCHANGED <<readers, cache, sc, evicting, reads, dirty, vars>>

Current(t) == Min(rd[t].todo)

\* Mutant: the lock is kept after the last SST.
AfterMissHolds(get) ==
    LET left == get.todo \ {Min(get.todo)}
    IN [get EXCEPT !.todo = left, !.pc = IF left = {} THEN "done" ELSE "open"]

\* The SST does not have the record: the next one, in the order of ids.
AfterMiss(get) ==
    LET left == get.todo \ {Min(get.todo)}
    IN [get EXCEPT !.todo = left, !.pc = IF left = {} THEN "done" ELSE "open",
                   !.locked = get.locked /\ left # {}]

\* find_in_records in the block.
AfterLook(get, block) ==
    IF get.rec \in block \ expired
    THEN [get EXCEPT !.pc = "done", !.found = TRUE, !.locked = FALSE]
    ELSE AfterMiss(get)

\* get_reader: the open reader, or the file; without a file the block is given
\* up (block_search returns None).
GetOpen(t) ==
    LET id == Current(t) IN
    /\ rd[t].pc = "open"
    /\ SetGet(t,
        IF id \in DOMAIN readers
        THEN [rd[t] EXCEPT !.pc = "block", !.file = readers[id]]
        ELSE IF id \in DOMAIN files
        THEN [rd[t] EXCEPT !.pc = "insert", !.file = files[id]]
        ELSE AfterMiss([rd[t] EXCEPT !.unlinked = TRUE]))
    /\ UNCHANGED <<readers, cache, sc, evicting, reads, dirty, vars>>

\* get_reader puts the reader into the map, under a lock of its own.
GetInsert(t) ==
    /\ rd[t].pc = "insert"
    /\ readers' = Put(readers, Current(t), rd[t].file)
    /\ SetGet(t, [rd[t] EXCEPT !.pc = "block"])
    /\ UNCHANGED <<cache, sc, evicting, reads, dirty, vars>>

\* read_block_cached; on a miss read_block_decompress.
GetBlock(t) ==
    LET id == Current(t) IN
    /\ rd[t].pc = "block"
    /\ SetGet(t, IF id \in DOMAIN cache THEN AfterLook(rd[t], cache[id])
                 ELSE [rd[t] EXCEPT !.pc = "fill"])
    /\ UNCHANGED <<readers, cache, sc, evicting, reads, dirty, vars>>

\* cache.insert of the block that was read.
GetFill(t) ==
    /\ rd[t].pc = "fill"
    /\ cache' = Put(cache, Current(t), rd[t].file)
    /\ SetGet(t, AfterLook(rd[t], rd[t].file))
    /\ UNCHANGED <<readers, sc, evicting, reads, dirty, vars>>

\* A get that is over makes room for the next call.
GetReturns(t) ==
    /\ rd[t].pc = "done"
    /\ SetGet(t, IdleGet)
    /\ UNCHANGED <<readers, cache, sc, evicting, reads, dirty, vars>>

-----------------------------------------------------------------------------
(* ScanIterator::build *)

SetScan(t, new) == sc' = [sc EXCEPT ![t] = new]

\* The active memtable, with what was written after record n, ...
ScanActive(t, full, n) ==
    /\ sc[t].pc = "idle"
    /\ reads < MaxReads
    /\ reads' = reads + 1
    /\ SetScan(t, [IdleScan EXCEPT !.pc = "frozen", !.full = full,
                                   !.seen = InMemtables \ 1..n, !.must = Findable])
    /\ UNCHANGED <<readers, cache, rd, evicting, dirty, vars>>

\* ... and the frozen ones.
ScanFrozen(t) ==
    LET seen == sc[t].seen \cup InMemtables IN
    /\ sc[t].pc = "frozen"
    /\ SetScan(t, [sc[t] EXCEPT !.pc = "index", !.seen = seen,
                                !.must = @ \cap (seen \cup Findable)])
    /\ UNCHANGED <<readers, cache, rd, evicting, reads, dirty, vars>>

\* index.query under the read lock, which is released.
ScanIndex(t) ==
    /\ sc[t].pc = "index"
    /\ SetScan(t, [sc[t] EXCEPT !.pc = "snapshot", !.todo = index])
    /\ UNCHANGED <<readers, cache, rd, evicting, reads, dirty, vars>>

\* The reader map is cloned.
ScanSnapshot(t) ==
    /\ sc[t].pc = "snapshot"
    /\ SetScan(t, [sc[t] EXCEPT !.pc = "open", !.opened = readers])
    /\ UNCHANGED <<readers, cache, rd, evicting, reads, dirty, vars>>

\* Mutant: the scan ends at a block it cannot read.
ScanSkipsRest(scan, id) == [scan EXCEPT !.todo = <<>>, !.skipped = @ \cup scan.todo[id]]

\* A block whose reader cannot be opened is skipped.
ScanSkips(scan, id) ==
    [scan EXCEPT !.todo = Without(@, {id}), !.skipped = @ \cup scan.todo[id]]

\* The unexpired records of a block become a source.
ScanTakes(scan, block) ==
    [scan EXCEPT !.pc = "open", !.todo = Without(@, {scan.cur}), !.cur = 0, !.file = {},
                 !.seen = @ \cup (block \ expired)]

\* get_reader_from_map for the next candidate: the reader of the snapshot, or the
\* file.
ScanOpen(t) ==
    /\ sc[t].pc = "open"
    /\ \E id \in DOMAIN sc[t].todo :
        LET Reading(file) == [sc[t] EXCEPT !.pc = "block", !.cur = id, !.file = file]
        IN SetScan(t, IF id \in DOMAIN sc[t].opened THEN Reading(sc[t].opened[id])
                      ELSE IF id \in DOMAIN files THEN Reading(files[id])
                      ELSE ScanSkips(sc[t], id))
    /\ UNCHANGED <<readers, cache, rd, evicting, reads, dirty, vars>>

\* read_block_decompress in a full scan, which passes the cache by; otherwise
\* read_block_arc asks the cache first.
ScanBlock(t) ==
    LET scan == sc[t] IN
    /\ scan.pc = "block"
    /\ SetScan(t, IF scan.full THEN ScanTakes(scan, scan.file)
                  ELSE IF scan.cur \in DOMAIN cache THEN ScanTakes(scan, cache[scan.cur])
                  ELSE [scan EXCEPT !.pc = "fill"])
    /\ UNCHANGED <<readers, cache, rd, evicting, reads, dirty, vars>>

\* read_block_arc inserts the block it has read.
ScanFill(t) ==
    /\ sc[t].pc = "fill"
    /\ cache' = Put(cache, sc[t].cur, sc[t].file)
    /\ SetScan(t, ScanTakes(sc[t], sc[t].file))
    /\ UNCHANGED <<readers, rd, evicting, reads, dirty, vars>>

ScanOver(t) == sc[t].pc = "open" /\ sc[t].todo = <<>>

ScanReturns(t) ==
    /\ ScanOver(t)
    /\ SetScan(t, IdleScan)
    /\ UNCHANGED <<readers, cache, rd, evicting, reads, dirty, vars>>

-----------------------------------------------------------------------------
(* Eviction *)

\* evict_stale_readers, after every run of GC or compaction and, through
\* trigger_gc, whenever a caller likes: the ids are taken from the manifest, ...
EvictList ==
    /\ ~evicting.on
    /\ DOMAIN readers # {}
    /\ evicting' = [on |-> TRUE, ids |-> DOMAIN manifest]
    /\ UNCHANGED <<readers, cache, rd, sc, reads, dirty, vars>>

\* ... then the map is cut down to them.
EvictRetain ==
    /\ evicting.on
    /\ readers' = Without(readers, DOMAIN readers \ evicting.ids)
    /\ evicting' = [on |-> FALSE, ids |-> {}]
    /\ UNCHANGED <<cache, rd, sc, reads, dirty, vars>>

\* The LRU list of the cache drops a block.
CacheDrops(id) ==
    /\ id \in DOMAIN cache
    /\ cache' = Without(cache, {id})
    /\ UNCHANGED <<readers, rd, sc, evicting, reads, dirty, vars>>

-----------------------------------------------------------------------------
(* Flush, compaction and GC, as the readers see them *)

IndexFree == \A t \in Gets : ~rd[t].locked

\* BlockCache::invalidate_sst: compaction calls it with every file it unlinks,
\* GC when it takes the SST out of the index.
Invalidated ==
    (UNION {IF cp[c].pc = "unlink" THEN cp[c].todo \ cp'[c].todo
            ELSE IF cp[c].pc = "dropfile" THEN {cp'[c].id} ELSE {} : c \in Compactors})
    \cup UNION {IF gc[g].pc = "index" THEN gc[g].todo \ gc'[g].todo ELSE {} :
                g \in Collectors}

HandedOut ==
    (IF fl.pc = "idle" /\ fl'.pc = "write" THEN {fl'.id} ELSE {})
    \cup {cp'[c].id : c \in {c \in Compactors : cp[c].pc = "allocate"
                                                /\ cp'[c].pc = "write"}}

\* Ids of which a reader or a block is in memory.
Around ==
    DOMAIN readers \cup DOMAIN cache \cup (UNION {rd[t].todo : t \in Gets})
    \cup UNION {DOMAIN sc[t].todo \cup DOMAIN sc[t].opened : t \in Scans}

Background ==
    /\ \/ Flush
       \/ \E c \in Compactors : Compact(c)
       \/ \E g \in Collectors : Collect(g)
       \/ \E r \in Records : Expire(r)
    /\ index' = index \/ IndexFree
    /\ cache' = Without(cache, Invalidated)
    /\ dirty' = (dirty \/ HandedOut \cap Around # {})
    /\ UNCHANGED <<readers, rd, sc, evicting, reads>>

ReadRestart ==
    /\ Restart
    /\ readers' = <<>> /\ cache' = <<>>
    /\ rd' = [t \in Gets |-> IdleGet]
    /\ sc' = [t \in Scans |-> IdleScan]
    /\ evicting' = [on |-> FALSE, ids |-> {}]
    /\ UNCHANGED <<reads, dirty>>

GetStep(t) ==
    \/ \E r \in Records, hit \in BOOLEAN : GetActive(t, r, hit)
    \/ GetFrozen(t) \/ GetIndex(t) \/ GetOpen(t) \/ GetInsert(t) \/ GetBlock(t) \/ GetFill(t)
    \/ GetReturns(t)

ScanStep(t) ==
    \/ \E full \in BOOLEAN, n \in {0} \cup Records : ScanActive(t, full, n)
    \/ ScanFrozen(t) \/ ScanIndex(t) \/ ScanSnapshot(t) \/ ScanOpen(t) \/ ScanBlock(t)
    \/ ScanFill(t) \/ ScanReturns(t)

ReadNext ==
    \/ Background \/ ReadRestart \/ EvictList \/ EvictRetain
    \/ \E t \in Gets : GetStep(t)
    \/ \E t \in Scans : ScanStep(t)
    \/ \E id \in DOMAIN cache : CacheDrops(id)

ReadSpec == ReadInit /\ [][ReadNext]_allVars

-----------------------------------------------------------------------------
(* Properties *)

\* The readers beside the type of SstLifecycle; an index lock is held only while
\* blocks are searched, and only ids at hand are asked.
ReadTypeOK ==
    /\ TypeOK
    /\ IsSstMap(readers) /\ IsSstMap(cache)
    /\ \A t \in Gets :
        /\ rd[t].pc \in {"idle", "frozen", "index", "open", "insert", "block", "fill", "done"}
        /\ rd[t].pc \in {"open", "insert", "block", "fill"} => rd[t].todo # {}
        /\ rd[t].locked => rd[t].pc \in {"open", "insert", "block", "fill"}
        /\ rd[t].file \subseteq Records
    /\ \A t \in Scans :
        /\ sc[t].pc \in {"idle", "frozen", "index", "snapshot", "open", "block", "fill"}
        /\ sc[t].pc \in {"block", "fill"} => sc[t].cur \in DOMAIN sc[t].todo
        /\ sc[t].seen \subseteq Records /\ sc[t].must \subseteq Records
        /\ IsSstMap(sc[t].opened) /\ IsSstMap(sc[t].todo)
    /\ reads \in 0..MaxReads /\ dirty \in BOOLEAN

\* get_sync against every step of flush, merges and GC: a record that has not
\* expired and could be found when the get began and when it looked at the frozen
\* memtables is found, although flushes and merges move it, through cached readers
\* and blocks too.  It can be missed when
\* the only SST is replaced and unlinked after get_sync has dropped the index
\* lock (alone, unlinked), and when an id is handed out while a run uses it (clash) or
\* while a reader or a block of the old file is around (dirty).
GetFindsIndexed ==
    \A t \in Gets :
        rd[t].pc = "done" /\ rd[t].rec \notin expired /\ ~rd[t].gap
        /\ ~clash /\ ~dirty => rd[t].found \/ (rd[t].alone /\ rd[t].unlinked)

\* The same for ScanIterator::build, which holds no lock while it reads: every
\* record that could be found when it began and when it looked at the frozen
\* memtables is returned, unless its block was announced in an SST that was unlinked
\* before the scan opened it.
ScanFinds ==
    \A t \in Scans :
        ScanOver(t) /\ ~clash /\ ~dirty =>
            sc[t].must \subseteq sc[t].seen \cup sc[t].skipped \cup expired
===============================================================================
