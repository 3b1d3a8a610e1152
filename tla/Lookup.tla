-------------------------------- MODULE Lookup --------------------------------
(***************************************************************************)
(* What FlowDB's reads find: memtables, SST blocks, the block index, point *)
(* look-ups, the scan iterator, and the merge of a compaction, at the level *)
(* of single records (src/src/engine.rs, memtable.rs, block_meta_index.rs,  *)
(* sstable.rs, bloom.rs, compaction.rs, gc.rs).                            *)
(*                                                                         *)
(* Keys are numbers in the byte order of the keys; a prefix is the interval *)
(* of the keys it covers.  The value of a record is the number of the write *)
(* that set it.  An SST keeps records but not their sequence numbers.       *)
(*                                                                         *)
(* Operations are sequential here, except for patch_record, whose read and  *)
(* write are two steps; reads racing flush and merges are in ReadRace.      *)
(* Where the code leaves the choice among equal records to a binary search  *)
(* or a heap, a read has a set of possible results.                         *)
(***************************************************************************)
EXTENDS Integers, Sequences, FiniteSets, SequencesExt, FiniteSetsExt

CONSTANTS MaxKey,      \* keys are 1..MaxKey
          Tilde,       \* the largest key up to b"~"
          Fallback,    \* the largest key below 0xEF 0xBF 0xBF
          MaxTs,       \* time stamps of records are 1..MaxTs
          Cells,       \* the keys and time stamps that clients use
          PatchCells,  \* those they patch
          Ranges,      \* the ranges that clients delete: <<first, end>>
          Expiries,    \* expire_at of the records written
          Never,       \* i64::MAX
          DefaultTtl,  \* config.default_ttl_secs, 0 for None
          MaxNow,      \* bound: the clock
          BlockSize,   \* config.block_size, in records
          TimeBucket,  \* config.time_bucket_secs
          NumBits,     \* bits of a bloom filter
          Threshold,   \* config.compaction_threshold
          Patchers,    \* threads that may call patch_record
          MaxWrites,   \* bound: records written
          MaxSsts      \* bound: SSTs written

ASSUME LookupAssumption ==
    /\ {MaxKey, Tilde, Fallback, MaxTs, Never, DefaultTtl, MaxWrites, MaxSsts} \subseteq Nat
    /\ {MaxNow, BlockSize, TimeBucket, NumBits, Threshold} \subseteq Nat \ {0}
    /\ Cells \cup PatchCells \subseteq (1..MaxKey) \X (1..MaxTs)
    /\ Ranges \subseteq (1..MaxKey) \X (1..MaxKey + 1)
    /\ Expiries \subseteq Nat /\ \A e \in Expiries : e <= Never
    /\ MaxNow < Never

VARIABLES
    active,   \* MemTables::active: records in the order of insertion
    frozen,   \* MemTables::frozen: sorted tables
    ssts,     \* [SST id -> blocks], block infos and bloom follow from them
    merged,   \* the SSTs a compaction has written (history)
    now,      \* now_micros
    patch,    \* [Patchers -> [pc, rec, ...]]: patch_record between read and write
    log,      \* all records written, in order (history)
    patched   \* history of patches: [seq, at, value, ttl, sure]

vars == <<active, frozen, ssts, merged, now, patch, log, patched>>

Keys == 1..MaxKey

None == [op |-> "none"]

\* InternalRecord: op is put, del (one key and time stamp) or range, which
\* deletes the keys in key..end-1 and has time stamp 0.
Record(seq, op, key, ts, val, exp, end) ==
    [seq |-> seq, op |-> op, key |-> key, ts |-> ts, val |-> val, exp |-> exp,
     end |-> end]

At(r) == <<r.key, r.ts>>

-----------------------------------------------------------------------------
(* Order *)

KeyTsBefore(a, b) == a.key < b.key \/ (a.key = b.key /\ a.ts < b.ts)

\* Mutant: by time stamp and key.
BeforeByTime(a, b) ==
    \/ a.ts < b.ts \/ (a.ts = b.ts /\ a.key < b.key)
    \/ At(a) = At(b) /\ a.seq > b.seq

\* By key and time stamp, the newest version first.
Before(a, b) == KeyTsBefore(a, b) \/ (At(a) = At(b) /\ a.seq > b.seq)

After(a, b) == KeyTsBefore(b, a)

\* slice::sort_by, which is stable.
Sorted(s, Precedes(_, _)) ==
    LET Place(i) == 1 + Cardinality({j \in DOMAIN s :
                Precedes(s[j], s[i]) \/ (j < i /\ ~Precedes(s[i], s[j]))})
    IN [n \in DOMAIN s |-> s[CHOOSE i \in DOMAIN s : Place(i) = n]]

\* The elements of s that are in the set, in their order: SelectSeq for a set.
Only(s, set) ==
    LET only[n \in 0..Len(s)] ==
          IF n = 0 THEN <<>>
          ELSE IF s[n] \in set THEN Append(only[n - 1], s[n]) ELSE only[n - 1]
    IN  only[Len(s)]

Unexpired(recs) == Only(recs, {r \in Range(recs) : r.exp > now})

-----------------------------------------------------------------------------
(* The SST format *)

\* Encoding a record and decoding it again: seq is not stored.
Stored(r) == [r EXCEPT !.seq = 0]

\* SstWriter::write and SstStreamWriter: blocks of BlockSize records.
Blocks(recs) ==
    [b \in 1..((Len(recs) + BlockSize - 1) \div BlockSize) |->
        [i \in 1..Min({BlockSize, Len(recs) - (b - 1) * BlockSize}) |->
            Stored(recs[(b - 1) * BlockSize + i])]]

\* BlockInfo: the keys are those of the first and the last record.
Info(block) ==
    [minKey |-> Head(block).key,
     maxKey |-> Last(block).key,
     minTs |-> Min({block[i].ts : i \in DOMAIN block}),
     maxTs |-> Max({block[i].ts : i \in DOMAIN block}),
     maxExp |-> Max({block[i].exp : i \in DOMAIN block})]

RecordsOf(blocks) == FlattenSeq(blocks)

\* BloomFilter: two hashes of a key, combined to the positions of its bits.
HashBits(key) == {(key + i * (2 * key + 1)) % NumBits : i \in 0..1}

BloomOf(blocks) ==
    UNION {HashBits(r.key) : r \in Range(RecordsOf(blocks))}

\* Mutant: the look-up starts at the second hash.
MayContainShifted(bloom, key) ==
    {(key + i * (2 * key + 1)) % NumBits : i \in 1..2} \subseteq bloom

MayContain(bloom, key) == HashBits(key) \subseteq bloom

-----------------------------------------------------------------------------
(* Memtables *)

\* MemTable::get on the active table: point_index keeps the last insertion.
ActiveGet(k, t) ==
    LET at == {i \in DOMAIN active : At(active[i]) = <<k, t>>}
    IN IF at = {} THEN None ELSE active[Max(at)]

\* On a frozen table, whose point_index is cleared: the largest seq.
FrozenGet(table, k, t) ==
    LET found == {r \in Range(table) : At(r) = <<k, t>>}
    IN IF found = {} THEN None
       ELSE CHOOSE r \in found : \A s \in found : s.seq <= r.seq

LiveInMemory(r) == r # None /\ r.exp >= now

\* MemTables::get: the active table, then the frozen ones from the oldest on.
MemTablesGet(k, t) ==
    LET hits == <<ActiveGet(k, t)>> \o
                [i \in DOMAIN frozen |-> FrozenGet(frozen[i], k, t)]
        live == {i \in DOMAIN hits : LiveInMemory(hits[i])}
    IN IF live = {} THEN None ELSE hits[Min(live)]

Memory == active \o FlattenSeq(frozen)

\* MemTables::get_latest
MemTablesGetLatest(k) ==
    LET found == {r \in Range(Memory) :
                    r.key = k /\ r.exp >= now /\ r.op = "put"}
    IN IF found = {} THEN None
       ELSE CHOOSE r \in found : \A s \in found :
                s.ts < r.ts \/ (s.ts = r.ts /\ s.seq <= r.seq)

-----------------------------------------------------------------------------
(* Queries *)

\* KeyFilter and time range of a Query: kind is all, prefix, range or open, which
\* is a prefix that no byte of can be incremented: the empty one, whose lo is 0, or
\* 0xFF bytes.  lo..hi are the keys that match; time is <<>> or <<first, last>>.
Query(kind, lo, hi, time) == [kind |-> kind, lo |-> lo, hi |-> hi, time |-> time]

AllKeys == Query("all", 0, MaxKey, <<>>)

Queries ==
    {AllKeys, Query("range", 2, MaxKey, <<>>), Query("prefix", 1, 2, <<>>),
     Query("open", 0, MaxKey, <<>>),
     Query("all", 0, MaxKey, <<2, MaxTs>>), Query("prefix", 1, 2, <<1, 1>>)}

InTime(q, ts) == q.time = <<>> \/ (q.time[1] <= ts /\ ts <= q.time[2])

Matches(q, r) == r.key \in q.lo..q.hi /\ InTime(q, r.ts)

\* ScanIterator::build: KeyFilter::All or an empty prefix, without a time range.
IsFullScan(q) == q.kind \in {"all", "open"} /\ q.lo = 0 /\ q.time = <<>>

\* MemTables::query_*: KeyFilter::All becomes the key range b"" to b"~".
EndsAtTilde(q) == q.kind = "all" /\ q.time = <<>>

MemTablesQuery(q) ==
    Only(Memory, {r \in Range(Memory) : /\ Matches(q, r)
                                        /\ EndsAtTilde(q) => r.key <= Tilde
                                        /\ r.exp >= now})

-----------------------------------------------------------------------------
(* The block index *)

\* The loop of BlockMetaIndex::binary_search_block: at is the block that is found.
SearchStep(blocks, k, s) ==
    LET mid == s.lo + (s.hi - s.lo) \div 2
        info == Info(blocks[mid + 1])
    IN IF s.at # 0 \/ s.lo >= s.hi THEN s
       ELSE IF info.maxKey < k THEN [s EXCEPT !.lo = mid + 1]
       ELSE IF info.minKey > k THEN [s EXCEPT !.hi = mid]
       ELSE [s EXCEPT !.at = mid + 1]

\* Where the loop ends; as many rounds as blocks are enough.
SearchEnd(blocks, k) ==
    LET search[n \in 0..Len(blocks)] ==
          IF n = 0 THEN [lo |-> 0, hi |-> Len(blocks), at |-> 0]
          ELSE SearchStep(blocks, k, search[n - 1])
    IN  search[Len(blocks)]

\* 0 when no block is found.
BinarySearchBlock(blocks, k) ==
    LET s == SearchEnd(blocks, k)
    IN IF /\ s.at = 0 /\ s.lo < Len(blocks)
          /\ Info(blocks[s.lo + 1]).minKey <= k
          /\ Info(blocks[s.lo + 1]).maxKey >= k
       THEN s.lo + 1 ELSE s.at

IsExpired(info) == info.maxExp < now

\* Mutant: the end of the key range is exclusive.
OverlapsKeyExclusive(q, info) ==
    q.kind = "all" \/ (info.minKey < q.hi /\ info.maxKey >= q.lo)

\* increment_prefix gives the end of a prefix; without a byte to increment it falls
\* back to a constant.
LastKey(q) == IF q.kind = "open" THEN Fallback ELSE q.hi

\* overlaps_key_prefix and overlaps_key_range
OverlapsKey(q, info) ==
    q.kind = "all" \/ (info.minKey <= LastKey(q) /\ info.maxKey >= q.lo)

Bucket(ts) == ts \div TimeBucket

\* collect_time_set: blocks are filed under the bucket of min_ts.
InTimeSet(q, info) ==
    q.time = <<>> \/
        /\ Bucket(info.minTs) \in Bucket(q.time[1])..Bucket(q.time[2])
        /\ info.minTs <= q.time[2] /\ info.maxTs >= q.time[1]

\* BlockMetaIndex::query
Candidates(q) ==
    {b \in UNION {{id} \X DOMAIN ssts[id] : id \in DOMAIN ssts} :
        LET info == Info(ssts[b[1]][b[2]])
        IN ~IsExpired(info) /\ OverlapsKey(q, info) /\ InTimeSet(q, info)}

-----------------------------------------------------------------------------
(* Point look-ups *)

IsAscending(block) ==
    \A i \in 1..(Len(block) - 1) : ~KeyTsBefore(block[i + 1], block[i])

Visible(r) == IF r.exp > now /\ r.op # "del" THEN r ELSE None

\* Engine::find_in_records: a binary search, which may end at any record of the
\* key and time stamp, and at none in a block that is not in ascending order.
FindInRecords(block, k, t) ==
    LET found == {r \in Range(block) : At(r) = <<k, t>>}
    IN {Visible(r) : r \in found}
       \cup (IF found = {} \/ ~IsAscending(block) THEN {None} ELSE {})

\* Engine::block_search_latest: the first record of the largest time stamp.
FindLatest(block, k) ==
    LET live == {i \in DOMAIN block :
                    block[i].key = k /\ block[i].exp > now /\ block[i].op # "del"}
        best == {i \in live : \A j \in live : block[j].ts <= block[i].ts}
    IN {IF live = {} THEN None ELSE block[Min(best)]}

\* The block that query_point_inline and single_sst_point look at.
PointBlock(id, k) ==
    LET b == BinarySearchBlock(ssts[id], k)
    IN IF /\ MayContain(BloomOf(ssts[id]), k)
          /\ b # 0
          /\ ~IsExpired(Info(ssts[id][b]))
       THEN ssts[id][b] ELSE <<>>

\* BlockMetaIndex::query_point_inline: ids in ascending order, the first hit.
FirstHit(found) ==
    LET Reached(id) == \A j \in DOMAIN found : j < id => None \in found[j]
    IN (UNION {found[id] \ {None} : id \in {i \in DOMAIN found : Reached(i)}})
       \cup (IF \A id \in DOMAIN found : None \in found[id] THEN {None} ELSE {})

\* Mutant: memory is asked last.
GetSyncSstFirst(k, t) ==
    LET inSsts == FirstHit([id \in DOMAIN ssts |->
                                FindInRecords(PointBlock(id, k), k, t)])
        mem == MemTablesGet(k, t)
    IN (inSsts \ {None}) \cup
       (IF None \in inSsts THEN {IF mem = None \/ mem.op = "del" THEN None ELSE mem}
        ELSE {})

\* Engine::get_sync and get_bytes: the possible results.  A single SST is asked
\* without the index lock, with the same outcome here.
GetSync(k, t) ==
    LET mem == MemTablesGet(k, t)
    IN IF mem # None THEN {IF mem.op = "del" THEN None ELSE mem}
       ELSE FirstHit([id \in DOMAIN ssts |->
                        FindInRecords(PointBlock(id, k), k, t)])

\* Engine::get_latest
GetLatest(k) ==
    LET mem == MemTablesGetLatest(k)
    IN {IF s = None \/ (mem # None /\ mem.ts >= s.ts) THEN mem ELSE s :
            s \in FirstHit([id \in DOMAIN ssts |->
                                FindLatest(PointBlock(id, k), k)])}

-----------------------------------------------------------------------------
(* The scan iterator and the merge of a compaction *)

IsTombstoned(r, tombstones) ==
    \E g \in tombstones : g.key <= r.key /\ r.key < g.end

\* The heap, with pos records taken from the sources: those whose next record comes
\* first, several if records compare as equal.
FirstSources(sources, pos, descending) ==
    LET heads == {i \in DOMAIN sources : pos[i] < Len(sources[i])}
        Top(i) == sources[i][pos[i] + 1]
        Pops(a, b) == IF descending THEN After(a, b) ELSE Before(a, b)
    IN {i \in heads : \A j \in heads : ~Pops(Top(j), Top(i))}

\* A pop: a record at the key and time stamp of the last pop is skipped, so is a
\* deleted one.
Popped(run, i, r, tombstones) ==
    [pos |-> [run.pos EXCEPT ![i] = @ + 1],
     last |-> At(r),
     out |-> IF At(r) = run.last \/ r.op # "put" \/ IsTombstoned(r, tombstones)
             THEN run.out ELSE Append(run.out, r)]

\* ScanIterator::next until it ends, and the loop over the heap in
\* CompactionRunner::run (descending, without tombstones): where it may be after n
\* pops, and what it has returned.  The fast path of ScanIterator, for a single
\* source, has the same outcome.
Drain(sources, tombstones, descending) ==
    LET all == Len(FlattenSeq(sources))
        runs[n \in 0..all] ==
          IF n = 0 THEN {[pos |-> [i \in DOMAIN sources |-> 0], last |-> <<0, 0>>,
                          out |-> <<>>]}
          ELSE UNION {{Popped(run, i, sources[i][run.pos[i] + 1], tombstones) :
                            i \in FirstSources(sources, run.pos, descending)} :
                        run \in runs[n - 1]}
    IN  {run.out : run \in runs[all]}

\* The records that a block gives to a scan: filter_sst_block, and its
\* counterpart for full scans, which leaves deletes out.
BlockSource(q, block) ==
    Only(Unexpired(block),
         {r \in Range(block) :
            r.op # "range" /\ IF IsFullScan(q) THEN r.op # "del" ELSE Matches(q, r)})

RangesOf(recs) == {r \in Range(recs) : r.op = "range" /\ r.exp > now}

\* Mutant: only the range deletes in memory count.
TombstonesInMemory(q, mem, blocks) == RangesOf(mem)

\* The range deletes a scan has seen, whatever their sequence numbers.
Tombstones(q, mem, blocks) == RangesOf(mem) \cup UNION {RangesOf(b) : b \in blocks}

\* ScanIterator::build and all its results.
Scan(q) ==
    LET mem == MemTablesQuery(q)
        found == {ssts[b[1]][b[2]] : b \in Candidates(q)}
        order == SetToSeq(Candidates(q))
        sources == <<Sorted(mem, Before)>> \o
                   [i \in DOMAIN order |->
                        BlockSource(q, ssts[order[i][1]][order[i][2]])]
    IN Drain(sources, Tombstones(q, mem, found), FALSE)

\* SstBlockIterator: each block in descending order, the blocks as they are.
BlockIterator(block) == Sorted(Unexpired(block), After)

MergeSource(id) ==
    FlattenSeq([b \in DOMAIN ssts[id] |-> BlockIterator(ssts[id][b])])

Merges(ids) ==
    LET order == SetToSeq(ids)
    IN Drain([i \in DOMAIN order |-> MergeSource(order[i])], {}, TRUE)

-----------------------------------------------------------------------------
(* Actions *)

IdlePatch == [pc |-> "idle", rec |-> None, at |-> 0, value |-> FALSE,
              ttl |-> FALSE, sure |-> FALSE]

Init ==
    /\ active = <<>> /\ frozen = <<>> /\ ssts = <<>> /\ merged = {}
    /\ now = 1
    /\ patch = [p \in Patchers |-> IdlePatch]
    /\ log = <<>> /\ patched = {}

\* MemTable::insert, under the worker mutex, which a flush holds as well.
Insert(rec) ==
    /\ frozen = <<>>
    /\ Len(log) < MaxWrites
    /\ active' = Append(active, rec)
    /\ log' = Append(log, rec)

NextSeq == Len(log) + 1

\* write_batch_ttl of a call without a TTL: one that is configured replaces the
\* record's expire_at.
ExpireAt(t, exp) == IF DefaultTtl = 0 THEN exp ELSE t + DefaultTtl

\* Engine::write_batch of one record.
Put(k, t, exp) ==
    /\ Insert(Record(NextSeq, "put", k, t, NextSeq, ExpireAt(t, exp), 0))
    /\ UNCHANGED <<frozen, ssts, merged, now, patch, patched>>

\* Engine::write_batch_ttl with a TTL that makes it expire at exp.
PutTtl(k, t, exp) ==
    /\ Insert(Record(NextSeq, "put", k, t, NextSeq, exp, 0))
    /\ UNCHANGED <<frozen, ssts, merged, now, patch, patched>>

\* Engine::delete_batch of one key.
Delete(k, t) ==
    /\ Insert(Record(NextSeq, "del", k, t, NextSeq, Never, 0))
    /\ UNCHANGED <<frozen, ssts, merged, now, patch, patched>>

\* Engine::delete_range
DeleteRange(k, end) ==
    /\ Insert(Record(NextSeq, "range", k, 0, NextSeq, Never, end))
    /\ UNCHANGED <<frozen, ssts, merged, now, patch, patched>>

VersionsOf(k, t) == {r \in Range(log) : At(r) = <<k, t>>}

InMemory(r) == r \in Range(Memory)

Newest(recs) == CHOOSE r \in recs : \A s \in recs : s.seq <= r.seq

\* Mutant: patch_record takes no lock.
PatchLockIgnored == TRUE

\* patch_lock is free.
PatchLockFree == \A p \in Patchers : patch[p].pc = "idle"

\* Engine::patch_record: under patch_lock, get_sync; a record that is not found
\* is an error.  The patch has a new value, a new TTL or both.  (sure: no older
\* version can be taken for the newest one, as it happens when several are in
\* SSTs or when the newest has expired.)
PatchRead(p, k, t, value, ttl) ==
    /\ patch[p].pc = "idle"
    /\ PatchLockFree
    /\ \E found \in GetSync(k, t) \ {None} :
        patch' = [patch EXCEPT ![p] =
            [pc |-> "write", at |-> Len(log), value |-> value, ttl |-> ttl,
             sure |-> LET all == VersionsOf(k, t)
                          newest == Newest(all)
                      IN \/ InMemory(newest) /\ newest.exp >= now
                         \/ Cardinality(all) = 1,
             rec |-> [found EXCEPT !.exp = IF ttl THEN t + 1 ELSE @]]]
    /\ UNCHANGED <<active, frozen, ssts, merged, now, log, patched>>

\* ... and write_batch, which sees to the expiry once more; then the lock is
\* released.
PatchWrite(p) ==
    LET q == patch[p] IN
    /\ q.pc = "write"
    /\ Insert([q.rec EXCEPT !.seq = NextSeq, !.val = IF q.value THEN NextSeq ELSE @,
                            !.exp = ExpireAt(q.rec.ts, @)])
    /\ patched' = patched \cup {[seq |-> NextSeq, at |-> q.at, value |-> q.value,
                                 ttl |-> q.ttl, sure |-> q.sure]}
    /\ patch' = [patch EXCEPT ![p] = IdlePatch]
    /\ UNCHANGED <<frozen, ssts, merged, now>>

\* MemTables::freeze in do_flush, with the worker mutex.
Freeze ==
    /\ active # <<>> /\ frozen = <<>>
    /\ frozen' = <<Sorted(active, Before)>>
    /\ active' = <<>>
    /\ UNCHANGED <<ssts, merged, now, patch, log, patched>>

NextSstId == Max(DOMAIN ssts \cup {0}) + 1

\* BlockMetaIndex::add_sst, of a new file.
WithSst(files, id, blocks) ==
    [i \in DOMAIN files \cup {id} |-> IF i = id THEN blocks ELSE files[i]]

\* The rest of do_flush: expired records are left out; without any record left
\* there is no SST.
Flush ==
    /\ frozen # <<>>
    /\ NextSstId <= MaxSsts
    /\ frozen' = Tail(frozen)
    /\ LET recs == Unexpired(Head(frozen))
       IN ssts' = IF recs = <<>> THEN ssts ELSE WithSst(ssts, NextSstId, Blocks(recs))
    /\ UNCHANGED <<active, merged, now, patch, log, patched>>

\* CompactionRunner::run; sizes are left out, so any two or more SSTs may be the
\* candidates.  A merge without result only removes them.
Compact ==
    /\ DOMAIN ssts # {}
    /\ Cardinality(DOMAIN ssts) >= Threshold
    /\ NextSstId <= MaxSsts
    /\ \E ids \in SUBSET DOMAIN ssts :
        /\ Cardinality(ids) >= 2 \/ ids = DOMAIN ssts
        /\ \E out \in Merges(ids) :
            LET rest == [id \in DOMAIN ssts \ ids |-> ssts[id]] IN
            IF out = <<>> THEN ssts' = rest /\ merged' = merged \ ids
            ELSE /\ ssts' = WithSst(rest, NextSstId, Blocks(out))
                 /\ merged' = (merged \ ids) \cup {NextSstId}
    /\ UNCHANGED <<active, frozen, now, patch, log, patched>>

\* GcRunner::run
Expired(blocks) == \A b \in DOMAIN blocks : Info(blocks[b]).maxExp < now

Gc ==
    /\ \E id \in DOMAIN ssts : Expired(ssts[id])
    /\ ssts' = [id \in {i \in DOMAIN ssts : ~Expired(ssts[i])} |-> ssts[id]]
    /\ merged' = merged \cap DOMAIN ssts'
    /\ UNCHANGED <<active, frozen, now, patch, log, patched>>

Tick ==
    /\ now < MaxNow
    /\ now' = now + 1
    /\ UNCHANGED <<active, frozen, ssts, merged, patch, log, patched>>

Write ==
    \/ \E c \in Cells : \/ Delete(c[1], c[2])
                       \/ \E exp \in Expiries : Put(c[1], c[2], exp) \/ PutTtl(c[1], c[2], exp)
    \/ \E g \in Ranges : DeleteRange(g[1], g[2])

Patch(p) ==
    \/ \E c \in PatchCells, value \in BOOLEAN :
        PatchRead(p, c[1], c[2], value, ~value)
    \/ PatchWrite(p)

Next ==
    \/ Write \/ Freeze \/ Flush \/ Compact \/ Gc \/ Tick
    \/ \E p \in Patchers : Patch(p)

Spec == Init /\ [][Next]_vars

-----------------------------------------------------------------------------
(* Properties *)

IsRecord(r) ==
    /\ r.seq \in Nat /\ r.op \in {"put", "del", "range"} /\ r.key \in Keys
    /\ r.ts \in 0..MaxTs /\ r.val \in 1..MaxWrites /\ r.exp \in Nat

\* The state of the tables; frozen tables are sorted, SSTs have full blocks but
\* for the last one, and the files of flushes are in ascending order.
TypeOK ==
    /\ \A r \in Range(Memory) : IsRecord(r) /\ r.seq \in 1..Len(log)
    /\ Len(frozen) <= 1
    /\ \A id \in DOMAIN ssts :
        /\ \A b \in DOMAIN ssts[id] :
            /\ Len(ssts[id][b]) \in 1..BlockSize
            /\ b < Len(ssts[id]) => Len(ssts[id][b]) = BlockSize
            /\ \A r \in Range(ssts[id][b]) : IsRecord(r)
        /\ id \notin merged => IsAscending(RecordsOf(ssts[id]))
    /\ merged \subseteq DOMAIN ssts
    /\ now \in 1..MaxNow
    /\ \A p \in Patchers : patch[p].pc \in {"idle", "write"}

\* Written once, and no range delete has ever covered the key.
Lone(r) ==
    /\ r.op = "put" /\ VersionsOf(r.key, r.ts) = {r}
    /\ \A g \in Range(log) : g.op = "range" => ~(g.key <= r.key /\ r.key < g.end)

HeldBy(r, block) == Stored(r) \in Range(block)

\* The blocks that hold the record.
Homes(r) ==
    {b \in UNION {{id} \X DOMAIN ssts[id] : id \in DOMAIN ssts} :
        HeldBy(r, ssts[b[1]][b[2]])}

\* What the scan's choice of sources presumes.  In memory a scan of all keys ends
\* at "~"; a merged SST has the block infos of a descending file, so that only a
\* full scan finds all of it; a prefix without an end leaves out blocks that begin
\* beyond the constant it falls back to; and a block is only found by a time range
\* that reaches back to the bucket of its first time stamp.
ScanReaches(q, r) ==
    \/ InMemory(r) /\ (EndsAtTilde(q) => r.key <= Tilde)
    \/ \E b \in Homes(r) :
        LET info == Info(ssts[b[1]][b[2]]) IN
        /\ q.kind = "open" => info.minKey <= Fallback
        /\ \/ IsFullScan(q)
           \/ /\ b[1] \notin merged
              /\ q.time # <<>> => Bucket(info.minTs) >= Bucket(q.time[1])

\* ScanIterator over memtables and SSTs, through flushes, merges and GC: a
\* record that was written once and has not expired is returned exactly once by
\* every scan that matches it and reaches it.
ScanComplete ==
    \A q \in Queries :
        LET outs == Scan(q) IN
        \A r \in Range(log) :
            Lone(r) /\ r.exp > now /\ Matches(q, r) /\ ScanReaches(q, r) =>
                \A out \in outs :
                    Cardinality({i \in DOMAIN out : Stored(out[i]) = Stored(r)}) = 1

\* The look-up of one block per SST presumes that the key's records are in one
\* block, and in a file in ascending order.
PointReaches(r) ==
    \/ InMemory(r)
    \/ \E b \in Homes(r) :
        /\ b[1] \notin merged
        /\ \A c \in DOMAIN ssts[b[1]] \ {b[2]} :
            \A s \in Range(ssts[b[1]][c]) : s.key # r.key

\* Engine::get_sync and get_latest: a record that was written once is found by
\* its key and time stamp wherever flushes have put it, also among merged SSTs;
\* and the newest record of a key is found when all records of the key were
\* written once and no two SSTs hold the key.
PointReadsFind ==
    \A r \in Range(log) :
        Lone(r) /\ r.exp > now /\ PointReaches(r) =>
            /\ {Stored(x) : x \in GetSync(r.key, r.ts)} = {Stored(r)}
            /\ LET all == {s \in Range(log) : s.key = r.key} IN
               /\ \A s \in all : Lone(s) /\ s.exp > now /\ PointReaches(s)
               /\ \A s \in all : s.ts <= r.ts
               /\ Cardinality(UNION {{b[1] : b \in Homes(s)} : s \in all}) <= 1
               => {Stored(x) : x \in GetLatest(r.key)} = {Stored(r)}

\* A version in memory, a delete too, hides all older ones: from get_sync, and
\* from every scan unless a merge has written an older one into a file that is not
\* in ascending order.  It is not asked for in the microsecond of expire_at itself:
\* "Records with `expire_at <= now` are skipped by queries" (record.rs), and memory
\* still returns them.
MemoryWins ==
    LET newest == {r \in Range(Memory) : /\ r.op # "range" /\ r.exp > now
                                         /\ r = Newest(VersionsOf(r.key, r.ts))}
        inMerged == UNION {Range(RecordsOf(ssts[id])) : id \in merged}
        scanned == {r \in newest : r.key <= Tilde /\ \A s \in inMerged : At(s) # At(r)}
    IN /\ \A r \in newest :
            GetSync(r.key, r.ts) = {IF r.op = "del" THEN None ELSE r}
       /\ scanned # {} =>
            \A q \in Queries : \A out \in Scan(q) : \A i \in DOMAIN out :
                \A r \in scanned : At(out[i]) = At(r) => out[i] = r

\* Engine::delete_range: while the range delete is in a memtable or an SST, a full
\* scan returns nothing in its range that was written before it.  (The code hides
\* what was written after it as well, which nothing here asks for.)
RangeDeleteHides ==
    LET ranges == {g \in Range(log) : g.op = "range" /\
                        (Homes(g) # {} \/ (InMemory(g) /\ g.key <= Tilde))}
    IN ranges # {} =>
        \A out \in Scan(AllKeys) : \A i \in DOMAIN out : \A g \in ranges :
            g.key <= out[i].key /\ out[i].key < g.end =>
                \E r \in Range(log) : r.seq > g.seq /\ Stored(r) = Stored(out[i])

PlainWriteBetween(k, t, from, to) ==
    \E i \in from..to : /\ i \in DOMAIN log /\ At(log[i]) = <<k, t>>
                        /\ \A p \in patched : p.seq # i

\* "concurrent `patch_record` calls on the same key do not produce lost updates"
\* (engine.rs): what a patch leaves alone is what the newest version had, unless
\* a plain write came between its read and its write, or the read could not tell
\* the newest version.  With a default TTL a patch never leaves expire_at alone.
PatchesCompose ==
    \A p \in patched :
        LET r == log[p.seq]
            older == {s \in VersionsOf(r.key, r.ts) : s.seq < p.seq}
        IN p.sure /\ ~PlainWriteBetween(r.key, r.ts, p.at + 1, p.seq - 1) =>
            /\ p.value \/ r.val = Newest(older).val
            /\ p.ttl \/ DefaultTtl # 0 \/ r.exp = Newest(older).exp
===============================================================================
