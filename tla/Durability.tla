----------------------------- MODULE Durability ------------------------------
(***************************************************************************)
(* The durability core of FlowDB: sequence numbers, the segmented WAL, the *)
(* memtables, the flush of a memtable to an SST, the manifest checkpoint,  *)
(* the truncation of the WAL, crashes and Engine::open                     *)
(* (src/src/engine.rs, write_worker.rs, wal.rs, memtable.rs, manifest.rs). *)
(*                                                                         *)
(* The group-commit queue is kept as far as the order of its submissions   *)
(* goes; leader election and signalling are in module WritePipeline.  A    *)
(* record is its batch, the size of the batch, its sequence number and     *)
(* whether it carries a TTL; keys and values are not needed here.  An SST  *)
(* is the set of its records.                                              *)
(* The manifest append is atomic: written and fsynced, or not there.       *)
(***************************************************************************)
EXTENDS Naturals, Sequences, FiniteSets

CONSTANTS Writers,      \* application threads
          BatchSizes,   \* sizes of the batches they write
          Ttls,         \* {FALSE}, or {FALSE, TRUE}: batches that may expire
          MaxBatches,   \* bound: batches ever written
          MaxCrashes,   \* bound: crashes
          SeqStride,    \* the 1_000_000 of Engine::open
          SegmentCap,   \* records that fill a WAL segment
          MaxFrozen,    \* config.max_frozen_memtables
          Always,       \* config.wal_sync_mode = SyncMode::Always
          IoFaults,     \* TRUE: file operations may fail
          Tearing       \* TRUE: a crash may leave half a record at a tail

ASSUME DurabilityAssumption ==
    /\ BatchSizes \subseteq Nat \ {0}
    /\ Ttls \subseteq BOOLEAN
    /\ MaxBatches \in Nat /\ MaxCrashes \in Nat
    /\ SeqStride \in Nat \ {0}
    /\ SegmentCap \in Nat \ {0}
    /\ MaxFrozen \in Nat \ {0}
    /\ Always \in BOOLEAN /\ IoFaults \in BOOLEAN /\ Tearing \in BOOLEAN

VARIABLES
    up,          \* the engine is open
    seqCounter,  \* Engine::seq_counter
    batches,     \* batches allocated so far
    held,        \* [Writers -> records of the write in progress, or <<>>]
    queue,       \* writers whose submission is queued, in push order
    group,       \* writers whose submissions the leader has taken
    gpos,        \* loop position of process_batch_group in group
    wpc,         \* where the holder of the worker mutex is
    caller,      \* who runs do_flush: "group", "pressure" or "other"
    segs,        \* Wal::segments: [segment id -> segment]
    nextSeg,     \* Wal::next_segment_id
    doomed,      \* segment files dropped from segs, possibly still on disk
    active,      \* records of the active memtable
    frozen,      \* MemTables::frozen
    flushing,    \* the popped memtable and the SST id do_flush works on
    ssts,        \* manifest: [SST id -> set of records]
    ckpt,        \* manifest: last_flushed_seq
    index,       \* SST ids in the in-memory BlockMetaIndex
    acked,       \* records of batches answered Ok since open (history)
    promised,    \* records whose durability has been promised (history)
    hazards,     \* which of the known hazards have struck (history)
    crashes      \* crashes so far

memvars == <<held, queue, group, gpos, wpc, caller, active, frozen, flushing,
             index>>
walvars == <<segs, nextSeg, doomed>>
manvars == <<ssts, ckpt>>
history == <<acked, promised, hazards, crashes>>
vars == <<up, seqCounter, batches, memvars, walvars, manvars, history>>

-----------------------------------------------------------------------------
(* Records, segments *)

Records == [b : Nat \ {0}, size : Nat, seq : Nat, ttl : BOOLEAN]

\* Bytes of a record whose tail never reached the disk.
Torn == [b |-> 0, size |-> 0, seq |-> 0, ttl |-> FALSE]

Elems(s) == {s[i] : i \in 1..Len(s)}

MaxOf(S) == IF S = {} THEN 0 ELSE CHOOSE m \in S : \A n \in S : n <= m

Larger(m, n) == IF m < n THEN n ELSE m

\* Mutant: the checkpoint takes the first sequence number of the memtable.
FirstSeq(R) == IF R = {} THEN 0
               ELSE CHOOSE m \in {r.seq : r \in R} : \A r \in R : m <= r.seq

\* last_seq of do_flush, the largest sequence number.
LastSeq(R) == MaxOf({r.seq : r \in R})

EmptySegment == [recs |-> <<>>, synced |-> 0, bytes |-> 0, max |-> 0]

\* decode_record stops a segment at the first record it cannot verify.
ReadableTo(recs, n) == \A i \in 1..n : recs[i] # Torn

Readable(seg) ==
    {seg.recs[i] : i \in {j \in 1..Len(seg.recs) : ReadableTo(seg.recs, j)}}

WalRecords == UNION {Readable(segs[i]) : i \in DOMAIN segs}

\* The part of a segment that any crash leaves behind.
OnDisk(seg) ==
    {seg.recs[i] : i \in {j \in 1..seg.synced : ReadableTo(seg.recs, j)}}

\* Mutant: replay starts one sequence number late.
ReplayedLate(after) == {r \in WalRecords : r.seq > after + 1}

\* Wal::replay_from(last_flushed_seq)
Replayed(after) == {r \in WalRecords : r.seq > after}

LastSegment == MaxOf(DOMAIN segs)

\* Mutant: only the segment being written is fsynced, not one that a rollover
\* has just closed.
SyncedLast(S) ==
    [i \in DOMAIN S |-> IF i = MaxOf(DOMAIN S)
                        THEN [S[i] EXCEPT !.synced = Len(S[i].recs)] ELSE S[i]]

\* Wal::sync_all: every segment is flushed and fsynced, and the directory.
Synced(S) == [i \in DOMAIN S |-> [S[i] EXCEPT !.synced = Len(S[i].recs)]]

\* Files whose unlink an fsync of the directory has not settled: with I/O
\* faults remove_file may have failed, so any of them may stay for good.
Unsettled == IF IoFaults THEN doomed ELSE <<>>

\* Wal::write_encoded first makes sure there is a segment: the one it appends
\* to, and the id the next one gets.
Target == IF DOMAIN segs = {} THEN nextSeg ELSE LastSegment

NextId == IF DOMAIN segs = {} THEN nextSeg + 1 ELSE nextSeg

TargetSegment == IF DOMAIN segs = {} THEN EmptySegment ELSE segs[LastSegment]

Appended(seg, recs, batchMaxSeq) ==
    [seg EXCEPT !.recs = seg.recs \o recs,
                !.bytes = seg.bytes + Len(recs),
                !.max = Larger(seg.max, batchMaxSeq)]

\* segs with the given segment as the last one.
WithTarget(seg) ==
    [i \in DOMAIN segs \cup {Target} |-> IF i = Target THEN seg ELSE segs[i]]

\* The batch goes to the last segment; when that is full it is flushed (not
\* fsynced) and a new one is started.
WriteEncoded(recs, batchMaxSeq) ==
    LET new == Appended(TargetSegment, recs, batchMaxSeq)
        full == new.bytes >= SegmentCap
    IN  /\ segs' = IF full
                   THEN [i \in DOMAIN segs \cup {Target, NextId} |->
                            IF i = NextId THEN EmptySegment
                            ELSE WithTarget(new)[i]]
                   ELSE WithTarget(new)
        /\ nextSeg' = IF full THEN NextId + 1 ELSE NextId

\* write_encoded returns an error: the segment cannot be created; or part of
\* the buffer went out and broke off, which raises neither written_bytes nor
\* max_seq; or the whole batch is in and the next segment cannot be opened.
WriteEncodedFails(recs, batchMaxSeq) ==
    \/ /\ DOMAIN segs = {}
       /\ nextSeg' = nextSeg + 1
       /\ UNCHANGED segs
    \/ \E n \in 0..(Len(recs) - 1), torn \in BOOLEAN :
        /\ segs' = WithTarget([TargetSegment EXCEPT !.recs =
                        @ \o SubSeq(recs, 1, n)
                          \o (IF torn THEN <<Torn>> ELSE <<>>)])
        /\ nextSeg' = NextId
    \/ LET new == Appended(TargetSegment, recs, batchMaxSeq) IN
        /\ new.bytes >= SegmentCap
        /\ segs' = WithTarget(new)
        /\ nextSeg' \in {NextId, NextId + 1}

\* Wal::truncate_before
Outdated(seq) == {i \in DOMAIN segs : segs[i].max > 0 /\ segs[i].max <= seq}

-----------------------------------------------------------------------------
NoFlushing == [recs |-> {}, id |-> 0]

MaxSstId == MaxOf(DOMAIN ssts)

Init ==
    /\ up = TRUE
    /\ seqCounter = SeqStride
    /\ batches = 0
    /\ held = [w \in Writers |-> <<>>]
    /\ queue = <<>>
    /\ group = <<>>
    /\ gpos = 1
    /\ wpc = "free"
    /\ caller = "other"
    /\ segs = [i \in {1} |-> EmptySegment]
    /\ nextSeg = 2
    /\ doomed = <<>>
    /\ active = {}
    /\ frozen = <<>>
    /\ flushing = NoFlushing
    /\ ssts = <<>>
    /\ ckpt = 0
    /\ index = {}
    /\ acked = {}
    /\ promised = {}
    /\ hazards = {}
    /\ crashes = 0

-----------------------------------------------------------------------------
(* Engine::write_batch_ttl, convert_records, write_internal, delete_batch and   *)
(* delete_range:                                                              *)
(* sequence numbers are drawn before the batch is queued.                     *)

Allocate(w) ==
    /\ up
    /\ held[w] = <<>>
    /\ batches < MaxBatches
    /\ batches' = batches + 1
    /\ \E n \in BatchSizes, ttl \in Ttls :
        /\ held' = [held EXCEPT ![w] =
                        [i \in 1..n |-> [b |-> batches + 1, size |-> n,
                                         seq |-> seqCounter + i - 1,
                                         ttl |-> ttl]]]
        /\ seqCounter' = seqCounter + n
    /\ UNCHANGED <<up, queue, group, gpos, wpc, caller, active, frozen, flushing,
                   index, walvars, manvars, history>>

\* do_write hands the batch to WritePipeline::submit.
Enqueue(w) ==
    /\ up
    /\ held[w] # <<>>
    /\ w \notin Elems(queue) \cup Elems(group)
    /\ queue' = Append(queue, w)
    /\ UNCHANGED <<up, seqCounter, batches, held, group, gpos, wpc, caller,
                   active, frozen, flushing, index, walvars, manvars, history>>

-----------------------------------------------------------------------------
(* WriteWorker::process_batch_group *)

GroupRecords == UNION {Elems(held[w]) : w \in Elems(group)}

\* frozen_backpressure: with max_frozen memtables waiting, flushes come first.
Backpressure == Len(frozen) >= MaxFrozen

\* The leader takes the queue and the worker mutex.
GroupBegin ==
    /\ up
    /\ wpc = "free"
    /\ queue # <<>>
    /\ group' = queue
    /\ queue' = <<>>
    /\ gpos' = 1
    /\ caller' = IF Backpressure THEN "pressure" ELSE "group"
    /\ wpc' = IF Backpressure THEN "freeze" ELSE "write"
    /\ UNCHANGED <<up, seqCounter, batches, held, active, frozen, flushing,
                   index, walvars, manvars, history>>

\* Every submission of the group is answered r, the worker mutex is released.
AnswerGroup(r) ==
    /\ held' = [w \in Writers |-> IF w \in Elems(group) THEN <<>> ELSE held[w]]
    /\ group' = <<>>
    /\ gpos' = 1
    /\ wpc' = "free"
    /\ caller' = "other"
    /\ acked' = IF r = "ok" THEN acked \cup GroupRecords ELSE acked
    /\ promised' = IF r = "ok" /\ Always THEN promised \cup GroupRecords
                   ELSE promised

\* Hazards of an append.  "reorder": the batch is not newer than what the log
\* or the checkpoint already covers; "torn": it lands behind a torn record.
AppendHazards(recs) ==
    (IF \/ recs[1].seq <= ckpt
        \/ \E r \in WalRecords : recs[1].seq <= r.seq
     THEN {"reorder"} ELSE {})
    \cup
    (IF Torn \in Elems(TargetSegment.recs) THEN {"torn"} ELSE {})

\* process_batch_inner: WAL append, then memtable insert.
WriteNext ==
    /\ wpc = "write"
    /\ gpos <= Len(group)
    /\ LET recs == held[group[gpos]] IN
        /\ WriteEncoded(recs, recs[Len(recs)].seq)
        /\ active' = active \cup Elems(recs)
        /\ hazards' = hazards \cup AppendHazards(recs)
    /\ gpos' = gpos + 1
    /\ UNCHANGED <<up, seqCounter, batches, held, queue, group, wpc, caller,
                   frozen, flushing, index, doomed, manvars, acked, promised,
                   crashes>>

\* Wal::write_encoded fails: the group is answered with the error.  "ghost":
\* records of the failed batch are in the log but not in the memtable.
WriteFails ==
    /\ IoFaults
    /\ wpc = "write"
    /\ gpos <= Len(group)
    /\ LET recs == held[group[gpos]] IN
        /\ WriteEncodedFails(recs, recs[Len(recs)].seq)
        /\ hazards' = IF \E i \in DOMAIN segs' : recs[1] \in Elems(segs'[i].recs)
                      THEN hazards \cup {"ghost"} ELSE hazards
    /\ AnswerGroup("err")
    /\ UNCHANGED <<up, seqCounter, batches, queue, active, frozen, flushing,
                   index, doomed, manvars, crashes>>

\* All batches are written: one sync_all under SyncMode::Always.
GroupSync ==
    /\ wpc = "write"
    /\ gpos > Len(group)
    /\ segs' = IF Always THEN Synced(segs) ELSE segs
    /\ doomed' = IF Always THEN Unsettled ELSE doomed
    /\ wpc' = "decide"
    /\ UNCHANGED <<up, seqCounter, batches, held, queue, group, gpos, caller,
                   active, frozen, flushing, index, nextSeg, manvars, history>>

GroupSyncFails ==
    /\ IoFaults /\ Always
    /\ wpc = "write"
    /\ gpos > Len(group)
    /\ AnswerGroup("err")
    /\ UNCHANGED <<up, seqCounter, batches, queue, active, frozen, flushing,
                   index, walvars, manvars, hazards, crashes>>

\* The active memtable is below memtable_size_mb: the group is answered.
NoFlush ==
    /\ wpc = "decide"
    /\ AnswerGroup("ok")
    /\ UNCHANGED <<up, seqCounter, batches, queue, active, frozen, flushing,
                   index, walvars, manvars, hazards, crashes>>

\* The active memtable is full: the leader flushes before it answers.
GroupFlush ==
    /\ wpc = "decide"
    /\ wpc' = "freeze"
    /\ UNCHANGED <<up, seqCounter, batches, held, queue, group, gpos, caller,
                   active, frozen, flushing, index, walvars, manvars, history>>

-----------------------------------------------------------------------------
(* The other holders of the worker mutex *)

\* Engine::flush, close, shutdown, the maintenance thread's flush tick.
OtherFlush ==
    /\ up
    /\ wpc = "free"
    /\ wpc' = "freeze"
    /\ UNCHANGED <<up, seqCounter, batches, held, queue, group, gpos, caller,
                   active, frozen, flushing, index, walvars, manvars, history>>

\* The maintenance thread's WAL sync tick: from here on every batch answered
\* so far is promised.
SyncTick ==
    /\ up
    /\ wpc = "free"
    /\ segs' = Synced(segs)
    /\ doomed' = Unsettled
    /\ promised' = promised \cup acked
    /\ UNCHANGED <<up, seqCounter, batches, memvars, nextSeg, manvars, acked,
                   hazards, crashes>>

-----------------------------------------------------------------------------
(* WriteWorker::do_flush *)

\* do_flush returns r: to Engine::flush or the maintenance thread, to the
\* backpressure loop of the group, or as the last step of the group.
FlushReturns(r) ==
    /\ flushing' = NoFlushing
    /\ IF caller = "other"
       THEN /\ wpc' = "free"
            /\ UNCHANGED <<held, group, gpos, caller, acked, promised>>
       ELSE IF caller = "pressure" /\ r = "ok"
       THEN /\ caller' = IF Backpressure THEN "pressure" ELSE "group"
            /\ wpc' = IF Backpressure THEN "freeze" ELSE "write"
            /\ UNCHANGED <<held, group, gpos, acked, promised>>
       ELSE AnswerGroup(r)

\* MemTable::new()
NewTable == {}

\* MemTables::freeze
Freeze ==
    /\ wpc = "freeze"
    /\ frozen' = IF active = {} THEN frozen ELSE Append(frozen, active)
    /\ active' = NewTable
    /\ wpc' = "pop"
    /\ UNCHANGED <<up, seqCounter, batches, held, queue, group, gpos, caller,
                   flushing, index, walvars, manvars, history>>

\* MemTables::pop_frozen: the oldest frozen memtable leaves the read path.
PopFrozen ==
    /\ wpc = "pop"
    /\ frozen # <<>>
    /\ flushing' = [recs |-> frozen[1], id |-> 0]
    /\ frozen' = Tail(frozen)
    /\ wpc' = "sst"
    /\ UNCHANGED <<up, seqCounter, batches, held, queue, group, gpos, caller,
                   active, index, walvars, manvars, history>>

NothingFrozen ==
    /\ wpc = "pop"
    /\ frozen = <<>>
    /\ FlushReturns("ok")
    /\ UNCHANGED <<up, seqCounter, batches, queue, active, frozen, index,
                   walvars, manvars, hazards, crashes>>

\* Expired records are dropped; the rest is written to a temporary file under
\* the id next_sst_id() gave, fsynced and renamed, the directory is fsynced.
WriteSst ==
    /\ wpc = "sst"
    /\ \E expired \in SUBSET {r \in flushing.recs : r.ttl} :
        /\ expired # flushing.recs
        /\ flushing' = [recs |-> flushing.recs \ expired, id |-> MaxSstId + 1]
    /\ wpc' = "manifest"
    /\ UNCHANGED <<up, seqCounter, batches, held, queue, group, gpos, caller,
                   active, frozen, index, walvars, manvars, history>>

\* Every record of the memtable has expired: nothing to write.
AllExpired ==
    /\ wpc = "sst"
    /\ \A r \in flushing.recs : r.ttl
    /\ FlushReturns("ok")
    /\ UNCHANGED <<up, seqCounter, batches, queue, active, frozen, index,
                   walvars, manvars, hazards, crashes>>

\* ManifestEntry::Flush also raises last_flushed_seq.
AppendFlush ==
    /\ wpc = "manifest"
    /\ ssts' = [i \in DOMAIN ssts \cup {flushing.id} |->
                    IF i = flushing.id THEN flushing.recs ELSE ssts[i]]
    /\ ckpt' = Larger(ckpt, LastSeq(flushing.recs))
    /\ wpc' = "checkpoint"
    /\ UNCHANGED <<up, seqCounter, batches, held, queue, group, gpos, caller,
                   active, frozen, flushing, index, walvars, history>>

AppendCheckpoint ==
    /\ wpc = "checkpoint"
    /\ ckpt' = Larger(ckpt, LastSeq(flushing.recs))
    /\ wpc' = "index"
    /\ UNCHANGED <<up, seqCounter, batches, held, queue, group, gpos, caller,
                   active, frozen, flushing, index, walvars, ssts, history>>

\* BlockMetaIndex::add_sst: the records are back in the read path.
AddToIndex ==
    /\ wpc = "index"
    /\ index' = index \cup {flushing.id}
    /\ wpc' = "truncate"
    /\ UNCHANGED <<up, seqCounter, batches, held, queue, group, gpos, caller,
                   active, frozen, flushing, walvars, manvars, history>>

\* Wal::truncate_before(last_seq): outdated segments leave the Vec, a new
\* segment is created when none is left, the files are unlinked.  When the
\* new segment cannot be created the files stay and do_flush only warns.
TruncateWal ==
    LET gone == Outdated(LastSeq(flushing.recs))
        kept == DOMAIN segs \ gone
    IN
    /\ wpc = "truncate"
    /\ doomed' = [i \in DOMAIN doomed \cup gone |->
                    IF i \in gone THEN segs[i] ELSE doomed[i]]
    /\ \/ kept # {} /\ segs' = [i \in kept |-> segs[i]]
       \/ kept = {} /\ segs' = [i \in {nextSeg} |-> EmptySegment]
       \/ kept = {} /\ IoFaults /\ segs' = <<>>
    /\ nextSeg' = IF kept = {} THEN nextSeg + 1 ELSE nextSeg
    /\ wpc' = "resync"
    /\ UNCHANGED <<up, seqCounter, batches, held, queue, group, gpos, caller,
                   active, frozen, flushing, index, manvars, history>>

\* The closing sync_all makes the unlinks durable; a failure is only logged.
FlushSync ==
    /\ wpc = "resync"
    /\ \/ segs' = Synced(segs) /\ doomed' = Unsettled
       \/ IoFaults /\ UNCHANGED <<segs, doomed>>
    /\ FlushReturns("ok")
    /\ UNCHANGED <<up, seqCounter, batches, queue, active, frozen, index,
                   nextSeg, manvars, hazards, crashes>>

\* The SST cannot be written or the manifest not appended to: the popped
\* memtable is dropped with the error.
FlushFails ==
    /\ IoFaults
    /\ wpc \in {"sst", "manifest", "checkpoint"}
    /\ FlushReturns("err")
    /\ hazards' = hazards \cup {"flushfail"}
    /\ UNCHANGED <<up, seqCounter, batches, queue, active, frozen, index,
                   walvars, manvars, crashes>>

-----------------------------------------------------------------------------
(* Crash and Engine::open *)

\* What a crash may leave of a segment: at least the fsynced records, then a
\* clean cut or half a record.  Everything left is on disk from now on.
\* find_max_seq_in_segment checks no checksum: it counts half a record whose
\* header is there (head).
Left(seg, n, torn, head) ==
    LET recs == SubSeq(seg.recs, 1, n) \o (IF torn THEN <<Torn>> ELSE <<>>)
    IN  [recs |-> recs, synced |-> Len(recs), bytes |-> 0,
         max |-> LastSeq({seg.recs[i] : i \in 1..(IF head THEN n + 1 ELSE n)})]

Crash ==
    /\ up
    /\ crashes < MaxCrashes
    /\ crashes' = crashes + 1
    /\ up' = FALSE
    /\ \E back \in SUBSET DOMAIN doomed :
       LET files == [i \in DOMAIN segs \cup back |->
                        IF i \in back THEN doomed[i] ELSE segs[i]]
           lossy == {i \in DOMAIN files : files[i].synced < Len(files[i].recs)}
       IN  \E torn \in SUBSET (IF Tearing THEN lossy ELSE {}) :
           \E head \in SUBSET torn :
           \E n \in [lossy -> 0..MaxOf({Len(files[i].recs) : i \in lossy})] :
            /\ \A i \in lossy :
                /\ n[i] >= files[i].synced
                /\ n[i] <= Len(files[i].recs)
                /\ i \in torn => n[i] < Len(files[i].recs)
            /\ segs' = [i \in DOMAIN files |->
                            IF i \in lossy
                            THEN Left(files[i], n[i], i \in torn, i \in head)
                            ELSE Left(files[i], Len(files[i].recs), FALSE, FALSE)]
    /\ doomed' = <<>>
    /\ held' = [w \in Writers |-> <<>>]
    /\ queue' = <<>>
    /\ group' = <<>>
    /\ gpos' = 1
    /\ wpc' = "free"
    /\ caller' = "other"
    /\ active' = {}
    /\ frozen' = <<>>
    /\ flushing' = NoFlushing
    /\ index' = {}
    /\ acked' = {}
    /\ UNCHANGED <<seqCounter, batches, nextSeg, manvars, promised, hazards>>

\* Mutant: the id of the last segment is given out again.
SegmentIdReused == LastSegment

\* Wal::load_existing: the id behind the largest on disk.
SegmentIdAfterLoad == LastSegment + 1

\* Engine::open: the WAL is loaded and replayed behind the checkpoint, the
\* index rebuilt from the manifest, the counter restarted from the SST ids.
Open ==
    /\ ~up
    /\ up' = TRUE
    /\ segs' = IF DOMAIN segs = {} THEN [i \in {1} |-> EmptySegment] ELSE segs
    /\ nextSeg' = IF DOMAIN segs = {} THEN 2 ELSE SegmentIdAfterLoad
    /\ active' = Replayed(ckpt)
    /\ index' = DOMAIN ssts
    /\ seqCounter' = (MaxSstId + 1) * SeqStride
    /\ UNCHANGED <<batches, held, queue, group, gpos, wpc, caller, frozen,
                   flushing, doomed, manvars, history>>

-----------------------------------------------------------------------------
Writing == \E w \in Writers : Allocate(w) \/ Enqueue(w)

Grouping ==
    \/ GroupBegin \/ WriteNext \/ WriteFails \/ GroupSync \/ GroupSyncFails
    \/ NoFlush \/ GroupFlush

Flushing ==
    \/ Freeze \/ PopFrozen \/ NothingFrozen \/ WriteSst \/ AllExpired
    \/ AppendFlush \/ AppendCheckpoint \/ AddToIndex \/ TruncateWal
    \/ FlushSync \/ FlushFails

Next ==
    \/ Writing \/ Grouping \/ OtherFlush \/ SyncTick \/ Flushing
    \/ Crash \/ Open

Spec == Init /\ [][Next]_vars

-----------------------------------------------------------------------------
(* Properties *)

Locations == {"free", "write", "decide", "freeze", "pop", "sst", "manifest",
              "checkpoint", "index", "truncate", "resync"}

Segments == [recs : Seq(Records \cup {Torn}), synced : Nat, bytes : Nat,
             max : Nat]

TypeOK ==
    /\ up \in BOOLEAN
    /\ seqCounter \in Nat
    /\ batches \in 0..MaxBatches
    /\ held \in [Writers -> Seq(Records)]
    /\ queue \in Seq(Writers) /\ group \in Seq(Writers)
    /\ gpos \in Nat \ {0}
    /\ wpc \in Locations
    /\ caller \in {"group", "pressure", "other"}
    /\ nextSeg \in Nat
    /\ DOMAIN segs \subseteq Nat
    /\ \A i \in DOMAIN segs :
        /\ segs[i] \in Segments
        /\ segs[i].synced <= Len(segs[i].recs)
        /\ up => i < nextSeg
    /\ DOMAIN doomed \subseteq Nat
    /\ \A i \in DOMAIN doomed : doomed[i] \in Segments
    /\ active \subseteq Records
    /\ frozen \in Seq(SUBSET Records)
    /\ flushing \in [recs : SUBSET Records, id : Nat]
    /\ DOMAIN ssts \subseteq Nat
    /\ \A i \in DOMAIN ssts : ssts[i] \subseteq Records
    /\ ckpt \in Nat
    /\ index \subseteq Nat
    /\ acked \subseteq Records /\ promised \subseteq Records
    /\ hazards \subseteq {"reorder", "torn", "flushfail", "ghost"}
    /\ crashes \in 0..MaxCrashes

InSst(r) == \E i \in DOMAIN ssts : r \in ssts[i]

\* Engine::open after a crash at this point would have the record: it is in an
\* SST of the manifest, or in the fsynced WAL and newer than the checkpoint.
Recoverable(r) ==
    \/ InSst(r)
    \/ r.seq > ckpt /\ \E i \in DOMAIN segs : r \in OnDisk(segs[i])

\* A read at this point would find the record.
Visible(r) ==
    \/ r \in active
    \/ \E i \in 1..Len(frozen) : r \in frozen[i]
    \/ \E i \in index : i \in DOMAIN ssts /\ r \in ssts[i]

Lasting(R) == {r \in R : ~r.ttl}

\* Nothing worse has struck than a failed batch that stayed in the log.
Benign == hazards \subseteq {"ghost"}

\* WAL, flush, checkpoint, truncation and recovery together: as long as no
\* batch was appended out of sequence order or behind a torn record and no
\* flush failed, every promised record survives a crash at any point, through
\* any number of restarts, segment rollovers and flushes.
PromisedIsRecoverable ==
    Benign => \A r \in Lasting(promised) : Recoverable(r)

\* The read path under the same conditions: a promised record is found in a
\* memtable or an indexed SST of the open engine, except while do_flush holds
\* it between pop_frozen and add_sst.
PromisedIsVisible ==
    Benign /\ up =>
        \A r \in Lasting(promised) : Visible(r) \/ r \in flushing.recs

\* While the worker is free, the active memtable is what replay_from would
\* rebuild: a restart that loses no byte restores the memory exactly, up to
\* expired records the last flush dropped and the log still has (and, once a
\* write failed after its records reached the log, up to those).
RestartRestoresMemory ==
    hazards = {} /\ up /\ wpc = "free" =>
        /\ active \subseteq Replayed(ckpt)
        /\ Lasting(Replayed(ckpt)) \subseteq active

\* The same promise without the conditions: "recovers by replaying the WAL
\* from the last flushed sequence number" (Engine::open).
PromisedSurvives == \A r \in Lasting(promised) : Recoverable(r)
=============================================================================
