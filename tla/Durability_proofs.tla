--------------------------- MODULE Durability_proofs --------------------------
(***************************************************************************)
(* Proofs about the durability core: types and the control state; what was *)
(* promised is recoverable and visible, and a restart rebuilds the memory, *)
(* for any number of writers, batches, segments, flushes, crashes and I/O  *)
(* faults.                                                                 *)
(***************************************************************************)
EXTENDS Durability, NatFacts, SequenceTheorems

-----------------------------------------------------------------------------
(* Types *)

\* A batch that is waiting or being written has records, with consecutive
\* sequence numbers; nobody is in the queue and in the group.
WritersOK ==
    /\ held \in [Writers -> Seq(Records)]
    /\ queue \in Seq(Writers) /\ group \in Seq(Writers)
    /\ gpos \in Nat \ {0}
    /\ \A w \in Writers : \A i \in 1..Len(held[w]) :
            held[w][i].seq = held[w][1].seq + i - 1
    /\ \A i \in 1..Len(queue) : held[queue[i]] # <<>>
    /\ \A i \in 1..Len(group) : held[group[i]] # <<>>
    /\ \A i \in 1..Len(queue), j \in 1..Len(group) : queue[i] # group[j]

\* Who holds the worker mutex, and what it has in hand.
ControlOK ==
    /\ up \in BOOLEAN
    /\ wpc \in Locations
    /\ caller \in {"group", "other"}
    /\ caller = "other" => group = <<>>
    /\ wpc = "free" => caller = "other"
    /\ wpc \in {"write", "decide"} => caller = "group"
    /\ wpc # "write" => gpos > Len(group)
    /\ ~up => wpc = "free" /\ queue = <<>> /\ \A w \in Writers : held[w] = <<>>

\* The memtables: only do_flush has one that is not active, and no other.
MemoryOK ==
    /\ active \subseteq Records
    /\ frozen \in Seq(SUBSET Records)
    /\ flushing \in [recs : SUBSET Records, id : Nat]
    /\ wpc # "pop" => frozen = <<>>
    /\ wpc = "pop" => Len(frozen) <= 1
    /\ wpc \notin {"free", "write", "decide", "freeze"} => active = {}
    /\ wpc \in {"free", "write", "decide", "freeze", "pop"} => flushing = NoFlushing

SegmentOK(seg) == seg \in Segments /\ seg.synced <= Len(seg.recs)

\* Segment ids are given out once between two restarts.
WalOK ==
    /\ nextSeg \in Nat
    /\ DOMAIN segs \subseteq Nat /\ DOMAIN doomed \subseteq Nat
    /\ \A i \in DOMAIN segs : SegmentOK(segs[i]) /\ (up => i < nextSeg)
    /\ \A i \in DOMAIN doomed : SegmentOK(doomed[i]) /\ i < nextSeg
    /\ DOMAIN segs \cap DOMAIN doomed = {}
    /\ ~up => DOMAIN doomed = {}

ManifestOK ==
    /\ DOMAIN ssts \subseteq Nat
    /\ \A i \in DOMAIN ssts : ssts[i] \subseteq Records
    /\ ckpt \in Nat
    /\ index \subseteq Nat

HistoryOK ==
    /\ seqCounter \in Nat
    /\ batches \in 0..MaxBatches
    /\ acked \subseteq Records /\ promised \subseteq Records
    /\ hazards \subseteq {"reorder", "torn", "flushfail", "ghost"}
    /\ crashes \in 0..MaxCrashes

\* The record is in a memtable.
InMem(r) ==
    \/ r \in active
    \/ \E i \in 1..Len(frozen) : r \in frozen[i]
    \/ r \in flushing.recs

\* Every set the code takes a maximum of has one.
SegmentBound(seg, n) ==
    Len(seg.recs) <= n /\ \A k \in 1..Len(seg.recs) : seg.recs[k].seq <= n

MemoryBounded == \E n \in Nat : \A r \in Records : InMem(r) => r.seq <= n

WalBounded ==
    \E n \in Nat :
        /\ \A i \in DOMAIN segs : i <= n /\ SegmentBound(segs[i], n)
        /\ \A i \in DOMAIN doomed : i <= n /\ SegmentBound(doomed[i], n)

ManifestBounded == \E n \in Nat : \A i \in DOMAIN ssts : i <= n

Bounded == MemoryBounded /\ WalBounded /\ ManifestBounded

TypeInv ==
    /\ WritersOK /\ ControlOK /\ MemoryOK /\ WalOK /\ ManifestOK /\ HistoryOK
    /\ Bounded

-----------------------------------------------------------------------------
(* Maxima *)

\* MaxOf returns the largest element of a set of naturals that has a bound.
LEMMA MaxOfFacts ==
    ASSUME NEW S \in SUBSET Nat, NEW n \in Nat, \A x \in S : x <= n
    PROVE  /\ MaxOf(S) \in Nat /\ MaxOf(S) <= n
           /\ \A x \in S : x <= MaxOf(S)
           /\ S # {} => MaxOf(S) \in S
  <1>1. CASE S = {}
    BY <1>1 DEF MaxOf
  <1>2. CASE S # {}
    <2>1. \E m \in S : \A x \in S : x <= m
      BY <1>2, GreatestNatural
    <2> QED
      BY <1>2, <2>1 DEF MaxOf
  <1> QED
    BY <1>1, <1>2

\* last_seq of do_flush is at least every sequence number of the memtable.
LEMMA LastSeqFacts ==
    ASSUME NEW R, \A r \in R : r.seq \in Nat, NEW n \in Nat, \A r \in R : r.seq <= n
    PROVE  LastSeq(R) \in Nat /\ LastSeq(R) <= n /\ \A r \in R : r.seq <= LastSeq(R)
  <1> DEFINE S == {r.seq : r \in R}
  <1>1. S \in SUBSET Nat /\ (\A x \in S : x <= n) /\ \A r \in R : r.seq \in S
    OBVIOUS
  <1>2. LastSeq(R) = MaxOf(S)
    BY DEF LastSeq
  <1> HIDE DEF S
  <1> QED
    BY <1>1, <1>2, MaxOfFacts

-----------------------------------------------------------------------------
(* The log *)

LogEntries == Records \cup {Torn}

\* What a segment held stays where it was.
Extends(s, t) ==
    /\ Len(s.recs) <= Len(t.recs)
    /\ \A k \in 1..Len(s.recs) : t.recs[k] = s.recs[k]
    /\ s.synced <= t.synced /\ s.max <= t.max

LEMMA EmptySegmentOK == SegmentOK(EmptySegment) /\ \A n \in Nat : SegmentBound(EmptySegment, n)
  <1>1. <<>> \in Seq(LogEntries) /\ Len(<<>>) = 0
    OBVIOUS
  <1> QED
    BY <1>1 DEF SegmentOK, Segments, EmptySegment, SegmentBound, LogEntries

LEMMA SegmentFacts ==
    ASSUME NEW seg, SegmentOK(seg)
    PROVE  /\ seg.recs \in Seq(LogEntries) /\ Len(seg.recs) \in Nat
           /\ seg.synced \in Nat /\ seg.bytes \in Nat /\ seg.max \in Nat
           /\ seg.synced <= Len(seg.recs)
           /\ \A k \in 1..Len(seg.recs) : seg.recs[k] \in LogEntries /\ seg.recs[k].seq \in Nat
  <1>1. seg.recs \in Seq(LogEntries) /\ seg.synced \in Nat /\ seg.bytes \in Nat
          /\ seg.max \in Nat /\ seg.synced <= Len(seg.recs)
    BY DEF SegmentOK, Segments, LogEntries
  <1>2. Len(seg.recs) \in Nat /\ \A k \in 1..Len(seg.recs) : seg.recs[k] \in LogEntries
    BY <1>1, LenProperties, ElementOfSeq
  <1>3. \A e \in LogEntries : e.seq \in Nat
    BY DEF LogEntries, Records, Torn
  <1> QED
    BY <1>1, <1>2, <1>3

\* A larger bound is one too.
LEMMA BoundGrows ==
    ASSUME NEW seg, SegmentOK(seg), NEW m \in Nat, NEW n \in Nat, m <= n,
           SegmentBound(seg, m)
    PROVE  SegmentBound(seg, n)
  <1>1. Len(seg.recs) \in Nat /\ \A k \in 1..Len(seg.recs) : seg.recs[k].seq \in Nat
    BY SegmentFacts
  <1> QED
    BY <1>1 DEF SegmentBound

\* The segment that the next batch goes to, and the id after it.
LEMMA TargetFacts ==
    ASSUME TypeInv, up
    PROVE  /\ Target \in Nat /\ NextId \in Nat /\ Target < NextId
           /\ SegmentOK(TargetSegment)
           /\ Target \notin DOMAIN doomed
           /\ NextId \notin DOMAIN segs /\ NextId \notin DOMAIN doomed
           /\ \A i \in DOMAIN segs \cup DOMAIN doomed : i < NextId
           /\ DOMAIN segs # {} => Target \in DOMAIN segs /\ TargetSegment = segs[Target]
           /\ DOMAIN segs = {} => Target \notin DOMAIN segs /\ TargetSegment = EmptySegment
           /\ \E m \in Nat : SegmentBound(TargetSegment, m)
  <1>1. PICK n \in Nat : /\ \A i \in DOMAIN segs : i <= n /\ SegmentBound(segs[i], n)
                         /\ \A i \in DOMAIN doomed : i <= n /\ SegmentBound(doomed[i], n)
    BY DEF TypeInv, Bounded, WalBounded
  <1>2. /\ nextSeg \in Nat /\ DOMAIN segs \in SUBSET Nat /\ DOMAIN doomed \in SUBSET Nat
        /\ \A i \in DOMAIN segs : SegmentOK(segs[i]) /\ i < nextSeg
        /\ \A i \in DOMAIN doomed : i < nextSeg
        /\ DOMAIN segs \cap DOMAIN doomed = {}
    BY DEF TypeInv, WalOK
  <1>3. CASE DOMAIN segs = {}
    <2>1. Target = nextSeg /\ NextId = nextSeg + 1 /\ TargetSegment = EmptySegment
      BY <1>3 DEF Target, NextId, TargetSegment
    <2> QED
      BY <1>2, <1>3, <2>1, EmptySegmentOK
  <1>4. CASE DOMAIN segs # {}
    <2>1. LastSegment \in DOMAIN segs
      BY <1>1, <1>2, <1>4, MaxOfFacts DEF LastSegment
    <2>2. Target = LastSegment /\ NextId = nextSeg /\ TargetSegment = segs[LastSegment]
      BY <1>4 DEF Target, NextId, TargetSegment
    <2> HIDE DEF LastSegment
    <2> QED
      BY <1>1, <1>2, <1>4, <2>1, <2>2
  <1> QED
    BY <1>3, <1>4

\* The log with the given segment in the place of the target, and possibly an
\* empty one behind it.
Grown(seg) ==
    \/ segs' = WithTarget(seg) /\ nextSeg' \in {NextId, NextId + 1}
    \/ /\ segs' = [i \in DOMAIN segs \cup {Target, NextId} |->
                        IF i = NextId THEN EmptySegment ELSE WithTarget(seg)[i]]
       /\ nextSeg' = NextId + 1

LEMMA GrownFacts ==
    ASSUME TypeInv, up, NEW seg, SegmentOK(seg), Extends(TargetSegment, seg), Grown(seg)
    PROVE  /\ Target \in DOMAIN segs' /\ segs'[Target] = seg
           /\ \A i \in DOMAIN segs : i \in DOMAIN segs' /\ Extends(segs[i], segs'[i])
           /\ \A i \in DOMAIN segs' : \/ i = Target
                                      \/ i \in DOMAIN segs /\ segs'[i] = segs[i]
                                      \/ i = NextId /\ segs'[i] = EmptySegment
  <1>1. /\ Target \in Nat /\ NextId \in Nat /\ Target < NextId /\ NextId \notin DOMAIN segs
        /\ DOMAIN segs # {} => Target \in DOMAIN segs /\ TargetSegment = segs[Target]
    BY TargetFacts
  <1>2. /\ DOMAIN WithTarget(seg) = DOMAIN segs \cup {Target}
        /\ WithTarget(seg)[Target] = seg
        /\ \A i \in DOMAIN segs : i # Target => WithTarget(seg)[i] = segs[i]
    BY DEF WithTarget
  <1>3. /\ Target \in DOMAIN segs' /\ segs'[Target] = seg
        /\ \A i \in DOMAIN segs : i \in DOMAIN segs' /\ (i # Target => segs'[i] = segs[i])
        /\ \A i \in DOMAIN segs' : \/ i = Target
                                   \/ i \in DOMAIN segs /\ segs'[i] = segs[i]
                                   \/ i = NextId /\ segs'[i] = EmptySegment
    <2> HIDE DEF Target, NextId
    <2> QED BY <1>1, <1>2 DEF Grown
  <1>4. \A i \in DOMAIN segs : Extends(segs[i], segs[i])
    BY SegmentFacts DEF TypeInv, WalOK, Extends
  <1>5. \A i \in DOMAIN segs : Extends(segs[i], segs'[i])
    <2> HIDE DEF Target, NextId
    <2> QED BY <1>1, <1>3, <1>4
  <1> QED
    BY <1>3, <1>5

LEMMA GrownOK ==
    ASSUME TypeInv, up, up' = up, doomed' = doomed,
           NEW seg, SegmentOK(seg), Extends(TargetSegment, seg), Grown(seg),
           NEW m \in Nat, SegmentBound(seg, m)
    PROVE  WalOK' /\ WalBounded'
  <1>1. /\ Target \in DOMAIN segs' /\ segs'[Target] = seg
        /\ \A i \in DOMAIN segs' : \/ i = Target
                                   \/ i \in DOMAIN segs /\ segs'[i] = segs[i]
                                   \/ i = NextId /\ segs'[i] = EmptySegment
    BY GrownFacts
  <1>2. /\ Target \in Nat /\ NextId \in Nat /\ Target < NextId
        /\ Target \notin DOMAIN doomed /\ NextId \notin DOMAIN doomed
        /\ \A i \in DOMAIN segs \cup DOMAIN doomed : i < NextId
    BY TargetFacts
  <1>3. /\ nextSeg' \in {NextId, NextId + 1}
        /\ NextId \in DOMAIN segs' => nextSeg' = NextId + 1
    <2>1. NextId \notin DOMAIN segs /\ NextId # Target
      BY TargetFacts
    <2> HIDE DEF Target, NextId
    <2> QED BY <2>1 DEF Grown, WithTarget
  <1>4. /\ DOMAIN segs \subseteq Nat /\ DOMAIN doomed \subseteq Nat
        /\ \A i \in DOMAIN segs : SegmentOK(segs[i])
        /\ \A i \in DOMAIN doomed : SegmentOK(doomed[i])
        /\ DOMAIN segs \cap DOMAIN doomed = {}
    BY DEF TypeInv, WalOK
  <1> HIDE DEF Target, NextId
  <1>5. WalOK'
    <2>1. nextSeg' \in Nat /\ DOMAIN segs' \subseteq Nat /\ DOMAIN segs' \cap DOMAIN doomed' = {}
      BY <1>1, <1>2, <1>3, <1>4
    <2>2. \A i \in DOMAIN segs' : SegmentOK(segs'[i])
      BY <1>1, <1>4, EmptySegmentOK
    <2>3. \A i \in DOMAIN segs' : i < nextSeg'
      BY <1>1, <1>2, <1>3, <1>4
    <2>4. \A i \in DOMAIN doomed : i < nextSeg'
      BY <1>2, <1>3, <1>4
    <2> QED BY <1>4, <2>1, <2>2, <2>3, <2>4 DEF WalOK
  <1>6. WalBounded'
    <2>1. PICK n \in Nat : /\ \A i \in DOMAIN segs : i <= n /\ SegmentBound(segs[i], n)
                           /\ \A i \in DOMAIN doomed : i <= n /\ SegmentBound(doomed[i], n)
      BY DEF TypeInv, Bounded, WalBounded
    <2>2. PICK b \in Nat : b = n + m + NextId
      BY <1>2
    <2>3. /\ \A i \in DOMAIN segs : i <= b /\ SegmentBound(segs[i], b)
          /\ \A i \in DOMAIN doomed : i <= b /\ SegmentBound(doomed[i], b)
      BY <1>2, <1>4, <2>1, <2>2, BoundGrows
    <2>4. SegmentBound(seg, b)
      BY <1>2, <2>2, BoundGrows
    <2>5. \A i \in DOMAIN segs' : i <= b /\ SegmentBound(segs'[i], b)
      BY <1>1, <1>2, <2>2, <2>3, <2>4, EmptySegmentOK
    <2> QED BY <2>3, <2>5 DEF WalBounded
  <1> QED
    BY <1>5, <1>6

\* A batch that is in somebody's hands.
LEMMA BatchFacts ==
    ASSUME TypeInv, NEW w \in Writers, held[w] # <<>>
    PROVE  /\ held[w] \in Seq(Records) /\ Len(held[w]) \in Nat \ {0}
           /\ held[w][Len(held[w])].seq \in Nat
           /\ \A k \in 1..Len(held[w]) :
                /\ held[w][k] \in Records /\ held[w][k] # Torn
                /\ held[w][k].seq \in Nat
                /\ held[w][1].seq <= held[w][k].seq
                /\ held[w][k].seq <= held[w][Len(held[w])].seq
  <1>1. PICK recs \in Seq(Records) : recs = held[w]
    BY DEF TypeInv, WritersOK
  <1>2. Len(recs) \in Nat \ {0} /\ \A k \in 1..Len(recs) : recs[k] \in Records
    BY <1>1, EmptySeq, ElementOfSeq
  <1>3. \A k \in 1..Len(recs) : recs[k].seq \in Nat /\ recs[k] # Torn
    BY <1>2 DEF Records, Torn
  <1>4. \A k \in 1..Len(recs) : recs[k].seq = recs[1].seq + k - 1
    BY <1>1 DEF TypeInv, WritersOK
  <1>5. 1 \in 1..Len(recs) /\ Len(recs) \in 1..Len(recs)
    BY <1>2
  <1>6. \A k \in 1..Len(recs) : recs[1].seq <= recs[k].seq /\ recs[k].seq <= recs[Len(recs)].seq
    BY <1>2, <1>3, <1>4, <1>5
  <1> QED
    BY <1>1, <1>2, <1>3, <1>5, <1>6

LEMMA JoinAssociative ==
    \A s, t, u \in Seq(LogEntries) : (s \o t) \o u = s \o (t \o u)
  <1> SUFFICES ASSUME NEW s \in Seq(LogEntries), NEW t \in Seq(LogEntries),
                      NEW u \in Seq(LogEntries)
               PROVE  (s \o t) \o u = s \o (t \o u)
    OBVIOUS
  <1> QED
    BY ConcatAssociative

\* A segment with entries added behind what it holds.
LEMMA LongerSegment ==
    ASSUME NEW seg, SegmentOK(seg), NEW more \in Seq(LogEntries),
           NEW b \in Nat, SegmentBound(seg, b), NEW n \in Nat,
           \A k \in 1..Len(more) : more[k].seq <= n,
           NEW new \in Segments, new.recs = seg.recs \o more,
           new.synced = seg.synced, seg.max <= new.max
    PROVE  /\ SegmentOK(new) /\ Extends(seg, new)
           /\ Len(new.recs) = Len(seg.recs) + Len(more)
           /\ \A k \in 1..Len(more) : new.recs[Len(seg.recs) + k] = more[k]
           /\ \A k \in 1..Len(new.recs) : k > Len(seg.recs) =>
                k - Len(seg.recs) \in 1..Len(more) /\ new.recs[k] = more[k - Len(seg.recs)]
           /\ \E m \in Nat : SegmentBound(new, m)
  <1>1. /\ seg.recs \in Seq(LogEntries) /\ Len(seg.recs) \in Nat
        /\ seg.synced \in Nat /\ seg.synced <= Len(seg.recs) /\ seg.max \in Nat
        /\ \A k \in 1..Len(seg.recs) : seg.recs[k].seq \in Nat
    BY SegmentFacts
  <1>2. Len(more) \in Nat /\ \A k \in 1..Len(more) : more[k].seq \in Nat
    <2>1. \A e \in LogEntries : e.seq \in Nat
      BY DEF LogEntries, Records, Torn
    <2> QED BY <2>1, LenProperties, ElementOfSeq
  <1>3. PICK x \in Nat : x = Len(seg.recs)
    BY <1>1
  <1>4. PICK y \in Nat : y = Len(more)
    BY <1>2
  <1>5. PICK old : old = seg.recs
    OBVIOUS
  <1>6. PICK all : all = new.recs
    OBVIOUS
  <1>7. /\ all \in Seq(LogEntries) /\ Len(all) = x + y
        /\ \A i \in 1..(x + y) : all[i] = IF i <= x THEN old[i] ELSE more[i - x]
    BY <1>1, <1>3, <1>4, <1>5, <1>6, ConcatProperties
  <1>8. \A k \in 1..x : all[k] = old[k]
    BY <1>7
  <1>9. ASSUME NEW k \in 1..y PROVE all[x + k] = more[k]
    <2>1. x + k \in 1..(x + y) /\ ~(x + k <= x) /\ (x + k) - x = k
      OBVIOUS
    <2> QED BY <1>7, <2>1
  <1>10. \A k \in 1..(x + y) : k > x => k - x \in 1..y /\ all[k] = more[k - x]
    BY <1>7
  <1>11. SegmentOK(new) /\ Extends(seg, new)
    <2>1. x <= x + y
      OBVIOUS
    <2> QED BY <1>1, <1>3, <1>5, <1>6, <1>7, <1>8, <2>1 DEF Extends, SegmentOK
  <1>12. \E m \in Nat : SegmentBound(new, m)
    <2>1. \A k \in 1..(x + y) : all[k].seq \in Nat /\ (all[k].seq <= b \/ all[k].seq <= n)
      <3>1. \A k \in 1..x : old[k].seq \in Nat /\ old[k].seq <= b
        BY <1>1, <1>3, <1>5 DEF SegmentBound
      <3>2. \A k \in 1..y : more[k].seq \in Nat /\ more[k].seq <= n
        BY <1>2, <1>4
      <3>3. ASSUME NEW k \in 1..(x + y)
            PROVE  all[k].seq \in Nat /\ (all[k].seq <= b \/ all[k].seq <= n)
        <4>1. CASE k <= x
          <5>1. k \in 1..x
            BY <4>1
          <5> QED BY <1>8, <3>1, <5>1
        <4>2. CASE k > x
          BY <1>10, <3>2, <4>2
        <4> QED BY <4>1, <4>2
      <3> QED BY <3>3
    <2>2. PICK m \in Nat : m = b + n + x + y
      OBVIOUS
    <2>3. \A v \in Nat : v <= b \/ v <= n => v <= m
      BY <2>2
    <2>4. x + y <= m
      BY <2>2
    <2>5. SegmentBound(new, m)
      BY <1>6, <1>7, <2>1, <2>3, <2>4 DEF SegmentBound
    <2> QED BY <2>5
  <1> QED
    BY <1>3, <1>4, <1>6, <1>7, <1>9, <1>10, <1>11, <1>12

\* Wal::write_encoded of a whole batch.
LEMMA AppendedFacts ==
    ASSUME TypeInv, up, NEW w \in Writers, held[w] # <<>>,
           NEW new, new = Appended(TargetSegment, held[w], held[w][Len(held[w])].seq)
    PROVE  /\ SegmentOK(new) /\ Extends(TargetSegment, new)
           /\ Len(new.recs) = Len(TargetSegment.recs) + Len(held[w])
           /\ \A k \in 1..Len(held[w]) : new.recs[Len(TargetSegment.recs) + k] = held[w][k]
           /\ \A k \in 1..Len(new.recs) : k > Len(TargetSegment.recs) =>
                /\ k - Len(TargetSegment.recs) \in 1..Len(held[w])
                /\ new.recs[k] = held[w][k - Len(TargetSegment.recs)]
           /\ new.synced = TargetSegment.synced
           /\ held[w][Len(held[w])].seq <= new.max
           /\ \E m \in Nat : SegmentBound(new, m)
  <1>1. PICK seg : seg = TargetSegment
    OBVIOUS
  <1>2. PICK recs : recs = held[w]
    OBVIOUS
  <1>3. PICK n : n = recs[Len(recs)].seq
    OBVIOUS
  <1>4. /\ recs \in Seq(Records) /\ n \in Nat /\ Len(recs) \in Nat
        /\ \A k \in 1..Len(recs) : recs[k].seq <= n
    BY <1>2, <1>3, BatchFacts
  <1>5. recs \in Seq(LogEntries)
    BY <1>4 DEF LogEntries
  <1>6. SegmentOK(seg) /\ \E b \in Nat : SegmentBound(seg, b)
    BY <1>1, TargetFacts
  <1>7. seg \in Segments /\ seg.bytes \in Nat /\ seg.max \in Nat
    BY <1>6 DEF SegmentOK, Segments
  <1>8. new = [seg EXCEPT !.recs = seg.recs \o recs, !.bytes = seg.bytes + Len(recs),
                          !.max = Larger(seg.max, n)]
    BY <1>1, <1>2, <1>3 DEF Appended
  <1>9. Larger(seg.max, n) \in Nat /\ seg.max <= Larger(seg.max, n) /\ n <= Larger(seg.max, n)
    BY <1>4, <1>7 DEF Larger
  <1>10. new = [recs |-> seg.recs \o recs, synced |-> seg.synced,
                bytes |-> seg.bytes + Len(recs), max |-> Larger(seg.max, n)]
    BY <1>7, <1>8 DEF Segments
  <1>11. /\ new.recs = seg.recs \o recs /\ new.synced = seg.synced
         /\ new.max = Larger(seg.max, n) /\ new \in Segments
    <2>1. seg.recs \o recs \in Seq(LogEntries)
      BY <1>5, <1>6, SegmentFacts, ConcatProperties
    <2>2. seg.synced \in Nat /\ seg.bytes + Len(recs) \in Nat
      BY <1>4, <1>6, <1>7, SegmentFacts
    <2> QED BY <1>9, <1>10, <2>1, <2>2 DEF Segments, LogEntries
  <1>12. /\ SegmentOK(new) /\ Extends(seg, new)
         /\ Len(new.recs) = Len(seg.recs) + Len(recs)
         /\ \A k \in 1..Len(recs) : new.recs[Len(seg.recs) + k] = recs[k]
         /\ \A k \in 1..Len(new.recs) : k > Len(seg.recs) =>
                k - Len(seg.recs) \in 1..Len(recs) /\ new.recs[k] = recs[k - Len(seg.recs)]
         /\ \E m \in Nat : SegmentBound(new, m)
    <2>1. PICK b \in Nat : SegmentBound(seg, b)
      BY <1>6
    <2>2. seg.max <= new.max
      BY <1>9, <1>11
    <2> HIDE DEF LogEntries, Segments, SegmentOK, Extends, SegmentBound
    <2> QED BY <1>4, <1>5, <1>6, <1>11, <2>1, <2>2, LongerSegment, ZenonT(60)
  <1> QED
    BY <1>1, <1>2, <1>3, <1>9, <1>11, <1>12

LEMMA WriteEncodedGrows ==
    ASSUME NEW recs, NEW n, WriteEncoded(recs, n)
    PROVE  Grown(Appended(TargetSegment, recs, n))
  BY DEF WriteEncoded, Grown

\* A failed write leaves the log as it was, or the target with a part of the
\* batch, or all of it, behind what it held.
LEMMA WriteEncodedFailsGrows ==
    ASSUME TypeInv, up, NEW w \in Writers, held[w] # <<>>,
           WriteEncodedFails(held[w], held[w][Len(held[w])].seq)
    PROVE  \/ segs' = segs /\ nextSeg' = nextSeg + 1
           \/ \E new : /\ SegmentOK(new) /\ Extends(TargetSegment, new) /\ Grown(new)
                       /\ \E m \in Nat : SegmentBound(new, m)
                       /\ \/ new.recs = TargetSegment.recs
                          \/ new.recs = TargetSegment.recs \o <<Torn>>
                          \/ /\ Len(new.recs) > Len(TargetSegment.recs)
                             /\ new.recs[Len(TargetSegment.recs) + 1] = held[w][1]
  <1>1. PICK seg : seg = TargetSegment
    OBVIOUS
  <1>2. PICK recs : recs = held[w]
    OBVIOUS
  <1>3. PICK last : last = recs[Len(recs)].seq
    OBVIOUS
  <1>4. /\ recs \in Seq(Records) /\ last \in Nat /\ Len(recs) \in Nat \ {0}
        /\ \A k \in 1..Len(recs) : recs[k] \in Records /\ recs[k].seq <= last
    BY <1>2, <1>3, BatchFacts
  <1>5. SegmentOK(seg) /\ \E b \in Nat : SegmentBound(seg, b)
    BY <1>1, TargetFacts
  <1>6. seg \in Segments /\ seg.bytes \in Nat /\ seg.max \in Nat /\ seg.recs \in Seq(LogEntries)
          /\ Len(seg.recs) \in Nat
    BY <1>5, SegmentFacts DEF SegmentOK, Segments
  <1>7. CASE segs' = segs /\ nextSeg' = nextSeg + 1
    BY <1>7
  <1>8. ASSUME NEW n \in 0..(Len(recs) - 1), NEW torn \in BOOLEAN,
               segs' = WithTarget([seg EXCEPT !.recs = @ \o SubSeq(recs, 1, n)
                                     \o (IF torn THEN <<Torn>> ELSE <<>>)]),
               nextSeg' = NextId
        PROVE  \E new : /\ SegmentOK(new) /\ Extends(seg, new) /\ Grown(new)
                        /\ \E m \in Nat : SegmentBound(new, m)
                        /\ \/ new.recs = seg.recs
                           \/ new.recs = seg.recs \o <<Torn>>
                           \/ /\ Len(new.recs) > Len(seg.recs)
                              /\ new.recs[Len(seg.recs) + 1] = recs[1]
    <2>1. PICK tail : tail = IF torn THEN <<Torn>> ELSE <<>>
      OBVIOUS
    <2>2. tail \in Seq(LogEntries) /\ Len(tail) \in Nat
            /\ \A k \in 1..Len(tail) : tail[k].seq <= last
      <3>1. Torn \in LogEntries /\ Torn.seq = 0
        BY DEF LogEntries, Torn
      <3>2. CASE torn
        <4>1. tail = <<Torn>>
          BY <2>1, <3>2
        <4>2. tail \in Seq(LogEntries) /\ Len(tail) = 1 /\ tail[1] = Torn
          BY <3>1, <4>1
        <4> QED BY <1>4, <3>1, <4>2
      <3>3. CASE ~torn
        BY <2>1, <3>3
      <3> QED BY <3>2, <3>3
    <2>3. PICK part : part = SubSeq(recs, 1, n)
      OBVIOUS
    <2>4. /\ part \in Seq(LogEntries) /\ Len(part) = n
          /\ \A k \in 1..n : part[k] = recs[k]
      <3>1. \A i \in 1..n : recs[i] \in LogEntries
        BY <1>4 DEF LogEntries
      <3> QED BY <1>4, <2>3, <3>1, SubSeqProperties
    <2>5. PICK more : more = part \o tail
      OBVIOUS
    <2>6. /\ more \in Seq(LogEntries) /\ Len(more) = n + Len(tail)
          /\ \A i \in 1..(n + Len(tail)) : more[i] = IF i <= n THEN part[i] ELSE tail[i - n]
      BY <2>2, <2>4, <2>5, ConcatProperties
    <2>7. PICK new : new = [seg EXCEPT !.recs = seg.recs \o more]
      OBVIOUS
    <2>8. (seg.recs \o SubSeq(recs, 1, n)) \o tail = seg.recs \o more
      <3>1. (seg.recs \o part) \o tail = seg.recs \o (part \o tail)
        BY <1>6, <2>2, <2>4, JoinAssociative
      <3> QED BY <2>3, <2>5, <3>1
    <2>9. segs' = WithTarget(new)
      BY <1>8, <2>1, <2>7, <2>8
    <2>10. Grown(new)
      BY <1>8, <2>9 DEF Grown
    <2>11. /\ new = [recs |-> seg.recs \o more, synced |-> seg.synced,
                     bytes |-> seg.bytes, max |-> seg.max]
           /\ new.recs = seg.recs \o more /\ new.synced = seg.synced /\ new.max = seg.max
      BY <1>6, <2>7 DEF Segments
    <2>12. \A k \in 1..Len(more) : more[k].seq <= last
      <3> SUFFICES ASSUME NEW k \in 1..Len(more) PROVE more[k].seq <= last
        OBVIOUS
      <3>1. PICK y \in Nat : y = Len(tail)
        BY <2>2
      <3>2. k \in 1..(n + y)
        BY <2>6, <3>1
      <3>3. CASE k <= n
        <4>1. k \in 1..n /\ k \in 1..Len(recs)
          BY <1>4, <3>2, <3>3
        <4>2. more[k] = recs[k]
          BY <2>4, <2>6, <3>1, <3>2, <3>3, <4>1
        <4> QED BY <1>4, <4>1, <4>2
      <3>4. CASE k > n
        <4>1. k - n \in 1..y
          BY <3>2, <3>4
        <4>2. more[k] = tail[k - n]
          BY <2>6, <3>1, <3>2, <3>4
        <4> QED BY <2>2, <3>1, <4>1, <4>2
      <3> QED BY <3>2, <3>3, <3>4
    <2>13. /\ SegmentOK(new) /\ Extends(seg, new)
           /\ Len(new.recs) = Len(seg.recs) + Len(more)
           /\ \A k \in 1..Len(more) : new.recs[Len(seg.recs) + k] = more[k]
           /\ \E m \in Nat : SegmentBound(new, m)
      <3>1. PICK b \in Nat : SegmentBound(seg, b)
        BY <1>5
      <3>2. seg.max <= new.max
        BY <1>6, <2>11
      <3>3. seg.recs \o more \in Seq(LogEntries)
        BY <1>6, <2>6, ConcatProperties
      <3>4. new \in Segments
        BY <1>5, <1>6, <2>11, <3>3, SegmentFacts DEF Segments, LogEntries
      <3>5. new.recs = seg.recs \o more /\ new.synced = seg.synced /\ more \in Seq(LogEntries)
        BY <2>6, <2>11
      <3> QED BY <1>4, <1>5, <2>12, <3>1, <3>2, <3>4, <3>5, LongerSegment, ZenonT(60)
    <2>14. CASE n = 0
      <3>1. part = <<>>
        BY <2>4, <2>14, EmptySeq
      <3>2. more = tail
        BY <2>2, <2>5, <3>1, ConcatEmptySeq
      <3>3. \/ new.recs = seg.recs
            \/ new.recs = seg.recs \o <<Torn>>
        BY <1>6, <2>1, <2>11, <3>2, ConcatEmptySeq
      <3> QED BY <2>10, <2>13, <3>3
    <2>15. CASE n # 0
      <3>0. PICK y \in Nat : y = Len(tail)
        BY <2>2
      <3>1. Len(more) = n + y /\ 1 \in 1..(n + y) /\ 1 \in 1..n
        BY <2>6, <2>15, <3>0
      <3>2. more[1] = recs[1]
        BY <2>4, <2>6, <3>0, <3>1
      <3>3. Len(new.recs) > Len(seg.recs)
        <4>1. PICK x \in Nat : x = Len(seg.recs)
          BY <1>6
        <4>2. PICK z : z = Len(new.recs)
          OBVIOUS
        <4>3. z = x + (n + y)
          BY <2>13, <3>1, <4>1, <4>2
        <4>4. z > x
          BY <2>15, <4>3
        <4> QED BY <4>1, <4>2, <4>4
      <3>4. new.recs[Len(seg.recs) + 1] = recs[1]
        BY <2>13, <3>1, <3>2
      <3> QED BY <2>10, <2>13, <3>3, <3>4
    <2> QED BY <2>14, <2>15
  <1>9. ASSUME NEW new, new = Appended(seg, recs, last),
               segs' = WithTarget(new), nextSeg' \in {NextId, NextId + 1}
        PROVE  /\ SegmentOK(new) /\ Extends(seg, new) /\ Grown(new)
               /\ \E m \in Nat : SegmentBound(new, m)
               /\ Len(new.recs) > Len(seg.recs) /\ new.recs[Len(seg.recs) + 1] = recs[1]
    <2>1. Grown(new)
      BY <1>9 DEF Grown
    <2>2. new = Appended(TargetSegment, held[w], held[w][Len(held[w])].seq)
      BY <1>1, <1>2, <1>3, <1>9
    <2>3. /\ SegmentOK(new) /\ Extends(seg, new)
          /\ Len(new.recs) = Len(seg.recs) + Len(recs)
          /\ \A k \in 1..Len(recs) : new.recs[Len(seg.recs) + k] = recs[k]
          /\ \E m \in Nat : SegmentBound(new, m)
      BY <2>2, <1>1, <1>2, AppendedFacts
    <2>4. 1 \in 1..Len(recs)
      BY <1>4
    <2> QED BY <1>4, <1>6, <2>1, <2>3, <2>4
  <1> QED
    BY <1>1, <1>2, <1>3, <1>7, <1>8, <1>9 DEF WriteEncodedFails

-----------------------------------------------------------------------------
(* Parts of the invariant that many actions keep in the same way *)

LEMMA WalKept ==
    ASSUME TypeInv, UNCHANGED <<up, segs, nextSeg, doomed>>
    PROVE  WalOK' /\ WalBounded'
  BY DEF TypeInv, Bounded, WalOK, WalBounded

LEMMA ManifestKept ==
    ASSUME TypeInv, UNCHANGED <<ssts, ckpt, index>>
    PROVE  ManifestOK' /\ ManifestBounded'
  BY DEF TypeInv, Bounded, ManifestOK, ManifestBounded

LEMMA MemoryKept ==
    ASSUME TypeInv, \A r \in Records : InMem(r)' => InMem(r)
    PROVE  MemoryBounded'
  BY DEF TypeInv, Bounded, MemoryBounded

\* Wal::sync_all keeps every record where it is.
LEMMA SyncedOK ==
    ASSUME TypeInv, UNCHANGED <<up, nextSeg>>, segs' = Synced(segs),
           doomed' = doomed \/ doomed' = <<>>
    PROVE  WalOK' /\ WalBounded'
  <1>1. /\ DOMAIN segs' = DOMAIN segs
        /\ \A i \in DOMAIN segs : segs'[i] = [segs[i] EXCEPT !.synced = Len(segs[i].recs)]
    BY DEF Synced
  <1>2. \A i \in DOMAIN segs : SegmentOK(segs[i])
    BY DEF TypeInv, WalOK
  <1>3. \A i \in DOMAIN segs :
            /\ segs'[i].recs = segs[i].recs /\ segs'[i].synced = Len(segs[i].recs)
            /\ segs'[i].max = segs[i].max /\ segs'[i] \in Segments
    <2> SUFFICES ASSUME NEW i \in DOMAIN segs
                 PROVE  /\ segs'[i].recs = segs[i].recs /\ segs'[i].synced = Len(segs[i].recs)
                        /\ segs'[i].max = segs[i].max /\ segs'[i] \in Segments
      OBVIOUS
    <2>1. segs[i] \in Segments /\ Len(segs[i].recs) \in Nat
      BY <1>2, SegmentFacts DEF SegmentOK
    <2> QED BY <1>1, <2>1 DEF Segments
  <1>4. \A i \in DOMAIN segs : SegmentOK(segs'[i])
    <2>1. \A i \in DOMAIN segs : Len(segs[i].recs) \in Nat
      BY <1>2, SegmentFacts
    <2> QED BY <1>3, <2>1 DEF SegmentOK
  <1>5. \A n \in Nat : \A i \in DOMAIN segs : SegmentBound(segs[i], n) => SegmentBound(segs'[i], n)
    BY <1>3 DEF SegmentBound
  <1>6. DOMAIN doomed' \subseteq DOMAIN doomed /\ \A i \in DOMAIN doomed' : doomed'[i] = doomed[i]
    OBVIOUS
  <1>7. WalOK'
    BY <1>1, <1>4, <1>6 DEF TypeInv, WalOK
  <1>8. WalBounded'
    BY <1>1, <1>5, <1>6 DEF TypeInv, Bounded, WalBounded
  <1> QED
    BY <1>7, <1>8

LEMMA UnsettledFacts == Unsettled = doomed \/ Unsettled = <<>>
  BY DEF Unsettled

\* While somebody holds the worker mutex the engine is open.
LEMMA BusyIsUp ==
    ASSUME TypeInv, wpc # "free"
    PROVE  up
  BY DEF TypeInv, ControlOK

LEMMA GroupIsWriters ==
    ASSUME TypeInv
    PROVE  /\ Elems(group) \subseteq Writers /\ Elems(queue) \subseteq Writers
           /\ GroupRecords \subseteq Records
           /\ \A i \in 1..Len(group) : group[i] \in Writers
           /\ \A i \in 1..Len(queue) : queue[i] \in Writers
  <1>1. /\ \A i \in 1..Len(group) : group[i] \in Writers
        /\ \A i \in 1..Len(queue) : queue[i] \in Writers
    BY ElementOfSeq DEF TypeInv, WritersOK
  <1>2. \A w \in Writers : Elems(held[w]) \subseteq Records
    BY ElementOfSeq DEF TypeInv, WritersOK, Elems
  <1> QED
    BY <1>1, <1>2 DEF Elems, GroupRecords

\* Every submission of the group is answered and the mutex released.
LEMMA AnswerGroupOK ==
    ASSUME TypeInv, up, UNCHANGED <<up, queue>>, NEW r, AnswerGroup(r)
    PROVE  /\ WritersOK' /\ ControlOK' /\ wpc' = "free"
           /\ acked' \subseteq Records /\ promised' \subseteq Records
  <1>1. /\ held' = [w \in Writers |-> IF w \in Elems(group) THEN <<>> ELSE held[w]]
        /\ group' = <<>> /\ gpos' = 1 /\ wpc' = "free" /\ caller' = "other"
    BY DEF AnswerGroup
  <1>2. /\ held \in [Writers -> Seq(Records)] /\ queue \in Seq(Writers)
        /\ \A w \in Writers : \A i \in 1..Len(held[w]) : held[w][i].seq = held[w][1].seq + i - 1
        /\ \A i \in 1..Len(queue) : held[queue[i]] # <<>>
        /\ \A i \in 1..Len(queue), j \in 1..Len(group) : queue[i] # group[j]
    BY DEF TypeInv, WritersOK
  <1>3. \A i \in 1..Len(queue) : queue[i] \in Writers /\ queue[i] \notin Elems(group)
    BY <1>2, GroupIsWriters DEF Elems
  <1>4. <<>> \in Seq(Records) /\ <<>> \in Seq(Writers) /\ Len(<<>>) = 0
    OBVIOUS
  <1>5. held' \in [Writers -> Seq(Records)]
    BY <1>1, <1>2, <1>4
  <1>6. \A w \in Writers : held'[w] = <<>> \/ held'[w] = held[w]
    BY <1>1
  <1>7. \A w \in Writers : \A i \in 1..Len(held'[w]) : held'[w][i].seq = held'[w][1].seq + i - 1
    BY <1>2, <1>4, <1>6
  <1>8. \A i \in 1..Len(queue) : held'[queue[i]] # <<>>
    BY <1>1, <1>2, <1>3
  <1>9. WritersOK'
    BY <1>1, <1>2, <1>4, <1>5, <1>7, <1>8 DEF WritersOK
  <1>10. ControlOK'
    BY <1>1, <1>4 DEF ControlOK, Locations
  <1>11. acked' \subseteq Records /\ promised' \subseteq Records
    BY GroupIsWriters DEF AnswerGroup, TypeInv, HistoryOK
  <1> QED
    BY <1>1, <1>9, <1>10, <1>11

\* do_flush gives the mutex back, to the caller of Engine::flush or with the
\* answer to the group.
LEMMA FlushReturnsOK ==
    ASSUME TypeInv, wpc \notin {"free", "write", "decide"}, UNCHANGED <<up, queue>>,
           NEW r, FlushReturns(r)
    PROVE  /\ WritersOK' /\ ControlOK' /\ wpc' = "free" /\ flushing' = NoFlushing
           /\ acked' \subseteq Records /\ promised' \subseteq Records
  <1>1. up
    BY BusyIsUp
  <1>2. caller = "group" \/ caller = "other"
    BY DEF TypeInv, ControlOK
  <1>3. CASE caller = "group"
    <2>1. AnswerGroup(r) /\ flushing' = NoFlushing
      BY <1>3 DEF FlushReturns
    <2> QED BY <1>1, <2>1, AnswerGroupOK
  <1>4. CASE caller = "other"
    <2>1. /\ wpc' = "free" /\ flushing' = NoFlushing
          /\ UNCHANGED <<held, group, gpos, caller, acked, promised>>
      BY <1>4 DEF FlushReturns
    <2>2. WritersOK'
      BY <2>1 DEF TypeInv, WritersOK
    <2>3. ControlOK'
      BY <1>1, <1>4, <2>1 DEF TypeInv, ControlOK, Locations
    <2> QED BY <2>1, <2>2, <2>3 DEF TypeInv, HistoryOK
  <1> QED
    BY <1>2, <1>3, <1>4

-----------------------------------------------------------------------------
(* Every action keeps the types and the control state *)

LEMMA InitTypes == Init => TypeInv
  <1> SUFFICES ASSUME Init PROVE TypeInv
    OBVIOUS
  <1> USE DurabilityAssumption
  <1>1. WritersOK
    <2>1. <<>> \in Seq(Records) /\ <<>> \in Seq(Writers) /\ Len(<<>>) = 0
      OBVIOUS
    <2> QED BY <2>1 DEF Init, WritersOK
  <1>2. ControlOK
    BY DEF Init, ControlOK, Locations
  <1>3. MemoryOK
    BY DEF Init, MemoryOK, NoFlushing
  <1>4. WalOK
    BY EmptySegmentOK DEF Init, WalOK
  <1>5. ManifestOK
    BY DEF Init, ManifestOK
  <1>6. HistoryOK
    BY DEF Init, HistoryOK
  <1>7. MemoryBounded
    <2>1. \A r \in Records : ~InMem(r)
      BY DEF Init, InMem, NoFlushing
    <2> QED BY <2>1 DEF MemoryBounded
  <1>8. WalBounded
    <2>1. SegmentBound(EmptySegment, 1)
      BY EmptySegmentOK
    <2> QED BY <2>1 DEF Init, WalBounded
  <1>9. ManifestBounded
    BY DEF Init, ManifestBounded
  <1> QED
    BY <1>1, <1>2, <1>3, <1>4, <1>5, <1>6, <1>7, <1>8, <1>9 DEF TypeInv, Bounded

LEMMA AllocateTypes ==
    ASSUME TypeInv, NEW w \in Writers, Allocate(w)
    PROVE  TypeInv'
  <1> USE DurabilityAssumption
  <1>1. PICK n \in BatchSizes, ttl \in Ttls :
            /\ held' = [held EXCEPT ![w] =
                            [i \in 1..n |-> [b |-> batches + 1, size |-> n,
                                             seq |-> seqCounter + i - 1,
                                             ttl |-> ttl]]]
            /\ seqCounter' = seqCounter + n
    BY DEF Allocate
  <1>2. n \in Nat \ {0} /\ seqCounter \in Nat /\ batches \in Nat /\ ttl \in BOOLEAN
    BY DEF TypeInv, HistoryOK
  <1>3. PICK recs : recs = [i \in 1..n |-> [b |-> batches + 1, size |-> n,
                                            seq |-> seqCounter + i - 1, ttl |-> ttl]]
    OBVIOUS
  <1>4. /\ recs \in Seq(Records) /\ Len(recs) = n
        /\ \A i \in 1..n : recs[i].seq = seqCounter + i - 1
    <2>1. \A i \in 1..n : recs[i] \in Records /\ recs[i].seq = seqCounter + i - 1
      BY <1>2, <1>3 DEF Records
    <2>2. recs \in [1..n -> Records]
      BY <1>3, <2>1
    <2> QED BY <1>2, <2>1, <2>2
  <1>5. recs # <<>> /\ \A i \in 1..n : recs[i].seq = recs[1].seq + i - 1
    <2>1. 1 \in 1..n /\ recs[1].seq = seqCounter + 1 - 1
      BY <1>2, <1>4
    <2> QED BY <1>2, <1>4, <2>1
  <1>6. /\ held \in [Writers -> Seq(Records)] /\ held[w] = <<>>
        /\ held' = [held EXCEPT ![w] = recs]
    BY <1>1, <1>3 DEF TypeInv, WritersOK, Allocate
  <1>7. UNCHANGED <<up, queue, group, gpos, wpc, caller, active, frozen, flushing, index,
                    segs, nextSeg, doomed, ssts, ckpt, acked, promised, hazards, crashes>>
    BY DEF Allocate, walvars, manvars, history
  <1>8. WritersOK'
    <2>1. held' \in [Writers -> Seq(Records)]
      BY <1>4, <1>6
    <2>2. \A v \in Writers : held'[v] = held[v] \/ held'[v] = recs
      BY <1>6
    <2>3. \A v \in Writers : \A i \in 1..Len(held'[v]) :
                held'[v][i].seq = held'[v][1].seq + i - 1
      <3> SUFFICES ASSUME NEW v \in Writers, NEW i \in 1..Len(held'[v])
                   PROVE  held'[v][i].seq = held'[v][1].seq + i - 1
        OBVIOUS
      <3>1. CASE held'[v] = held[v]
        BY <3>1 DEF TypeInv, WritersOK
      <3>2. CASE held'[v] = recs
        BY <1>4, <1>5, <3>2
      <3> QED BY <2>2, <3>1, <3>2
    <2>4. \A v \in Writers : held[v] # <<>> => held'[v] = held[v]
      BY <1>6
    <2>5. /\ \A i \in 1..Len(queue) : held'[queue[i]] # <<>>
          /\ \A i \in 1..Len(group) : held'[group[i]] # <<>>
      BY <2>4, GroupIsWriters DEF TypeInv, WritersOK
    <2> QED BY <1>7, <2>1, <2>3, <2>5 DEF TypeInv, WritersOK
  <1>9. ControlOK'
    BY <1>7 DEF TypeInv, ControlOK, Allocate
  <1>10. MemoryOK' /\ MemoryBounded'
    BY <1>7 DEF TypeInv, Bounded, MemoryOK, MemoryBounded, InMem
  <1>11. HistoryOK'
    BY <1>1, <1>2, <1>7 DEF TypeInv, HistoryOK, Allocate
  <1> QED
    BY <1>7, <1>8, <1>9, <1>10, <1>11, WalKept, ManifestKept DEF TypeInv, Bounded

LEMMA EnqueueTypes ==
    ASSUME TypeInv, NEW w \in Writers, Enqueue(w)
    PROVE  TypeInv'
  <1>1. UNCHANGED <<up, seqCounter, batches, held, group, gpos, wpc, caller, active, frozen,
                    flushing, index, segs, nextSeg, doomed, ssts, ckpt, acked, promised,
                    hazards, crashes>>
    BY DEF Enqueue, walvars, manvars, history
  <1>2. WritersOK'
    <2>1. /\ queue' = Append(queue, w) /\ queue \in Seq(Writers) /\ held[w] # <<>>
          /\ w \notin Elems(group)
      BY DEF Enqueue, TypeInv, WritersOK
    <2>2. /\ queue' \in Seq(Writers) /\ Len(queue') = Len(queue) + 1
          /\ \A i \in 1..Len(queue') : queue'[i] = w \/ (i \in 1..Len(queue) /\ queue'[i] = queue[i])
      BY <2>1
    <2>3. \A j \in 1..Len(group) : w # group[j]
      BY <2>1 DEF Elems
    <2>4. \A i \in 1..Len(queue') : held[queue'[i]] # <<>>
      BY <2>1, <2>2 DEF TypeInv, WritersOK
    <2>5. \A i \in 1..Len(queue'), j \in 1..Len(group) : queue'[i] # group[j]
      BY <2>2, <2>3 DEF TypeInv, WritersOK
    <2> QED BY <1>1, <2>2, <2>4, <2>5 DEF TypeInv, WritersOK
  <1>3. ControlOK'
    BY <1>1 DEF TypeInv, ControlOK, Enqueue
  <1>4. MemoryOK' /\ MemoryBounded'
    BY <1>1 DEF TypeInv, Bounded, MemoryOK, MemoryBounded, InMem
  <1>5. HistoryOK'
    BY <1>1 DEF TypeInv, HistoryOK
  <1> QED
    BY <1>1, <1>2, <1>3, <1>4, <1>5, WalKept, ManifestKept DEF TypeInv, Bounded

LEMMA GroupBeginTypes ==
    ASSUME TypeInv, GroupBegin
    PROVE  TypeInv'
  <1> USE DurabilityAssumption
  <1>1. UNCHANGED <<up, seqCounter, batches, held, active, frozen, flushing, index, segs,
                    nextSeg, doomed, ssts, ckpt, acked, promised, hazards, crashes>>
    BY DEF GroupBegin, walvars, manvars, history
  <1>2. ~Backpressure
    <2>1. frozen = <<>> /\ Len(<<>>) = 0
      BY DEF TypeInv, MemoryOK, GroupBegin
    <2> QED BY <2>1 DEF Backpressure
  <1>3. /\ up /\ wpc = "free" /\ group' = queue /\ queue' = <<>> /\ gpos' = 1
        /\ caller' = "group" /\ wpc' = "write"
    BY <1>2 DEF GroupBegin
  <1>4. WritersOK'
    BY <1>1, <1>3 DEF TypeInv, WritersOK
  <1>5. ControlOK'
    BY <1>1, <1>3 DEF TypeInv, ControlOK, Locations
  <1>6. MemoryOK' /\ MemoryBounded'
    BY <1>1, <1>3 DEF TypeInv, Bounded, MemoryOK, MemoryBounded, InMem
  <1>7. HistoryOK'
    BY <1>1 DEF TypeInv, HistoryOK
  <1> QED
    BY <1>1, <1>4, <1>5, <1>6, <1>7, WalKept, ManifestKept DEF TypeInv, Bounded

\* The batch that the loop of process_batch_group is at.
LEMMA CurrentBatch ==
    ASSUME TypeInv, wpc = "write", gpos <= Len(group)
    PROVE  /\ up /\ gpos \in 1..Len(group) /\ Len(group) \in Nat
           /\ group[gpos] \in Writers /\ held[group[gpos]] # <<>>
  <1>1. up
    BY BusyIsUp
  <1>2. gpos \in 1..Len(group) /\ Len(group) \in Nat
    BY LenProperties DEF TypeInv, WritersOK
  <1> QED
    BY <1>1, <1>2, GroupIsWriters DEF TypeInv, WritersOK

LEMMA WriteNextTypes ==
    ASSUME TypeInv, WriteNext
    PROVE  TypeInv'
  <1>1. UNCHANGED <<up, seqCounter, batches, held, queue, group, wpc, caller, frozen,
                    flushing, index, doomed, ssts, ckpt, acked, promised, crashes>>
    BY DEF WriteNext, manvars
  <1>2. wpc = "write" /\ gpos <= Len(group) /\ gpos' = gpos + 1
    BY DEF WriteNext
  <1>3. PICK w \in Writers : w = group[gpos] /\ held[w] # <<>>
    BY <1>2, CurrentBatch
  <1>4. /\ WriteEncoded(held[w], held[w][Len(held[w])].seq)
        /\ active' = active \cup Elems(held[w])
        /\ hazards' = hazards \cup AppendHazards(held[w])
    BY <1>3 DEF WriteNext
  <1>5. /\ Elems(held[w]) \subseteq Records
        /\ held[w][Len(held[w])].seq \in Nat
        /\ \A r \in Elems(held[w]) : r.seq \in Nat /\ r.seq <= held[w][Len(held[w])].seq
    BY <1>3, BatchFacts DEF Elems
  <1>6. WalOK' /\ WalBounded'
    <2>1. PICK new : new = Appended(TargetSegment, held[w], held[w][Len(held[w])].seq)
      OBVIOUS
    <2>2. up /\ SegmentOK(new) /\ Extends(TargetSegment, new) /\ \E m \in Nat : SegmentBound(new, m)
      BY <1>2, <1>3, <2>1, AppendedFacts, CurrentBatch
    <2>3. Grown(new)
      BY <1>4, <2>1, WriteEncodedGrows
    <2> QED BY <1>1, <2>2, <2>3, GrownOK
  <1>7. WritersOK'
    <2>1. WritersOK /\ gpos \in Nat \ {0}
      BY DEF TypeInv, WritersOK
    <2>2. gpos' \in Nat \ {0}
      BY <1>2, <2>1
    <2> QED BY <1>1, <2>1, <2>2, Zenon DEF WritersOK
  <1>8. ControlOK'
    BY <1>1, <1>2 DEF TypeInv, ControlOK
  <1>9. MemoryOK'
    BY <1>1, <1>2, <1>4, <1>5 DEF TypeInv, MemoryOK
  <1>10. MemoryBounded'
    <2>1. PICK last \in Nat : \A r \in Elems(held[w]) : r.seq \in Nat /\ r.seq <= last
      BY <1>5
    <2>2. PICK n \in Nat : \A r \in Records : InMem(r) => r.seq <= n
      BY DEF TypeInv, Bounded, MemoryBounded
    <2>3. \A r \in Records : r.seq \in Nat
      BY DEF Records
    <2>4. \A r \in Records : InMem(r)' => InMem(r) \/ r \in Elems(held[w])
      BY <1>1, <1>4 DEF InMem
    <2>5. \A r \in Records : InMem(r)' => r.seq <= n + last
      BY <2>1, <2>2, <2>3, <2>4
    <2>6. n + last \in Nat
      OBVIOUS
    <2> QED BY <2>5, <2>6 DEF MemoryBounded
  <1>11. HistoryOK'
    BY <1>1, <1>4 DEF TypeInv, HistoryOK, AppendHazards
  <1> QED
    BY <1>1, <1>6, <1>7, <1>8, <1>9, <1>10, <1>11, ManifestKept DEF TypeInv, Bounded

LEMMA WriteFailsTypes ==
    ASSUME TypeInv, WriteFails
    PROVE  TypeInv'
  <1>1. UNCHANGED <<up, seqCounter, batches, queue, active, frozen, flushing, index, doomed,
                    ssts, ckpt, crashes>>
    BY DEF WriteFails, manvars
  <1>2. wpc = "write" /\ gpos <= Len(group) /\ AnswerGroup("err")
    BY DEF WriteFails
  <1>3. PICK w \in Writers : w = group[gpos] /\ held[w] # <<>> /\ up
    BY <1>2, CurrentBatch
  <1>4. WriteEncodedFails(held[w], held[w][Len(held[w])].seq)
    BY <1>3 DEF WriteFails
  <1>5. hazards' \subseteq hazards \cup {"ghost"}
    BY DEF WriteFails
  <1>6. WalOK' /\ WalBounded'
    <2>1. CASE segs' = segs /\ nextSeg' = nextSeg + 1
      <3>1. WalOK'
        BY <1>1, <2>1 DEF TypeInv, WalOK
      <3>2. WalBounded'
        BY <1>1, <2>1 DEF TypeInv, Bounded, WalBounded
      <3> QED BY <3>1, <3>2
    <2>2. ASSUME NEW new, SegmentOK(new), Extends(TargetSegment, new), Grown(new),
                 \E m \in Nat : SegmentBound(new, m)
          PROVE  WalOK' /\ WalBounded'
      BY <1>1, <1>3, <2>2, GrownOK
    <2> QED BY <1>3, <1>4, <2>1, <2>2, WriteEncodedFailsGrows
  <1>7. WritersOK' /\ ControlOK' /\ wpc' = "free" /\ acked' \subseteq Records /\ promised' \subseteq Records
    BY <1>1, <1>2, <1>3, AnswerGroupOK
  <1>8. MemoryOK' /\ MemoryBounded'
    BY <1>1, <1>2, <1>7 DEF TypeInv, Bounded, MemoryOK, MemoryBounded, InMem
  <1>9. HistoryOK'
    BY <1>1, <1>5, <1>7 DEF TypeInv, HistoryOK
  <1> QED
    BY <1>1, <1>6, <1>7, <1>8, <1>9, ManifestKept DEF TypeInv, Bounded

LEMMA GroupSyncTypes ==
    ASSUME TypeInv, GroupSync
    PROVE  TypeInv'
  <1>1. UNCHANGED <<up, seqCounter, batches, held, queue, group, gpos, caller, active, frozen,
                    flushing, index, nextSeg, ssts, ckpt, acked, promised, hazards, crashes>>
    BY DEF GroupSync, manvars, history
  <1>2. wpc = "write" /\ gpos > Len(group) /\ wpc' = "decide"
    BY DEF GroupSync
  <1>3. WalOK' /\ WalBounded'
    <2>1. CASE Always
      <3>1. segs' = Synced(segs) /\ doomed' = Unsettled
        BY <2>1 DEF GroupSync
      <3> QED BY <1>1, <3>1, SyncedOK, UnsettledFacts
    <2>2. CASE ~Always
      <3>1. segs' = segs /\ doomed' = doomed
        BY <2>2 DEF GroupSync
      <3> QED BY <1>1, <3>1, WalKept
    <2> QED BY <2>1, <2>2
  <1>4. WritersOK'
    BY <1>1 DEF TypeInv, WritersOK
  <1>5. ControlOK'
    BY <1>1, <1>2 DEF TypeInv, ControlOK, Locations
  <1>6. MemoryOK' /\ MemoryBounded'
    BY <1>1, <1>2 DEF TypeInv, Bounded, MemoryOK, MemoryBounded, InMem
  <1>7. HistoryOK'
    BY <1>1 DEF TypeInv, HistoryOK
  <1> QED
    BY <1>1, <1>3, <1>4, <1>5, <1>6, <1>7, ManifestKept DEF TypeInv, Bounded

\* The group is answered without a flush.
LEMMA AnswerTypes ==
    ASSUME TypeInv, GroupSyncFails \/ NoFlush
    PROVE  TypeInv'
  <1>1. UNCHANGED <<up, seqCounter, batches, queue, active, frozen, flushing, index, segs,
                    nextSeg, doomed, ssts, ckpt, hazards, crashes>>
    BY DEF GroupSyncFails, NoFlush, walvars, manvars
  <1>2. wpc \in {"write", "decide"} /\ \E r : AnswerGroup(r)
    BY DEF GroupSyncFails, NoFlush
  <1>3. WritersOK' /\ ControlOK' /\ wpc' = "free" /\ acked' \subseteq Records /\ promised' \subseteq Records
    BY <1>1, <1>2, BusyIsUp, AnswerGroupOK
  <1>4. MemoryOK' /\ MemoryBounded'
    BY <1>1, <1>2, <1>3 DEF TypeInv, Bounded, MemoryOK, MemoryBounded, InMem
  <1>5. HistoryOK'
    BY <1>1, <1>3 DEF TypeInv, HistoryOK
  <1> QED
    BY <1>1, <1>3, <1>4, <1>5, WalKept, ManifestKept DEF TypeInv, Bounded

\* do_flush is entered, by the leader or by another holder of the mutex.
LEMMA EnterFlushTypes ==
    ASSUME TypeInv, GroupFlush \/ OtherFlush
    PROVE  TypeInv'
  <1>1. UNCHANGED <<up, seqCounter, batches, held, queue, group, gpos, caller, active, frozen,
                    flushing, index, segs, nextSeg, doomed, ssts, ckpt, acked, promised,
                    hazards, crashes>>
    BY DEF GroupFlush, OtherFlush, walvars, manvars, history
  <1>2. wpc \in {"decide", "free"} /\ wpc' = "freeze" /\ up
    BY BusyIsUp DEF GroupFlush, OtherFlush
  <1>3. WritersOK'
    BY <1>1 DEF TypeInv, WritersOK
  <1>4. ControlOK'
    BY <1>1, <1>2 DEF TypeInv, ControlOK, Locations
  <1>5. MemoryOK' /\ MemoryBounded'
    BY <1>1, <1>2 DEF TypeInv, Bounded, MemoryOK, MemoryBounded, InMem
  <1>6. HistoryOK'
    BY <1>1 DEF TypeInv, HistoryOK
  <1> QED
    BY <1>1, <1>3, <1>4, <1>5, <1>6, WalKept, ManifestKept DEF TypeInv, Bounded

LEMMA SyncTickTypes ==
    ASSUME TypeInv, SyncTick
    PROVE  TypeInv'
  <1>1. UNCHANGED <<up, seqCounter, batches, held, queue, group, gpos, wpc, caller, active,
                    frozen, flushing, index, nextSeg, ssts, ckpt, acked, hazards, crashes>>
    BY DEF SyncTick, memvars, manvars
  <1>2. WalOK' /\ WalBounded'
    BY <1>1, SyncedOK, UnsettledFacts DEF SyncTick
  <1>3. WritersOK'
    BY <1>1 DEF TypeInv, WritersOK
  <1>4. ControlOK'
    BY <1>1 DEF TypeInv, ControlOK
  <1>5. MemoryOK' /\ MemoryBounded'
    BY <1>1 DEF TypeInv, Bounded, MemoryOK, MemoryBounded, InMem
  <1>6. HistoryOK'
    BY <1>1 DEF TypeInv, HistoryOK, SyncTick
  <1> QED
    BY <1>1, <1>2, <1>3, <1>4, <1>5, <1>6, ManifestKept DEF TypeInv, Bounded

LEMMA FreezeTypes ==
    ASSUME TypeInv, Freeze
    PROVE  TypeInv'
  <1>1. UNCHANGED <<up, seqCounter, batches, held, queue, group, gpos, caller, flushing, index,
                    segs, nextSeg, doomed, ssts, ckpt, acked, promised, hazards, crashes>>
    BY DEF Freeze, walvars, manvars, history
  <1>2. /\ wpc = "freeze" /\ wpc' = "pop" /\ active' = {} /\ frozen = <<>>
        /\ flushing = NoFlushing /\ active \subseteq Records
        /\ frozen' = IF active = {} THEN <<>> ELSE Append(<<>>, active)
    BY DEF Freeze, NewTable, TypeInv, MemoryOK
  <1>3. /\ frozen' \in Seq(SUBSET Records) /\ Len(frozen') <= 1
        /\ \A i \in 1..Len(frozen') : frozen'[i] = active
    <2>1. CASE active = {}
      BY <1>2, <2>1
    <2>2. CASE active # {}
      <3>1. <<>> \in Seq(SUBSET Records) /\ Len(<<>>) = 0 /\ active \in SUBSET Records
        BY <1>2
      <3>2. frozen' = Append(<<>>, active)
        BY <1>2, <2>2
      <3>3. frozen' \in Seq(SUBSET Records) /\ Len(frozen') = 1 /\ frozen'[1] = active
        BY <3>1, <3>2, AppendProperties
      <3> QED BY <3>3
    <2> QED BY <2>1, <2>2
  <1>4. WritersOK'
    BY <1>1 DEF TypeInv, WritersOK
  <1>5. ControlOK'
    BY <1>1, <1>2 DEF TypeInv, ControlOK, Locations
  <1>6. MemoryOK'
    BY <1>1, <1>2, <1>3 DEF TypeInv, MemoryOK
  <1>7. MemoryBounded'
    <2>1. \A r \in Records : InMem(r)' => InMem(r)
      BY <1>1, <1>2, <1>3 DEF InMem
    <2> QED BY <2>1, MemoryKept
  <1>8. HistoryOK'
    BY <1>1 DEF TypeInv, HistoryOK
  <1> QED
    BY <1>1, <1>4, <1>5, <1>6, <1>7, <1>8, WalKept, ManifestKept DEF TypeInv, Bounded

LEMMA PopFrozenTypes ==
    ASSUME TypeInv, PopFrozen
    PROVE  TypeInv'
  <1>1. UNCHANGED <<up, seqCounter, batches, held, queue, group, gpos, caller, active, index,
                    segs, nextSeg, doomed, ssts, ckpt, acked, promised, hazards, crashes>>
    BY DEF PopFrozen, walvars, manvars, history
  <1>2. /\ wpc = "pop" /\ wpc' = "sst" /\ frozen # <<>> /\ frozen \in Seq(SUBSET Records)
        /\ frozen' = Tail(frozen) /\ flushing' = [recs |-> frozen[1], id |-> 0]
        /\ Len(frozen) <= 1 /\ active = {}
    BY DEF PopFrozen, TypeInv, MemoryOK
  <1>3. 1 \in 1..Len(frozen) /\ frozen[1] \in SUBSET Records /\ frozen' = <<>>
    <2>1. Len(frozen) = 1
      <3>1. Len(frozen) \in Nat
        BY <1>2, LenProperties
      <3>2. Len(frozen) # 0
        BY <1>2, EmptySeq
      <3>3. \A x \in Nat : x # 0 /\ x <= 1 => x = 1
        OBVIOUS
      <3>4. Len(frozen) <= 1
        BY <1>2
      <3> HIDE <1>2
      <3> QED BY <3>1, <3>2, <3>3, <3>4
    <2>2. frozen[1] \in SUBSET Records
      BY <1>2, <2>1, ElementOfSeq
    <2>3. frozen' \in Seq(SUBSET Records) /\ Len(frozen') = 0
      BY <1>2, <2>1, HeadTailProperties
    <2> QED BY <2>1, <2>2, <2>3, EmptySeq
  <1>4. flushing'.recs = frozen[1] /\ flushing' \in [recs : SUBSET Records, id : Nat]
    BY <1>2, <1>3
  <1>5. WritersOK'
    BY <1>1 DEF TypeInv, WritersOK
  <1>6. ControlOK'
    BY <1>1, <1>2 DEF TypeInv, ControlOK, Locations
  <1>7. MemoryOK'
    <2>1. <<>> \in Seq(SUBSET Records) /\ Len(<<>>) = 0
      OBVIOUS
    <2> QED BY <1>1, <1>2, <1>3, <1>4, <2>1 DEF MemoryOK
  <1>8. MemoryBounded'
    <2>1. \A r \in Records : InMem(r)' => InMem(r)
      BY <1>1, <1>3, <1>4 DEF InMem
    <2> QED BY <2>1, MemoryKept
  <1>9. HistoryOK'
    BY <1>1 DEF TypeInv, HistoryOK
  <1> QED
    BY <1>1, <1>5, <1>6, <1>7, <1>8, <1>9, WalKept, ManifestKept DEF TypeInv, Bounded

\* do_flush returns: nothing was frozen, or everything had expired, or it
\* failed.
LEMMA LeaveFlushTypes ==
    ASSUME TypeInv, NothingFrozen \/ AllExpired \/ FlushFails
    PROVE  TypeInv'
  <1>1. UNCHANGED <<up, seqCounter, batches, queue, active, frozen, index, segs, nextSeg,
                    doomed, ssts, ckpt, crashes>>
    BY DEF NothingFrozen, AllExpired, FlushFails, walvars, manvars
  <1>2. /\ wpc \in {"pop", "sst", "manifest", "checkpoint"} /\ (wpc = "pop" => frozen = <<>>)
        /\ \E r : FlushReturns(r)
        /\ hazards' \subseteq hazards \cup {"flushfail"}
    BY DEF NothingFrozen, AllExpired, FlushFails
  <1>3. /\ WritersOK' /\ ControlOK' /\ wpc' = "free" /\ flushing' = NoFlushing
        /\ acked' \subseteq Records /\ promised' \subseteq Records
    BY <1>1, <1>2, FlushReturnsOK
  <1>4. MemoryOK'
    <2>1. NoFlushing \in [recs : SUBSET Records, id : Nat]
      BY DEF NoFlushing
    <2> QED BY <1>1, <1>2, <1>3, <2>1 DEF TypeInv, MemoryOK
  <1>5. MemoryBounded'
    <2>1. \A r \in Records : InMem(r)' => InMem(r)
      BY <1>1, <1>3 DEF InMem, NoFlushing
    <2> QED BY <2>1, MemoryKept
  <1>6. HistoryOK'
    BY <1>1, <1>2, <1>3 DEF TypeInv, HistoryOK
  <1> QED
    BY <1>1, <1>3, <1>4, <1>5, <1>6, WalKept, ManifestKept DEF TypeInv, Bounded

\* The ids of the manifest have a largest.
LEMMA MaxSstIdFacts ==
    ASSUME TypeInv
    PROVE  MaxSstId \in Nat /\ \A i \in DOMAIN ssts : i <= MaxSstId
  <1>1. DOMAIN ssts \in SUBSET Nat /\ \E n \in Nat : \A i \in DOMAIN ssts : i <= n
    BY DEF TypeInv, ManifestOK, Bounded, ManifestBounded
  <1> QED
    BY <1>1, MaxOfFacts DEF MaxSstId

LEMMA WriteSstTypes ==
    ASSUME TypeInv, WriteSst
    PROVE  TypeInv'
  <1>1. UNCHANGED <<up, seqCounter, batches, held, queue, group, gpos, caller, active, frozen,
                    index, segs, nextSeg, doomed, ssts, ckpt, acked, promised, hazards, crashes>>
    BY DEF WriteSst, walvars, manvars, history
  <1>2. PICK expired : flushing' = [recs |-> flushing.recs \ expired, id |-> MaxSstId + 1]
    BY DEF WriteSst
  <1>3. /\ flushing' \in [recs : SUBSET Records, id : Nat]
        /\ flushing'.recs \subseteq flushing.recs
    BY <1>2, MaxSstIdFacts DEF TypeInv, MemoryOK
  <1>4. wpc = "sst" /\ wpc' = "manifest"
    BY DEF WriteSst
  <1>5. WritersOK'
    BY <1>1 DEF TypeInv, WritersOK
  <1>6. ControlOK'
    BY <1>1, <1>4 DEF TypeInv, ControlOK, Locations
  <1>7. MemoryOK'
    BY <1>1, <1>3, <1>4 DEF TypeInv, MemoryOK
  <1>8. MemoryBounded'
    <2>1. \A r \in Records : InMem(r)' => InMem(r)
      BY <1>1, <1>3 DEF InMem
    <2> QED BY <2>1, MemoryKept
  <1>9. HistoryOK'
    BY <1>1 DEF TypeInv, HistoryOK
  <1> QED
    BY <1>1, <1>5, <1>6, <1>7, <1>8, <1>9, WalKept, ManifestKept DEF TypeInv, Bounded

\* last_seq of do_flush for the memtable in hand.
LEMMA FlushedSeqFacts ==
    ASSUME TypeInv
    PROVE  /\ LastSeq(flushing.recs) \in Nat
           /\ \A r \in flushing.recs : r.seq <= LastSeq(flushing.recs)
  <1>1. PICK n \in Nat : \A r \in Records : InMem(r) => r.seq <= n
    BY DEF TypeInv, Bounded, MemoryBounded
  <1>2. flushing.recs \subseteq Records /\ \A r \in Records : r.seq \in Nat
    BY DEF TypeInv, MemoryOK, Records
  <1>3. \A r \in flushing.recs : r.seq \in Nat /\ r.seq <= n
    BY <1>1, <1>2 DEF InMem
  <1> QED
    BY <1>3, LastSeqFacts

LEMMA AppendFlushTypes ==
    ASSUME TypeInv, AppendFlush
    PROVE  TypeInv'
  <1>1. UNCHANGED <<up, seqCounter, batches, held, queue, group, gpos, caller, active, frozen,
                    flushing, index, segs, nextSeg, doomed, acked, promised, hazards, crashes>>
    BY DEF AppendFlush, walvars, history
  <1>2. wpc = "manifest" /\ wpc' = "checkpoint"
    BY DEF AppendFlush
  <1>3. flushing.id \in Nat /\ flushing.recs \subseteq Records /\ ckpt' \in Nat
    BY FlushedSeqFacts DEF TypeInv, MemoryOK, ManifestOK, AppendFlush, Larger
  <1>4. /\ DOMAIN ssts' = DOMAIN ssts \cup {flushing.id}
        /\ \A i \in DOMAIN ssts' : ssts'[i] = flushing.recs \/ (i \in DOMAIN ssts /\ ssts'[i] = ssts[i])
    BY DEF AppendFlush
  <1>5. ManifestOK'
    BY <1>1, <1>3, <1>4 DEF TypeInv, ManifestOK
  <1>6. ManifestBounded'
    <2>1. PICK n \in Nat : \A i \in DOMAIN ssts : i <= n
      BY DEF TypeInv, Bounded, ManifestBounded
    <2>2. n + flushing.id \in Nat /\ \A i \in DOMAIN ssts' : i <= n + flushing.id
      BY <1>3, <1>4, <2>1 DEF TypeInv, ManifestOK
    <2> QED BY <2>2 DEF ManifestBounded
  <1>7. WritersOK'
    BY <1>1 DEF TypeInv, WritersOK
  <1>8. ControlOK'
    BY <1>1, <1>2 DEF TypeInv, ControlOK, Locations
  <1>9. MemoryOK' /\ MemoryBounded'
    BY <1>1, <1>2 DEF TypeInv, Bounded, MemoryOK, MemoryBounded, InMem
  <1>10. HistoryOK'
    BY <1>1 DEF TypeInv, HistoryOK
  <1> QED
    BY <1>1, <1>5, <1>6, <1>7, <1>8, <1>9, <1>10, WalKept DEF TypeInv, Bounded

\* The checkpoint is appended, or the SST added to the index.
LEMMA PublishTypes ==
    ASSUME TypeInv, AppendCheckpoint \/ AddToIndex
    PROVE  TypeInv'
  <1>1. UNCHANGED <<up, seqCounter, batches, held, queue, group, gpos, caller, active, frozen,
                    flushing, segs, nextSeg, doomed, ssts, acked, promised, hazards, crashes>>
    BY DEF AppendCheckpoint, AddToIndex, walvars, manvars, history
  <1>2. \/ wpc = "checkpoint" /\ wpc' = "index"
        \/ wpc = "index" /\ wpc' = "truncate"
    BY DEF AppendCheckpoint, AddToIndex
  <1>3. ManifestOK' /\ ManifestBounded'
    <2>1. ckpt \in Nat /\ flushing.id \in Nat /\ index \subseteq Nat
      BY DEF TypeInv, ManifestOK, MemoryOK
    <2>2. ckpt' \in Nat /\ index' \subseteq Nat
      BY <2>1, FlushedSeqFacts DEF AppendCheckpoint, AddToIndex, Larger, manvars
    <2> QED BY <1>1, <2>2 DEF TypeInv, Bounded, ManifestOK, ManifestBounded
  <1>4. WritersOK'
    BY <1>1 DEF TypeInv, WritersOK
  <1>5. ControlOK'
    BY <1>1, <1>2 DEF TypeInv, ControlOK, Locations
  <1>6. MemoryOK' /\ MemoryBounded'
    BY <1>1, <1>2 DEF TypeInv, Bounded, MemoryOK, MemoryBounded, InMem
  <1>7. HistoryOK'
    BY <1>1 DEF TypeInv, HistoryOK
  <1> QED
    BY <1>1, <1>3, <1>4, <1>5, <1>6, <1>7, WalKept DEF TypeInv, Bounded

LEMMA TruncateWalTypes ==
    ASSUME TypeInv, TruncateWal
    PROVE  TypeInv'
  <1>1. UNCHANGED <<up, seqCounter, batches, held, queue, group, gpos, caller, active, frozen,
                    flushing, index, ssts, ckpt, acked, promised, hazards, crashes>>
    BY DEF TruncateWal, manvars, history
  <1>2. wpc = "truncate" /\ wpc' = "resync"
    BY DEF TruncateWal
  <1>3. PICK gone, kept : gone = Outdated(LastSeq(flushing.recs)) /\ kept = DOMAIN segs \ gone
    OBVIOUS
  <1>4. gone \subseteq DOMAIN segs
    BY <1>3 DEF Outdated
  <1>5. /\ doomed' = [i \in DOMAIN doomed \cup gone |-> IF i \in gone THEN segs[i] ELSE doomed[i]]
        /\ \/ kept # {} /\ segs' = [i \in kept |-> segs[i]]
           \/ kept = {} /\ segs' = [i \in {nextSeg} |-> EmptySegment]
           \/ kept = {} /\ segs' = <<>>
        /\ nextSeg' = IF kept = {} THEN nextSeg + 1 ELSE nextSeg
    BY <1>3 DEF TruncateWal
  <1>6. /\ DOMAIN doomed' = DOMAIN doomed \cup gone
        /\ \A i \in DOMAIN doomed' : \/ i \in gone /\ doomed'[i] = segs[i]
                                     \/ i \in DOMAIN doomed /\ doomed'[i] = doomed[i]
    BY <1>5
  <1>7. /\ nextSeg' \in {nextSeg, nextSeg + 1}
        /\ \A i \in DOMAIN segs' : \/ i \in DOMAIN segs /\ i \notin gone /\ segs'[i] = segs[i]
                                   \/ i = nextSeg /\ nextSeg' = nextSeg + 1 /\ segs'[i] = EmptySegment
    <2>1. CASE kept # {} /\ segs' = [i \in kept |-> segs[i]]
      BY <1>3, <1>5, <2>1
    <2>2. CASE kept = {} /\ segs' = [i \in {nextSeg} |-> EmptySegment]
      BY <1>5, <2>2
    <2>3. CASE kept = {} /\ segs' = <<>>
      BY <1>5, <2>3
    <2> QED BY <1>5, <2>1, <2>2, <2>3
  <1>8. /\ nextSeg \in Nat /\ up
        /\ DOMAIN segs \subseteq Nat /\ DOMAIN doomed \subseteq Nat
        /\ \A i \in DOMAIN segs : SegmentOK(segs[i]) /\ i < nextSeg
        /\ \A i \in DOMAIN doomed : SegmentOK(doomed[i]) /\ i < nextSeg
        /\ DOMAIN segs \cap DOMAIN doomed = {}
    BY <1>2, BusyIsUp DEF TypeInv, WalOK
  <1>9. WalOK'
    <2>1. nextSeg' \in Nat /\ nextSeg <= nextSeg' /\ DOMAIN segs' \subseteq Nat /\ DOMAIN doomed' \subseteq Nat
      BY <1>4, <1>6, <1>7, <1>8
    <2>2. \A i \in DOMAIN segs' : SegmentOK(segs'[i]) /\ i < nextSeg'
      BY <1>7, <1>8, <2>1, EmptySegmentOK
    <2>3. \A i \in DOMAIN doomed' : SegmentOK(doomed'[i]) /\ i < nextSeg'
      BY <1>4, <1>6, <1>8, <2>1
    <2>4. DOMAIN segs' \cap DOMAIN doomed' = {}
      BY <1>4, <1>6, <1>7, <1>8
    <2> QED BY <1>1, <1>8, <2>1, <2>2, <2>3, <2>4 DEF WalOK
  <1>10. WalBounded'
    <2>1. PICK n \in Nat : /\ \A i \in DOMAIN segs : i <= n /\ SegmentBound(segs[i], n)
                           /\ \A i \in DOMAIN doomed : i <= n /\ SegmentBound(doomed[i], n)
      BY DEF TypeInv, Bounded, WalBounded
    <2>2. PICK b \in Nat : b = n + nextSeg
      BY <1>8
    <2>3. /\ \A i \in DOMAIN segs : i <= b /\ SegmentBound(segs[i], b)
          /\ \A i \in DOMAIN doomed : i <= b /\ SegmentBound(doomed[i], b)
      BY <1>8, <2>1, <2>2, BoundGrows
    <2>4. \A i \in DOMAIN segs' : i <= b /\ SegmentBound(segs'[i], b)
      BY <1>7, <1>8, <2>2, <2>3, EmptySegmentOK
    <2>5. \A i \in DOMAIN doomed' : i <= b /\ SegmentBound(doomed'[i], b)
      BY <1>4, <1>6, <2>3
    <2> QED BY <2>4, <2>5 DEF WalBounded
  <1>11. WritersOK'
    BY <1>1 DEF TypeInv, WritersOK
  <1>12. ControlOK'
    BY <1>1, <1>2 DEF TypeInv, ControlOK, Locations
  <1>13. MemoryOK' /\ MemoryBounded'
    BY <1>1, <1>2 DEF TypeInv, Bounded, MemoryOK, MemoryBounded, InMem
  <1>14. HistoryOK'
    BY <1>1 DEF TypeInv, HistoryOK
  <1> QED
    BY <1>1, <1>9, <1>10, <1>11, <1>12, <1>13, <1>14, ManifestKept DEF TypeInv, Bounded

LEMMA FlushSyncTypes ==
    ASSUME TypeInv, FlushSync
    PROVE  TypeInv'
  <1>1. UNCHANGED <<up, seqCounter, batches, queue, active, frozen, index, nextSeg, ssts, ckpt,
                    hazards, crashes>>
    BY DEF FlushSync, manvars
  <1>2. wpc = "resync" /\ FlushReturns("ok")
    BY DEF FlushSync
  <1>3. WalOK' /\ WalBounded'
    <2>1. CASE segs' = Synced(segs) /\ doomed' = Unsettled
      BY <1>1, <2>1, SyncedOK, UnsettledFacts
    <2>2. CASE UNCHANGED <<segs, doomed>>
      BY <1>1, <2>2, WalKept
    <2> QED BY <2>1, <2>2 DEF FlushSync
  <1>4. /\ WritersOK' /\ ControlOK' /\ wpc' = "free" /\ flushing' = NoFlushing
        /\ acked' \subseteq Records /\ promised' \subseteq Records
    BY <1>1, <1>2, FlushReturnsOK
  <1>5. MemoryOK'
    <2>1. NoFlushing \in [recs : SUBSET Records, id : Nat]
      BY DEF NoFlushing
    <2> QED BY <1>1, <1>2, <1>4, <2>1 DEF TypeInv, MemoryOK
  <1>6. MemoryBounded'
    <2>1. \A r \in Records : InMem(r)' => InMem(r)
      BY <1>1, <1>4 DEF InMem, NoFlushing
    <2> QED BY <2>1, MemoryKept
  <1>7. HistoryOK'
    BY <1>1, <1>4 DEF TypeInv, HistoryOK
  <1> QED
    BY <1>1, <1>3, <1>4, <1>5, <1>6, <1>7, ManifestKept DEF TypeInv, Bounded

\* What a crash leaves of a segment: a prefix with every synced record, at
\* most one torn record behind it, and a maximum that covers the prefix.
LEMMA LeftFacts ==
    ASSUME NEW seg, SegmentOK(seg), NEW b \in Nat, SegmentBound(seg, b),
           NEW n \in 0..Len(seg.recs), NEW torn \in BOOLEAN, NEW head \in BOOLEAN,
           head => n < Len(seg.recs),
           NEW new, new = Left(seg, n, torn, head)
    PROVE  /\ SegmentOK(new) /\ SegmentBound(new, b + 1)
           /\ new.synced = Len(new.recs) /\ n <= Len(new.recs)
           /\ \A k \in 1..n : new.recs[k] = seg.recs[k] /\ seg.recs[k].seq <= new.max
           /\ \A k \in 1..Len(new.recs) : k <= n \/ new.recs[k] = Torn
  <1>1. /\ seg.recs \in Seq(LogEntries) /\ Len(seg.recs) \in Nat
        /\ \A k \in 1..Len(seg.recs) : seg.recs[k] \in LogEntries /\ seg.recs[k].seq \in Nat
    BY SegmentFacts
  <1>2. Len(seg.recs) <= b /\ \A k \in 1..Len(seg.recs) : seg.recs[k].seq <= b
    BY DEF SegmentBound
  <1>3. PICK old : old = seg.recs
    OBVIOUS
  <1>4. PICK x \in Nat : x = Len(old)
    BY <1>1, <1>3
  <1>5. n \in Nat /\ n <= x /\ \A k \in 1..n : k \in 1..x
    BY <1>3, <1>4
  <1>6. PICK tail : tail = IF torn THEN <<Torn>> ELSE <<>>
    OBVIOUS
  <1>7. PICK y \in Nat : y = Len(tail)
    BY <1>6
  <1>8. /\ tail \in Seq(LogEntries) /\ y <= 1 /\ \A k \in 1..y : tail[k] = Torn
    <2>1. CASE torn
      <3>1. tail = <<Torn>> /\ Torn \in LogEntries
        BY <1>6, <2>1 DEF LogEntries
      <3>2. tail \in Seq(LogEntries) /\ Len(tail) = 1 /\ tail[1] = Torn
        BY <3>1
      <3> QED BY <1>7, <3>2
    <2>2. CASE ~torn
      <3>1. tail = <<>>
        BY <1>6, <2>2
      <3>2. tail \in Seq(LogEntries) /\ Len(tail) = 0
        BY <3>1
      <3> QED BY <1>7, <3>2
    <2> QED BY <2>1, <2>2
  <1>9. PICK part : part = SubSeq(old, 1, n)
    OBVIOUS
  <1>10. part \in Seq(LogEntries) /\ Len(part) = n /\ \A k \in 1..n : part[k] = old[k]
    <2>1. \A i \in 1..n : old[i] \in LogEntries
      BY <1>1, <1>3, <1>4, <1>5
    <2> QED BY <1>1, <1>3, <1>4, <1>5, <1>9, <2>1, SubSeqProperties
  <1>11. PICK recs : recs = part \o tail
    OBVIOUS
  <1>12. /\ recs \in Seq(LogEntries) /\ Len(recs) = n + y
         /\ \A i \in 1..(n + y) : recs[i] = IF i <= n THEN part[i] ELSE tail[i - n]
    BY <1>5, <1>7, <1>8, <1>10, <1>11, ConcatProperties
  <1>13. PICK S : S = {old[i] : i \in 1..(IF head THEN n + 1 ELSE n)}
    OBVIOUS
  <1>14. new = [recs |-> recs, synced |-> Len(recs), bytes |-> 0, max |-> LastSeq(S)]
    BY <1>3, <1>6, <1>9, <1>11, <1>13 DEF Left
  <1>15. /\ LastSeq(S) \in Nat /\ \A k \in 1..n : old[k].seq <= LastSeq(S)
    <2>1. \A i \in 1..(IF head THEN n + 1 ELSE n) : i \in 1..x
      BY <1>3, <1>4, <1>5
    <2>2. \A r \in S : r.seq \in Nat /\ r.seq <= b
      BY <1>1, <1>2, <1>3, <1>4, <1>13, <2>1
    <2>3. \A k \in 1..n : old[k] \in S
      BY <1>5, <1>13
    <2> QED BY <2>2, <2>3, LastSeqFacts
  <1>16. /\ new.recs = recs /\ new.synced = n + y /\ new.max = LastSeq(S) /\ new.bytes = 0
         /\ Len(new.recs) = n + y
    BY <1>12, <1>14
  <1>17. new \in Segments
    BY <1>5, <1>12, <1>14, <1>15 DEF Segments, LogEntries
  <1>18. \A k \in 1..n : recs[k] = old[k]
    BY <1>5, <1>10, <1>12
  <1>19. \A k \in 1..(n + y) : k <= n \/ recs[k] = Torn
    <2> SUFFICES ASSUME NEW k \in 1..(n + y), ~(k <= n) PROVE recs[k] = Torn
      OBVIOUS
    <2>1. recs[k] = tail[k - n] /\ k - n \in 1..y
      BY <1>5, <1>12
    <2> QED BY <1>8, <2>1
  <1>20. SegmentOK(new)
    BY <1>5, <1>16, <1>17 DEF SegmentOK
  <1>21. SegmentBound(new, b + 1)
    <2>1. n + y <= b + 1
      BY <1>2, <1>3, <1>4, <1>5, <1>8
    <2>2. \A k \in 1..(n + y) : recs[k].seq <= b + 1
      <3> SUFFICES ASSUME NEW k \in 1..(n + y) PROVE recs[k].seq <= b + 1
        OBVIOUS
      <3>1. CASE k <= n
        <4>1. k \in 1..n /\ k \in 1..x
          BY <1>5, <3>1
        <4>2. old[k].seq \in Nat /\ old[k].seq <= b
          BY <1>1, <1>2, <1>3, <1>4, <4>1
        <4> QED BY <1>18, <4>1, <4>2
      <3>2. CASE ~(k <= n)
        BY <1>19, <3>2 DEF Torn
      <3> QED BY <3>1, <3>2
    <2> QED BY <1>16, <2>1, <2>2 DEF SegmentBound
  <1> QED
    BY <1>3, <1>5, <1>15, <1>16, <1>18, <1>19, <1>20, <1>21

\* A crash keeps the fsynced records of every segment of the log, in place.
LEMMA CrashFacts ==
    ASSUME TypeInv, Crash
    PROVE  /\ DOMAIN segs \subseteq DOMAIN segs'
           /\ DOMAIN segs' \subseteq DOMAIN segs \cup DOMAIN doomed
           /\ \A i \in DOMAIN segs' : SegmentOK(segs'[i]) /\ segs'[i].synced = Len(segs'[i].recs)
           /\ \E b \in Nat : \A i \in DOMAIN segs' : i <= b /\ SegmentBound(segs'[i], b)
           /\ \A i \in DOMAIN segs : \E n \in Nat :
                /\ segs[i].synced <= n /\ n <= Len(segs'[i].recs)
                /\ \A k \in 1..n : /\ segs'[i].recs[k] = segs[i].recs[k]
                                   /\ segs[i].recs[k].seq <= segs'[i].max
  <1>1. PICK back \in SUBSET DOMAIN doomed :
          LET files == [i \in DOMAIN segs \cup back |->
                           IF i \in back THEN doomed[i] ELSE segs[i]]
              lossy == {i \in DOMAIN files : files[i].synced < Len(files[i].recs)}
          IN  \E torn \in SUBSET (IF Tearing THEN lossy ELSE {}) :
              \E head \in SUBSET torn :
              \E n \in [lossy -> 0..MaxOf({Len(files[i].recs) : i \in lossy})] :
               /\ \A i \in lossy :
                   /\ n[i] >= files[i].synced
                   /\ n[i] <= Len(files[i].recs)
                   /\ i \in torn => n[i] < Len(files[i].recs)
               /\ segs' = [i \in DOMAIN files |->
                               IF i \in lossy
                               THEN Left(files[i], n[i], i \in torn, i \in head)
                               ELSE Left(files[i], Len(files[i].recs), FALSE, FALSE)]
    BY DEF Crash
  <1> DEFINE files == [i \in DOMAIN segs \cup back |->
                          IF i \in back THEN doomed[i] ELSE segs[i]]
             lossy == {i \in DOMAIN files : files[i].synced < Len(files[i].recs)}
  <1>2. files = [i \in DOMAIN segs \cup back |-> IF i \in back THEN doomed[i] ELSE segs[i]]
    OBVIOUS
  <1>3. lossy = {i \in DOMAIN files : files[i].synced < Len(files[i].recs)}
    OBVIOUS
  <1>4. PICK torn \in SUBSET lossy, head \in SUBSET lossy,
             n \in [lossy -> 0..MaxOf({Len(files[i].recs) : i \in lossy})] :
               /\ head \subseteq torn
               /\ \A i \in lossy :
                   /\ n[i] >= files[i].synced
                   /\ n[i] <= Len(files[i].recs)
                   /\ i \in torn => n[i] < Len(files[i].recs)
               /\ segs' = [i \in DOMAIN files |->
                               IF i \in lossy
                               THEN Left(files[i], n[i], i \in torn, i \in head)
                               ELSE Left(files[i], Len(files[i].recs), FALSE, FALSE)]
    <2>1. PICK torn \in SUBSET (IF Tearing THEN lossy ELSE {}) :
              \E head \in SUBSET torn :
              \E n \in [lossy -> 0..MaxOf({Len(files[i].recs) : i \in lossy})] :
               /\ \A i \in lossy :
                   /\ n[i] >= files[i].synced
                   /\ n[i] <= Len(files[i].recs)
                   /\ i \in torn => n[i] < Len(files[i].recs)
               /\ segs' = [i \in DOMAIN files |->
                               IF i \in lossy
                               THEN Left(files[i], n[i], i \in torn, i \in head)
                               ELSE Left(files[i], Len(files[i].recs), FALSE, FALSE)]
      BY <1>1, Zenon
    <2> HIDE DEF files, lossy
    <2>2. torn \in SUBSET lossy
      OBVIOUS
    <2> QED BY <2>1, <2>2
  <1> HIDE DEF files, lossy
  <1>5. PICK b \in Nat : /\ \A i \in DOMAIN segs : i <= b /\ SegmentBound(segs[i], b)
                         /\ \A i \in DOMAIN doomed : i <= b /\ SegmentBound(doomed[i], b)
    BY DEF TypeInv, Bounded, WalBounded
  <1>6. /\ DOMAIN segs \subseteq Nat /\ DOMAIN doomed \subseteq Nat
        /\ \A i \in DOMAIN segs : SegmentOK(segs[i])
        /\ \A i \in DOMAIN doomed : SegmentOK(doomed[i])
        /\ DOMAIN segs \cap DOMAIN doomed = {}
    BY DEF TypeInv, WalOK
  <1>7. /\ DOMAIN files = DOMAIN segs \cup back
        /\ \A i \in DOMAIN files : /\ SegmentOK(files[i]) /\ SegmentBound(files[i], b)
                                   /\ i \in Nat /\ i <= b
        /\ \A i \in DOMAIN segs : files[i] = segs[i]
    BY <1>2, <1>5, <1>6
  <1>8. \A i \in DOMAIN files : Len(files[i].recs) \in Nat /\ files[i].synced \in Nat
                                /\ files[i].synced <= Len(files[i].recs) /\ Len(files[i].recs) <= b
    BY <1>7, SegmentFacts DEF SegmentBound
  <1>9. \A i \in lossy : i \in DOMAIN files /\ n[i] \in Nat
    <2>1. PICK S : S = {Len(files[i].recs) : i \in lossy}
      OBVIOUS
    <2>2. S \in SUBSET Nat /\ \A x \in S : x <= b
      BY <1>3, <1>8, <2>1
    <2>3. MaxOf(S) \in Nat
      BY <2>2, MaxOfFacts
    <2>4. n \in [lossy -> 0..MaxOf(S)]
      BY <2>1
    <2>5. \A i \in lossy : n[i] \in 0..MaxOf(S)
      BY <2>4
    <2> QED BY <1>3, <2>3, <2>5
  <1>10. ASSUME NEW i \in DOMAIN files
         PROVE  \E m \in 0..Len(files[i].recs), t \in BOOLEAN, h \in BOOLEAN :
                    /\ files[i].synced <= m /\ (h => m < Len(files[i].recs))
                    /\ segs'[i] = Left(files[i], m, t, h)
    <2>1. CASE i \in lossy
      <3>1. /\ segs'[i] = Left(files[i], n[i], i \in torn, i \in head)
            /\ n[i] \in 0..Len(files[i].recs) /\ files[i].synced <= n[i]
            /\ (i \in head) => n[i] < Len(files[i].recs)
        BY <1>4, <1>8, <1>9, <2>1
      <3>2. (i \in torn) \in BOOLEAN /\ (i \in head) \in BOOLEAN
        OBVIOUS
      <3> QED BY <3>1, <3>2
    <2>2. CASE i \notin lossy
      <3>1. segs'[i] = Left(files[i], Len(files[i].recs), FALSE, FALSE)
        BY <1>4, <2>2
      <3>2. Len(files[i].recs) \in 0..Len(files[i].recs)
        BY <1>8
      <3> QED BY <1>8, <3>1, <3>2
    <2> QED BY <2>1, <2>2
  <1>11. ASSUME NEW i \in DOMAIN files
         PROVE  /\ SegmentOK(segs'[i]) /\ SegmentBound(segs'[i], b + 1)
                /\ segs'[i].synced = Len(segs'[i].recs)
                /\ \E m \in Nat :
                    /\ files[i].synced <= m /\ m <= Len(segs'[i].recs)
                    /\ \A k \in 1..m : /\ segs'[i].recs[k] = files[i].recs[k]
                                       /\ files[i].recs[k].seq <= segs'[i].max
    <2>1. PICK m \in 0..Len(files[i].recs), t \in BOOLEAN, h \in BOOLEAN :
                    /\ files[i].synced <= m /\ (h => m < Len(files[i].recs))
                    /\ segs'[i] = Left(files[i], m, t, h)
      BY <1>10
    <2>2. PICK seg, new : seg = files[i] /\ new = segs'[i]
      OBVIOUS
    <2>3. /\ SegmentOK(seg) /\ SegmentBound(seg, b) /\ m \in 0..Len(seg.recs)
          /\ (h => m < Len(seg.recs)) /\ new = Left(seg, m, t, h)
      BY <1>7, <2>1, <2>2
    <2>4. /\ SegmentOK(new) /\ SegmentBound(new, b + 1)
          /\ new.synced = Len(new.recs) /\ m <= Len(new.recs)
          /\ \A k \in 1..m : new.recs[k] = seg.recs[k] /\ seg.recs[k].seq <= new.max
      BY <2>3, LeftFacts
    <2>5. m \in Nat
      BY <1>8
    <2> QED BY <2>1, <2>2, <2>4, <2>5
  <1>12. DOMAIN segs' = DOMAIN files
    BY <1>4
  <1>13. b + 1 \in Nat /\ \A i \in DOMAIN segs' : i <= b + 1 /\ SegmentBound(segs'[i], b + 1)
    BY <1>7, <1>11, <1>12
  <1>14. \A i \in DOMAIN segs : \E m \in Nat :
                /\ segs[i].synced <= m /\ m <= Len(segs'[i].recs)
                /\ \A k \in 1..m : /\ segs'[i].recs[k] = segs[i].recs[k]
                                   /\ segs[i].recs[k].seq <= segs'[i].max
    <2> SUFFICES ASSUME NEW i \in DOMAIN segs
                 PROVE  \E m \in Nat :
                            /\ segs[i].synced <= m /\ m <= Len(segs'[i].recs)
                            /\ \A k \in 1..m : /\ segs'[i].recs[k] = segs[i].recs[k]
                                               /\ segs[i].recs[k].seq <= segs'[i].max
      OBVIOUS
    <2>1. files[i] = segs[i] /\ i \in DOMAIN files
      BY <1>7
    <2>2. \E m \in Nat :
              /\ files[i].synced <= m /\ m <= Len(segs'[i].recs)
              /\ \A k \in 1..m : /\ segs'[i].recs[k] = files[i].recs[k]
                                 /\ files[i].recs[k].seq <= segs'[i].max
      BY <1>11, <2>1
    <2> QED BY <2>1, <2>2
  <1>15. \A i \in DOMAIN segs' : SegmentOK(segs'[i]) /\ segs'[i].synced = Len(segs'[i].recs)
    BY <1>11, <1>12
  <1>16. DOMAIN segs \subseteq DOMAIN segs' /\ DOMAIN segs' \subseteq DOMAIN segs \cup DOMAIN doomed
    BY <1>7, <1>12
  <1> QED
    BY <1>13, <1>14, <1>15, <1>16

LEMMA CrashTypes ==
    ASSUME TypeInv, Crash
    PROVE  TypeInv'
  <1> USE DurabilityAssumption
  <1>1. UNCHANGED <<seqCounter, batches, nextSeg, ssts, ckpt, promised, hazards>>
    BY DEF Crash, manvars
  <1>2. /\ up' = FALSE /\ doomed' = <<>> /\ held' = [w \in Writers |-> <<>>] /\ queue' = <<>>
        /\ group' = <<>> /\ gpos' = 1 /\ wpc' = "free" /\ caller' = "other" /\ active' = {}
        /\ frozen' = <<>> /\ flushing' = NoFlushing /\ index' = {} /\ acked' = {}
        /\ crashes' = crashes + 1 /\ crashes < MaxCrashes
    BY DEF Crash
  <1>3. WritersOK'
    <2>1. <<>> \in Seq(Records) /\ <<>> \in Seq(Writers) /\ Len(<<>>) = 0
      OBVIOUS
    <2>2. held' \in [Writers -> Seq(Records)] /\ \A w \in Writers : held'[w] = <<>>
      BY <1>2, <2>1
    <2>3. \A w \in Writers : \A i \in 1..Len(held'[w]) :
                held'[w][i].seq = held'[w][1].seq + i - 1
      BY <2>1, <2>2
    <2>4. queue' = <<>> /\ group' = <<>> /\ gpos' = 1
      BY <1>2
    <2> QED BY <2>1, <2>2, <2>3, <2>4 DEF WritersOK
  <1>4. ControlOK'
    <2>1. \A w \in Writers : held'[w] = <<>>
      BY <1>2
    <2>2. /\ up' = FALSE /\ queue' = <<>> /\ group' = <<>> /\ gpos' = 1 /\ wpc' = "free"
          /\ caller' = "other"
      BY <1>2
    <2>3. gpos' > Len(group')
      BY <2>2
    <2> QED BY <2>1, <2>2, <2>3 DEF ControlOK, Locations
  <1>5. MemoryOK'
    BY <1>2 DEF MemoryOK, NoFlushing
  <1>6. MemoryBounded'
    <2>1. \A r \in Records : ~InMem(r)'
      BY <1>2 DEF InMem, NoFlushing
    <2> QED BY <2>1 DEF MemoryBounded
  <1>7. WalOK' /\ WalBounded'
    <2>1. /\ DOMAIN segs' \subseteq DOMAIN segs \cup DOMAIN doomed
          /\ \A i \in DOMAIN segs' : SegmentOK(segs'[i])
          /\ \E b \in Nat : \A i \in DOMAIN segs' : i <= b /\ SegmentBound(segs'[i], b)
      BY CrashFacts
    <2>2. DOMAIN doomed' = {}
      BY <1>2
    <2>3. DOMAIN segs' \subseteq Nat /\ nextSeg' \in Nat
      BY <1>1, <2>1 DEF TypeInv, WalOK
    <2>4. WalOK'
      BY <1>2, <2>1, <2>2, <2>3 DEF WalOK
    <2>5. WalBounded'
      BY <2>1, <2>2 DEF WalBounded
    <2> QED BY <2>4, <2>5
  <1>8. ManifestOK' /\ ManifestBounded'
    BY <1>1, <1>2 DEF TypeInv, Bounded, ManifestOK, ManifestBounded
  <1>9. HistoryOK'
    BY <1>1, <1>2 DEF TypeInv, HistoryOK
  <1> QED
    BY <1>3, <1>4, <1>5, <1>6, <1>7, <1>8, <1>9 DEF TypeInv, Bounded

\* What replay reads back are records, and their sequence numbers have a bound.
LEMMA WalRecordsFacts ==
    ASSUME TypeInv
    PROVE  /\ WalRecords \subseteq Records
           /\ \E n \in Nat : \A r \in WalRecords : r.seq <= n
  <1>1. PICK n \in Nat : \A i \in DOMAIN segs : SegmentBound(segs[i], n)
    BY DEF TypeInv, Bounded, WalBounded
  <1>2. ASSUME NEW r \in WalRecords PROVE r \in Records /\ r.seq <= n
    <2>1. PICK i \in DOMAIN segs : r \in Readable(segs[i])
      BY DEF WalRecords
    <2>2. PICK j \in 1..Len(segs[i].recs) : r = segs[i].recs[j] /\ ReadableTo(segs[i].recs, j)
      BY <2>1 DEF Readable
    <2>3. SegmentOK(segs[i])
      BY DEF TypeInv, WalOK
    <2>4. r \in LogEntries
      BY <2>2, <2>3, SegmentFacts
    <2>5. r # Torn
      <3>1. j \in 1..j
        BY <2>3, SegmentFacts
      <3> QED BY <2>2, <3>1 DEF ReadableTo
    <2>6. r.seq <= n
      BY <1>1, <2>2 DEF SegmentBound
    <2> QED BY <2>4, <2>5, <2>6 DEF LogEntries
  <1> QED
    BY <1>2

LEMMA OpenTypes ==
    ASSUME TypeInv, Open
    PROVE  TypeInv'
  <1> USE DurabilityAssumption
  <1>1. UNCHANGED <<batches, held, queue, group, gpos, wpc, caller, frozen, flushing, doomed,
                    ssts, ckpt, acked, promised, hazards, crashes>>
    BY DEF Open, manvars, history
  <1>2. ~up /\ up' = TRUE /\ wpc = "free"
    BY DEF Open, TypeInv, ControlOK
  <1>3. /\ active' = Replayed(ckpt) /\ index' = DOMAIN ssts
        /\ seqCounter' = (MaxSstId + 1) * SeqStride
    BY DEF Open
  <1>4. WritersOK'
    BY <1>1 DEF TypeInv, WritersOK
  <1>5. ControlOK'
    BY <1>1, <1>2 DEF TypeInv, ControlOK
  <1>6. active' \subseteq WalRecords
    BY <1>3 DEF Replayed
  <1>7. MemoryOK'
    BY <1>1, <1>2, <1>6, WalRecordsFacts DEF TypeInv, MemoryOK
  <1>8. MemoryBounded'
    <2>1. PICK m \in Nat : \A r \in WalRecords : r.seq <= m
      BY WalRecordsFacts
    <2>2. PICK n \in Nat : \A r \in Records : InMem(r) => r.seq <= n
      BY DEF TypeInv, Bounded, MemoryBounded
    <2>3. \A r \in Records : r.seq \in Nat
      BY DEF Records
    <2>4. \A r \in Records : InMem(r)' => InMem(r) \/ r \in WalRecords
      BY <1>1, <1>6 DEF InMem
    <2>5. n + m \in Nat /\ \A r \in Records : InMem(r)' => r.seq <= n + m
      BY <2>1, <2>2, <2>3, <2>4
    <2> QED BY <2>5 DEF MemoryBounded
  <1>9. WalOK' /\ WalBounded'
    <2>1. DOMAIN doomed = {} /\ DOMAIN segs \in SUBSET Nat
      BY <1>2 DEF TypeInv, WalOK
    <2>2. PICK n \in Nat : \A i \in DOMAIN segs : i <= n /\ SegmentBound(segs[i], n)
      BY DEF TypeInv, Bounded, WalBounded
    <2>3. CASE DOMAIN segs = {}
      <3>1. segs' = [i \in {1} |-> EmptySegment] /\ nextSeg' = 2
        BY <2>3 DEF Open
      <3>2. SegmentBound(EmptySegment, 1)
        BY EmptySegmentOK
      <3> QED BY <1>1, <2>1, <3>1, <3>2, EmptySegmentOK DEF WalOK, WalBounded
    <2>4. CASE DOMAIN segs # {}
      <3>1. segs' = segs /\ nextSeg' = LastSegment + 1
        BY <2>4 DEF Open, SegmentIdAfterLoad
      <3>2. LastSegment \in Nat /\ \A i \in DOMAIN segs : i <= LastSegment
        BY <2>1, <2>2, MaxOfFacts DEF LastSegment
      <3>3. nextSeg' \in Nat /\ \A i \in DOMAIN segs : i < nextSeg'
        BY <2>1, <3>1, <3>2
      <3>4. WalOK'
        BY <1>1, <2>1, <3>1, <3>3 DEF TypeInv, WalOK
      <3>5. WalBounded'
        BY <1>1, <2>1, <2>2, <3>1 DEF WalBounded
      <3> QED BY <3>4, <3>5
    <2> QED BY <2>3, <2>4
  <1>10. ManifestOK' /\ ManifestBounded'
    BY <1>1, <1>3 DEF TypeInv, Bounded, ManifestOK, ManifestBounded
  <1>11. HistoryOK'
    <2>1. \A x, y \in Nat : x * y \in Nat
      OBVIOUS
    <2>2. seqCounter' \in Nat
      BY <1>3, <2>1, MaxSstIdFacts
    <2> QED BY <1>1, <2>2 DEF TypeInv, HistoryOK
  <1> QED
    BY <1>4, <1>5, <1>7, <1>8, <1>9, <1>10, <1>11 DEF TypeInv, Bounded

LEMMA StutterTypes ==
    ASSUME TypeInv, UNCHANGED vars
    PROVE  TypeInv'
  <1>1. UNCHANGED <<up, seqCounter, batches, held, queue, group, gpos, wpc, caller, active,
                    frozen, flushing, index, segs, nextSeg, doomed, ssts, ckpt, acked,
                    promised, hazards, crashes>>
    BY DEF vars, memvars, walvars, manvars, history
  <1>2. WritersOK' /\ ControlOK' /\ HistoryOK'
    BY <1>1 DEF TypeInv, WritersOK, ControlOK, HistoryOK
  <1>3. MemoryOK' /\ MemoryBounded'
    BY <1>1 DEF TypeInv, Bounded, MemoryOK, MemoryBounded, InMem
  <1> QED
    BY <1>1, <1>2, <1>3, WalKept, ManifestKept DEF TypeInv, Bounded

-----------------------------------------------------------------------------
(* Theorems *)

\* Every reachable state has the types and the control structure of TypeInv.
THEOREM TypesInvariant == Spec => []TypeInv
  <1>1. Init => TypeInv
    BY InitTypes
  <1>2. TypeInv /\ [Next]_vars => TypeInv'
    <2> SUFFICES ASSUME TypeInv, [Next]_vars PROVE TypeInv'
      OBVIOUS
    <2>1. ASSUME NEW w \in Writers, Allocate(w) PROVE TypeInv'
      BY <2>1, AllocateTypes
    <2>2. ASSUME NEW w \in Writers, Enqueue(w) PROVE TypeInv'
      BY <2>2, EnqueueTypes
    <2>3. CASE Grouping
      BY <2>3, GroupBeginTypes, WriteNextTypes, WriteFailsTypes, GroupSyncTypes,
         AnswerTypes, EnterFlushTypes DEF Grouping
    <2>4. CASE Flushing
      BY <2>4, FreezeTypes, PopFrozenTypes, LeaveFlushTypes, WriteSstTypes,
         AppendFlushTypes, PublishTypes, TruncateWalTypes, FlushSyncTypes DEF Flushing
    <2>5. CASE OtherFlush \/ SyncTick \/ Crash \/ Open
      BY <2>5, EnterFlushTypes, SyncTickTypes, CrashTypes, OpenTypes
    <2>6. CASE UNCHANGED vars
      BY <2>6, StutterTypes
    <2> QED BY <2>1, <2>2, <2>3, <2>4, <2>5, <2>6 DEF Next, Writing
  <1> QED
    BY <1>1, <1>2, PTL DEF Spec

\* The sequence numbers, the queue, the segments, the memtables and the manifest
\* keep their types through writes, flushes, I/O errors, crashes and restarts.
THEOREM TypesHold == Spec => []TypeOK
  <1>1. TypeInv => TypeOK
    <2> SUFFICES ASSUME TypeInv PROVE TypeOK
      OBVIOUS
    <2>1. \A i \in DOMAIN segs : /\ segs[i] \in Segments
                                 /\ segs[i].synced <= Len(segs[i].recs)
                                 /\ up => i < nextSeg
      BY DEF TypeInv, WalOK, SegmentOK
    <2>2. \A i \in DOMAIN doomed : doomed[i] \in Segments
      BY DEF TypeInv, WalOK, SegmentOK
    <2> QED BY <2>1, <2>2 DEF TypeInv, WritersOK, ControlOK, MemoryOK, WalOK, ManifestOK,
                              HistoryOK, TypeOK
  <1> QED
    BY <1>1, TypesInvariant, PTL

-----------------------------------------------------------------------------
(* What is kept, and where *)

\* The record belongs to a batch of the group that is in the log and in memory.
Written(r) ==
    \E j \in 1..Len(group) :
        j < gpos /\ \E k \in 1..Len(held[group[j]]) : r = held[group[j]][k]

\* The engine has taken the record over: it was written, answered or promised.
Claimed(r) == r \in acked \/ r \in promised \/ Written(r)

InLog(r) == \E i \in DOMAIN segs : r \in Readable(segs[i]) /\ r.seq <= segs[i].max

OnDiskLog(r) == \E i \in DOMAIN segs : r \in OnDisk(segs[i]) /\ r.seq <= segs[i].max

\* In the log behind the checkpoint, and in a memtable of the open engine.
Logged(r) == r.seq > ckpt /\ InLog(r) /\ (up => InMem(r))

\* Whatever the engine has taken over is in an SST of the manifest, or logged.
Kept == \A r \in Records : ~r.ttl /\ Claimed(r) => InSst(r) \/ Logged(r)

\* A promised record that is in no SST is in the fsynced log.
Durable ==
    \A r \in Records : ~r.ttl /\ r \in promised =>
        InSst(r) \/ (r.seq > ckpt /\ OnDiskLog(r))

\* Under SyncMode::Always the log is fsynced before the group is answered.
GroupSynced ==
    Always /\ caller = "group" /\ wpc # "write" =>
        \A i \in DOMAIN segs : segs[i].synced = Len(segs[i].recs)

\* The id of the SST do_flush writes is a new one; once the SST is in the
\* manifest the checkpoint covers it.
FlushSound ==
    /\ wpc = "manifest" => flushing.id \notin DOMAIN ssts
    /\ wpc \in {"checkpoint", "index", "truncate", "resync"} =>
        LastSeq(flushing.recs) <= ckpt
    /\ wpc \in {"checkpoint", "index"} =>
        flushing.id \in DOMAIN ssts /\ ssts[flushing.id] = flushing.recs

\* Only the SST do_flush has in hand is in the manifest and not in the index.
Indexed ==
    up => \A i \in DOMAIN ssts :
            i \in index \/ (wpc \in {"checkpoint", "index"} /\ i = flushing.id)

\* Memory and log say the same.
MemoryIsLog ==
    /\ \A r \in active : r \in WalRecords /\ r.seq > ckpt
    /\ up => \A r \in WalRecords : ~r.ttl /\ r.seq > ckpt => InMem(r)

RecoveryInv ==
    /\ GroupSynced /\ FlushSound
    /\ Benign => Kept /\ Durable /\ Indexed
    /\ hazards = {} => MemoryIsLog

-----------------------------------------------------------------------------
(* The log *)

LEMMA RecordSeq == \A r \in Records : r.seq \in Nat /\ r # Torn
  BY DEF Records, Torn

LEMMA SameLog ==
    ASSUME segs' = segs
    PROVE  /\ \A r : InLog(r)' <=> InLog(r)
           /\ \A r : OnDiskLog(r)' <=> OnDiskLog(r)
           /\ WalRecords' = WalRecords
  BY DEF InLog, OnDiskLog, WalRecords

LEMMA SameSst ==
    ASSUME ssts' = ssts
    PROVE  \A r : InSst(r)' <=> InSst(r)
  BY DEF InSst

LEMMA SameMemory ==
    ASSUME UNCHANGED <<active, frozen, flushing>>
    PROVE  \A r : InMem(r)' <=> InMem(r)
  BY DEF InMem

\* What can be read of a segment, and what is on disk, stays so when the
\* segment grows.
LEMMA ExtendsKeeps ==
    ASSUME NEW s, NEW t, SegmentOK(s), SegmentOK(t), Extends(s, t)
    PROVE  Readable(s) \subseteq Readable(t) /\ OnDisk(s) \subseteq OnDisk(t)
  <1>1. /\ Len(s.recs) \in Nat /\ s.synced \in Nat /\ s.synced <= Len(s.recs)
        /\ Len(t.recs) \in Nat /\ t.synced \in Nat
    BY SegmentFacts
  <1>2. /\ Len(s.recs) <= Len(t.recs) /\ s.synced <= t.synced
        /\ \A k \in 1..Len(s.recs) : t.recs[k] = s.recs[k]
    BY DEF Extends
  <1>3. ASSUME NEW j \in 1..Len(s.recs), ReadableTo(s.recs, j)
        PROVE  ReadableTo(t.recs, j)
    <2>1. \A i \in 1..j : i \in 1..Len(s.recs)
      BY <1>1
    <2> QED BY <1>2, <1>3, <2>1 DEF ReadableTo
  <1>4. ASSUME NEW r \in Readable(s) PROVE r \in Readable(t)
    <2>1. PICK j \in 1..Len(s.recs) : r = s.recs[j] /\ ReadableTo(s.recs, j)
      BY DEF Readable
    <2>2. j \in 1..Len(t.recs) /\ r = t.recs[j] /\ ReadableTo(t.recs, j)
      BY <1>1, <1>2, <1>3, <2>1
    <2> QED BY <2>2 DEF Readable
  <1>5. ASSUME NEW r \in OnDisk(s) PROVE r \in OnDisk(t)
    <2>1. PICK j \in 1..s.synced : r = s.recs[j] /\ ReadableTo(s.recs, j)
      BY DEF OnDisk
    <2>2. j \in 1..Len(s.recs) /\ j \in 1..t.synced
      BY <1>1, <1>2
    <2>3. r = t.recs[j] /\ ReadableTo(t.recs, j)
      BY <1>2, <1>3, <2>1, <2>2
    <2> QED BY <2>2, <2>3 DEF OnDisk
  <1> QED
    BY <1>4, <1>5

\* The log keeps what it has when every segment only grows.
LEMMA LogGrows ==
    ASSUME TypeInv, TypeInv',
           \A i \in DOMAIN segs : i \in DOMAIN segs' /\ Extends(segs[i], segs'[i])
    PROVE  /\ \A r \in Records : InLog(r) => InLog(r)'
           /\ \A r \in Records : OnDiskLog(r) => OnDiskLog(r)'
           /\ WalRecords \subseteq WalRecords'
  <1>1. \A i \in DOMAIN segs :
            /\ i \in DOMAIN segs'
            /\ Readable(segs[i]) \subseteq Readable(segs'[i])
            /\ OnDisk(segs[i]) \subseteq OnDisk(segs'[i])
            /\ segs[i].max \in Nat /\ segs'[i].max \in Nat /\ segs[i].max <= segs'[i].max
    <2> SUFFICES ASSUME NEW i \in DOMAIN segs
                 PROVE  /\ i \in DOMAIN segs'
                        /\ Readable(segs[i]) \subseteq Readable(segs'[i])
                        /\ OnDisk(segs[i]) \subseteq OnDisk(segs'[i])
                        /\ segs[i].max \in Nat /\ segs'[i].max \in Nat
                        /\ segs[i].max <= segs'[i].max
      OBVIOUS
    <2>1. /\ i \in DOMAIN segs' /\ SegmentOK(segs[i]) /\ SegmentOK(segs'[i])
          /\ Extends(segs[i], segs'[i])
      BY DEF TypeInv, WalOK
    <2>2. Readable(segs[i]) \subseteq Readable(segs'[i]) /\ OnDisk(segs[i]) \subseteq OnDisk(segs'[i])
      BY <2>1, ExtendsKeeps
    <2>3. segs[i].max \in Nat /\ segs'[i].max \in Nat /\ segs[i].max <= segs'[i].max
      BY <2>1, SegmentFacts DEF Extends
    <2> QED BY <2>1, <2>2, <2>3
  <1>2. \A r \in Records : \A i \in DOMAIN segs : r.seq <= segs[i].max => r.seq <= segs'[i].max
    BY <1>1, RecordSeq
  <1> QED
    BY <1>1, <1>2 DEF InLog, OnDiskLog, WalRecords

\* A segment all of which is fsynced.
LEMMA AllSynced ==
    ASSUME NEW seg, seg.synced = Len(seg.recs)
    PROVE  OnDisk(seg) = Readable(seg)
  BY DEF OnDisk, Readable

LEMMA SyncedFacts ==
    ASSUME TypeInv, TypeInv', segs' = Synced(segs)
    PROVE  /\ \A r \in Records : InLog(r) => InLog(r)' /\ OnDiskLog(r)'
           /\ \A r \in Records : OnDiskLog(r) => OnDiskLog(r)'
           /\ WalRecords' = WalRecords
           /\ \A i \in DOMAIN segs' : segs'[i].synced = Len(segs'[i].recs)
  <1>1. DOMAIN segs' = DOMAIN segs
    BY DEF Synced
  <1>2. ASSUME NEW i \in DOMAIN segs
        PROVE  /\ segs'[i].recs = segs[i].recs /\ segs'[i].synced = Len(segs[i].recs)
               /\ segs'[i].max = segs[i].max /\ SegmentOK(segs[i])
    <2>1. segs'[i] = [segs[i] EXCEPT !.synced = Len(segs[i].recs)]
      BY DEF Synced
    <2>2. segs[i] \in Segments /\ SegmentOK(segs[i])
      BY DEF TypeInv, WalOK, SegmentOK
    <2> QED BY <2>1, <2>2 DEF Segments
  <1>3. \A i \in DOMAIN segs : /\ Readable(segs'[i]) = Readable(segs[i])
                               /\ segs'[i].synced = Len(segs'[i].recs)
    BY <1>2 DEF Readable
  <1>4. \A i \in DOMAIN segs : OnDisk(segs'[i]) = Readable(segs'[i])
    BY <1>3, AllSynced
  <1>5. \A i \in DOMAIN segs : Extends(segs[i], segs'[i])
    <2> SUFFICES ASSUME NEW i \in DOMAIN segs PROVE Extends(segs[i], segs'[i])
      OBVIOUS
    <2>1. /\ Len(segs[i].recs) \in Nat /\ segs[i].synced <= Len(segs[i].recs)
          /\ segs[i].max \in Nat
      BY <1>2, SegmentFacts
    <2> QED BY <1>2, <2>1 DEF Extends
  <1>6. \A r \in Records : InLog(r) => InLog(r)' /\ OnDiskLog(r)'
    BY <1>1, <1>2, <1>3, <1>4 DEF InLog, OnDiskLog
  <1>7. \A r \in Records : OnDiskLog(r) => OnDiskLog(r)'
    BY <1>1, <1>5, LogGrows
  <1>8. WalRecords' = WalRecords
    BY <1>1, <1>3 DEF WalRecords
  <1> QED
    BY <1>1, <1>3, <1>6, <1>7, <1>8

-----------------------------------------------------------------------------
(* What is claimed *)

\* No batch of a group that has just started, or of none, is written.
LEMMA NothingWritten ==
    ASSUME group' = <<>> \/ gpos' = 1
    PROVE  \A r : ~Written(r)'
  BY DEF Written

\* A group that is written to the end.
LEMMA WholeGroupWritten ==
    ASSUME TypeInv, gpos > Len(group)
    PROVE  \A r \in GroupRecords : Written(r)
  <1>1. gpos \in Nat /\ Len(group) \in Nat
    BY LenProperties DEF TypeInv, WritersOK
  <1>2. \A j \in 1..Len(group) : j < gpos
    BY <1>1
  <1>3. \A r \in GroupRecords : \E j \in 1..Len(group) :
            \E k \in 1..Len(held[group[j]]) : r = held[group[j]][k]
    BY DEF GroupRecords, Elems
  <1> QED
    BY <1>2, <1>3 DEF Written

\* The answer to the group claims nothing that was not written.
LEMMA AnswerClaims ==
    ASSUME TypeInv, NEW x, AnswerGroup(x), x # "ok" \/ gpos > Len(group)
    PROVE  /\ \A r : Claimed(r)' => Claimed(r)
           /\ \A r \in promised' : r \in promised \/ (Always /\ Written(r))
  <1>1. \A r : ~Written(r)'
    BY NothingWritten DEF AnswerGroup
  <1>2. CASE x # "ok"
    <2>1. acked' = acked /\ promised' = promised
      BY <1>2 DEF AnswerGroup
    <2> QED BY <1>1, <2>1 DEF Claimed
  <1>3. CASE gpos > Len(group)
    <2>1. /\ \A r \in acked' : r \in acked \/ r \in GroupRecords
          /\ \A r \in promised' : r \in promised \/ (Always /\ r \in GroupRecords)
      BY DEF AnswerGroup
    <2>2. \A r \in GroupRecords : Written(r)
      BY <1>3, WholeGroupWritten
    <2> QED BY <1>1, <2>1, <2>2 DEF Claimed
  <1> QED
    BY <1>2, <1>3

LEMMA FlushReturnsClaims ==
    ASSUME TypeInv, wpc \notin {"free", "write", "decide"}, NEW x, FlushReturns(x)
    PROVE  /\ \A r : Claimed(r)' => Claimed(r)
           /\ \A r \in promised' :
                r \in promised \/ (Always /\ caller = "group" /\ Written(r))
  <1>1. caller = "group" \/ caller = "other"
    BY DEF TypeInv, ControlOK
  <1>2. CASE caller = "group"
    <2>1. AnswerGroup(x) /\ gpos > Len(group)
      BY <1>2 DEF FlushReturns, TypeInv, ControlOK
    <2> QED BY <1>2, <2>1, AnswerClaims
  <1>3. CASE caller = "other"
    <2>1. UNCHANGED <<held, group, gpos, acked, promised>>
      BY <1>3 DEF FlushReturns
    <2> QED BY <2>1 DEF Claimed, Written
  <1> QED
    BY <1>1, <1>2, <1>3

\* A promise that comes with the answer to a group is kept by the fsync the
\* group made.
LEMMA PromiseIsDurable ==
    ASSUME TypeInv, GroupSynced, Kept, Durable, wpc # "write", UNCHANGED <<ssts, ckpt>>,
           promised' \subseteq Records,
           \A r \in promised' :
                r \in promised \/ (Always /\ caller = "group" /\ Written(r)),
           \A r \in Records : OnDiskLog(r) => OnDiskLog(r)'
    PROVE  Durable'
  <1> SUFFICES ASSUME NEW r \in Records, ~r.ttl, r \in promised'
               PROVE  InSst(r)' \/ (r.seq > ckpt' /\ OnDiskLog(r)')
    BY DEF Durable
  <1>1. InSst(r)' <=> InSst(r)
    BY SameSst
  <1>2. CASE r \in promised
    BY <1>1, <1>2 DEF Durable
  <1>3. CASE Always /\ caller = "group" /\ Written(r)
    <2>1. \A i \in DOMAIN segs : OnDisk(segs[i]) = Readable(segs[i])
      BY <1>3, AllSynced DEF GroupSynced
    <2>2. InLog(r) => OnDiskLog(r)
      BY <2>1 DEF InLog, OnDiskLog
    <2> QED BY <1>1, <1>3, <2>2 DEF Kept, Claimed, Logged
  <1> QED
    BY <1>2, <1>3

\* Claims that were kept stay kept when the log, the SSTs and the memory only
\* gain.
LEMMA KeptStays ==
    ASSUME Kept, UNCHANGED <<up, ckpt>>,
           \A r \in Records : ~r.ttl /\ Claimed(r)' => Claimed(r),
           \A r \in Records : InSst(r) => InSst(r)',
           \A r \in Records : InLog(r) => InLog(r)',
           \A r \in Records : ~r.ttl /\ r.seq > ckpt /\ InMem(r) => InMem(r)'
    PROVE  Kept'
  BY DEF Kept, Logged

\* The same for the promises.
LEMMA DurableStays ==
    ASSUME Durable, ckpt' = ckpt,
           \A r \in Records : r \in promised' => r \in promised,
           \A r \in Records : InSst(r) => InSst(r)',
           \A r \in Records : OnDiskLog(r) => OnDiskLog(r)'
    PROVE  Durable'
  BY DEF Durable

-----------------------------------------------------------------------------
(* Every action keeps the recovery invariant *)

LEMMA InitRecovery == Init => RecoveryInv
  <1> SUFFICES ASSUME Init PROVE RecoveryInv
    OBVIOUS
  <1>1. GroupSynced
    BY DEF Init, GroupSynced
  <1>2. FlushSound
    BY DEF Init, FlushSound
  <1>3. Kept /\ Durable /\ Indexed
    <2>1. \A r : ~Claimed(r)
      BY DEF Init, Claimed, Written
    <2> QED BY <2>1 DEF Init, Kept, Durable, Indexed
  <1>4. MemoryIsLog
    <2>1. Readable(EmptySegment) = {}
      BY DEF Readable, EmptySegment
    <2>2. WalRecords = {}
      BY <2>1 DEF Init, WalRecords
    <2> QED BY <2>2 DEF Init, MemoryIsLog
  <1> QED
    BY <1>1, <1>2, <1>3, <1>4 DEF RecoveryInv

\* Steps that touch neither the log nor the memtables nor the manifest, and
\* claim nothing: a batch is drawn, queued, taken by the leader; do_flush is
\* entered; a failed fsync is answered.
LEMMA QuietRecovery ==
    ASSUME TypeInv, TypeInv', RecoveryInv,
           UNCHANGED <<up, segs, ssts, ckpt, index, active, frozen, flushing, hazards, promised>>,
           \A r : Claimed(r)' => Claimed(r),
           wpc \in {"free", "write", "decide"}, wpc' \in {"free", "write", "decide", "freeze"},
           \/ caller' # "group"
           \/ wpc' = "write"
           \/ caller' = caller /\ wpc # "write"
    PROVE  RecoveryInv'
  <1>1. GroupSynced'
    BY DEF RecoveryInv, GroupSynced
  <1>2. FlushSound'
    BY DEF FlushSound
  <1>3. Benign' => Kept' /\ Durable' /\ Indexed'
    <2> SUFFICES ASSUME Benign' PROVE Kept' /\ Durable' /\ Indexed'
      OBVIOUS
    <2>1. Kept /\ Durable /\ Indexed
      BY DEF RecoveryInv, Benign
    <2>2. Kept'
      BY <2>1, KeptStays, SameLog, SameSst, SameMemory
    <2>3. Durable'
      BY <2>1, DurableStays, SameLog, SameSst
    <2>4. Indexed'
      BY <2>1 DEF Indexed
    <2> QED BY <2>2, <2>3, <2>4
  <1>4. hazards' = {} => MemoryIsLog'
    <2> SUFFICES ASSUME hazards = {} PROVE MemoryIsLog'
      OBVIOUS
    <2>1. MemoryIsLog
      BY DEF RecoveryInv
    <2> QED BY <2>1, SameLog, SameMemory DEF MemoryIsLog
  <1> QED
    BY <1>1, <1>2, <1>3, <1>4 DEF RecoveryInv

LEMMA SubmitRecovery ==
    ASSUME TypeInv, TypeInv', RecoveryInv, NEW w \in Writers, Allocate(w) \/ Enqueue(w)
    PROVE  RecoveryInv'
  <1>1. UNCHANGED <<up, segs, ssts, ckpt, index, active, frozen, flushing, hazards, promised,
                    acked, group, gpos, wpc, caller>>
    BY DEF Allocate, Enqueue, walvars, manvars, history
  <1>2. \A j \in 1..Len(group) : held'[group[j]] = held[group[j]]
    <2>1. \A j \in 1..Len(group) : group[j] \in Writers /\ held[group[j]] # <<>>
      BY GroupIsWriters DEF TypeInv, WritersOK
    <2>2. \A v \in Writers : held[v] # <<>> => held'[v] = held[v]
      BY DEF Allocate, Enqueue, TypeInv, WritersOK
    <2> QED BY <2>1, <2>2
  <1>3. \A r : Claimed(r)' => Claimed(r)
    BY <1>1, <1>2 DEF Claimed, Written
  <1>4. GroupSynced'
    BY <1>1 DEF RecoveryInv, GroupSynced
  <1>5. FlushSound'
    BY <1>1 DEF RecoveryInv, FlushSound
  <1>6. Benign' => Kept' /\ Durable' /\ Indexed'
    <2> SUFFICES ASSUME Benign' PROVE Kept' /\ Durable' /\ Indexed'
      OBVIOUS
    <2>1. Kept /\ Durable /\ Indexed
      BY <1>1 DEF RecoveryInv, Benign
    <2>2. Kept'
      BY <1>1, <1>3, <2>1, KeptStays, SameLog, SameSst, SameMemory
    <2>3. Durable'
      BY <1>1, <2>1, DurableStays, SameLog, SameSst
    <2>4. Indexed'
      BY <1>1, <2>1 DEF Indexed
    <2> QED BY <2>2, <2>3, <2>4
  <1>7. hazards' = {} => MemoryIsLog'
    <2> SUFFICES ASSUME hazards = {} PROVE MemoryIsLog'
      BY <1>1
    <2>1. MemoryIsLog
      BY DEF RecoveryInv
    <2> QED BY <1>1, <2>1, SameLog, SameMemory DEF MemoryIsLog
  <1> QED
    BY <1>4, <1>5, <1>6, <1>7 DEF RecoveryInv

LEMMA EnterRecovery ==
    ASSUME TypeInv, TypeInv', RecoveryInv,
           GroupBegin \/ GroupSyncFails \/ GroupFlush \/ OtherFlush
    PROVE  RecoveryInv'
  <1>1. CASE GroupBegin
    <2>1. /\ UNCHANGED <<up, segs, ssts, ckpt, index, active, frozen, flushing, hazards,
                         promised, acked, held>>
          /\ wpc = "free" /\ gpos' = 1
      BY <1>1 DEF GroupBegin, walvars, manvars, history
    <2>2. \A r : Claimed(r)' => Claimed(r)
      BY <2>1, NothingWritten DEF Claimed
    <2>3. wpc' = "write"
      BY <1>1 DEF GroupBegin, TypeInv, ControlOK
    <2> QED BY <2>1, <2>2, <2>3, QuietRecovery
  <1>2. CASE GroupSyncFails
    <2>1. /\ UNCHANGED <<up, segs, ssts, ckpt, index, active, frozen, flushing, hazards>>
          /\ wpc = "write" /\ AnswerGroup("err")
      BY <1>2 DEF GroupSyncFails, walvars, manvars
    <2>2. wpc' = "free" /\ caller' = "other" /\ promised' = promised
      BY <2>1 DEF AnswerGroup
    <2>3. \A r : Claimed(r)' => Claimed(r)
      BY <2>1, AnswerClaims
    <2> QED BY <2>1, <2>2, <2>3, QuietRecovery
  <1>3. CASE GroupFlush \/ OtherFlush
    <2>1. /\ UNCHANGED <<up, segs, ssts, ckpt, index, active, frozen, flushing, hazards,
                         promised, acked, held, group, gpos, caller>>
          /\ wpc \in {"decide", "free"} /\ wpc' = "freeze"
      BY <1>3 DEF GroupFlush, OtherFlush, walvars, manvars, history
    <2>2. \A r : Claimed(r)' => Claimed(r)
      BY <2>1 DEF Claimed, Written
    <2> QED BY <2>1, <2>2, QuietRecovery
  <1> QED
    BY <1>1, <1>2, <1>3

LEMMA NoFlushRecovery ==
    ASSUME TypeInv, TypeInv', RecoveryInv, NoFlush
    PROVE  RecoveryInv'
  <1>1. UNCHANGED <<up, segs, ssts, ckpt, index, active, frozen, flushing, hazards>>
    BY DEF NoFlush, walvars, manvars
  <1>2. wpc = "decide" /\ AnswerGroup("ok") /\ wpc' = "free" /\ caller' = "other"
    BY DEF NoFlush, AnswerGroup
  <1>3. /\ \A r : Claimed(r)' => Claimed(r)
        /\ \A r \in promised' : r \in promised \/ (Always /\ caller = "group" /\ Written(r))
    <2>1. gpos > Len(group) /\ caller = "group"
      BY <1>2 DEF TypeInv, ControlOK
    <2> QED BY <1>2, <2>1, AnswerClaims
  <1>4. GroupSynced' /\ FlushSound'
    BY <1>2 DEF GroupSynced, FlushSound
  <1>5. Benign' => Kept' /\ Durable' /\ Indexed'
    <2> SUFFICES ASSUME Benign' PROVE Kept' /\ Durable' /\ Indexed'
      OBVIOUS
    <2>1. Kept /\ Durable /\ Indexed /\ GroupSynced
      BY <1>1 DEF RecoveryInv, Benign
    <2>2. Kept'
      BY <1>1, <1>3, <2>1, KeptStays, SameLog, SameSst, SameMemory
    <2>3. promised' \subseteq Records
      BY DEF TypeInv, HistoryOK
    <2>4. Durable'
      BY <1>1, <1>2, <1>3, <2>1, <2>3, PromiseIsDurable, SameLog
    <2>5. Indexed'
      BY <1>1, <1>2, <2>1 DEF Indexed
    <2> QED BY <2>2, <2>4, <2>5
  <1>6. hazards' = {} => MemoryIsLog'
    <2> SUFFICES ASSUME hazards = {} PROVE MemoryIsLog'
      BY <1>1
    <2>1. MemoryIsLog
      BY DEF RecoveryInv
    <2> QED BY <1>1, <2>1, SameLog, SameMemory DEF MemoryIsLog
  <1> QED
    BY <1>4, <1>5, <1>6 DEF RecoveryInv

LEMMA GroupSyncRecovery ==
    ASSUME TypeInv, TypeInv', RecoveryInv, GroupSync
    PROVE  RecoveryInv'
  <1>1. UNCHANGED <<up, held, group, gpos, caller, active, frozen, flushing, index, ssts, ckpt,
                    acked, promised, hazards>>
    BY DEF GroupSync, manvars, history
  <1>2. wpc = "write" /\ wpc' = "decide"
    BY DEF GroupSync
  <1>3. (Always /\ segs' = Synced(segs)) \/ (~Always /\ segs' = segs)
    BY DEF GroupSync
  <1>4. /\ \A r \in Records : InLog(r) => InLog(r)'
        /\ \A r \in Records : OnDiskLog(r) => OnDiskLog(r)'
        /\ WalRecords' = WalRecords
    BY <1>3, SyncedFacts, SameLog
  <1>5. \A r : Claimed(r)' => Claimed(r)
    BY <1>1 DEF Claimed, Written
  <1>6. GroupSynced'
    BY <1>3, SyncedFacts DEF GroupSynced
  <1>7. FlushSound'
    BY <1>2 DEF FlushSound
  <1>8. Benign' => Kept' /\ Durable' /\ Indexed'
    <2> SUFFICES ASSUME Benign' PROVE Kept' /\ Durable' /\ Indexed'
      OBVIOUS
    <2>1. Kept /\ Durable /\ Indexed
      BY <1>1 DEF RecoveryInv, Benign
    <2>2. Kept'
      BY <1>1, <1>4, <1>5, <2>1, KeptStays, SameSst, SameMemory
    <2>3. Durable'
      BY <1>1, <1>4, <2>1, DurableStays, SameSst
    <2>4. Indexed'
      BY <1>1, <1>2, <2>1 DEF Indexed
    <2> QED BY <2>2, <2>3, <2>4
  <1>9. hazards' = {} => MemoryIsLog'
    <2> SUFFICES ASSUME hazards = {} PROVE MemoryIsLog'
      BY <1>1
    <2>1. MemoryIsLog
      BY DEF RecoveryInv
    <2> QED BY <1>1, <1>4, <2>1, SameMemory DEF MemoryIsLog
  <1> QED
    BY <1>6, <1>7, <1>8, <1>9 DEF RecoveryInv

LEMMA SyncTickRecovery ==
    ASSUME TypeInv, TypeInv', RecoveryInv, SyncTick
    PROVE  RecoveryInv'
  <1>1. UNCHANGED <<up, held, group, gpos, wpc, caller, active, frozen, flushing, index, ssts,
                    ckpt, acked, hazards>>
    BY DEF SyncTick, memvars, manvars
  <1>2. wpc = "free" /\ segs' = Synced(segs) /\ promised' = promised \cup acked /\ caller = "other"
    BY DEF SyncTick, TypeInv, ControlOK
  <1>3. /\ \A r \in Records : InLog(r) => InLog(r)' /\ OnDiskLog(r)'
        /\ \A r \in Records : OnDiskLog(r) => OnDiskLog(r)'
        /\ WalRecords' = WalRecords
    BY <1>2, SyncedFacts
  <1>4. \A r : Claimed(r)' => Claimed(r)
    BY <1>1, <1>2 DEF Claimed, Written
  <1>5. GroupSynced' /\ FlushSound'
    BY <1>1, <1>2 DEF GroupSynced, FlushSound
  <1>6. Benign' => Kept' /\ Durable' /\ Indexed'
    <2> SUFFICES ASSUME Benign' PROVE Kept' /\ Durable' /\ Indexed'
      OBVIOUS
    <2>1. Kept /\ Durable /\ Indexed
      BY <1>1 DEF RecoveryInv, Benign
    <2>2. Kept'
      BY <1>1, <1>3, <1>4, <2>1, KeptStays, SameSst, SameMemory
    <2>3. Durable'
      <3> SUFFICES ASSUME NEW r \in Records, ~r.ttl, r \in promised'
                   PROVE  InSst(r)' \/ (r.seq > ckpt' /\ OnDiskLog(r)')
        BY DEF Durable
      <3>1. Claimed(r)
        BY <1>2 DEF Claimed
      <3>2. InSst(r) \/ (r.seq > ckpt /\ InLog(r))
        BY <2>1, <3>1 DEF Kept, Logged
      <3> QED BY <1>1, <1>3, <3>2, SameSst
    <2>4. Indexed'
      BY <1>1, <2>1 DEF Indexed
    <2> QED BY <2>2, <2>3, <2>4
  <1>7. hazards' = {} => MemoryIsLog'
    <2> SUFFICES ASSUME hazards = {} PROVE MemoryIsLog'
      BY <1>1
    <2>1. MemoryIsLog
      BY DEF RecoveryInv
    <2> QED BY <1>1, <1>3, <2>1, SameMemory DEF MemoryIsLog
  <1> QED
    BY <1>5, <1>6, <1>7 DEF RecoveryInv

\* What replay would read of a segment that a batch was appended to: not more
\* than before and the batch, and the batch unless it is behind a torn record.
LEMMA AppendedReads ==
    ASSUME TypeInv, up, NEW w \in Writers, held[w] # <<>>,
           NEW new, new = Appended(TargetSegment, held[w], held[w][Len(held[w])].seq)
    PROVE  /\ Readable(new) \subseteq Readable(TargetSegment) \cup Elems(held[w])
           /\ Torn \notin Elems(TargetSegment.recs) =>
                \A r \in Elems(held[w]) : r \in Readable(new) /\ r.seq <= new.max
  <1>1. PICK old, recs, all : old = TargetSegment.recs /\ recs = held[w] /\ all = new.recs
    OBVIOUS
  <1>2. /\ SegmentOK(TargetSegment) /\ SegmentOK(new)
    BY AppendedFacts, TargetFacts
  <1>3. PICK x \in Nat : x = Len(old)
    BY <1>1, <1>2, SegmentFacts
  <1>4. PICK y \in Nat : y = Len(recs) /\ y # 0
    BY <1>1, BatchFacts
  <1>5. /\ Len(all) = x + y
        /\ \A k \in 1..x : all[k] = old[k]
        /\ \A k \in 1..y : all[x + k] = recs[k]
        /\ \A k \in 1..(x + y) : k > x => k - x \in 1..y /\ all[k] = recs[k - x]
    <2>1. /\ Len(all) = Len(old) + Len(recs)
          /\ \A k \in 1..Len(recs) : all[Len(old) + k] = recs[k]
          /\ \A k \in 1..Len(all) : k > Len(old) =>
                k - Len(old) \in 1..Len(recs) /\ all[k] = recs[k - Len(old)]
      BY <1>1, AppendedFacts, ZenonT(60)
    <2>2. \A k \in 1..Len(old) : all[k] = old[k]
      BY <1>1, AppendedFacts DEF Extends
    <2> QED BY <1>3, <1>4, <2>1, <2>2
  <1>6. ASSUME NEW r \in Readable(new) PROVE r \in Readable(TargetSegment) \cup Elems(held[w])
    <2>1. PICK j \in 1..(x + y) : r = all[j] /\ ReadableTo(all, j)
      BY <1>1, <1>5 DEF Readable
    <2>2. CASE j <= x
      <3>1. j \in 1..x /\ \A i \in 1..j : i \in 1..x
        BY <2>2
      <3>2. r = old[j] /\ ReadableTo(old, j)
        BY <1>5, <2>1, <3>1 DEF ReadableTo
      <3> QED BY <1>1, <1>3, <3>1, <3>2 DEF Readable
    <2>3. CASE j > x
      BY <1>1, <1>4, <1>5, <2>1, <2>3 DEF Elems
    <2> QED BY <2>2, <2>3
  <1>7. ASSUME Torn \notin Elems(TargetSegment.recs), NEW r \in Elems(held[w])
        PROVE  r \in Readable(new) /\ r.seq <= new.max
    <2>1. PICK k \in 1..y : r = recs[k]
      BY <1>1, <1>4 DEF Elems
    <2>2. x + k \in 1..(x + y) /\ all[x + k] = r
      BY <1>5, <2>1
    <2>3. ReadableTo(all, x + k)
      <3> SUFFICES ASSUME NEW i \in 1..(x + k) PROVE all[i] # Torn
        BY DEF ReadableTo
      <3>1. CASE i <= x
        <4>1. i \in 1..x
          BY <3>1
        <4>2. old[i] # Torn
          BY <1>1, <1>3, <1>7, <4>1 DEF Elems
        <4> QED BY <1>5, <4>1, <4>2
      <3>2. CASE i > x
        <4>1. i \in 1..(x + y)
          OBVIOUS
        <4>2. i - x \in 1..y /\ all[i] = recs[i - x]
          BY <1>5, <3>2, <4>1
        <4>3. \A m \in 1..y : recs[m] # Torn
          BY <1>1, <1>4, BatchFacts
        <4> QED BY <4>2, <4>3
      <3> QED BY <3>1, <3>2
    <2>4. r \in Readable(new)
      BY <1>1, <1>5, <2>2, <2>3 DEF Readable
    <2>5. r.seq <= new.max
      <3>1. PICK last \in Nat : last = recs[Len(recs)].seq
        BY <1>1, BatchFacts
      <3>2. r.seq \in Nat /\ r.seq <= last
        BY <1>1, <1>4, <2>1, <3>1, BatchFacts
      <3>3. last <= new.max /\ new.max \in Nat
        BY <1>1, <1>2, <3>1, AppendedFacts, SegmentFacts
      <3> QED BY <3>2, <3>3
    <2> QED BY <2>4, <2>5
  <1> QED
    BY <1>6, <1>7

\* What replay would read of the whole log after the target has grown.
LEMMA GrownReads ==
    ASSUME TypeInv, TypeInv', up, NEW new, SegmentOK(new), Extends(TargetSegment, new), Grown(new),
           NEW S, Readable(new) \subseteq Readable(TargetSegment) \cup S
    PROVE  /\ WalRecords' \subseteq WalRecords \cup S
           /\ WalRecords \subseteq WalRecords'
           /\ \A r \in Records : InLog(r) => InLog(r)'
           /\ \A r \in Records : OnDiskLog(r) => OnDiskLog(r)'
           /\ Target \in DOMAIN segs' /\ segs'[Target] = new
  <1>1. /\ Target \in DOMAIN segs' /\ segs'[Target] = new
        /\ \A i \in DOMAIN segs : i \in DOMAIN segs' /\ Extends(segs[i], segs'[i])
        /\ \A i \in DOMAIN segs' : \/ i = Target
                                   \/ i \in DOMAIN segs /\ segs'[i] = segs[i]
                                   \/ i = NextId /\ segs'[i] = EmptySegment
    BY GrownFacts
  <1>2. Readable(EmptySegment) = {}
    BY DEF Readable, EmptySegment
  <1>3. Readable(TargetSegment) \subseteq WalRecords
    <2>1. CASE DOMAIN segs = {}
      BY <1>2, <2>1, TargetFacts
    <2>2. CASE DOMAIN segs # {}
      <3>1. Target \in DOMAIN segs /\ TargetSegment = segs[Target]
        BY <2>2, TargetFacts
      <3> QED BY <3>1 DEF WalRecords
    <2> QED BY <2>1, <2>2
  <1>4. WalRecords' \subseteq WalRecords \cup S
    <2> SUFFICES ASSUME NEW i \in DOMAIN segs', NEW r \in Readable(segs'[i])
                 PROVE  r \in WalRecords \cup S
      BY DEF WalRecords
    <2>1. CASE i = Target
      BY <1>1, <1>3, <2>1
    <2>2. CASE i \in DOMAIN segs /\ segs'[i] = segs[i]
      BY <2>2 DEF WalRecords
    <2>3. CASE segs'[i] = EmptySegment
      BY <1>2, <2>3
    <2> QED BY <1>1, <2>1, <2>2, <2>3
  <1> QED
    BY <1>1, <1>4, LogGrows

LEMMA WriteNextRecovery ==
    ASSUME TypeInv, TypeInv', RecoveryInv, WriteNext
    PROVE  RecoveryInv'
  <1>1. UNCHANGED <<up, held, group, wpc, caller, frozen, flushing, index, ssts, ckpt, acked,
                    promised>>
    BY DEF WriteNext, manvars
  <1>2. wpc = "write" /\ gpos <= Len(group) /\ gpos' = gpos + 1
    BY DEF WriteNext
  <1>3. PICK w \in Writers : w = group[gpos] /\ held[w] # <<>> /\ up
    BY <1>2, CurrentBatch
  <1>4. /\ WriteEncoded(held[w], held[w][Len(held[w])].seq)
        /\ active' = active \cup Elems(held[w])
        /\ hazards' = hazards \cup AppendHazards(held[w])
    BY <1>3 DEF WriteNext
  <1>5. PICK new : new = Appended(TargetSegment, held[w], held[w][Len(held[w])].seq)
    OBVIOUS
  <1>6. /\ Readable(new) \subseteq Readable(TargetSegment) \cup Elems(held[w])
        /\ Torn \notin Elems(TargetSegment.recs) =>
                \A r \in Elems(held[w]) : r \in Readable(new) /\ r.seq <= new.max
    BY <1>3, <1>5, AppendedReads
  <1>7. /\ WalRecords' \subseteq WalRecords \cup Elems(held[w])
        /\ WalRecords \subseteq WalRecords'
        /\ \A r \in Records : InLog(r) => InLog(r)'
        /\ \A r \in Records : OnDiskLog(r) => OnDiskLog(r)'
        /\ Target \in DOMAIN segs' /\ segs'[Target] = new
    <2>1. SegmentOK(new) /\ Extends(TargetSegment, new)
      BY <1>3, <1>5, AppendedFacts
    <2>2. Grown(new)
      BY <1>4, <1>5, WriteEncodedGrows
    <2> QED BY <1>3, <1>6, <2>1, <2>2, GrownReads
  <1>8. ASSUME Benign'
        PROVE  \A r \in Elems(held[w]) : /\ r \in Records /\ r.seq > ckpt /\ InLog(r)'
                                         /\ r \in WalRecords' /\ r \in active'
    <2>1. ~(held[w][1].seq <= ckpt) /\ Torn \notin Elems(TargetSegment.recs)
      BY <1>4, <1>8 DEF Benign, AppendHazards
    <2>2. \A r \in Elems(held[w]) : r \in Records /\ held[w][1].seq <= r.seq /\ r.seq \in Nat
      BY <1>3, BatchFacts DEF Elems
    <2>3. held[w][1].seq \in Nat /\ ckpt \in Nat
      <3>1. 1 \in 1..Len(held[w])
        BY <1>3, BatchFacts
      <3> QED BY <1>3, <3>1, BatchFacts DEF TypeInv, ManifestOK
    <2>4. \A r \in Elems(held[w]) : r.seq > ckpt
      BY <2>1, <2>2, <2>3
    <2> HIDE DEF Target
    <2>5. \A r \in Elems(held[w]) : InLog(r)' /\ r \in WalRecords'
      BY <1>6, <1>7, <2>1 DEF InLog, WalRecords
    <2> QED BY <1>4, <2>2, <2>4, <2>5
  <1>9. \A r : InMem(r) => InMem(r)'
    BY <1>1, <1>4 DEF InMem
  <1>10. \A r : Claimed(r)' => Claimed(r) \/ r \in Elems(held[w])
    <2>1. gpos \in Nat /\ \A j \in 1..Len(group) : j < gpos + 1 => j < gpos \/ j = gpos
      BY LenProperties DEF TypeInv, WritersOK
    <2> QED BY <1>1, <1>2, <1>3, <2>1 DEF Claimed, Written, Elems
  <1>11. GroupSynced' /\ FlushSound'
    BY <1>1, <1>2 DEF GroupSynced, FlushSound
  <1>12. Benign' => Kept' /\ Durable' /\ Indexed'
    <2> SUFFICES ASSUME Benign' PROVE Kept' /\ Durable' /\ Indexed'
      OBVIOUS
    <2>1. Kept /\ Durable /\ Indexed
      BY <1>4 DEF RecoveryInv, Benign
    <2>2. Kept'
      <3> SUFFICES ASSUME NEW r \in Records, ~r.ttl, Claimed(r)'
                   PROVE  InSst(r)' \/ Logged(r)'
        BY DEF Kept
      <3>1. CASE Claimed(r)
        <4>1. InSst(r) \/ (r.seq > ckpt /\ InLog(r) /\ InMem(r))
          BY <1>3, <2>1, <3>1 DEF Kept, Logged
        <4>2. CASE InSst(r)
          BY <1>1, <4>2, SameSst
        <4>3. CASE r.seq > ckpt /\ InLog(r) /\ InMem(r)
          BY <1>1, <1>7, <1>9, <4>3 DEF Logged
        <4> QED BY <4>1, <4>2, <4>3
      <3>2. CASE r \in Elems(held[w])
        <4>1. InMem(r)'
          BY <1>8, <3>2 DEF InMem
        <4> QED BY <1>1, <1>8, <3>2, <4>1 DEF Logged
      <3> QED BY <1>10, <3>1, <3>2
    <2>3. Durable'
      BY <1>1, <1>7, <2>1, DurableStays, SameSst
    <2>4. Indexed'
      BY <1>1, <2>1 DEF Indexed
    <2> QED BY <2>2, <2>3, <2>4
  <1>13. hazards' = {} => MemoryIsLog'
    <2> SUFFICES ASSUME hazards' = {} PROVE MemoryIsLog'
      OBVIOUS
    <2>1. MemoryIsLog /\ Benign'
      BY <1>4 DEF RecoveryInv, Benign
    <2>2. \A r \in active' : r \in WalRecords' /\ r.seq > ckpt'
      BY <1>1, <1>4, <1>7, <1>8, <2>1 DEF MemoryIsLog
    <2>3. \A r \in WalRecords' : ~r.ttl /\ r.seq > ckpt' => InMem(r)'
      <3> SUFFICES ASSUME NEW r \in WalRecords', ~r.ttl, r.seq > ckpt' PROVE InMem(r)'
        OBVIOUS
      <3>1. CASE r \in WalRecords
        BY <1>1, <1>3, <1>9, <2>1, <3>1 DEF MemoryIsLog
      <3>2. CASE r \in Elems(held[w])
        BY <1>4, <3>2 DEF InMem
      <3> QED BY <1>7, <3>1, <3>2
    <2> QED BY <2>2, <2>3 DEF MemoryIsLog
  <1> QED
    BY <1>11, <1>12, <1>13 DEF RecoveryInv

\* A torn record at the end of a segment hides nothing in front of it.
LEMMA TornTail ==
    ASSUME NEW s, NEW t, SegmentOK(s), t.recs = s.recs \o <<Torn>>
    PROVE  Readable(t) \subseteq Readable(s)
  <1>1. PICK old, all : old = s.recs /\ all = t.recs
    OBVIOUS
  <1>2. old \in Seq(LogEntries) /\ Torn \in LogEntries
    BY <1>1, SegmentFacts DEF LogEntries
  <1>3. PICK x \in Nat : x = Len(old)
    BY <1>2, LenProperties
  <1>4. <<Torn>> \in Seq(LogEntries) /\ Len(<<Torn>>) = 1 /\ <<Torn>>[1] = Torn
    BY <1>2
  <1>5. PICK tail : tail = <<Torn>>
    OBVIOUS
  <1>6. tail \in Seq(LogEntries) /\ Len(tail) = 1 /\ tail[1] = Torn
    BY <1>4, <1>5
  <1>7. /\ Len(all) = x + 1
        /\ \A i \in 1..(x + 1) : all[i] = IF i <= x THEN old[i] ELSE tail[i - x]
    BY <1>1, <1>2, <1>3, <1>5, <1>6, ConcatProperties
  <1>8. all[x + 1] = Torn /\ \A i \in 1..x : all[i] = old[i]
    <2>1. x + 1 \in 1..(x + 1) /\ ~(x + 1 <= x) /\ (x + 1) - x = 1
      OBVIOUS
    <2> QED BY <1>6, <1>7, <2>1
  <1>9. ASSUME NEW r \in Readable(t) PROVE r \in Readable(s)
    <2>1. PICK j \in 1..(x + 1) : r = all[j] /\ ReadableTo(all, j)
      BY <1>1, <1>7 DEF Readable
    <2>2. j # x + 1
      <3>1. j \in 1..j
        OBVIOUS
      <3> QED BY <1>8, <2>1, <3>1 DEF ReadableTo
    <2>3. j \in 1..x /\ \A i \in 1..j : i \in 1..x
      BY <2>2
    <2>4. r = old[j] /\ ReadableTo(old, j)
      BY <1>8, <2>1, <2>3 DEF ReadableTo
    <2> QED BY <1>1, <1>3, <2>3, <2>4 DEF Readable
  <1> QED
    BY <1>9

LEMMA WriteFailsRecovery ==
    ASSUME TypeInv, TypeInv', RecoveryInv, WriteFails
    PROVE  RecoveryInv'
  <1>1. UNCHANGED <<up, active, frozen, flushing, index, ssts, ckpt>>
    BY DEF WriteFails, manvars
  <1>2. wpc = "write" /\ gpos <= Len(group) /\ AnswerGroup("err")
    BY DEF WriteFails
  <1>3. wpc' = "free" /\ caller' = "other" /\ promised' = promised
    BY <1>2 DEF AnswerGroup
  <1>4. PICK w \in Writers : w = group[gpos] /\ held[w] # <<>> /\ up
    BY <1>2, CurrentBatch
  <1>5. WriteEncodedFails(held[w], held[w][Len(held[w])].seq)
    BY <1>4 DEF WriteFails
  <1>6. /\ hazards \subseteq hazards'
        /\ hazards' = {} => \A i \in DOMAIN segs' : held[w][1] \notin Elems(segs'[i].recs)
    BY <1>4 DEF WriteFails
  <1>7. \A r : Claimed(r)' => Claimed(r)
    BY <1>2, AnswerClaims
  <1>8. /\ WalRecords \subseteq WalRecords'
        /\ \A r \in Records : InLog(r) => InLog(r)'
        /\ \A r \in Records : OnDiskLog(r) => OnDiskLog(r)'
        /\ hazards' = {} => WalRecords' \subseteq WalRecords
    <2>1. CASE segs' = segs
      BY <2>1, SameLog
    <2>2. ASSUME NEW new, SegmentOK(new), Extends(TargetSegment, new), Grown(new),
                 \/ new.recs = TargetSegment.recs
                 \/ new.recs = TargetSegment.recs \o <<Torn>>
                 \/ /\ Len(new.recs) > Len(TargetSegment.recs)
                    /\ new.recs[Len(TargetSegment.recs) + 1] = held[w][1]
          PROVE  /\ WalRecords \subseteq WalRecords'
                 /\ \A r \in Records : InLog(r) => InLog(r)'
                 /\ \A r \in Records : OnDiskLog(r) => OnDiskLog(r)'
                 /\ hazards' = {} => WalRecords' \subseteq WalRecords
      <3>1. SegmentOK(TargetSegment)
        BY <1>4, TargetFacts
      <3>2. /\ WalRecords \subseteq WalRecords'
            /\ \A r \in Records : InLog(r) => InLog(r)'
            /\ \A r \in Records : OnDiskLog(r) => OnDiskLog(r)'
            /\ Target \in DOMAIN segs' /\ segs'[Target] = new
        <4>1. Readable(new) \subseteq Readable(TargetSegment) \cup Readable(new)
          OBVIOUS
        <4> QED BY <1>4, <2>2, <4>1, GrownReads
      <3>3. ASSUME hazards' = {} PROVE WalRecords' \subseteq WalRecords
        <4>1. held[w][1] \notin Elems(new.recs)
          BY <1>6, <3>2, <3>3
        <4>2. CASE new.recs = TargetSegment.recs
          <5>1. Readable(new) = Readable(TargetSegment)
            BY <4>2 DEF Readable
          <5>2. Readable(new) \subseteq Readable(TargetSegment) \cup {}
            BY <5>1
          <5>3. WalRecords' \subseteq WalRecords \cup {}
            BY <1>4, <2>2, <5>2, GrownReads
          <5> QED BY <5>3
        <4>3. CASE new.recs = TargetSegment.recs \o <<Torn>>
          <5>1. Readable(new) \subseteq Readable(TargetSegment)
            BY <3>1, <4>3, TornTail
          <5>2. Readable(new) \subseteq Readable(TargetSegment) \cup {}
            BY <5>1
          <5>3. WalRecords' \subseteq WalRecords \cup {}
            BY <1>4, <2>2, <5>2, GrownReads
          <5> QED BY <5>3
        <4>4. CASE /\ Len(new.recs) > Len(TargetSegment.recs)
                   /\ new.recs[Len(TargetSegment.recs) + 1] = held[w][1]
          <5>1. PICK x \in Nat, z \in Nat : x = Len(TargetSegment.recs) /\ z = Len(new.recs)
            BY <2>2, <3>1, SegmentFacts
          <5>2. x + 1 \in 1..z /\ new.recs[x + 1] = held[w][1]
            BY <4>4, <5>1
          <5> QED BY <4>1, <5>1, <5>2 DEF Elems
        <4> QED BY <2>2, <4>2, <4>3, <4>4
      <3> QED BY <3>2, <3>3
    <2> QED BY <1>4, <1>5, <2>1, <2>2, WriteEncodedFailsGrows
  <1>9. GroupSynced' /\ FlushSound'
    BY <1>3 DEF GroupSynced, FlushSound
  <1>10. Benign' => Kept' /\ Durable' /\ Indexed'
    <2> SUFFICES ASSUME Benign' PROVE Kept' /\ Durable' /\ Indexed'
      OBVIOUS
    <2>1. Kept /\ Durable /\ Indexed
      BY <1>6 DEF RecoveryInv, Benign
    <2>2. Kept'
      BY <1>1, <1>7, <1>8, <2>1, KeptStays, SameSst, SameMemory
    <2>3. Durable'
      BY <1>1, <1>3, <1>8, <2>1, DurableStays, SameSst
    <2>4. Indexed'
      BY <1>1, <1>2, <1>3, <2>1 DEF Indexed
    <2> QED BY <2>2, <2>3, <2>4
  <1>11. hazards' = {} => MemoryIsLog'
    <2> SUFFICES ASSUME hazards' = {} PROVE MemoryIsLog'
      OBVIOUS
    <2>1. MemoryIsLog
      BY <1>6 DEF RecoveryInv
    <2>2. WalRecords' = WalRecords
      BY <1>8
    <2> QED BY <1>1, <2>1, <2>2, SameMemory DEF MemoryIsLog
  <1> QED
    BY <1>9, <1>10, <1>11 DEF RecoveryInv

\* Steps of do_flush that move a memtable, or drop expired records from it, and
\* touch nothing else.
LEMMA MoveRecovery ==
    ASSUME TypeInv, TypeInv', RecoveryInv,
           UNCHANGED <<up, segs, ssts, ckpt, index, hazards, promised, acked, held, group, gpos,
                       caller>>,
           \A r : ~r.ttl => (InMem(r) => InMem(r)'), active' \subseteq active,
           wpc \in {"freeze", "pop", "sst"}, wpc' \in {"pop", "sst", "manifest"},
           wpc' = "manifest" => flushing'.id \notin DOMAIN ssts
    PROVE  RecoveryInv'
  <1>1. GroupSynced'
    BY DEF RecoveryInv, GroupSynced
  <1>2. FlushSound'
    BY DEF FlushSound
  <1>3. Benign' => Kept' /\ Durable' /\ Indexed'
    <2> SUFFICES ASSUME Benign' PROVE Kept' /\ Durable' /\ Indexed'
      OBVIOUS
    <2>1. Kept /\ Durable /\ Indexed
      BY DEF RecoveryInv, Benign
    <2>2. \A r : Claimed(r)' => Claimed(r)
      BY DEF Claimed, Written
    <2>3. Kept'
      BY <2>1, <2>2, KeptStays, SameLog, SameSst
    <2>4. Durable'
      BY <2>1, DurableStays, SameLog, SameSst
    <2>5. Indexed'
      BY <2>1 DEF Indexed
    <2> QED BY <2>3, <2>4, <2>5
  <1>4. hazards' = {} => MemoryIsLog'
    <2> SUFFICES ASSUME hazards = {} PROVE MemoryIsLog'
      OBVIOUS
    <2>1. MemoryIsLog
      BY DEF RecoveryInv
    <2> QED BY <2>1, SameLog DEF MemoryIsLog
  <1> QED
    BY <1>1, <1>2, <1>3, <1>4 DEF RecoveryInv

LEMMA FreezeRecovery ==
    ASSUME TypeInv, TypeInv', RecoveryInv, Freeze
    PROVE  RecoveryInv'
  <1>1. UNCHANGED <<up, segs, ssts, ckpt, index, hazards, promised, acked, held, group, gpos,
                    caller, flushing>>
    BY DEF Freeze, walvars, manvars, history
  <1>2. wpc = "freeze" /\ wpc' = "pop" /\ active' = {} /\ frozen = <<>>
    BY DEF Freeze, NewTable, TypeInv, MemoryOK
  <1>3. \A r : InMem(r) => InMem(r)'
    <2>1. CASE active = {}
      <3>1. frozen' = frozen
        BY <2>1 DEF Freeze
      <3> QED BY <1>1, <1>2, <2>1, <3>1 DEF InMem
    <2>2. CASE active # {}
      <3>1. /\ frozen' = Append(<<>>, active) /\ <<>> \in Seq(SUBSET Records) /\ Len(<<>>) = 0
            /\ active \in SUBSET Records
        BY <1>2, <2>2 DEF Freeze, TypeInv, MemoryOK
      <3>2. Len(frozen') = 1 /\ frozen'[1] = active
        BY <3>1, AppendProperties
      <3>3. \A r \in active : \E i \in 1..Len(frozen') : r \in frozen'[i]
        BY <3>2
      <3>4. Len(frozen) = 0
        BY <1>2
      <3> QED BY <1>1, <3>3, <3>4 DEF InMem
    <2> QED BY <2>1, <2>2
  <1> QED
    BY <1>1, <1>2, <1>3, MoveRecovery

LEMMA PopFrozenRecovery ==
    ASSUME TypeInv, TypeInv', RecoveryInv, PopFrozen
    PROVE  RecoveryInv'
  <1>1. UNCHANGED <<up, segs, ssts, ckpt, index, hazards, promised, acked, held, group, gpos,
                    caller, active>>
    BY DEF PopFrozen, walvars, manvars, history
  <1>2. /\ wpc = "pop" /\ wpc' = "sst" /\ flushing' = [recs |-> frozen[1], id |-> 0]
        /\ Len(frozen) <= 1 /\ frozen \in Seq(SUBSET Records) /\ flushing = NoFlushing
    BY DEF PopFrozen, TypeInv, MemoryOK
  <1>3. \A i \in 1..Len(frozen) : i = 1
    BY <1>2, LenProperties
  <1>4. flushing'.recs = frozen[1] /\ flushing.recs = {}
    BY <1>2 DEF NoFlushing
  <1>5. \A r : InMem(r) => InMem(r)'
    BY <1>1, <1>3, <1>4 DEF InMem
  <1> QED
    BY <1>1, <1>2, <1>5, MoveRecovery

LEMMA WriteSstRecovery ==
    ASSUME TypeInv, TypeInv', RecoveryInv, WriteSst
    PROVE  RecoveryInv'
  <1>1. UNCHANGED <<up, segs, ssts, ckpt, index, hazards, promised, acked, held, group, gpos,
                    caller, active, frozen>>
    BY DEF WriteSst, walvars, manvars, history
  <1>2. wpc = "sst" /\ wpc' = "manifest"
    BY DEF WriteSst
  <1>3. PICK expired \in SUBSET {r \in flushing.recs : r.ttl} :
            flushing' = [recs |-> flushing.recs \ expired, id |-> MaxSstId + 1]
    BY DEF WriteSst
  <1>4. flushing'.recs = flushing.recs \ expired /\ flushing'.id = MaxSstId + 1
    BY <1>3
  <1>5. \A r : ~r.ttl => (InMem(r) => InMem(r)')
    BY <1>1, <1>4 DEF InMem
  <1>6. flushing'.id \notin DOMAIN ssts
    BY <1>4, MaxSstIdFacts
  <1> QED
    BY <1>1, <1>2, <1>5, <1>6, MoveRecovery

\* do_flush returns with nothing lasting in hand, and the log as it was or
\* fsynced.
LEMMA ReturnRecovery ==
    ASSUME TypeInv, TypeInv', RecoveryInv, NEW x, FlushReturns(x),
           UNCHANGED <<up, ssts, ckpt, index, hazards, active, frozen>>,
           wpc \notin {"free", "write", "decide", "checkpoint", "index"},
           \A r \in flushing.recs : r.ttl \/ ~(r.seq > ckpt),
           segs' = segs \/ segs' = Synced(segs)
    PROVE  RecoveryInv'
  <1>1. wpc' = "free" /\ flushing' = NoFlushing /\ caller' = "other"
    <2>1. wpc' = "free" /\ flushing' = NoFlushing
      BY DEF FlushReturns, AnswerGroup, TypeInv, ControlOK
    <2> QED BY <2>1 DEF TypeInv, ControlOK
  <1>2. /\ \A r \in Records : InLog(r) => InLog(r)'
        /\ \A r \in Records : OnDiskLog(r) => OnDiskLog(r)'
        /\ WalRecords' = WalRecords
    BY SyncedFacts, SameLog
  <1>3. /\ \A r : Claimed(r)' => Claimed(r)
        /\ \A r \in promised' : r \in promised \/ (Always /\ caller = "group" /\ Written(r))
    BY FlushReturnsClaims
  <1>4. \A r : ~r.ttl /\ r.seq > ckpt /\ InMem(r) => InMem(r)'
    BY DEF InMem
  <1>5. GroupSynced' /\ FlushSound'
    BY <1>1 DEF GroupSynced, FlushSound
  <1>6. Benign' => Kept' /\ Durable' /\ Indexed'
    <2> SUFFICES ASSUME Benign' PROVE Kept' /\ Durable' /\ Indexed'
      OBVIOUS
    <2>1. Kept /\ Durable /\ Indexed /\ GroupSynced
      BY DEF RecoveryInv, Benign
    <2>2. Kept'
      BY <1>2, <1>3, <1>4, <2>1, KeptStays, SameSst
    <2>3. promised' \subseteq Records
      BY DEF TypeInv, HistoryOK
    <2>4. Durable'
      BY <1>2, <1>3, <2>1, <2>3, PromiseIsDurable
    <2>5. Indexed'
      BY <2>1 DEF Indexed
    <2> QED BY <2>2, <2>4, <2>5
  <1>7. hazards' = {} => MemoryIsLog'
    <2> SUFFICES ASSUME hazards = {} PROVE MemoryIsLog'
      OBVIOUS
    <2>1. MemoryIsLog
      BY DEF RecoveryInv
    <2> QED BY <1>2, <1>4, <2>1 DEF MemoryIsLog
  <1> QED
    BY <1>5, <1>6, <1>7 DEF RecoveryInv

LEMMA LeaveFlushRecovery ==
    ASSUME TypeInv, TypeInv', RecoveryInv, NothingFrozen \/ AllExpired \/ FlushSync
    PROVE  RecoveryInv'
  <1>1. UNCHANGED <<up, ssts, ckpt, index, hazards, active, frozen>>
    BY DEF NothingFrozen, AllExpired, FlushSync, walvars, manvars
  <1>2. /\ wpc \in {"pop", "sst", "resync"} /\ FlushReturns("ok")
        /\ segs' = segs \/ segs' = Synced(segs)
    BY DEF NothingFrozen, AllExpired, FlushSync, walvars
  <1>3. \A r \in flushing.recs : r.ttl \/ ~(r.seq > ckpt)
    <2>1. CASE NothingFrozen
      BY <2>1 DEF NothingFrozen, TypeInv, MemoryOK, NoFlushing
    <2>2. CASE AllExpired
      BY <2>2 DEF AllExpired
    <2>3. CASE FlushSync
      <3>1. LastSeq(flushing.recs) <= ckpt
        BY <2>3 DEF FlushSync, RecoveryInv, FlushSound
      <3>2. /\ LastSeq(flushing.recs) \in Nat /\ ckpt \in Nat
            /\ \A r \in flushing.recs : r.seq <= LastSeq(flushing.recs) /\ r.seq \in Nat
        BY FlushedSeqFacts, RecordSeq DEF TypeInv, ManifestOK, MemoryOK
      <3> QED BY <3>1, <3>2
    <2> QED BY <2>1, <2>2, <2>3
  <1> QED
    BY <1>1, <1>2, <1>3, ReturnRecovery

LEMMA FlushFailsRecovery ==
    ASSUME TypeInv, TypeInv', RecoveryInv, FlushFails
    PROVE  RecoveryInv'
  <1>1. "flushfail" \in hazards'
    BY DEF FlushFails
  <1>2. ~Benign' /\ hazards' # {}
    BY <1>1 DEF Benign
  <1>3. wpc' = "free" /\ caller' = "other"
    <2>1. wpc' = "free"
      BY DEF FlushFails, FlushReturns, AnswerGroup, TypeInv, ControlOK
    <2> QED BY <2>1 DEF TypeInv, ControlOK
  <1>4. GroupSynced' /\ FlushSound'
    BY <1>3 DEF GroupSynced, FlushSound
  <1> QED
    BY <1>2, <1>4 DEF RecoveryInv

\* ManifestEntry::Flush: the checkpoint rises over the records of the memtable,
\* which are in an SST of the manifest from the same entry on.
LEMMA AppendFlushRecovery ==
    ASSUME TypeInv, TypeInv', RecoveryInv, AppendFlush
    PROVE  RecoveryInv'
  <1>1. UNCHANGED <<up, held, group, gpos, caller, active, frozen, flushing, index, segs, acked,
                    promised, hazards>>
    BY DEF AppendFlush, walvars, history
  <1>2. /\ wpc = "manifest" /\ wpc' = "checkpoint" /\ up /\ active = {} /\ frozen = <<>>
        /\ flushing.id \notin DOMAIN ssts
    BY BusyIsUp DEF AppendFlush, TypeInv, MemoryOK, RecoveryInv, FlushSound
  <1>3. /\ ssts' = [i \in DOMAIN ssts \cup {flushing.id} |->
                        IF i = flushing.id THEN flushing.recs ELSE ssts[i]]
        /\ ckpt' = Larger(ckpt, LastSeq(flushing.recs))
    BY DEF AppendFlush
  <1>4. /\ flushing.id \in DOMAIN ssts' /\ ssts'[flushing.id] = flushing.recs
        /\ DOMAIN ssts' = DOMAIN ssts \cup {flushing.id}
        /\ \A i \in DOMAIN ssts : i \in DOMAIN ssts' /\ ssts'[i] = ssts[i]
    BY <1>2, <1>3
  <1>5. /\ \A r : InSst(r) => InSst(r)'
        /\ \A r \in flushing.recs : InSst(r)'
    BY <1>4 DEF InSst
  <1>6. LastSeq(flushing.recs) <= ckpt' /\ ckpt <= ckpt' /\ ckpt \in Nat /\ ckpt' \in Nat
    BY <1>3, FlushedSeqFacts DEF Larger, TypeInv, ManifestOK
  <1>7. GroupSynced'
    BY <1>1, <1>2 DEF RecoveryInv, GroupSynced
  <1>8. FlushSound'
    BY <1>1, <1>2, <1>4, <1>6 DEF FlushSound
  <1>9. Benign' => Kept' /\ Durable' /\ Indexed'
    <2> SUFFICES ASSUME Benign' PROVE Kept' /\ Durable' /\ Indexed'
      OBVIOUS
    <2>1. Kept /\ Durable /\ Indexed
      BY <1>1 DEF RecoveryInv, Benign
    <2>2. \A r : Claimed(r)' => Claimed(r)
      BY <1>1 DEF Claimed, Written
    <2>3. \A r \in Records : ~r.ttl /\ Claimed(r) => InSst(r)'
      <3>1. \A r : InMem(r) => r \in flushing.recs
        BY <1>2 DEF InMem
      <3> QED BY <1>2, <1>5, <2>1, <3>1 DEF Kept, Logged
    <2>4. Kept'
      BY <2>2, <2>3 DEF Kept
    <2>5. Durable'
      BY <1>1, <2>3 DEF Durable, Claimed
    <2>6. Indexed'
      BY <1>1, <1>2, <1>4, <2>1 DEF Indexed
    <2> QED BY <2>4, <2>5, <2>6
  <1>10. hazards' = {} => MemoryIsLog'
    <2> SUFFICES ASSUME hazards = {} PROVE MemoryIsLog'
      BY <1>1
    <2>1. MemoryIsLog /\ WalRecords' = WalRecords /\ WalRecords \subseteq Records
      BY <1>1, SameLog, WalRecordsFacts DEF RecoveryInv
    <2>2. \A r \in Records : r.seq > ckpt' => r.seq > ckpt
      BY <1>6, RecordSeq
    <2> QED BY <1>1, <1>2, <2>1, <2>2, SameMemory DEF MemoryIsLog
  <1> QED
    BY <1>7, <1>8, <1>9, <1>10 DEF RecoveryInv

LEMMA PublishRecovery ==
    ASSUME TypeInv, TypeInv', RecoveryInv, AppendCheckpoint \/ AddToIndex
    PROVE  RecoveryInv'
  <1>1. UNCHANGED <<up, held, group, gpos, caller, active, frozen, flushing, segs, ssts, acked,
                    promised, hazards>>
    BY DEF AppendCheckpoint, AddToIndex, walvars, manvars, history
  <1>2. \/ wpc = "checkpoint" /\ wpc' = "index" /\ index' = index
        \/ wpc = "index" /\ wpc' = "truncate" /\ index' = index \cup {flushing.id}
    BY DEF AppendCheckpoint, AddToIndex
  <1>3. /\ LastSeq(flushing.recs) <= ckpt /\ flushing.id \in DOMAIN ssts
        /\ ssts[flushing.id] = flushing.recs
    BY <1>2 DEF RecoveryInv, FlushSound
  <1>4. ckpt' = ckpt
    BY <1>3, FlushedSeqFacts DEF AppendCheckpoint, AddToIndex, manvars, Larger, TypeInv, ManifestOK
  <1>5. GroupSynced'
    BY <1>1, <1>2 DEF RecoveryInv, GroupSynced
  <1>6. FlushSound'
    BY <1>1, <1>2, <1>3, <1>4 DEF FlushSound
  <1>7. Benign' => Kept' /\ Durable' /\ Indexed'
    <2> SUFFICES ASSUME Benign' PROVE Kept' /\ Durable' /\ Indexed'
      OBVIOUS
    <2>1. Kept /\ Durable /\ Indexed
      BY <1>1 DEF RecoveryInv, Benign
    <2>2. \A r : Claimed(r)' => Claimed(r)
      BY <1>1 DEF Claimed, Written
    <2>3. Kept'
      BY <1>1, <1>4, <2>1, <2>2, KeptStays, SameLog, SameSst, SameMemory
    <2>4. Durable'
      BY <1>1, <1>4, <2>1, DurableStays, SameLog, SameSst
    <2>5. Indexed'
      BY <1>1, <1>2, <2>1 DEF Indexed
    <2> QED BY <2>3, <2>4, <2>5
  <1>8. hazards' = {} => MemoryIsLog'
    <2> SUFFICES ASSUME hazards = {} PROVE MemoryIsLog'
      BY <1>1
    <2>1. MemoryIsLog
      BY DEF RecoveryInv
    <2> QED BY <1>1, <1>4, <2>1, SameLog, SameMemory DEF MemoryIsLog
  <1> QED
    BY <1>5, <1>6, <1>7, <1>8 DEF RecoveryInv

\* Wal::truncate_before drops no segment that a record behind the checkpoint is
\* in: the maximum of that segment is above last_seq.
LEMMA TruncateWalRecovery ==
    ASSUME TypeInv, TypeInv', RecoveryInv, TruncateWal
    PROVE  RecoveryInv'
  <1>1. UNCHANGED <<up, held, group, gpos, caller, active, frozen, flushing, index, ssts, ckpt,
                    acked, promised, hazards>>
    BY DEF TruncateWal, manvars, history
  <1>2. wpc = "truncate" /\ wpc' = "resync" /\ active = {}
    BY DEF TruncateWal, TypeInv, MemoryOK
  <1>3. PICK last : last = LastSeq(flushing.recs)
    OBVIOUS
  <1>4. last \in Nat /\ ckpt \in Nat /\ last <= ckpt
    BY <1>2, <1>3, FlushedSeqFacts DEF TypeInv, ManifestOK, RecoveryInv, FlushSound
  <1>5. PICK kept : kept = DOMAIN segs \ Outdated(last)
    OBVIOUS
  <1>6. \/ kept # {} /\ segs' = [i \in kept |-> segs[i]]
        \/ kept = {} /\ segs' = [i \in {nextSeg} |-> EmptySegment]
        \/ kept = {} /\ segs' = <<>>
    BY <1>3, <1>5 DEF TruncateWal
  <1>7. /\ \A i \in kept : i \in DOMAIN segs' /\ segs'[i] = segs[i]
        /\ \A i \in DOMAIN segs' : segs'[i] = EmptySegment \/ (i \in DOMAIN segs /\ segs'[i] = segs[i])
    <2>1. CASE kept # {} /\ segs' = [i \in kept |-> segs[i]]
      BY <1>5, <2>1
    <2>2. CASE kept = {} /\ segs' = [i \in {nextSeg} |-> EmptySegment]
      BY <2>2
    <2>3. CASE kept = {} /\ segs' = <<>>
      BY <2>3
    <2> QED BY <1>6, <2>1, <2>2, <2>3
  <1>8. ASSUME NEW r \in Records, r.seq > ckpt, NEW i \in DOMAIN segs, r.seq <= segs[i].max
        PROVE  i \in kept
    <2>1. SegmentOK(segs[i])
      BY DEF TypeInv, WalOK
    <2>2. r.seq \in Nat /\ segs[i].max \in Nat
      BY <2>1, RecordSeq, SegmentFacts
    <2>3. ~(segs[i].max <= last)
      BY <1>4, <1>8, <2>2
    <2> QED BY <1>5, <2>3 DEF Outdated
  <1>9. \A r \in Records : r.seq > ckpt => /\ InLog(r) => InLog(r)'
                                           /\ OnDiskLog(r) => OnDiskLog(r)'
    BY <1>7, <1>8 DEF InLog, OnDiskLog
  <1>10. GroupSynced'
    <2>1. EmptySegment.synced = 0 /\ Len(EmptySegment.recs) = 0
      BY DEF EmptySegment
    <2> QED BY <1>1, <1>2, <1>7, <2>1 DEF RecoveryInv, GroupSynced
  <1>11. FlushSound'
    BY <1>1, <1>2 DEF RecoveryInv, FlushSound
  <1>12. Benign' => Kept' /\ Durable' /\ Indexed'
    <2> SUFFICES ASSUME Benign' PROVE Kept' /\ Durable' /\ Indexed'
      OBVIOUS
    <2>1. Kept /\ Durable /\ Indexed
      BY <1>1 DEF RecoveryInv, Benign
    <2>2. \A r : Claimed(r)' => Claimed(r)
      BY <1>1 DEF Claimed, Written
    <2>3. Kept'
      <3>1. \A r \in Records : (InSst(r)' <=> InSst(r)) /\ (InMem(r)' <=> InMem(r))
        BY <1>1, SameSst, SameMemory
      <3> QED BY <1>1, <1>9, <2>1, <2>2, <3>1 DEF Kept, Logged
    <2>4. Durable'
      <3>1. \A r \in Records : InSst(r)' <=> InSst(r)
        BY <1>1, SameSst
      <3> QED BY <1>1, <1>9, <2>1, <3>1 DEF Durable
    <2>5. Indexed'
      BY <1>1, <1>2, <2>1 DEF Indexed
    <2> QED BY <2>3, <2>4, <2>5
  <1>13. hazards' = {} => MemoryIsLog'
    <2> SUFFICES ASSUME hazards = {} PROVE MemoryIsLog'
      BY <1>1
    <2>1. MemoryIsLog
      BY DEF RecoveryInv
    <2>2. Readable(EmptySegment) = {}
      BY DEF Readable, EmptySegment
    <2>3. WalRecords' \subseteq WalRecords
      BY <1>7, <2>2 DEF WalRecords
    <2> QED BY <1>1, <1>2, <2>1, <2>3, SameMemory DEF MemoryIsLog
  <1> QED
    BY <1>10, <1>11, <1>12, <1>13 DEF RecoveryInv

\* The fsynced log is there after a crash, and readable.
LEMMA CrashKeepsDisk ==
    ASSUME TypeInv, TypeInv', Crash, NEW r \in Records, OnDiskLog(r)
    PROVE  InLog(r)' /\ OnDiskLog(r)'
  <1>1. PICK i \in DOMAIN segs : r \in OnDisk(segs[i])
    BY DEF OnDiskLog
  <1>2. PICK j \in 1..segs[i].synced : r = segs[i].recs[j] /\ ReadableTo(segs[i].recs, j)
    BY <1>1 DEF OnDisk
  <1>3. i \in DOMAIN segs' /\ segs'[i].synced = Len(segs'[i].recs)
    BY CrashFacts
  <1>4. PICK n \in Nat : /\ segs[i].synced <= n /\ n <= Len(segs'[i].recs)
                         /\ \A k \in 1..n : /\ segs'[i].recs[k] = segs[i].recs[k]
                                            /\ segs[i].recs[k].seq <= segs'[i].max
    BY CrashFacts
  <1>5. segs[i].synced \in Nat /\ Len(segs'[i].recs) \in Nat
    BY <1>3, SegmentFacts DEF TypeInv, WalOK
  <1>6. j \in 1..n /\ j \in 1..Len(segs'[i].recs) /\ \A k \in 1..j : k \in 1..n
    BY <1>4, <1>5
  <1>7. /\ r = segs'[i].recs[j] /\ r.seq <= segs'[i].max /\ ReadableTo(segs'[i].recs, j)
    BY <1>2, <1>4, <1>6 DEF ReadableTo
  <1>8. r \in Readable(segs'[i]) /\ OnDisk(segs'[i]) = Readable(segs'[i])
    BY <1>3, <1>6, <1>7, AllSynced DEF Readable
  <1> QED
    BY <1>3, <1>7, <1>8 DEF InLog, OnDiskLog

LEMMA CrashRecovery ==
    ASSUME TypeInv, TypeInv', RecoveryInv, Crash
    PROVE  RecoveryInv'
  <1>1. UNCHANGED <<ssts, ckpt, promised, hazards>>
    BY DEF Crash, manvars
  <1>2. /\ up' = FALSE /\ group' = <<>> /\ wpc' = "free" /\ caller' = "other" /\ active' = {}
        /\ acked' = {}
    BY DEF Crash
  <1>3. GroupSynced' /\ FlushSound'
    BY <1>2 DEF GroupSynced, FlushSound
  <1>4. Benign' => Kept' /\ Durable' /\ Indexed'
    <2> SUFFICES ASSUME Benign' PROVE Kept' /\ Durable' /\ Indexed'
      OBVIOUS
    <2>1. Durable
      BY <1>1 DEF RecoveryInv, Benign
    <2>2. \A r \in Records : ~r.ttl /\ r \in promised =>
                InSst(r)' \/ (r.seq > ckpt' /\ InLog(r)' /\ OnDiskLog(r)')
      BY <1>1, <2>1, CrashKeepsDisk, SameSst DEF Durable
    <2>3. \A r : Claimed(r)' => r \in promised
      BY <1>1, <1>2, NothingWritten DEF Claimed
    <2>4. Kept'
      BY <1>2, <2>2, <2>3 DEF Kept, Logged
    <2>5. Durable'
      BY <1>1, <2>2 DEF Durable
    <2>6. Indexed'
      BY <1>2 DEF Indexed
    <2> QED BY <2>4, <2>5, <2>6
  <1>5. MemoryIsLog'
    BY <1>2 DEF MemoryIsLog
  <1> QED
    BY <1>3, <1>4, <1>5 DEF RecoveryInv

\* Engine::open rebuilds the memtable from the log behind the checkpoint and the
\* index from the manifest.
LEMMA OpenRecovery ==
    ASSUME TypeInv, TypeInv', RecoveryInv, Open
    PROVE  RecoveryInv'
  <1>1. UNCHANGED <<held, group, gpos, wpc, caller, frozen, flushing, ssts, ckpt, acked, promised,
                    hazards>>
    BY DEF Open, manvars, history
  <1>2. /\ ~up /\ up' = TRUE /\ active' = Replayed(ckpt) /\ index' = DOMAIN ssts
        /\ wpc = "free" /\ caller = "other"
    BY DEF Open, TypeInv, ControlOK
  <1>3. /\ \A r : InLog(r) => InLog(r)'
        /\ \A r : OnDiskLog(r) => OnDiskLog(r)'
        /\ WalRecords' = WalRecords
    <2>1. CASE DOMAIN segs = {}
      <3>1. segs' = [i \in {1} |-> EmptySegment] /\ Readable(EmptySegment) = {}
        BY <2>1 DEF Open, Readable, EmptySegment
      <3>2. WalRecords = {} /\ WalRecords' = {}
        BY <2>1, <3>1 DEF WalRecords
      <3> QED BY <2>1, <3>2 DEF InLog, OnDiskLog
    <2>2. CASE DOMAIN segs # {}
      <3>1. segs' = segs
        BY <2>2 DEF Open
      <3> QED BY <3>1, SameLog
    <2> QED BY <2>1, <2>2
  <1>4. \A r \in WalRecords : r.seq > ckpt => r \in active' /\ InMem(r)'
    BY <1>2 DEF Replayed, InMem
  <1>5. \A r : InLog(r) => r \in WalRecords
    BY DEF InLog, WalRecords
  <1>6. GroupSynced' /\ FlushSound'
    BY <1>1, <1>2 DEF GroupSynced, FlushSound
  <1>7. Benign' => Kept' /\ Durable' /\ Indexed'
    <2> SUFFICES ASSUME Benign' PROVE Kept' /\ Durable' /\ Indexed'
      OBVIOUS
    <2>1. Kept /\ Durable
      BY <1>1 DEF RecoveryInv, Benign
    <2>2. Kept'
      <3> SUFFICES ASSUME NEW r \in Records, ~r.ttl, Claimed(r)' PROVE InSst(r)' \/ Logged(r)'
        BY DEF Kept
      <3>1. Claimed(r)
        BY <1>1 DEF Claimed, Written
      <3>2. InSst(r) \/ (r.seq > ckpt /\ InLog(r))
        BY <2>1, <3>1 DEF Kept, Logged
      <3>3. CASE InSst(r)
        BY <1>1, <3>3, SameSst
      <3>4. CASE r.seq > ckpt /\ InLog(r)
        BY <1>1, <1>3, <1>4, <1>5, <3>4 DEF Logged
      <3> QED BY <3>2, <3>3, <3>4
    <2>3. Durable'
      BY <1>1, <1>3, <2>1, DurableStays, SameSst
    <2>4. Indexed'
      BY <1>1, <1>2 DEF Indexed
    <2> QED BY <2>2, <2>3, <2>4
  <1>8. MemoryIsLog'
    BY <1>1, <1>2, <1>3, <1>4 DEF MemoryIsLog, Replayed
  <1> QED
    BY <1>6, <1>7, <1>8 DEF RecoveryInv

LEMMA StutterRecovery ==
    ASSUME TypeInv, TypeInv', RecoveryInv, UNCHANGED vars
    PROVE  RecoveryInv'
  <1>1. UNCHANGED <<up, held, queue, group, gpos, wpc, caller, active, frozen, flushing, index,
                    segs, ssts, ckpt, acked, promised, hazards>>
    BY DEF vars, memvars, walvars, manvars, history
  <1>2. GroupSynced' /\ FlushSound'
    BY <1>1 DEF RecoveryInv, GroupSynced, FlushSound
  <1>3. \A r : Claimed(r)' => Claimed(r)
    BY <1>1 DEF Claimed, Written
  <1>4. Benign' => Kept' /\ Durable' /\ Indexed'
    <2> SUFFICES ASSUME Benign' PROVE Kept' /\ Durable' /\ Indexed'
      OBVIOUS
    <2>1. Kept /\ Durable /\ Indexed
      BY <1>1 DEF RecoveryInv, Benign
    <2>2. Kept'
      BY <1>1, <1>3, <2>1, KeptStays, SameLog, SameSst, SameMemory
    <2>3. Durable'
      BY <1>1, <2>1, DurableStays, SameLog, SameSst
    <2>4. Indexed'
      BY <1>1, <2>1 DEF Indexed
    <2> QED BY <2>2, <2>3, <2>4
  <1>5. hazards' = {} => MemoryIsLog'
    <2> SUFFICES ASSUME hazards = {} PROVE MemoryIsLog'
      BY <1>1
    <2>1. MemoryIsLog
      BY DEF RecoveryInv
    <2> QED BY <1>1, <2>1, SameLog, SameMemory DEF MemoryIsLog
  <1> QED
    BY <1>2, <1>4, <1>5 DEF RecoveryInv

-----------------------------------------------------------------------------
(* Theorems *)

\* Every reachable state satisfies the recovery invariant.
THEOREM RecoveryInvariant == Spec => [](TypeInv /\ RecoveryInv)
  <1>1. Init => RecoveryInv
    BY InitRecovery
  <1>2. TypeInv /\ TypeInv' /\ RecoveryInv /\ [Next]_vars => RecoveryInv'
    <2> SUFFICES ASSUME TypeInv, TypeInv', RecoveryInv, [Next]_vars PROVE RecoveryInv'
      OBVIOUS
    <2>1. ASSUME NEW w \in Writers, Allocate(w) \/ Enqueue(w) PROVE RecoveryInv'
      BY <2>1, SubmitRecovery
    <2>2. CASE Grouping
      BY <2>2, EnterRecovery, WriteNextRecovery, WriteFailsRecovery, GroupSyncRecovery,
         NoFlushRecovery DEF Grouping
    <2>3. CASE Flushing
      BY <2>3, FreezeRecovery, PopFrozenRecovery, LeaveFlushRecovery, WriteSstRecovery,
         AppendFlushRecovery, PublishRecovery, TruncateWalRecovery, FlushFailsRecovery
         DEF Flushing
    <2>4. CASE OtherFlush \/ SyncTick \/ Crash \/ Open
      BY <2>4, EnterRecovery, SyncTickRecovery, CrashRecovery, OpenRecovery
    <2>5. CASE UNCHANGED vars
      BY <2>5, StutterRecovery
    <2> QED BY <2>1, <2>2, <2>3, <2>4, <2>5 DEF Next, Writing
  <1> QED
    BY <1>1, <1>2, TypesInvariant, PTL DEF Spec

\* A record whose durability the engine has promised, by an answer under
\* SyncMode::Always or by the maintenance thread's fsync, can be recovered from
\* the manifest and the fsynced WAL at every moment, through any sequence of
\* rollovers, flushes, truncations, crashes and restarts, unless one of the
\* hazards that the model names has struck.
THEOREM PromisesSurvive == Spec => []PromisedIsRecoverable
  <1>1. TypeInv /\ RecoveryInv => PromisedIsRecoverable
    <2> SUFFICES ASSUME TypeInv, RecoveryInv, Benign, NEW r \in Lasting(promised)
                 PROVE  Recoverable(r)
      BY DEF PromisedIsRecoverable
    <2>1. r \in Records /\ ~r.ttl /\ r \in promised
      BY DEF Lasting, TypeInv, HistoryOK
    <2>2. InSst(r) \/ (r.seq > ckpt /\ OnDiskLog(r))
      BY <2>1 DEF RecoveryInv, Durable
    <2> QED BY <2>2 DEF Recoverable, OnDiskLog
  <1> QED
    BY <1>1, RecoveryInvariant, PTL

\* Under the same condition the open engine's reads find every promised record,
\* in a memtable or in an indexed SST, or do_flush has it in hand.
THEOREM PromisesAreVisible == Spec => []PromisedIsVisible
  <1>1. TypeInv /\ RecoveryInv => PromisedIsVisible
    <2> SUFFICES ASSUME TypeInv, RecoveryInv, Benign, up, NEW r \in Lasting(promised)
                 PROVE  Visible(r) \/ r \in flushing.recs
      BY DEF PromisedIsVisible
    <2>1. r \in Records /\ ~r.ttl /\ r \in promised
      BY DEF Lasting, TypeInv, HistoryOK
    <2>2. InSst(r) \/ InMem(r)
      BY <2>1 DEF RecoveryInv, Kept, Claimed, Logged
    <2>3. CASE InMem(r)
      BY <2>3 DEF InMem, Visible
    <2>4. CASE InSst(r)
      <3>1. PICK i \in DOMAIN ssts : r \in ssts[i]
        BY <2>4 DEF InSst
      <3>2. i \in index \/ (wpc \in {"checkpoint", "index"} /\ i = flushing.id)
        BY DEF RecoveryInv, Indexed
      <3>3. CASE i \in index
        BY <3>1, <3>3 DEF Visible
      <3>4. CASE wpc \in {"checkpoint", "index"} /\ i = flushing.id
        BY <3>1, <3>4 DEF RecoveryInv, FlushSound
      <3> QED BY <3>2, <3>3, <3>4
    <2> QED BY <2>2, <2>3, <2>4
  <1> QED
    BY <1>1, RecoveryInvariant, PTL

\* As long as no hazard has struck, the active memtable of an idle engine and
\* what Engine::open would replay agree, up to expired records.
THEOREM RestartIsExact == Spec => []RestartRestoresMemory
  <1>1. TypeInv /\ RecoveryInv => RestartRestoresMemory
    <2> SUFFICES ASSUME TypeInv, RecoveryInv, hazards = {}, up, wpc = "free"
                 PROVE  /\ active \subseteq Replayed(ckpt)
                        /\ Lasting(Replayed(ckpt)) \subseteq active
      BY DEF RestartRestoresMemory
    <2>1. MemoryIsLog /\ frozen = <<>> /\ flushing.recs = {}
      BY DEF RecoveryInv, TypeInv, MemoryOK, NoFlushing
    <2>2. \A r : InMem(r) => r \in active
      BY <2>1 DEF InMem
    <2> QED BY <2>1, <2>2 DEF MemoryIsLog, Replayed, Lasting
  <1> QED
    BY <1>1, RecoveryInvariant, PTL
=============================================================================
