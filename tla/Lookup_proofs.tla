----------------------------- MODULE Lookup_proofs -----------------------------
(***************************************************************************)
(* Proofs about what FlowDB's reads find: the shape of the tables, patches, *)
(* range deletes, and the newest version in memory, for any keys, records,  *)
(* ranges, SSTs, block sizes and patching threads.                         *)
(***************************************************************************)
EXTENDS Lookup, NatFacts, FiniteSetTheorems, SequenceTheorems

-----------------------------------------------------------------------------
(* Loops *)

\* f has the states of a loop of N rounds; g gives the state after a round.
Rounds(f, g, x, N) == f[0] = x /\ \A n \in 1..N : f[n] = g[<<n, f[n - 1]>>]

\* Such states exist.
LEMMA Iterates ==
    ASSUME NEW D, NEW x \in D, NEW N \in Nat, NEW g \in [(1..N) \X D -> D]
    PROVE  \E f \in [0..N -> D] : Rounds(f, g, x, N)
  <1> DEFINE Upto(k) == {f \in [0..k -> D] :
                            f[0] = x /\ \A n \in 1..k : f[n] = g[<<n, f[n - 1]>>]}
             G == {k \in 0..N : Upto(k) # {}}
  <1>1. 0 \in G
    <2>1. PICK f : f = [n \in 0..0 |-> x]
      OBVIOUS
    <2>2. f \in Upto(0)
      BY <2>1
    <2> QED
      BY <2>2
  <1>2. ASSUME NEW k \in 0..N, k # N, k \in G PROVE k + 1 \in G
    <2>1. PICK f \in Upto(k) : TRUE
      BY <1>2
    <2>2. PICK h : h = [n \in 0..(k + 1) |-> IF n = k + 1 THEN g[<<k + 1, f[k]>>] ELSE f[n]]
      OBVIOUS
    <2>3. f[k] \in D /\ k + 1 \in 1..N
      BY <1>2, <2>1
    <2>4. g[<<k + 1, f[k]>>] \in D
      BY <2>3
    <2>5. h \in [0..(k + 1) -> D]
      BY <1>2, <2>1, <2>2, <2>4
    <2>6. h[0] = x
      BY <1>2, <2>1, <2>2
    <2>7. \A n \in 1..(k + 1) : h[n] = g[<<n, h[n - 1]>>]
      <3> SUFFICES ASSUME NEW n \in 1..(k + 1) PROVE h[n] = g[<<n, h[n - 1]>>]
        OBVIOUS
      <3>1. h[n - 1] = f[n - 1]
        BY <1>2, <2>2
      <3>2. CASE n = k + 1
        <4>1. n - 1 = k /\ h[n] = g[<<k + 1, f[k]>>]
          BY <1>2, <2>2, <3>2
        <4> QED
          BY <3>1, <3>2, <4>1
      <3>3. CASE n # k + 1
        <4>1. n \in 1..k /\ h[n] = f[n]
          BY <1>2, <2>2, <3>3
        <4>2. f[n] = g[<<n, f[n - 1]>>]
          BY <2>1, <4>1
        <4> QED
          BY <3>1, <4>1, <4>2
      <3> QED
        BY <3>2, <3>3
    <2>8. h \in Upto(k + 1)
      BY <2>5, <2>6, <2>7
    <2> QED
      BY <1>2, <2>8
  <1>3. N \in G
    <2> HIDE DEF G
    <2>1. \A k \in 0..N : k \in G
      BY <1>1, <1>2, UpTo
    <2> QED
      BY <2>1
  <1> QED
    BY <1>3 DEF Rounds

Alike(f, h, N) == \A n \in 1..N : f[n - 1] = h[n - 1] => f[n] = h[n]

\* Two loops that start in the same state and make the same rounds.
LEMMA SameLoop ==
    ASSUME NEW N \in Nat, NEW f, NEW h, f[0] = h[0], Alike(f, h, N)
    PROVE  \A n \in 0..N : f[n] = h[n]
  <1> DEFINE G == {n \in 0..N : f[n] = h[n]}
  <1>1. 0 \in G
    OBVIOUS
  <1>2. \A k \in 0..N : k # N /\ k \in G => k + 1 \in G
    <2> SUFFICES ASSUME NEW k \in 0..N, k # N, k \in G PROVE k + 1 \in G
      OBVIOUS
    <2>1. k + 1 \in 1..N /\ (k + 1) - 1 = k
      OBVIOUS
    <2> QED
      BY <2>1 DEF Alike
  <1>3. \A k \in 0..N : k \in G
    <2> HIDE DEF G
    <2> QED
      BY <1>1, <1>2, UpTo
  <1> QED
    BY <1>3

-----------------------------------------------------------------------------
(* Only *)

OnlyStep(acc, x, set) == IF x \in set THEN Append(acc, x) ELSE acc

\* The loop of Only, round by round.
LEMMA OnlyRuns ==
    ASSUME NEW R, NEW s \in Seq(R), NEW set
    PROVE  \E f \in [0..Len(s) -> Seq(R)] :
            /\ f[0] = <<>>
            /\ \A n \in 1..Len(s) : f[n] = OnlyStep(f[n - 1], s[n], set)
            /\ Only(s, set) = f[Len(s)]
  <1>1. PICK N \in Nat : N = Len(s)
    OBVIOUS
  <1>2. PICK D : D = Seq(R)
    OBVIOUS
  <1>3. PICK g : g = [p \in (1..N) \X D |-> OnlyStep(p[2], s[p[1]], set)]
    OBVIOUS
  <1>4. g \in [(1..N) \X D -> D]
    <2> SUFFICES ASSUME NEW n \in 1..N, NEW acc \in D
                 PROVE  OnlyStep(acc, s[n], set) \in D
      BY <1>3
    <2>1. s[n] \in R
      BY <1>1
    <2> QED
      BY <1>2, <2>1 DEF OnlyStep
  <1>5. <<>> \in D
    BY <1>2
  <1>6. PICK f \in [0..N -> D] : Rounds(f, g, <<>>, N)
    BY <1>4, <1>5, Iterates
  <1>7. \A n \in 1..N : f[n] = OnlyStep(f[n - 1], s[n], set)
    <2> SUFFICES ASSUME NEW n \in 1..N PROVE f[n] = OnlyStep(f[n - 1], s[n], set)
      OBVIOUS
    <2>1. f[n - 1] \in D
      BY <1>6
    <2> QED
      BY <1>3, <1>6, <2>1 DEF Rounds
  <1>8. f = [n \in 0..N |-> IF n = 0 THEN <<>> ELSE OnlyStep(f[n - 1], s[n], set)]
    BY <1>6, <1>7 DEF Rounds
  <1>9. PICK h : h = CHOOSE o : o = [n \in 0..N |->
                        IF n = 0 THEN <<>> ELSE OnlyStep(o[n - 1], s[n], set)]
    OBVIOUS
  <1>10. h = [n \in 0..N |-> IF n = 0 THEN <<>> ELSE OnlyStep(h[n - 1], s[n], set)]
    BY <1>8, <1>9, Zenon
  <1>11. \A n \in 0..N : f[n] = h[n]
    <2>1. f[0] = h[0]
      BY <1>6, <1>10 DEF Rounds
    <2>2. \A n \in 1..N : h[n] = OnlyStep(h[n - 1], s[n], set)
      BY <1>10
    <2>3. Alike(f, h, N)
      BY <1>7, <2>2 DEF Alike
    <2> QED
      BY <2>1, <2>3, SameLoop
  <1>12. Only(s, set) = h[N]
    BY <1>1, <1>9, Zenon DEF Only, OnlyStep
  <1> QED
    BY <1>1, <1>2, <1>6, <1>7, <1>11, <1>12, SMTT(30) DEF Rounds

LEMMA RangeSeq ==
    ASSUME NEW R, NEW s \in Seq(R)
    PROVE  /\ DOMAIN s = 1..Len(s) /\ Range(s) = {s[i] : i \in 1..Len(s)}
           /\ Range(s) \subseteq R
  BY DEF Range

LEMMA RangeAppend ==
    ASSUME NEW R, NEW s \in Seq(R), NEW x \in R
    PROVE  Range(Append(s, x)) = Range(s) \cup {x}
  <1>0. PICK t : t = Append(s, x)
    OBVIOUS
  <1>1. t \in Seq(R) /\ t = Append(s, x)
    BY <1>0
  <1>2. /\ Len(t) = Len(s) + 1 /\ t[Len(s) + 1] = x
        /\ \A i \in 1..Len(s) : t[i] = s[i]
    BY <1>1
  <1>3. 1..Len(t) = 1..Len(s) \cup {Len(s) + 1}
    BY <1>2
  <1>4. {t[i] : i \in 1..Len(t)} = {s[i] : i \in 1..Len(s)} \cup {x}
    BY <1>2, <1>3
  <1>5. Range(t) = {t[i] : i \in 1..Len(t)} /\ Range(s) = {s[i] : i \in 1..Len(s)}
    <2>1. DOMAIN t = 1..Len(t) /\ DOMAIN s = 1..Len(s)
      BY <1>1
    <2> QED
      BY <2>1 DEF Range
  <1> QED
    BY <1>1, <1>4, <1>5

\* The elements of s that come earlier are related to the later ones.
Ordered(s, rel) == \A i, j \in 1..Len(s) : i < j => <<s[i], s[j]>> \in rel

LEMMA OrderedAppend ==
    ASSUME NEW R, NEW s \in Seq(R), NEW x \in R, NEW rel, Ordered(s, rel),
           \A y \in Range(s) : <<y, x>> \in rel
    PROVE  Ordered(Append(s, x), rel)
  <1>0. PICK t : t = Append(s, x)
    OBVIOUS
  <1>1. t \in Seq(R) /\ t = Append(s, x)
    BY <1>0
  <1>2. /\ Len(t) = Len(s) + 1 /\ t[Len(s) + 1] = x
        /\ \A i \in 1..Len(s) : t[i] = s[i]
    BY <1>1
  <1>3. \A i \in 1..Len(s) : s[i] \in Range(s)
    BY RangeSeq
  <1>4. ASSUME NEW i \in 1..Len(t), NEW j \in 1..Len(t), i < j PROVE <<t[i], t[j]>> \in rel
    <2>1. i \in 1..Len(s) /\ t[i] = s[i]
      BY <1>2, <1>4
    <2>2. CASE j = Len(s) + 1
      BY <1>2, <1>3, <2>1, <2>2
    <2>3. CASE j # Len(s) + 1
      <3>1. j \in 1..Len(s) /\ t[j] = s[j]
        BY <1>2, <2>3
      <3> QED
        BY <1>4, <2>1, <3>1 DEF Ordered
    <2> QED
      BY <2>2, <2>3
  <1> QED
    BY <1>1, <1>4 DEF Ordered

\* What Only returns: the elements of s in the set, in the order they had in s.
LEMMA OnlyIs ==
    ASSUME NEW R, NEW s \in Seq(R), NEW set
    PROVE  /\ Only(s, set) \in Seq(R)
           /\ Range(Only(s, set)) = Range(s) \cap set
           /\ \A rel : Ordered(s, rel) => Ordered(Only(s, set), rel)
  <1>1. PICK f \in [0..Len(s) -> Seq(R)] :
            /\ f[0] = <<>>
            /\ \A n \in 1..Len(s) : f[n] = OnlyStep(f[n - 1], s[n], set)
            /\ Only(s, set) = f[Len(s)]
    BY OnlyRuns, ZenonT(30)
  <1>2. Len(s) \in 0..Len(s) /\ Len(s) \in Nat
    OBVIOUS
  <1> DEFINE First(k) == {s[i] : i \in 1..k} \cap set
             G == {k \in 0..Len(s) : Range(f[k]) = First(k)}
  <1>3. \A k \in 0..Len(s) : k # Len(s) =>
            /\ k + 1 \in 1..Len(s) /\ f[k] \in Seq(R) /\ s[k + 1] \in R
            /\ f[k + 1] = OnlyStep(f[k], s[k + 1], set)
            /\ First(k + 1) = First(k) \cup ({s[k + 1]} \cap set)
    <2> SUFFICES ASSUME NEW k \in 0..Len(s), k # Len(s)
                 PROVE  /\ k + 1 \in 1..Len(s) /\ f[k] \in Seq(R) /\ s[k + 1] \in R
                        /\ f[k + 1] = OnlyStep(f[k], s[k + 1], set)
                        /\ First(k + 1) = First(k) \cup ({s[k + 1]} \cap set)
      OBVIOUS
    <2>1. k + 1 \in 1..Len(s) /\ (k + 1) - 1 = k
      OBVIOUS
    <2>2. f[k + 1] = OnlyStep(f[k], s[k + 1], set)
      BY <1>1, <2>1
    <2>3. 1..(k + 1) = 1..k \cup {k + 1}
      OBVIOUS
    <2>4. First(k + 1) = First(k) \cup ({s[k + 1]} \cap set)
      BY <2>3
    <2> QED
      BY <2>1, <2>2, <2>4
  <1>4. \A k \in 0..Len(s) : Range(f[k]) = First(k)
    <2>1. 0 \in G
      <3>1. Range(<<>>) = {}
        BY DEF Range
      <3>2. First(0) = {}
        OBVIOUS
      <3> QED
        BY <1>1, <3>1, <3>2
    <2>2. ASSUME NEW k \in 0..Len(s), k # Len(s), k \in G PROVE k + 1 \in G
      <3>1. Range(f[k]) = First(k)
        BY <2>2
      <3>2. CASE s[k + 1] \in set
        <4>1. f[k + 1] = Append(f[k], s[k + 1])
          BY <1>3, <2>2, <3>2 DEF OnlyStep
        <4>2. Range(f[k + 1]) = First(k) \cup {s[k + 1]}
          BY <1>3, <2>2, <3>1, <4>1, RangeAppend
        <4>3. First(k + 1) = First(k) \cup {s[k + 1]}
          BY <1>3, <2>2, <3>2
        <4> QED
          BY <2>2, <4>2, <4>3
      <3>3. CASE s[k + 1] \notin set
        <4>1. f[k + 1] = f[k]
          BY <1>3, <2>2, <3>3 DEF OnlyStep
        <4>2. First(k + 1) = First(k)
          BY <1>3, <2>2, <3>3
        <4> QED
          BY <2>2, <3>1, <4>1, <4>2
      <3> QED
        BY <3>2, <3>3
    <2>3. \A k \in 0..Len(s) : k \in G
      <3> HIDE DEF G
      <3> QED
        BY <1>2, <2>1, <2>2, UpTo
    <2> QED
      BY <2>3
  <1>5. First(Len(s)) = Range(s) \cap set
    BY RangeSeq
  <1>6. ASSUME NEW rel, Ordered(s, rel) PROVE Ordered(Only(s, set), rel)
    <2> DEFINE H == {k \in 0..Len(s) : Ordered(f[k], rel)}
    <2>1. 0 \in H
      BY <1>1 DEF Ordered
    <2>2. ASSUME NEW k \in 0..Len(s), k # Len(s), k \in H PROVE k + 1 \in H
      <3>1. Ordered(f[k], rel)
        BY <2>2
      <3>2. \A y \in Range(f[k]) : <<y, s[k + 1]>> \in rel
        <4>1. \A i \in 1..k : <<s[i], s[k + 1]>> \in rel
          <5>1. k + 1 \in 1..Len(s) /\ \A i \in 1..k : i \in 1..Len(s) /\ i < k + 1
            BY <2>2
          <5> QED
            BY <1>6, <5>1 DEF Ordered
        <4> QED
          BY <1>4, <2>2, <4>1
      <3>3. Ordered(Append(f[k], s[k + 1]), rel)
        BY <1>3, <2>2, <3>1, <3>2, OrderedAppend
      <3>4. f[k + 1] \in {f[k], Append(f[k], s[k + 1])}
        BY <1>3, <2>2 DEF OnlyStep
      <3>5. Ordered(f[k + 1], rel)
        BY <3>1, <3>3, <3>4
      <3> QED
        BY <2>2, <3>5
    <2>3. \A k \in 0..Len(s) : k \in H
      <3> HIDE DEF H
      <3> QED
        BY <1>2, <2>1, <2>2, UpTo
    <2> QED
      BY <1>1, <1>2, <2>3
  <1> QED
    BY <1>1, <1>2, <1>4, <1>5, <1>6

-----------------------------------------------------------------------------
(* Sorted *)

\* A total order of the numbers 1..n, as a set of pairs.
Total(L, n) ==
    /\ \A i \in 1..n : <<i, i>> \notin L
    /\ \A i, j \in 1..n : i # j => <<i, j>> \in L \/ <<j, i>> \in L
    /\ \A i, j, k \in 1..n : <<i, j>> \in L /\ <<j, k>> \in L => <<i, k>> \in L

Lower(L, n, i) == {j \in 1..n : <<j, i>> \in L}

Rank(L, n, i) == 1 + Cardinality(Lower(L, n, i))

LEMMA LowerFinite ==
    ASSUME NEW n \in Nat, NEW L, Total(L, n), NEW i \in 1..n
    PROVE  /\ IsFiniteSet(Lower(L, n, i))
           /\ Cardinality(Lower(L, n, i)) \in Nat
           /\ Cardinality(Lower(L, n, i)) <= n - 1
  <1>1. PICK A : A = Lower(L, n, i)
    OBVIOUS
  <1>2. PICK S : S = 1..n
    OBVIOUS
  <1>3. IsFiniteSet(S) /\ Cardinality(S) = n
    <2>1. IsFiniteSet(1..n) /\ Cardinality(1..n) = IF 1 > n THEN 0 ELSE n - 1 + 1
      BY FS_Interval
    <2> QED
      BY <1>2, <2>1
  <1>4. PICK T : T = S \ {i}
    OBVIOUS
  <1>5. IsFiniteSet(T) /\ Cardinality(T) = n - 1
    BY <1>2, <1>3, <1>4, FS_RemoveElement
  <1>6. A \in SUBSET T
    BY <1>1, <1>2, <1>4 DEF Lower, Total
  <1>7. IsFiniteSet(A) /\ Cardinality(A) <= n - 1
    BY <1>5, <1>6, FS_Subset
  <1>8. Cardinality(A) \in Nat
    BY <1>7, FS_CardinalityType
  <1> QED
    BY <1>1, <1>7, <1>8

LEMMA RankGrows ==
    ASSUME NEW n \in Nat, NEW L, Total(L, n), NEW i \in 1..n, NEW j \in 1..n, <<i, j>> \in L
    PROVE  Rank(L, n, i) < Rank(L, n, j)
  <1>1. PICK A : A = Lower(L, n, i)
    OBVIOUS
  <1>2. PICK B : B = Lower(L, n, j)
    OBVIOUS
  <1>3. /\ IsFiniteSet(A) /\ Cardinality(A) \in Nat
        /\ IsFiniteSet(B) /\ Cardinality(B) \in Nat
    BY <1>1, <1>2, LowerFinite
  <1>4. i \notin A /\ A \cup {i} \subseteq B
    BY <1>1, <1>2 DEF Lower, Total
  <1>5. Cardinality(A \cup {i}) = Cardinality(A) + 1
    BY <1>3, <1>4, FS_AddElement
  <1>6. Cardinality(A \cup {i}) <= Cardinality(B)
    BY <1>3, <1>4, FS_Subset
  <1> QED
    BY <1>1, <1>2, <1>3, <1>5, <1>6 DEF Rank

\* Every place has exactly one element of that rank.
LEMMA RankBijects ==
    ASSUME NEW n \in Nat, NEW L, Total(L, n)
    PROVE  /\ \A i \in 1..n : Rank(L, n, i) \in 1..n
           /\ \A m \in 1..n : \E i \in 1..n : Rank(L, n, i) = m
           /\ \A i, j \in 1..n : Rank(L, n, i) < Rank(L, n, j) => <<i, j>> \in L
           /\ \A i, j \in 1..n : Rank(L, n, i) = Rank(L, n, j) => i = j
  <1>1. \A i \in 1..n : Rank(L, n, i) \in 1..n
    BY LowerFinite DEF Rank
  <1>2. \A i, j \in 1..n : <<i, j>> \in L => Rank(L, n, i) < Rank(L, n, j)
    BY RankGrows
  <1>3. \A i, j \in 1..n : Rank(L, n, i) = Rank(L, n, j) => i = j
    <2> SUFFICES ASSUME NEW i \in 1..n, NEW j \in 1..n, Rank(L, n, i) = Rank(L, n, j), i # j
                 PROVE  FALSE
      OBVIOUS
    <2>1. <<i, j>> \in L \/ <<j, i>> \in L
      BY DEF Total
    <2>2. Rank(L, n, i) < Rank(L, n, j) \/ Rank(L, n, j) < Rank(L, n, i)
      BY <1>2, <2>1
    <2>3. Rank(L, n, i) \in Int
      BY <1>1
    <2> QED
      BY <2>2, <2>3
  <1>4. \A i, j \in 1..n : Rank(L, n, i) < Rank(L, n, j) => <<i, j>> \in L
    <2> SUFFICES ASSUME NEW i \in 1..n, NEW j \in 1..n, Rank(L, n, i) < Rank(L, n, j),
                        <<i, j>> \notin L
                 PROVE  FALSE
      OBVIOUS
    <2>1. i # j
      BY <1>1
    <2>2. <<j, i>> \in L
      BY <2>1 DEF Total
    <2>3. Rank(L, n, j) < Rank(L, n, i)
      BY <1>2, <2>2
    <2> QED
      BY <1>1, <2>3
  <1>5. PICK f : f = [i \in 1..n |-> Rank(L, n, i)]
    OBVIOUS
  <1>6. PICK S : S = 1..n
    OBVIOUS
  <1>7. f \in Injection(S, S)
    BY <1>1, <1>3, <1>5, <1>6 DEF Injection, IsInjective
  <1>8. IsFiniteSet(S)
    BY <1>6, FS_Interval
  <1>9. f \in Surjection(S, S)
    BY <1>7, <1>8, FS_Injection
  <1>10. \A m \in 1..n : \E i \in 1..n : Rank(L, n, i) = m
    BY <1>5, <1>6, <1>9 DEF Surjection
  <1> QED
    BY <1>1, <1>3, <1>4, <1>10

\* t has the elements of s, by their rank.
ByRank(t, s, L, n) ==
    /\ t = [m \in 1..n |-> t[m]]
    /\ \A m \in 1..n : \E i \in 1..n : Rank(L, n, i) = m /\ t[m] = s[i]

LEMMA ByRankIs ==
    ASSUME NEW R, NEW s \in Seq(R), NEW n \in Nat, n = Len(s), NEW L, Total(L, n),
           NEW t, ByRank(t, s, L, n)
    PROVE  /\ t \in Seq(R) /\ Len(t) = n /\ Range(t) = Range(s)
           /\ \A rel : (\A i, j \in 1..n : <<i, j>> \in L => <<s[i], s[j]>> \in rel)
                            => Ordered(t, rel)
  <1>0. /\ \A i \in 1..n : Rank(L, n, i) \in 1..n
        /\ \A m \in 1..n : \E i \in 1..n : Rank(L, n, i) = m
        /\ \A i, j \in 1..n : Rank(L, n, i) < Rank(L, n, j) => <<i, j>> \in L
        /\ \A i, j \in 1..n : Rank(L, n, i) = Rank(L, n, j) => i = j
    BY RankBijects
  <1>1. PICK p : p = [m \in 1..n |-> CHOOSE i \in 1..n : Rank(L, n, i) = m /\ t[m] = s[i]]
    OBVIOUS
  <1>2. \A m \in 1..n : p[m] \in 1..n /\ Rank(L, n, p[m]) = m /\ t[m] = s[p[m]]
    <2> SUFFICES ASSUME NEW m \in 1..n
                 PROVE  p[m] \in 1..n /\ Rank(L, n, p[m]) = m /\ t[m] = s[p[m]]
      OBVIOUS
    <2>1. p[m] = CHOOSE i \in 1..n : Rank(L, n, i) = m /\ t[m] = s[i]
      BY <1>1
    <2>2. \E i \in 1..n : Rank(L, n, i) = m /\ t[m] = s[i]
      BY DEF ByRank
    <2> QED
      BY <2>1, <2>2
  <1>3. t = [m \in 1..n |-> t[m]]
    BY DEF ByRank
  <1>4. \A m \in 1..n : t[m] = s[p[m]] /\ t[m] \in R
    BY <1>2
  <1>5. t \in Seq(R) /\ Len(t) = n
    BY <1>3, <1>4
  <1>6. \A i \in 1..n : \E m \in 1..n : p[m] = i
    <2> SUFFICES ASSUME NEW i \in 1..n PROVE \E m \in 1..n : p[m] = i
      OBVIOUS
    <2>1. Rank(L, n, i) \in 1..n
      BY <1>0
    <2>2. p[Rank(L, n, i)] = i
      BY <1>2, <2>1, <1>0
    <2> QED
      BY <2>1, <2>2
  <1>7. Range(t) = Range(s)
    <2>1. Range(s) = {s[i] : i \in 1..n} /\ Range(t) = {t[i] : i \in 1..n}
      BY <1>5, RangeSeq
    <2>2. \A m \in 1..n : t[m] \in {s[i] : i \in 1..n}
      BY <1>2, <1>4
    <2>3. \A i \in 1..n : s[i] \in {t[m] : m \in 1..n}
      <3> SUFFICES ASSUME NEW i \in 1..n PROVE s[i] \in {t[m] : m \in 1..n}
        OBVIOUS
      <3>1. PICK m \in 1..n : p[m] = i
        BY <1>6
      <3>2. t[m] = s[i]
        BY <1>4, <3>1
      <3> QED
        BY <3>2
    <2>4. Range(t) \subseteq Range(s)
      BY <2>1, <2>2
    <2>5. Range(s) \subseteq Range(t)
      BY <2>1, <2>3
    <2> QED
      BY <2>4, <2>5
  <1>8. ASSUME NEW rel, \A i, j \in 1..n : <<i, j>> \in L => <<s[i], s[j]>> \in rel
        PROVE  Ordered(t, rel)
    <2> SUFFICES ASSUME NEW a \in 1..n, NEW b \in 1..n, a < b PROVE <<t[a], t[b]>> \in rel
      BY <1>5 DEF Ordered
    <2>1. <<p[a], p[b]>> \in L
      BY <1>2, <1>0, ZenonT(30)
    <2> QED
      BY <1>2, <1>4, <1>8, <2>1
  <1> QED
    BY <1>5, <1>7, <1>8

Ops == {"put", "del", "range"}

Rec == [seq : Nat, op : Ops, key : Keys, ts : 0..MaxTs, val : 1..MaxWrites, exp : Nat,
        end : Nat]

\* The pairs of records that sorting by key, time stamp and version leaves alone.
Ascending == {p \in Rec \X Rec : ~Before(p[2], p[1])}

LEMMA Numbers ==
    /\ MaxKey \in Nat /\ Tilde \in Nat /\ MaxTs \in Nat /\ Never \in Nat
    /\ MaxWrites \in Nat /\ MaxSsts \in Nat /\ Fallback \in Nat /\ DefaultTtl \in Nat
    /\ MaxNow \in Nat \ {0} /\ BlockSize \in Nat \ {0} /\ TimeBucket \in Nat \ {0}
    /\ NumBits \in Nat \ {0} /\ Threshold \in Nat \ {0}
  BY LookupAssumption

\* Key, time stamp and version are compared as numbers.
LEMMA RecNumbers ==
    ASSUME NEW r \in Rec
    PROVE  r.key \in Int /\ r.ts \in Int /\ r.seq \in Int
  <1>1. r.key \in Keys /\ r.ts \in 0..MaxTs /\ r.seq \in Nat
    BY DEF Rec
  <1> QED
    BY <1>1, Numbers DEF Keys

LEMMA BeforeIs ==
    ASSUME NEW a \in Rec, NEW b \in Rec
    PROVE  Before(a, b) <=> \/ a.key < b.key
                            \/ a.key = b.key /\ a.ts < b.ts
                            \/ a.key = b.key /\ a.ts = b.ts /\ a.seq > b.seq
  BY DEF Before, KeyTsBefore, At

\* The stable order of the places of s: by the records, then by the places.
Earlier(s, n) == {p \in (1..n) \X (1..n) :
    Before(s[p[1]], s[p[2]]) \/ (p[1] < p[2] /\ ~Before(s[p[2]], s[p[1]]))}

Later(s, n) == {p \in (1..n) \X (1..n) :
    After(s[p[1]], s[p[2]]) \/ (p[1] < p[2] /\ ~After(s[p[2]], s[p[1]]))}

LEMMA EarlierTotal ==
    ASSUME NEW s \in Seq(Rec), NEW n \in Nat, n = Len(s)
    PROVE  Total(Earlier(s, n), n)
  <1>1. \A i \in 1..n : s[i] \in Rec
    OBVIOUS
  <1>2. \A i, j \in 1..n : <<i, j>> \in Earlier(s, n) <=>
            \/ s[i].key < s[j].key
            \/ s[i].key = s[j].key /\ s[i].ts < s[j].ts
            \/ s[i].key = s[j].key /\ s[i].ts = s[j].ts /\ s[i].seq > s[j].seq
            \/ s[i].key = s[j].key /\ s[i].ts = s[j].ts /\ s[i].seq = s[j].seq /\ i < j
    <2> SUFFICES ASSUME NEW i \in 1..n, NEW j \in 1..n
                 PROVE  <<i, j>> \in Earlier(s, n) <=>
                    \/ s[i].key < s[j].key
                    \/ s[i].key = s[j].key /\ s[i].ts < s[j].ts
                    \/ s[i].key = s[j].key /\ s[i].ts = s[j].ts /\ s[i].seq > s[j].seq
                    \/ s[i].key = s[j].key /\ s[i].ts = s[j].ts /\ s[i].seq = s[j].seq /\ i < j
      OBVIOUS
    <2>1. <<i, j>> \in Earlier(s, n) <=>
            Before(s[i], s[j]) \/ (i < j /\ ~Before(s[j], s[i]))
      BY DEF Earlier
    <2>2. /\ s[i].key \in Int /\ s[i].ts \in Int /\ s[i].seq \in Int
          /\ s[j].key \in Int /\ s[j].ts \in Int /\ s[j].seq \in Int
      BY <1>1, RecNumbers
    <2> QED
      BY <1>1, <2>1, <2>2, BeforeIs, SMTT(30)
  <1>3. \A i \in 1..n : s[i].key \in Int /\ s[i].ts \in Int /\ s[i].seq \in Int
    BY <1>1, RecNumbers
  <1>4. PICK K : K = [i \in 1..n |-> s[i].key]
    OBVIOUS
  <1>5. PICK T : T = [i \in 1..n |-> s[i].ts]
    OBVIOUS
  <1>6. PICK Q : Q = [i \in 1..n |-> s[i].seq]
    OBVIOUS
  <1>7. \A i \in 1..n : K[i] \in Int /\ T[i] \in Int /\ Q[i] \in Int
    BY <1>3, <1>4, <1>5, <1>6
  <1>8. \A i, j \in 1..n : <<i, j>> \in Earlier(s, n) <=>
            \/ K[i] < K[j]
            \/ K[i] = K[j] /\ T[i] < T[j]
            \/ K[i] = K[j] /\ T[i] = T[j] /\ Q[i] > Q[j]
            \/ K[i] = K[j] /\ T[i] = T[j] /\ Q[i] = Q[j] /\ i < j
    <2> SUFFICES ASSUME NEW i \in 1..n, NEW j \in 1..n
                 PROVE  <<i, j>> \in Earlier(s, n) <=>
                          \/ K[i] < K[j]
                          \/ K[i] = K[j] /\ T[i] < T[j]
                          \/ K[i] = K[j] /\ T[i] = T[j] /\ Q[i] > Q[j]
                          \/ K[i] = K[j] /\ T[i] = T[j] /\ Q[i] = Q[j] /\ i < j
      OBVIOUS
    <2>1. /\ K[i] = s[i].key /\ T[i] = s[i].ts /\ Q[i] = s[i].seq
          /\ K[j] = s[j].key /\ T[j] = s[j].ts /\ Q[j] = s[j].seq
      BY <1>4, <1>5, <1>6
    <2> QED
      BY <1>2, <2>1
  <1>9. \A i \in 1..n : <<i, i>> \notin Earlier(s, n)
    BY ONLY <1>7, <1>8, n \in Nat
  <1>10. \A i, j \in 1..n : i # j => <<i, j>> \in Earlier(s, n) \/ <<j, i>> \in Earlier(s, n)
    <2> SUFFICES ASSUME NEW i \in 1..n, NEW j \in 1..n, i # j
                 PROVE  <<i, j>> \in Earlier(s, n) \/ <<j, i>> \in Earlier(s, n)
      OBVIOUS
    <2>1. /\ K[i] \in Int /\ T[i] \in Int /\ Q[i] \in Int
          /\ K[j] \in Int /\ T[j] \in Int /\ Q[j] \in Int
      BY <1>7
    <2> QED
      BY ONLY <1>8, <2>1, i \in 1..n, j \in 1..n, i # j, n \in Nat, SMTT(30)
  <1>11. \A i, j, k \in 1..n : <<i, j>> \in Earlier(s, n) /\ <<j, k>> \in Earlier(s, n)
                                  => <<i, k>> \in Earlier(s, n)
    <2> SUFFICES ASSUME NEW i \in 1..n, NEW j \in 1..n, NEW k \in 1..n,
                        <<i, j>> \in Earlier(s, n), <<j, k>> \in Earlier(s, n)
                 PROVE  <<i, k>> \in Earlier(s, n)
      OBVIOUS
    <2>1. /\ K[i] \in Int /\ T[i] \in Int /\ Q[i] \in Int
          /\ K[j] \in Int /\ T[j] \in Int /\ Q[j] \in Int
          /\ K[k] \in Int /\ T[k] \in Int /\ Q[k] \in Int
      BY <1>7
    <2>2. /\ \/ K[i] < K[j]
             \/ K[i] = K[j] /\ T[i] < T[j]
             \/ K[i] = K[j] /\ T[i] = T[j] /\ Q[i] > Q[j]
             \/ K[i] = K[j] /\ T[i] = T[j] /\ Q[i] = Q[j] /\ i < j
          /\ \/ K[j] < K[k]
             \/ K[j] = K[k] /\ T[j] < T[k]
             \/ K[j] = K[k] /\ T[j] = T[k] /\ Q[j] > Q[k]
             \/ K[j] = K[k] /\ T[j] = T[k] /\ Q[j] = Q[k] /\ j < k
      BY <1>8
    <2>3. \/ K[i] < K[k]
          \/ K[i] = K[k] /\ T[i] < T[k]
          \/ K[i] = K[k] /\ T[i] = T[k] /\ Q[i] > Q[k]
          \/ K[i] = K[k] /\ T[i] = T[k] /\ Q[i] = Q[k] /\ i < k
      BY ONLY <2>1, <2>2, i \in 1..n, j \in 1..n, k \in 1..n, n \in Nat, SMTT(30)
    <2> QED
      BY <1>8, <2>3
  <1> QED
    BY <1>9, <1>10, <1>11 DEF Total

LEMMA LaterTotal ==
    ASSUME NEW s \in Seq(Rec), NEW n \in Nat, n = Len(s)
    PROVE  Total(Later(s, n), n)
  <1>1. \A i \in 1..n : s[i].key \in Int /\ s[i].ts \in Int
    BY RecNumbers
  <1>2. PICK K : K = [i \in 1..n |-> s[i].key]
    OBVIOUS
  <1>3. PICK T : T = [i \in 1..n |-> s[i].ts]
    OBVIOUS
  <1>4. \A i \in 1..n : K[i] \in Int /\ T[i] \in Int
    BY <1>1, <1>2, <1>3
  <1>5. \A i, j \in 1..n : <<i, j>> \in Later(s, n) <=>
            \/ K[j] < K[i]
            \/ K[i] = K[j] /\ T[j] < T[i]
            \/ K[i] = K[j] /\ T[i] = T[j] /\ i < j
    <2> SUFFICES ASSUME NEW i \in 1..n, NEW j \in 1..n
                 PROVE  <<i, j>> \in Later(s, n) <=>
                          \/ K[j] < K[i]
                          \/ K[i] = K[j] /\ T[j] < T[i]
                          \/ K[i] = K[j] /\ T[i] = T[j] /\ i < j
      OBVIOUS
    <2>1. <<i, j>> \in Later(s, n) <=>
            After(s[i], s[j]) \/ (i < j /\ ~After(s[j], s[i]))
      BY DEF Later
    <2> QED
      BY <1>2, <1>3, <1>4, <2>1 DEF After, KeyTsBefore
  <1>6. \A i \in 1..n : <<i, i>> \notin Later(s, n)
    BY ONLY <1>4, <1>5, n \in Nat
  <1>7. \A i, j \in 1..n : i # j => <<i, j>> \in Later(s, n) \/ <<j, i>> \in Later(s, n)
    BY ONLY <1>4, <1>5, n \in Nat, SMTT(30)
  <1>8. \A i, j, k \in 1..n : <<i, j>> \in Later(s, n) /\ <<j, k>> \in Later(s, n)
                                  => <<i, k>> \in Later(s, n)
    <2> SUFFICES ASSUME NEW i \in 1..n, NEW j \in 1..n, NEW k \in 1..n,
                        <<i, j>> \in Later(s, n), <<j, k>> \in Later(s, n)
                 PROVE  <<i, k>> \in Later(s, n)
      OBVIOUS
    <2>1. /\ K[i] \in Int /\ T[i] \in Int /\ K[j] \in Int /\ T[j] \in Int
          /\ K[k] \in Int /\ T[k] \in Int
      BY <1>4
    <2>2. /\ \/ K[j] < K[i]
             \/ K[i] = K[j] /\ T[j] < T[i]
             \/ K[i] = K[j] /\ T[i] = T[j] /\ i < j
          /\ \/ K[k] < K[j]
             \/ K[j] = K[k] /\ T[k] < T[j]
             \/ K[j] = K[k] /\ T[j] = T[k] /\ j < k
      BY <1>5
    <2>3. \/ K[k] < K[i]
          \/ K[i] = K[k] /\ T[k] < T[i]
          \/ K[i] = K[k] /\ T[i] = T[k] /\ i < k
      BY ONLY <2>1, <2>2, i \in 1..n, j \in 1..n, k \in 1..n, n \in Nat
    <2> QED
      BY <1>5, <2>3
  <1> QED
    BY <1>6, <1>7, <1>8 DEF Total

\* Not both records are at c, a key and a time stamp.
Apart(c) == {p \in Rec \X Rec : At(p[1]) # c \/ At(p[2]) # c}

\* At most one record of s is at c.
Once(s, c) == Ordered(s, Apart(c))

Has(s, c) == \E x \in Range(s) : At(x) = c

LEMMA RankOnce ==
    ASSUME NEW s \in Seq(Rec), NEW n \in Nat, n = Len(s), NEW L, Total(L, n),
           NEW t, ByRank(t, s, L, n), NEW c, Once(s, c)
    PROVE  Once(t, c)
  <1>1. PICK rel : rel = Apart(c)
    OBVIOUS
  <1>2. \A i, j \in 1..n : <<i, j>> \in L => <<s[i], s[j]>> \in rel
    <2> SUFFICES ASSUME NEW i \in 1..n, NEW j \in 1..n, <<i, j>> \in L
                 PROVE  <<s[i], s[j]>> \in rel
      OBVIOUS
    <2>1. i # j
      BY DEF Total
    <2>2. s[i] \in Rec /\ s[j] \in Rec
      OBVIOUS
    <2>3. \A a, b \in 1..n : a < b => At(s[a]) # c \/ At(s[b]) # c
      BY DEF Once, Ordered, Apart
    <2>4. At(s[i]) # c \/ At(s[j]) # c
      BY <2>1, <2>3
    <2> QED
      BY <1>1, <2>2, <2>4 DEF Apart
  <1>3. Ordered(t, rel)
    BY <1>2, ByRankIs
  <1> QED
    BY <1>1, <1>3 DEF Once

PlaceBefore(s, i) == 1 + Cardinality({j \in DOMAIN s :
    Before(s[j], s[i]) \/ (j < i /\ ~Before(s[i], s[j]))})

PlaceAfter(s, i) == 1 + Cardinality({j \in DOMAIN s :
    After(s[j], s[i]) \/ (j < i /\ ~After(s[i], s[j]))})

\* sort_by leaves the records in ascending order, and loses none.
LEMMA SortedBefore ==
    ASSUME NEW s \in Seq(Rec)
    PROVE  /\ Sorted(s, Before) \in Seq(Rec) /\ Len(Sorted(s, Before)) = Len(s)
           /\ Range(Sorted(s, Before)) = Range(s)
           /\ Ordered(Sorted(s, Before), Ascending)
           /\ \A c : Once(s, c) => Once(Sorted(s, Before), c)
  <1>1. PICK n \in Nat : n = Len(s) /\ DOMAIN s = 1..n
    OBVIOUS
  <1>2. PICK L : L = Earlier(s, n)
    OBVIOUS
  <1>3. Total(L, n)
    BY <1>1, <1>2, EarlierTotal
  <1>4. \A i \in 1..n : Rank(L, n, i) = PlaceBefore(s, i)
    <2> SUFFICES ASSUME NEW i \in 1..n PROVE Rank(L, n, i) = PlaceBefore(s, i)
      OBVIOUS
    <2>1. \A j \in 1..n : <<j, i>> \in L <=>
                            Before(s[j], s[i]) \/ (j < i /\ ~Before(s[i], s[j]))
      BY <1>2 DEF Earlier
    <2>2. Lower(L, n, i) = {j \in DOMAIN s :
                              Before(s[j], s[i]) \/ (j < i /\ ~Before(s[i], s[j]))}
      BY <1>1, <2>1 DEF Lower
    <2> QED
      BY <2>2 DEF Rank, PlaceBefore
  <1>5. PICK t : t = Sorted(s, Before)
    OBVIOUS
  <1>6. \A i, j \in 1..n : <<i, j>> \in L => <<s[i], s[j]>> \in Ascending
    <2> SUFFICES ASSUME NEW i \in 1..n, NEW j \in 1..n, <<i, j>> \in L
                 PROVE  ~Before(s[j], s[i])
      BY <1>1 DEF Ascending
    <2>1. s[i] \in Rec /\ s[j] \in Rec
      BY <1>1
    <2>2. Before(s[i], s[j]) \/ (i < j /\ ~Before(s[j], s[i]))
      BY <1>2 DEF Earlier
    <2>3. /\ s[i].key \in Int /\ s[i].ts \in Int /\ s[i].seq \in Int
          /\ s[j].key \in Int /\ s[j].ts \in Int /\ s[j].seq \in Int
      BY <2>1, RecNumbers
    <2>4. Before(s[i], s[j]) => ~Before(s[j], s[i])
      BY <2>1, <2>3, BeforeIs, SMTT(30)
    <2> QED
      BY <2>2, <2>4
  <1>7. ByRank(t, s, L, n)
    <2>1. t = [m \in DOMAIN s |-> s[CHOOSE i \in DOMAIN s : PlaceBefore(s, i) = m]]
      BY <1>5 DEF Sorted, PlaceBefore
    <2>2. \A m \in 1..n : \E i \in 1..n : Rank(L, n, i) = m
      BY <1>1, <1>3, RankBijects
    <2>3. ASSUME NEW m \in 1..n PROVE \E i \in 1..n : Rank(L, n, i) = m /\ t[m] = s[i]
      <3>1. PICK i : i = CHOOSE j \in DOMAIN s : PlaceBefore(s, j) = m
        OBVIOUS
      <3>2. \E j \in DOMAIN s : PlaceBefore(s, j) = m
        BY <1>1, <1>4, <2>2
      <3>3. i \in DOMAIN s /\ PlaceBefore(s, i) = m
        BY <3>1, <3>2
      <3>4. t[m] = s[i]
        BY <1>1, <2>1, <3>1
      <3> QED
        BY <1>1, <1>4, <3>3, <3>4
    <2> QED
      BY <1>1, <2>1, <2>3 DEF ByRank
  <1>8. t \in Seq(Rec) /\ Len(t) = n /\ Range(t) = Range(s) /\ Ordered(t, Ascending)
    BY <1>1, <1>3, <1>6, <1>7, ByRankIs
  <1>9. \A c : Once(s, c) => Once(t, c)
    BY <1>1, <1>3, <1>7, RankOnce
  <1> QED
    BY <1>1, <1>5, <1>8, <1>9

LEMMA SortedAfter ==
    ASSUME NEW s \in Seq(Rec)
    PROVE  /\ Sorted(s, After) \in Seq(Rec) /\ Len(Sorted(s, After)) = Len(s)
           /\ Range(Sorted(s, After)) = Range(s)
           /\ \A c : Once(s, c) => Once(Sorted(s, After), c)
  <1>1. PICK n \in Nat : n = Len(s) /\ DOMAIN s = 1..n
    OBVIOUS
  <1>2. PICK L : L = Later(s, n)
    OBVIOUS
  <1>3. Total(L, n)
    BY <1>1, <1>2, LaterTotal
  <1>4. \A i \in 1..n : Rank(L, n, i) = PlaceAfter(s, i)
    <2> SUFFICES ASSUME NEW i \in 1..n PROVE Rank(L, n, i) = PlaceAfter(s, i)
      OBVIOUS
    <2>1. \A j \in 1..n : <<j, i>> \in L <=>
                            After(s[j], s[i]) \/ (j < i /\ ~After(s[i], s[j]))
      BY <1>2 DEF Later
    <2>2. Lower(L, n, i) = {j \in DOMAIN s :
                              After(s[j], s[i]) \/ (j < i /\ ~After(s[i], s[j]))}
      BY <1>1, <2>1 DEF Lower
    <2> QED
      BY <2>2 DEF Rank, PlaceAfter
  <1>5. PICK t : t = Sorted(s, After)
    OBVIOUS
  <1>6. ByRank(t, s, L, n)
    <2>1. t = [m \in DOMAIN s |-> s[CHOOSE i \in DOMAIN s : PlaceAfter(s, i) = m]]
      BY <1>5 DEF Sorted, PlaceAfter
    <2>2. \A m \in 1..n : \E i \in 1..n : Rank(L, n, i) = m
      BY <1>1, <1>3, RankBijects
    <2>3. ASSUME NEW m \in 1..n PROVE \E i \in 1..n : Rank(L, n, i) = m /\ t[m] = s[i]
      <3>1. PICK i : i = CHOOSE j \in DOMAIN s : PlaceAfter(s, j) = m
        OBVIOUS
      <3>2. \E j \in DOMAIN s : PlaceAfter(s, j) = m
        BY <1>1, <1>4, <2>2
      <3>3. i \in DOMAIN s /\ PlaceAfter(s, i) = m
        BY <3>1, <3>2
      <3>4. t[m] = s[i]
        BY <1>1, <2>1, <3>1
      <3> QED
        BY <1>1, <1>4, <3>3, <3>4
    <2> QED
      BY <1>1, <2>1, <2>3 DEF ByRank
  <1>7. t \in Seq(Rec) /\ Len(t) = n /\ Range(t) = Range(s)
    BY <1>1, <1>3, <1>6, ByRankIs
  <1>8. \A c : Once(s, c) => Once(t, c)
    BY <1>1, <1>3, <1>6, RankOnce
  <1> QED
    BY <1>1, <1>5, <1>7, <1>8

-----------------------------------------------------------------------------
(* FlattenSeq *)

LEMMA FlattenRuns ==
    ASSUME NEW R, NEW ss \in Seq(Seq(R))
    PROVE  \E f \in [0..Len(ss) -> Seq(R)] :
            /\ f[0] = <<>>
            /\ \A n \in 1..Len(ss) : f[n] = f[n - 1] \o ss[n]
            /\ FlattenSeq(ss) = f[Len(ss)]
  <1>1. PICK N \in Nat : N = Len(ss)
    OBVIOUS
  <1>2. PICK D : D = Seq(R)
    OBVIOUS
  <1>3. PICK g : g = [p \in (1..N) \X D |-> p[2] \o ss[p[1]]]
    OBVIOUS
  <1>4. g \in [(1..N) \X D -> D]
    <2> SUFFICES ASSUME NEW n \in 1..N, NEW acc \in D PROVE acc \o ss[n] \in D
      BY <1>3
    <2>1. ss[n] \in Seq(R)
      BY <1>1
    <2> QED
      BY <1>2, <2>1
  <1>5. <<>> \in D
    BY <1>2
  <1>6. PICK f \in [0..N -> D] : Rounds(f, g, <<>>, N)
    BY <1>4, <1>5, Iterates
  <1>7. \A n \in 1..N : f[n] = f[n - 1] \o ss[n]
    <2> SUFFICES ASSUME NEW n \in 1..N PROVE f[n] = f[n - 1] \o ss[n]
      OBVIOUS
    <2>1. f[n - 1] \in D
      BY <1>6
    <2> QED
      BY <1>3, <1>6, <2>1 DEF Rounds
  <1>8. FlattenSeq(ss) = f[N]
    <2>1. CASE N = 0
      <3>1. ss = <<>>
        BY <1>1, <2>1, EmptySeq
      <3> QED
        BY <1>1, <1>6, <2>1, <3>1 DEF FlattenSeq, Rounds
    <2>2. CASE N # 0
      <3>1. f[1] = ss[1]
        <4>1. f[1] = <<>> \o ss[1]
          <5>1. 1 \in 1..N /\ 1 - 1 = 0
            BY <2>2
          <5>2. f[1] = f[0] \o ss[1]
            BY <1>7, <5>1
          <5> QED
            BY <1>6, <5>2 DEF Rounds
        <4>2. ss[1] \in Seq(R)
          BY <1>1, <2>2
        <4> QED
          BY <4>1, <4>2
      <3>2. PICK e : e = [i \in 1..N |-> f[i]]
        OBVIOUS
      <3>3. \A i \in 1..N : e[i] = IF i = 1 THEN ss[i] ELSE e[i - 1] \o ss[i]
        <4> SUFFICES ASSUME NEW i \in 1..N
                     PROVE  e[i] = IF i = 1 THEN ss[i] ELSE e[i - 1] \o ss[i]
          OBVIOUS
        <4>1. e[i] = f[i] /\ (i # 1 => e[i - 1] = f[i - 1])
          BY <3>2
        <4> QED
          BY <1>7, <3>1, <4>1
      <3>4. e = [i \in 1..N |-> IF i = 1 THEN ss[i] ELSE e[i - 1] \o ss[i]]
        BY <3>2, <3>3
      <3>5. PICK h : h = CHOOSE o : o = [i \in 1..N |->
                              IF i = 1 THEN ss[i] ELSE o[i - 1] \o ss[i]]
        OBVIOUS
      <3>6. h = [i \in 1..N |-> IF i = 1 THEN ss[i] ELSE h[i - 1] \o ss[i]]
        BY <3>4, <3>5, Zenon
      <3>7. FlattenSeq(ss) = h[N]
        BY <1>1, <2>2, <3>5, Zenon DEF FlattenSeq
      <3> DEFINE G == {n \in 0..N : n = 0 \/ h[n] = f[n]}
      <3>8. \A n \in 0..N : n \in G
        <4>1. 0 \in G
          OBVIOUS
        <4>2. ASSUME NEW k \in 0..N, k # N, k \in G PROVE k + 1 \in G
          <5>1. k + 1 \in 1..N /\ (k + 1) - 1 = k
            BY <4>2
          <5>2. h[k + 1] = IF k + 1 = 1 THEN ss[k + 1] ELSE h[k] \o ss[k + 1]
            BY <3>6, <5>1
          <5>3. f[k + 1] = f[k] \o ss[k + 1]
            BY <1>7, <5>1
          <5>4. CASE k = 0
            BY <3>1, <5>1, <5>2, <5>4
          <5>5. CASE k # 0
            <6>1. k + 1 # 1 /\ h[k] = f[k]
              BY <4>2, <5>5
            <6>2. h[k + 1] = f[k + 1]
              BY <5>2, <5>3, <6>1
            <6> QED
              BY <5>1, <6>2
          <5> QED
            BY <5>4, <5>5
        <4> HIDE DEF G
        <4> QED
          BY <4>1, <4>2, UpTo
      <3> QED
        BY <2>2, <3>7, <3>8
    <2> QED
      BY <2>1, <2>2
  <1> QED
    BY <1>1, <1>2, <1>6, <1>7, <1>8 DEF Rounds

LEMMA ConcatAt ==
    ASSUME NEW R, NEW s \in Seq(R), NEW t \in Seq(R), NEW u, u = s \o t
    PROVE  /\ u \in Seq(R) /\ Len(u) = Len(s) + Len(t)
           /\ \A i \in 1..Len(s) : u[i] = s[i]
           /\ \A i \in 1..Len(t) : u[Len(s) + i] = t[i]
  OBVIOUS

LEMMA RangeConcat ==
    ASSUME NEW R, NEW s \in Seq(R), NEW t \in Seq(R)
    PROVE  Range(s \o t) = Range(s) \cup Range(t)
  <1>1. PICK u : u = s \o t
    OBVIOUS
  <1>2. /\ u \in Seq(R) /\ Len(u) = Len(s) + Len(t)
        /\ \A i \in 1..Len(s) : u[i] = s[i]
        /\ \A i \in 1..Len(t) : u[Len(s) + i] = t[i]
    BY <1>1
  <1>3. Range(s) = {s[i] : i \in 1..Len(s)} /\ Len(s) \in Nat
    BY RangeSeq
  <1>4. Range(t) = {t[i] : i \in 1..Len(t)} /\ Len(t) \in Nat
    BY RangeSeq
  <1>5. Range(u) = {u[i] : i \in 1..Len(u)}
    BY ONLY <1>2, RangeSeq
  <1>6. ASSUME NEW i \in 1..Len(u) PROVE u[i] \in Range(s) \cup Range(t)
    <2>1. CASE i <= Len(s)
      <3>1. i \in 1..Len(s) /\ u[i] = s[i]
        BY <1>2, <2>1
      <3> QED
        BY ONLY <1>3, <3>1
    <2>2. CASE i > Len(s)
      <3>0. PICK j : j = i - Len(s)
        OBVIOUS
      <3>1. j \in 1..Len(t) /\ i = Len(s) + j
        BY <1>2, <2>2, <3>0
      <3>2. u[i] = t[j]
        BY <1>2, <3>1
      <3> QED
        BY ONLY <1>4, <3>1, <3>2
    <2> QED
      BY <1>3, <2>1, <2>2
  <1>7. \A i \in 1..Len(s) : i \in 1..Len(u) /\ u[i] = s[i]
    BY ONLY <1>2, <1>3, <1>4
  <1>8. \A i \in 1..Len(t) : Len(s) + i \in 1..Len(u) /\ u[Len(s) + i] = t[i]
    BY ONLY <1>2, <1>3, <1>4
  <1>9. Range(u) \subseteq Range(s) \cup Range(t)
    BY ONLY <1>5, <1>6
  <1>10. Range(s) \subseteq Range(u)
    BY ONLY <1>3, <1>5, <1>7
  <1>11. Range(t) \subseteq Range(u)
    BY ONLY <1>4, <1>5, <1>8
  <1> QED
    BY ONLY <1>1, <1>9, <1>10, <1>11

LEMMA FlattenIs ==
    ASSUME NEW R, NEW ss \in Seq(Seq(R))
    PROVE  /\ FlattenSeq(ss) \in Seq(R)
           /\ Range(FlattenSeq(ss)) = UNION {Range(ss[i]) : i \in 1..Len(ss)}
  <1>1. PICK f \in [0..Len(ss) -> Seq(R)] :
            /\ f[0] = <<>>
            /\ \A n \in 1..Len(ss) : f[n] = f[n - 1] \o ss[n]
            /\ FlattenSeq(ss) = f[Len(ss)]
    BY FlattenRuns
  <1>2. Len(ss) \in Nat /\ Len(ss) \in 0..Len(ss)
    OBVIOUS
  <1> DEFINE First(k) == UNION {Range(ss[i]) : i \in 1..k}
             G == {k \in 0..Len(ss) : Range(f[k]) = First(k)}
  <1>3. 0 \in G
    <2>1. Range(<<>>) = {}
      BY DEF Range
    <2>2. First(0) = {}
      OBVIOUS
    <2> QED
      BY <1>1, <2>1, <2>2
  <1>4. ASSUME NEW k \in 0..Len(ss), k # Len(ss), k \in G PROVE k + 1 \in G
    <2>1. k + 1 \in 1..Len(ss) /\ (k + 1) - 1 = k
      BY <1>4
    <2>2. f[k + 1] = f[k] \o ss[k + 1] /\ f[k] \in Seq(R) /\ ss[k + 1] \in Seq(R)
      <3>1. f[k + 1] = f[(k + 1) - 1] \o ss[k + 1]
        BY <1>1, <2>1
      <3>2. f[k] \in Seq(R)
        BY <1>1
      <3>3. ss[k + 1] \in Seq(R)
        BY <2>1
      <3> QED
        BY <2>1, <3>1, <3>2, <3>3
    <2>3. Range(f[k + 1]) = First(k) \cup Range(ss[k + 1])
      BY <1>4, <2>2, RangeConcat
    <2>4. 1..(k + 1) = 1..k \cup {k + 1}
      BY <1>4
    <2>5. First(k + 1) = First(k) \cup Range(ss[k + 1])
      BY <2>4
    <2>6. Range(f[k + 1]) = First(k + 1)
      BY <2>3, <2>5
    <2> QED
      BY <2>1, <2>6
  <1>5. \A k \in 0..Len(ss) : k \in G
    <2> HIDE DEF G
    <2> QED
      BY <1>2, <1>3, <1>4, UpTo
  <1> QED
    BY <1>1, <1>2, <1>5

-----------------------------------------------------------------------------
(* BlockMetaIndex::binary_search_block *)

\* The states of the search.
SearchStates(N) == [lo : 0..N, hi : 0..N, at : 0..N]

\* The search, round by round.
Searching(f, N, blocks, k) ==
    /\ f \in [0..N -> SearchStates(N)]
    /\ f[0] = [lo |-> 0, hi |-> N, at |-> 0]
    /\ \A n \in 1..N : f[n] = SearchStep(blocks, k, f[n - 1])
    /\ SearchEnd(blocks, k) = f[N]

LEMMA SearchRuns ==
    ASSUME NEW blocks, NEW N \in Nat, N = Len(blocks), NEW k
    PROVE  \E f : Searching(f, N, blocks, k)
  <1>2. PICK D : D = SearchStates(N) /\ D = [lo : 0..N, hi : 0..N, at : 0..N]
    BY DEF SearchStates
  <1>3. PICK x : x = [lo |-> 0, hi |-> N, at |-> 0]
    OBVIOUS
  <1>4. x \in D
    BY <1>2, <1>3
  <1>5. ASSUME NEW s \in D PROVE SearchStep(blocks, k, s) \in D
    <2>1. s.lo \in 0..N /\ s.hi \in 0..N /\ s.at \in 0..N
      BY <1>2
    <2>2. PICK mid : mid = s.lo + (s.hi - s.lo) \div 2
      OBVIOUS
    <2>3. s.lo < s.hi => mid \in 0..N /\ mid + 1 \in 0..N
      BY <2>1, <2>2, SMTT(30)
    <2>4. CASE s.at # 0 \/ s.lo >= s.hi
      BY <2>4 DEF SearchStep
    <2>5. CASE ~(s.at # 0 \/ s.lo >= s.hi)
      <3>1. mid \in 0..N /\ mid + 1 \in 0..N
        BY <2>1, <2>3, <2>5
      <3>2. /\ [s EXCEPT !.lo = mid + 1] \in D
            /\ [s EXCEPT !.hi = mid] \in D
            /\ [s EXCEPT !.at = mid + 1] \in D
        BY <1>2, <3>1
      <3>3. SearchStep(blocks, k, s) \in {[s EXCEPT !.lo = mid + 1], [s EXCEPT !.hi = mid],
                                          [s EXCEPT !.at = mid + 1]}
        BY <2>2, <2>5 DEF SearchStep
      <3> QED
        BY <3>2, <3>3
    <2> QED
      BY <2>4, <2>5
  <1>6. PICK g : g = [p \in (1..N) \X D |-> SearchStep(blocks, k, p[2])]
    OBVIOUS
  <1>7. g \in [(1..N) \X D -> D]
    BY <1>5, <1>6
  <1>8. PICK f \in [0..N -> D] : Rounds(f, g, x, N)
    BY <1>4, <1>7, Iterates
  <1>9. \A n \in 1..N : f[n] = SearchStep(blocks, k, f[n - 1])
    <2> SUFFICES ASSUME NEW n \in 1..N PROVE f[n] = SearchStep(blocks, k, f[n - 1])
      OBVIOUS
    <2>1. f[n - 1] \in D
      BY <1>8
    <2> QED
      BY <1>6, <1>8, <2>1 DEF Rounds
  <1>10. f = [n \in 0..N |-> IF n = 0 THEN x ELSE SearchStep(blocks, k, f[n - 1])]
    BY <1>8, <1>9 DEF Rounds
  <1>11. PICK h : h = CHOOSE o : o = [n \in 0..N |->
                        IF n = 0 THEN x ELSE SearchStep(blocks, k, o[n - 1])]
    OBVIOUS
  <1>12. h = [n \in 0..N |-> IF n = 0 THEN x ELSE SearchStep(blocks, k, h[n - 1])]
    BY <1>10, <1>11, Zenon
  <1>13. \A n \in 0..N : f[n] = h[n]
    <2>1. f[0] = h[0]
      BY <1>8, <1>12 DEF Rounds
    <2>2. Alike(f, h, N)
      BY <1>9, <1>12 DEF Alike
    <2> QED
      BY <2>1, <2>2, SameLoop
  <1>14. SearchEnd(blocks, k) = h[N]
    BY <1>3, <1>11, Zenon DEF SearchEnd
  <1>15. f[0] = x
    BY <1>8 DEF Rounds
  <1>16. SearchEnd(blocks, k) = f[N]
    BY <1>13, <1>14
  <1>17. f \in [0..N -> SearchStates(N)]
    BY <1>2, <1>8
  <1> QED
    BY ONLY <1>3, <1>9, <1>15, <1>16, <1>17 DEF Searching

LEMMA SearchFinds ==
    ASSUME NEW blocks, Len(blocks) \in Nat, NEW k
    PROVE  BinarySearchBlock(blocks, k) \in 0..Len(blocks)
  <1>1. PICK N \in Nat : N = Len(blocks)
    OBVIOUS
  <1>2. PICK s : s = SearchEnd(blocks, k)
    OBVIOUS
  <1>3. s \in SearchStates(N)
    <2>1. PICK f : Searching(f, N, blocks, k)
      BY <1>1, SearchRuns
    <2> QED
      BY <1>1, <1>2, <2>1 DEF Searching
  <1>4. s.lo \in 0..N /\ s.at \in 0..N
    BY <1>3 DEF SearchStates
  <1> QED
    BY <1>1, <1>2, <1>4 DEF BinarySearchBlock

\* The keys of the blocks before the b-th are smaller than k, and those of the
\* blocks after it are larger.
OnlyBlock(blocks, N, k, b) ==
    /\ b \in 1..N /\ k \in Int
    /\ \A c \in 1..N :
        /\ Info(blocks[c]).minKey \in Int /\ Info(blocks[c]).maxKey \in Int
        /\ Info(blocks[c]).minKey <= Info(blocks[c]).maxKey
        /\ c < b => Info(blocks[c]).maxKey < k
        /\ b < c => k < Info(blocks[c]).minKey
    /\ Info(blocks[b]).minKey <= k /\ k <= Info(blocks[b]).maxKey

\* The block that may hold the key is found, or it is still within the bounds, which
\* have come closer in every round.
Closing(s, N, n, b) ==
    \/ s.at = b
    \/ s.at = 0 /\ s.lo < b /\ b <= s.hi /\ s.hi - s.lo <= N - n

LEMMA SearchCloses ==
    ASSUME NEW blocks, NEW N \in Nat, NEW k, NEW b, OnlyBlock(blocks, N, k, b),
           NEW s \in SearchStates(N), NEW n \in 1..N, Closing(s, N, n - 1, b)
    PROVE  Closing(SearchStep(blocks, k, s), N, n, b)
  <1>0. b \in 1..N
    BY DEF OnlyBlock
  <1>1. s.lo \in 0..N /\ s.hi \in 0..N /\ s.at \in 0..N
    BY DEF SearchStates
  <1>2. CASE s.at = b
    <2>1. SearchStep(blocks, k, s) = s
      BY <1>0, <1>2 DEF SearchStep
    <2> QED
      BY <1>2, <2>1 DEF Closing
  <1>3. CASE s.at # b
    <2>1. /\ s.at = 0 /\ s.lo < b /\ b <= s.hi /\ s.hi - s.lo <= N - (n - 1)
          /\ s.lo < s.hi
      BY <1>0, <1>1, <1>3 DEF Closing
    <2>2. PICK mid : mid = s.lo + (s.hi - s.lo) \div 2
      OBVIOUS
    <2>3. mid \in Int /\ s.lo <= mid /\ mid < s.hi
      BY <1>1, <2>1, <2>2, SMTT(30)
    <2>4. mid + 1 \in 1..N
      BY <1>1, <2>3
    <2>5. PICK info : info = Info(blocks[mid + 1])
      OBVIOUS
    <2>6. /\ info.minKey \in Int /\ info.maxKey \in Int /\ k \in Int
          /\ info.minKey <= info.maxKey
          /\ mid + 1 < b => info.maxKey < k
          /\ b < mid + 1 => k < info.minKey
          /\ mid + 1 = b => info.minKey <= k /\ k <= info.maxKey
      BY <2>4, <2>5 DEF OnlyBlock
    <2>7. SearchStep(blocks, k, s) =
            IF info.maxKey < k THEN [s EXCEPT !.lo = mid + 1]
            ELSE IF info.minKey > k THEN [s EXCEPT !.hi = mid]
            ELSE [s EXCEPT !.at = mid + 1]
      BY <1>1, <2>1, <2>2, <2>5 DEF SearchStep
    <2>8. CASE mid + 1 < b
      <3>1. PICK t : t = [s EXCEPT !.lo = mid + 1]
        OBVIOUS
      <3>2. SearchStep(blocks, k, s) = t
        BY <2>6, <2>7, <2>8, <3>1
      <3>3. t.lo = mid + 1 /\ t.hi = s.hi /\ t.at = s.at
        BY <3>1 DEF SearchStates
      <3>4. t.hi - t.lo <= N - n
        BY <1>1, <2>1, <2>3, <3>3
      <3> QED
        BY <2>1, <2>8, <3>2, <3>3, <3>4 DEF Closing
    <2>9. CASE b < mid + 1
      <3>1. PICK t : t = [s EXCEPT !.hi = mid]
        OBVIOUS
      <3>2. SearchStep(blocks, k, s) = t
        BY <2>6, <2>7, <2>9, <3>1
      <3>3. t.lo = s.lo /\ t.hi = mid /\ t.at = s.at
        BY <3>1 DEF SearchStates
      <3>4. t.hi - t.lo <= N - n /\ b <= t.hi
        BY <1>0, <1>1, <2>1, <2>3, <2>9, <3>3
      <3> QED
        BY <2>1, <3>2, <3>3, <3>4 DEF Closing
    <2>10. CASE mid + 1 = b
      <3>1. PICK t : t = [s EXCEPT !.at = mid + 1]
        OBVIOUS
      <3>2. SearchStep(blocks, k, s) = t
        BY <2>6, <2>7, <2>10, <3>1
      <3>3. t.at = b
        BY <2>10, <3>1 DEF SearchStates
      <3> QED
        BY <3>2, <3>3 DEF Closing
    <2> QED
      BY <1>0, <2>3, <2>8, <2>9, <2>10
  <1> QED
    BY <1>2, <1>3

\* binary_search_block finds the only block that may hold the key.
LEMMA SearchFindsKey ==
    ASSUME NEW blocks, NEW N \in Nat, N = Len(blocks), NEW k, NEW b,
           OnlyBlock(blocks, N, k, b)
    PROVE  BinarySearchBlock(blocks, k) = b
  <1>0. b \in 1..N
    BY DEF OnlyBlock
  <1>a. PICK f : Searching(f, N, blocks, k)
    BY SearchRuns
  <1>1. /\ f \in [0..N -> SearchStates(N)]
        /\ f[0] = [lo |-> 0, hi |-> N, at |-> 0]
        /\ \A n \in 1..N : f[n] = SearchStep(blocks, k, f[n - 1])
        /\ SearchEnd(blocks, k) = f[N]
    BY <1>a DEF Searching
  <1> DEFINE G == {n \in 0..N : Closing(f[n], N, n, b)}
  <1>2. 0 \in G
    <2>1. Closing(f[0], N, 0, b)
      BY <1>0, <1>1 DEF Closing
    <2> QED
      BY <2>1
  <1>3. ASSUME NEW n \in 0..N, n # N, n \in G PROVE n + 1 \in G
    <2>1. n + 1 \in 1..N /\ (n + 1) - 1 = n /\ n + 1 \in 0..N
      BY <1>3
    <2>2. f[n] \in SearchStates(N) /\ Closing(f[n], N, (n + 1) - 1, b)
      BY <1>1, <1>3, <2>1
    <2>3. f[n + 1] = SearchStep(blocks, k, f[n])
      BY <1>1, <2>1
    <2>4. Closing(SearchStep(blocks, k, f[n]), N, n + 1, b)
      BY <2>1, <2>2, SearchCloses
    <2> QED
      BY <2>1, <2>3, <2>4
  <1>4. \A n \in 0..N : n \in G
    <2> HIDE DEF G
    <2> QED
      BY <1>2, <1>3, UpTo
  <1>5. PICK s : s = SearchEnd(blocks, k)
    OBVIOUS
  <1>6. s \in SearchStates(N) /\ Closing(s, N, N, b)
    <2>1. N \in 0..N
      OBVIOUS
    <2>2. s = f[N]
      BY <1>1, <1>5
    <2>3. N \in G
      BY <1>4, <2>1
    <2>4. f[N] \in SearchStates(N)
      BY <1>1, <2>1
    <2> QED
      BY <2>2, <2>3, <2>4
  <1>7. s.at = b
    <2>1. s.lo \in 0..N /\ s.hi \in 0..N
      BY <1>6 DEF SearchStates
    <2> QED
      BY <1>0, <1>6, <2>1 DEF Closing
  <1> QED
    BY <1>0, <1>5, <1>7 DEF BinarySearchBlock

-----------------------------------------------------------------------------
(* The loop over the heap *)

\* The runs of Drain, and where they start.
Runs(sources) ==
    [pos : [DOMAIN sources -> Nat], last : Nat \X Nat, out : Seq(Rec)]

StartRun(sources) ==
    [pos |-> [i \in DOMAIN sources |-> 0], last |-> <<0, 0>>, out |-> <<>>]

\* The runs after one more pop.
DrainStep(sources, tombstones, descending, runs) ==
    UNION {{Popped(run, i, sources[i][run.pos[i] + 1], tombstones) :
                i \in FirstSources(sources, run.pos, descending)} : run \in runs}

LEMMA FirstSourcesIs ==
    ASSUME NEW sources \in Seq(Seq(Rec)), NEW descending, NEW run \in Runs(sources),
           NEW i \in FirstSources(sources, run.pos, descending)
    PROVE  /\ i \in DOMAIN sources /\ sources[i] \in Seq(Rec)
           /\ run.pos[i] \in Nat /\ run.pos[i] + 1 \in 1..Len(sources[i])
           /\ sources[i][run.pos[i] + 1] \in Rec
  <1>1. i \in DOMAIN sources /\ run.pos[i] < Len(sources[i])
    BY DEF FirstSources
  <1>2. sources[i] \in Seq(Rec)
    BY <1>1
  <1>3. run.pos[i] \in Nat
    BY <1>1 DEF Runs
  <1>4. run.pos[i] + 1 \in 1..Len(sources[i])
    BY <1>1, <1>2, <1>3
  <1> QED
    BY <1>1, <1>2, <1>3, <1>4

LEMMA AtNumbers ==
    ASSUME NEW r \in Rec
    PROVE  At(r) \in Nat \X Nat /\ At(r) = <<r.key, r.ts>>
  <1>1. r.key \in 1..MaxKey /\ r.ts \in 0..MaxTs
    BY DEF Rec, Keys
  <1> QED
    BY <1>1, Numbers DEF At

\* What a pop does to a run.
PopIs(run, i, r, tombstones, new) ==
    /\ new.pos = [run.pos EXCEPT ![i] = run.pos[i] + 1]
    /\ new.last = At(r)
    /\ \/ new.out = run.out /\ (At(r) = run.last \/ r.op # "put"
                                    \/ IsTombstoned(r, tombstones))
       \/ /\ new.out = Append(run.out, r)
          /\ At(r) # run.last /\ r.op = "put" /\ ~IsTombstoned(r, tombstones)

LEMMA PoppedIs ==
    ASSUME NEW sources \in Seq(Seq(Rec)), NEW tombstones, NEW descending,
           NEW run \in Runs(sources),
           NEW i \in FirstSources(sources, run.pos, descending),
           NEW r, r = sources[i][run.pos[i] + 1],
           NEW new, new = Popped(run, i, r, tombstones)
    PROVE  new \in Runs(sources) /\ r \in Rec /\ PopIs(run, i, r, tombstones, new)
  <1>1. /\ i \in DOMAIN sources /\ sources[i] \in Seq(Rec)
        /\ run.pos[i] \in Nat /\ run.pos[i] + 1 \in 1..Len(sources[i])
        /\ r \in Rec
    BY FirstSourcesIs
  <1>2. At(r) \in Nat \X Nat
    BY <1>1, AtNumbers
  <1>3. run.pos \in [DOMAIN sources -> Nat] /\ run.out \in Seq(Rec)
    BY DEF Runs
  <1>4. /\ new.pos = [run.pos EXCEPT ![i] = run.pos[i] + 1]
        /\ new.last = At(r)
        /\ new.out = IF At(r) = run.last \/ r.op # "put" \/ IsTombstoned(r, tombstones)
                     THEN run.out ELSE Append(run.out, r)
        /\ new = [pos |-> new.pos, last |-> new.last, out |-> new.out]
    BY DEF Popped
  <1>5. new.pos \in [DOMAIN sources -> Nat]
    BY <1>1, <1>3, <1>4
  <1>6. new.out \in Seq(Rec)
    BY <1>1, <1>3, <1>4
  <1>7. new \in Runs(sources)
    BY <1>2, <1>4, <1>5, <1>6 DEF Runs
  <1> QED
    BY <1>1, <1>4, <1>7 DEF PopIs

\* f has the runs after each pop, N in all.
Draining(f, N, sources, tombstones, descending) ==
    /\ f \in [0..N -> SUBSET Runs(sources)]
    /\ N = Len(FlattenSeq(sources))
    /\ f[0] = {StartRun(sources)}
    /\ \A n \in 1..N : f[n] = DrainStep(sources, tombstones, descending, f[n - 1])
    /\ Drain(sources, tombstones, descending) = {run.out : run \in f[N]}

LEMMA DrainRuns ==
    ASSUME NEW sources \in Seq(Seq(Rec)), NEW tombstones, NEW descending
    PROVE  \E N \in Nat : \E f : Draining(f, N, sources, tombstones, descending)
  <1>1. PICK N \in Nat : N = Len(FlattenSeq(sources))
    BY FlattenIs
  <1>2. PICK D : D = SUBSET Runs(sources)
    OBVIOUS
  <1>3. PICK x : x = {StartRun(sources)}
    OBVIOUS
  <1>4. x \in D
    <2>1. StartRun(sources) \in Runs(sources)
      BY DEF StartRun, Runs
    <2> QED
      BY <1>2, <1>3, <2>1
  <1>5. ASSUME NEW runs \in D PROVE DrainStep(sources, tombstones, descending, runs) \in D
    <2> SUFFICES ASSUME NEW run \in Runs(sources),
                        NEW i \in FirstSources(sources, run.pos, descending)
                 PROVE  Popped(run, i, sources[i][run.pos[i] + 1], tombstones)
                            \in Runs(sources)
      BY <1>2 DEF DrainStep
    <2>1. PICK r, new : /\ r = sources[i][run.pos[i] + 1]
                        /\ new = Popped(run, i, r, tombstones)
      OBVIOUS
    <2>2. new \in Runs(sources)
      BY <2>1, PoppedIs
    <2> QED
      BY <2>1, <2>2
  <1>6. PICK g : g = [p \in (1..N) \X D |->
                        DrainStep(sources, tombstones, descending, p[2])]
    OBVIOUS
  <1>7. g \in [(1..N) \X D -> D]
    BY <1>5, <1>6
  <1>8. PICK f \in [0..N -> D] : Rounds(f, g, x, N)
    BY <1>4, <1>7, Iterates
  <1>9. \A n \in 1..N : f[n] = DrainStep(sources, tombstones, descending, f[n - 1])
    <2> SUFFICES ASSUME NEW n \in 1..N
                 PROVE  f[n] = DrainStep(sources, tombstones, descending, f[n - 1])
      OBVIOUS
    <2>1. f[n - 1] \in D
      BY <1>8
    <2> QED
      BY <1>6, <1>8, <2>1 DEF Rounds
  <1>10. f = [n \in 0..N |-> IF n = 0 THEN x
                             ELSE DrainStep(sources, tombstones, descending, f[n - 1])]
    BY <1>8, <1>9 DEF Rounds
  <1>11. PICK h : h = CHOOSE o : o = [n \in 0..N |->
            IF n = 0 THEN x ELSE DrainStep(sources, tombstones, descending, o[n - 1])]
    OBVIOUS
  <1>12. h = [n \in 0..N |-> IF n = 0 THEN x
                             ELSE DrainStep(sources, tombstones, descending, h[n - 1])]
    BY <1>10, <1>11, Zenon
  <1>13. \A n \in 0..N : f[n] = h[n]
    <2>1. f[0] = h[0]
      BY <1>8, <1>12 DEF Rounds
    <2>2. Alike(f, h, N)
      BY <1>9, <1>12 DEF Alike
    <2> QED
      BY <2>1, <2>2, SameLoop
  <1>14. Drain(sources, tombstones, descending) = {run.out : run \in h[N]}
    BY <1>1, <1>3, <1>11, Zenon DEF Drain, DrainStep, StartRun
  <1>15. Drain(sources, tombstones, descending) = {run.out : run \in f[N]}
    BY <1>13, <1>14
  <1>16. f[0] = {StartRun(sources)}
    BY <1>3, <1>8 DEF Rounds
  <1> QED
    BY <1>1, <1>2, <1>8, <1>9, <1>15, <1>16 DEF Draining

\* A set of runs that no pop leaves.
Keeps(J, sources, tombstones, descending) ==
    \A run \in J : \A i \in FirstSources(sources, run.pos, descending) :
        Popped(run, i, sources[i][run.pos[i] + 1], tombstones) \in J

\* What holds of the first run and is kept by every pop holds at the end.
LEMMA DrainKeeps ==
    ASSUME NEW sources \in Seq(Seq(Rec)), NEW tombstones, NEW descending,
           NEW J, StartRun(sources) \in J, Keeps(J, sources, tombstones, descending)
    PROVE  \A out \in Drain(sources, tombstones, descending) :
                \E run \in J : run \in Runs(sources) /\ run.out = out
  <1>0. PICK N \in Nat : \E f : Draining(f, N, sources, tombstones, descending)
    BY DrainRuns
  <1>1. PICK f : Draining(f, N, sources, tombstones, descending)
    BY <1>0
  <1> DEFINE G == {n \in 0..N : f[n] \subseteq J}
  <1>2. 0 \in G
    BY <1>1 DEF Draining
  <1>3. ASSUME NEW k \in 0..N, k # N, k \in G PROVE k + 1 \in G
    <2>1. k + 1 \in 1..N /\ (k + 1) - 1 = k
      BY <1>3
    <2>2. f[k + 1] = DrainStep(sources, tombstones, descending, f[k])
      BY <1>1, <2>1 DEF Draining
    <2>3. f[k] \subseteq J
      BY <1>3
    <2>4. f[k + 1] \subseteq J
      BY <2>2, <2>3 DEF DrainStep, Keeps
    <2> QED
      BY <2>1, <2>4
  <1>4. \A k \in 0..N : k \in G
    <2> HIDE DEF G
    <2> QED
      BY <1>2, <1>3, UpTo
  <1>5. f[N] \subseteq J /\ f[N] \subseteq Runs(sources)
    BY <1>1, <1>4 DEF Draining
  <1> QED
    BY <1>1, <1>5 DEF Draining

\* What the loop returns: records of the sources, no deletes, and none that a range
\* delete covers.
LEMMA DrainIs ==
    ASSUME NEW sources \in Seq(Seq(Rec)), NEW tombstones, NEW descending,
           NEW out \in Drain(sources, tombstones, descending)
    PROVE  /\ out \in Seq(Rec)
           /\ \A r \in Range(out) :
                /\ r.op = "put" /\ ~IsTombstoned(r, tombstones)
                /\ \E i \in DOMAIN sources : r \in Range(sources[i])
  <1> DEFINE Good == {r \in Rec : /\ r.op = "put" /\ ~IsTombstoned(r, tombstones)
                                  /\ \E i \in DOMAIN sources : r \in Range(sources[i])}
             J == {run \in Runs(sources) : Range(run.out) \subseteq Good}
  <1>1. StartRun(sources) \in J
    BY DEF StartRun, Runs, Range
  <1>2. Keeps(J, sources, tombstones, descending)
    <2> SUFFICES ASSUME NEW run \in J,
                        NEW i \in FirstSources(sources, run.pos, descending)
                 PROVE  Popped(run, i, sources[i][run.pos[i] + 1], tombstones) \in J
      BY DEF Keeps
    <2>1. PICK r, new : /\ r = sources[i][run.pos[i] + 1]
                        /\ new = Popped(run, i, r, tombstones)
      OBVIOUS
    <2>2. run \in Runs(sources) /\ Range(run.out) \subseteq Good /\ run.out \in Seq(Rec)
      BY DEF Runs
    <2>0. new \in Runs(sources) /\ r \in Rec /\ PopIs(run, i, r, tombstones, new)
      BY <2>1, <2>2, PoppedIs
    <2>3. /\ new \in Runs(sources) /\ r \in Rec
          /\ \/ new.out = run.out
             \/ /\ new.out = Append(run.out, r)
                /\ r.op = "put" /\ ~IsTombstoned(r, tombstones)
      BY <2>0 DEF PopIs
    <2>4. i \in DOMAIN sources /\ r \in Range(sources[i])
      <3>1. /\ i \in DOMAIN sources /\ sources[i] \in Seq(Rec)
            /\ run.pos[i] + 1 \in 1..Len(sources[i])
        BY <2>2, FirstSourcesIs
      <3> QED
        BY <2>1, <3>1, RangeSeq
    <2>5. CASE new.out = run.out
      BY <2>1, <2>2, <2>3, <2>5
    <2>6. CASE new.out = Append(run.out, r) /\ r.op = "put"
                /\ ~IsTombstoned(r, tombstones)
      <3>1. r \in Good
        BY <2>3, <2>4, <2>6
      <3>2. Range(new.out) = Range(run.out) \cup {r}
        BY <2>2, <2>3, <2>6, RangeAppend
      <3> QED
        BY <2>1, <2>2, <2>3, <3>1, <3>2
    <2> QED
      BY <2>3, <2>5, <2>6
  <1>3. PICK run \in J : run \in Runs(sources) /\ run.out = out
    <2> HIDE DEF J
    <2>1. \A o \in Drain(sources, tombstones, descending) :
                \E run \in J : run \in Runs(sources) /\ run.out = o
      BY <1>1, <1>2, DrainKeeps
    <2> QED
      BY <2>1
  <1>4. out \in Seq(Rec) /\ Range(out) \subseteq Good
    BY <1>3 DEF Runs
  <1> QED
    BY <1>4

-----------------------------------------------------------------------------
(* The blocks of an SST *)

LEMMA MinTwo ==
    ASSUME NEW a \in Int, NEW b \in Int
    PROVE  Min({a, b}) = IF a <= b THEN a ELSE b
  <1>1. PICK m : m = IF a <= b THEN a ELSE b
    OBVIOUS
  <1>2. m \in {a, b} /\ (\A y \in {a, b} : m <= y)
    BY <1>1
  <1>3. \A x \in {a, b} : (\A y \in {a, b} : x <= y) => x = m
    BY <1>1
  <1>4. Min({a, b}) = CHOOSE x \in {a, b} : \A y \in {a, b} : x <= y
    BY DEF Min
  <1> QED
    BY <1>1, <1>2, <1>3, <1>4

LEMMA TimesGrows ==
    ASSUME NEW a \in Nat, NEW b \in Nat, NEW s \in Nat, a <= b
    PROVE  a * s <= b * s /\ a * s \in Nat /\ b * s \in Nat
  OBVIOUS

LEMMA TimesSucc ==
    ASSUME NEW a \in Nat, NEW s \in Nat
    PROVE  (a + 1) * s = a * s + s /\ a * s \in Nat
  OBVIOUS

LEMMA DivUp ==
    ASSUME NEW n \in Nat, NEW s \in Nat \ {0}, NEW q, q = (n + s - 1) \div s
    PROVE  q \in Nat /\ q * s <= n + s - 1 /\ n + s - 1 < (q + 1) * s
  OBVIOUS

\* Block b of an SST with these records.
BlockIs(blocks, recs, b) ==
    /\ Len(blocks[b]) \in 1..BlockSize
    /\ b < Len(blocks) => Len(blocks[b]) = BlockSize
    /\ b = Len(blocks) => (b - 1) * BlockSize + Len(blocks[b]) = Len(recs)
    /\ \A i \in 1..Len(blocks[b]) :
            /\ (b - 1) * BlockSize + i \in 1..Len(recs)
            /\ blocks[b][i] = Stored(recs[(b - 1) * BlockSize + i])

LEMMA StoredIs ==
    ASSUME NEW r \in Rec
    PROVE  /\ Stored(r) \in Rec /\ Stored(r).seq = 0
           /\ Stored(r).op = r.op /\ Stored(r).key = r.key /\ Stored(r).ts = r.ts
           /\ Stored(r).val = r.val /\ Stored(r).exp = r.exp /\ Stored(r).end = r.end
           /\ At(Stored(r)) = At(r) /\ Stored(Stored(r)) = Stored(r)
  <1>1. PICK s : s = Stored(r)
    OBVIOUS
  <1>2. r = [seq |-> r.seq, op |-> r.op, key |-> r.key, ts |-> r.ts, val |-> r.val,
             exp |-> r.exp, end |-> r.end]
    BY DEF Rec
  <1>3. s = [seq |-> 0, op |-> r.op, key |-> r.key, ts |-> r.ts, val |-> r.val,
             exp |-> r.exp, end |-> r.end]
    BY <1>1, <1>2 DEF Stored
  <1>4. /\ s.seq = 0 /\ s.op = r.op /\ s.key = r.key /\ s.ts = r.ts
        /\ s.val = r.val /\ s.exp = r.exp /\ s.end = r.end
    BY <1>3
  <1>5. s \in Rec
    BY <1>3 DEF Rec
  <1>6. At(s) = At(r)
    BY <1>4 DEF At
  <1>7. [s EXCEPT !.seq = 0] = s
    BY <1>3
  <1> QED
    BY <1>1, <1>4, <1>5, <1>6, <1>7 DEF Stored

LEMMA BlocksAre ==
    ASSUME NEW recs \in Seq(Rec), NEW blocks, blocks = Blocks(recs)
    PROVE  /\ blocks \in Seq(Seq(Rec)) /\ (recs # <<>> => Len(blocks) # 0)
           /\ (recs = <<>> => Len(blocks) = 0)
           /\ \A b \in 1..Len(blocks) : BlockIs(blocks, recs, b)
  <1>1. PICK n \in Nat, s \in Nat \ {0} : n = Len(recs) /\ s = BlockSize
    BY Numbers
  <1>2. PICK q : q = (n + s - 1) \div s
    OBVIOUS
  <1>3. q \in Nat /\ q * s <= n + s - 1 /\ n + s - 1 < (q + 1) * s
    BY <1>1, <1>2, DivUp
  <1>4. blocks = [b \in 1..q |-> [i \in 1..Min({s, n - (b - 1) * s}) |->
                                      Stored(recs[(b - 1) * s + i])]]
    BY <1>1, <1>2 DEF Blocks
  <1>5. ASSUME NEW b \in 1..q
        PROVE  /\ blocks[b] \in Seq(Rec)
               /\ Len(blocks[b]) \in 1..s
               /\ b < q => Len(blocks[b]) = s
               /\ b = q => (b - 1) * s + Len(blocks[b]) = n
               /\ \A i \in 1..Len(blocks[b]) :
                        /\ (b - 1) * s + i \in 1..n
                        /\ blocks[b][i] = Stored(recs[(b - 1) * s + i])
    <2>1. PICK d : d = (b - 1) * s
      OBVIOUS
    <2>2. b - 1 \in Nat /\ q - 1 \in Nat
      BY <1>3
    <2>3. d \in Nat /\ d <= n - 1 /\ (b < q => d + s <= n - 1) /\ (b = q => n <= d + s)
      <3>1. d \in Nat /\ b * s = d + s
        BY <1>1, <2>1, <2>2
      <3>2. q * s = (q - 1) * s + s /\ (q + 1) * s = q * s + s /\ q * s \in Nat
        BY <1>1, <1>3, <2>2
      <3>3. b * s <= q * s
        BY <1>1, <1>3
      <3>4. b < q => b * s <= (q - 1) * s
        <4>1. b < q => b <= q - 1 /\ b \in Nat
          BY <1>3
        <4> QED
          BY <1>1, <2>2, <4>1, TimesGrows
      <3> QED
        BY <1>1, <1>3, <3>1, <3>2, <3>3, <3>4
    <2>4. PICK m : m = IF s <= n - d THEN s ELSE n - d
      OBVIOUS
    <2>5. m \in 1..s /\ d + m <= n /\ (b < q => m = s) /\ (b = q => d + m = n)
      BY <1>1, <2>3, <2>4
    <2>6. Min({s, n - d}) = m
      BY <1>1, <2>3, <2>4, MinTwo
    <2>7. PICK t : t = blocks[b]
      OBVIOUS
    <2>8. t = [i \in 1..m |-> Stored(recs[d + i])]
      BY <1>4, <2>1, <2>6, <2>7
    <2>9. \A i \in 1..m : d + i \in 1..n /\ Stored(recs[d + i]) \in Rec
      <3> SUFFICES ASSUME NEW i \in 1..m
                   PROVE  d + i \in 1..n /\ Stored(recs[d + i]) \in Rec
        OBVIOUS
      <3>1. d + i \in 1..n
        BY <1>1, <2>3, <2>5
      <3>2. recs[d + i] \in Rec
        BY <1>1, <3>1
      <3> QED
        BY <3>1, <3>2, StoredIs
    <2>10. t \in Seq(Rec) /\ Len(t) = m
      <3>1. m \in Nat
        BY <1>1, <2>5
      <3>2. t \in [1..m -> Rec]
        BY <2>8, <2>9
      <3> QED
        BY <3>1, <3>2
    <2> QED
      BY <2>1, <2>5, <2>7, <2>8, <2>9, <2>10
  <1>6. blocks \in Seq(Seq(Rec)) /\ Len(blocks) = q
    <2>1. blocks \in [1..q -> Seq(Rec)]
      BY <1>4, <1>5
    <2> QED
      BY <1>3, <2>1
  <1>7. recs # <<>> => q # 0
    BY <1>1, <1>3
  <1>8. recs = <<>> => q = 0
    <2>1. recs = <<>> => n = 0
      BY <1>1
    <2>2. q # 0 => q * s >= s
      <3>1. q # 0 => 1 <= q /\ 1 * s = s
        BY <1>1, <1>3
      <3> QED
        BY <1>1, <1>3, <3>1, TimesGrows
    <2> QED
      BY <1>1, <1>3, <2>1, <2>2
  <1> QED
    BY <1>1, <1>5, <1>6, <1>7, <1>8 DEF BlockIs

\* Reading the blocks in order gives the records that were written, in order.
LEMMA BlocksFlatten ==
    ASSUME NEW recs \in Seq(Rec)
    PROVE  FlattenSeq(Blocks(recs)) = [i \in 1..Len(recs) |-> Stored(recs[i])]
  <1>1. PICK blocks : blocks = Blocks(recs)
    OBVIOUS
  <1>2. /\ blocks \in Seq(Seq(Rec)) /\ (recs # <<>> => Len(blocks) # 0)
        /\ (recs = <<>> => Len(blocks) = 0)
        /\ \A b \in 1..Len(blocks) : BlockIs(blocks, recs, b)
    BY <1>1, BlocksAre
  <1>3. PICK f \in [0..Len(blocks) -> Seq(Rec)] :
            /\ f[0] = <<>>
            /\ \A n \in 1..Len(blocks) : f[n] = f[n - 1] \o blocks[n]
            /\ FlattenSeq(blocks) = f[Len(blocks)]
    BY <1>2, FlattenRuns
  <1>4. PICK n \in Nat, q \in Nat, s \in Nat \ {0} :
            n = Len(recs) /\ q = Len(blocks) /\ s = BlockSize
    BY <1>2, Numbers
  <1> DEFINE Written(k) == [i \in 1..(IF k < q THEN k * s ELSE n) |-> Stored(recs[i])]
             G == {k \in 0..q : f[k] = Written(k)}
  <1>5. 0 \in G
    <2>1. 0 < q => 0 * s = 0
      BY <1>4
    <2>2. ~(0 < q) => n = 0
      <3>1. recs # <<>> => q # 0
        BY <1>2, <1>4
      <3>2. recs = <<>> => n = 0
        BY <1>4
      <3> QED
        BY <1>4, <3>1, <3>2
    <2>3. Written(0) = <<>>
      <3>1. (IF 0 < q THEN 0 * s ELSE n) = 0
        BY <2>1, <2>2
      <3>2. Written(0) = [i \in 1..0 |-> Stored(recs[i])]
        BY <3>1
      <3>3. [i \in 1..0 |-> Stored(recs[i])] = <<>>
        OBVIOUS
      <3> QED
        BY <3>2, <3>3
    <2> QED
      BY <1>3, <1>4, <2>3
  <1>6. ASSUME NEW k \in 0..q, k # q, k \in G PROVE k + 1 \in G
    <2>1. k \in Nat /\ k < q /\ k + 1 \in 1..q /\ (k + 1) - 1 = k /\ k + 1 \in Nat
      BY <1>4, <1>6
    <2>2. PICK d : d = k * s
      OBVIOUS
    <2>3. d \in Nat /\ (k + 1) * s = d + s
      BY <1>4, <2>1, <2>2, TimesSucc
    <2>4. PICK t : t = blocks[k + 1]
      OBVIOUS
    <2>5. BlockIs(blocks, recs, k + 1)
      BY <1>2, <1>4, <2>1
    <2>6. /\ t \in Seq(Rec) /\ Len(t) \in 1..s
          /\ k + 1 < q => Len(t) = s
          /\ k + 1 = q => d + Len(t) = n
          /\ \A i \in 1..Len(t) : d + i \in 1..n /\ t[i] = Stored(recs[d + i])
      <3>1. t \in Seq(Rec)
        BY <1>2, <1>4, <2>1, <2>4
      <3> QED
        BY <1>4, <2>1, <2>2, <2>4, <2>5, <3>1 DEF BlockIs
    <2>7. PICK u, v : u = f[k] /\ v = f[k + 1]
      OBVIOUS
    <2>8. u \in Seq(Rec) /\ v = u \o t
      BY <1>3, <1>4, <2>1, <2>4, <2>7
    <2>9. Len(u) = d /\ \A i \in 1..d : u[i] = Stored(recs[i])
      <3>1. u = [i \in 1..d |-> Stored(recs[i])]
        BY <1>6, <2>1, <2>2, <2>7
      <3> QED
        BY <2>3, <2>8, <3>1
    <2>10. PICK m : m = d + Len(t)
      OBVIOUS
    <2>11. m \in Nat /\ m = (IF k + 1 < q THEN (k + 1) * s ELSE n)
      <3>1. PICK l \in Nat : l = Len(t)
        BY <2>6
      <3>2. m = d + l /\ (k + 1 < q => l = s) /\ (k + 1 = q => d + l = n)
        BY <2>6, <2>10, <3>1
      <3> QED
        BY ONLY <2>1, <2>3, <3>2, n \in Nat, q \in Nat, s \in Nat \ {0}, l \in Nat
    <2>12. v \in Seq(Rec) /\ Len(v) = m
      <3>1. t \in Seq(Rec) /\ Len(u) = d
        BY <2>6, <2>9
      <3> QED
        BY ONLY <2>8, <2>10, <3>1
    <2>13. \A i \in 1..m : v[i] = Stored(recs[i])
      <3> SUFFICES ASSUME NEW i \in 1..m PROVE v[i] = Stored(recs[i])
        OBVIOUS
      <3>1. CASE i <= d
        <4>1. i \in 1..d /\ v[i] = u[i]
          BY <2>3, <2>6, <2>8, <2>9, <2>11, <3>1
        <4> QED
          BY <2>9, <4>1
      <3>2. CASE i > d
        <4>1. PICK j : j = i - d
          OBVIOUS
        <4>2. j \in 1..Len(t) /\ i = d + j
          BY <2>3, <2>6, <2>10, <2>11, <3>2, <4>1
        <4>3. v[i] = t[j]
          BY <2>3, <2>6, <2>8, <2>9, <4>2, SMTT(30)
        <4> QED
          BY <2>6, <4>2, <4>3
      <3> QED
        BY <2>3, <2>11, <3>1, <3>2
    <2>14. v = [i \in 1..m |-> Stored(recs[i])]
      BY <2>11, <2>12, <2>13
    <2>15. Written(k + 1) = [i \in 1..m |-> Stored(recs[i])]
      BY <2>11
    <2>16. k + 1 \in 0..q
      BY <1>4, <2>1
    <2> QED
      BY <2>7, <2>14, <2>15, <2>16
  <1>7. \A k \in 0..q : k \in G
    <2> HIDE DEF G
    <2> QED
      BY <1>4, <1>5, <1>6, UpTo
  <1>8. q \in G
    BY <1>4, <1>7
  <1> QED
    BY <1>1, <1>3, <1>4, <1>8

-----------------------------------------------------------------------------
(* Finite sets *)

LEMMA MaxIs ==
    ASSUME NEW S \in SUBSET Int, NEW m \in S, \A y \in S : y <= m
    PROVE  Max(S) = m
  <1>1. \A x \in S : (\A y \in S : x >= y) => x = m
    OBVIOUS
  <1>2. m \in S /\ \A y \in S : m >= y
    OBVIOUS
  <1> QED
    BY <1>1, <1>2 DEF Max

LEMMA MinIs ==
    ASSUME NEW S \in SUBSET Int, NEW m \in S, \A y \in S : m <= y
    PROVE  Min(S) = m
  <1>1. \A x \in S : (\A y \in S : x <= y) => x = m
    OBVIOUS
  <1>2. m \in S /\ \A y \in S : m <= y
    OBVIOUS
  <1> QED
    BY <1>1, <1>2 DEF Min

\* A non-empty list of numbers has a greatest one.
LEMMA GreatestOf ==
    ASSUME NEW n \in Nat \ {0}, NEW f, \A i \in 1..n : f[i] \in Nat
    PROVE  \E i \in 1..n : \A j \in 1..n : f[j] <= f[i]
  <1> DEFINE G == {k \in 0..n : k = 0 \/ \E i \in 1..k : \A j \in 1..k : f[j] <= f[i]}
  <1>1. 0 \in G
    OBVIOUS
  <1>2. ASSUME NEW k \in 0..n, k # n, k \in G PROVE k + 1 \in G
    <2>1. /\ k + 1 \in 0..n /\ k + 1 \in 1..(k + 1) /\ k + 1 # 0
          /\ 1..(k + 1) = (1..k) \cup {k + 1} /\ k + 1 \in 1..n /\ 1..k \subseteq 1..n
      BY <1>2
    <2>2. CASE k = 0
      <3>1. \A j \in 1..(k + 1) : j = k + 1
        BY <2>2
      <3>2. f[k + 1] \in Nat
        BY <2>1
      <3>3. \A j \in 1..(k + 1) : f[j] <= f[k + 1]
        BY <3>1, <3>2
      <3> QED
        BY <2>1, <3>3
    <2>3. CASE k # 0
      <3>1. PICK i \in 1..k : \A j \in 1..k : f[j] <= f[i]
        BY <1>2, <2>3
      <3>2. CASE f[k + 1] <= f[i]
        <4>1. \A j \in 1..(k + 1) : f[j] <= f[i]
          BY <2>1, <3>1, <3>2
        <4> QED
          BY <2>1, <3>1, <4>1
      <3>3. CASE ~(f[k + 1] <= f[i])
        <4>1. f[k + 1] \in Nat /\ \A j \in 1..k : f[j] \in Nat
          BY <2>1
        <4>2. \A j \in 1..(k + 1) : f[j] <= f[k + 1]
          BY <2>1, <3>1, <3>3, <4>1
        <4> QED
          BY <2>1, <4>2
      <3> QED
        BY <3>2, <3>3
    <2> QED
      BY <2>2, <2>3
  <1>3. \A k \in 0..n : k \in G
    <2> HIDE DEF G
    <2> QED
      BY <1>1, <1>2, UpTo
  <1> QED
    BY <1>3

LEMMA SetToSeqIs ==
    ASSUME NEW S, IsFiniteSet(S)
    PROVE  /\ SetToSeq(S) \in Seq(S)
           /\ \A x \in S : \E i \in 1..Len(SetToSeq(S)) : SetToSeq(S)[i] = x
           /\ \A i, j \in 1..Len(SetToSeq(S)) : SetToSeq(S)[i] = SetToSeq(S)[j] => i = j
  <1>1. PICK n : n = Cardinality(S)
    OBVIOUS
  <1>2. n \in Nat /\ ExistsBijection(1..n, S)
    BY <1>1, FS_CardinalityType
  <1>3. PICK f \in [1..n -> S] : IsInjective(f)
    BY <1>2 DEF ExistsBijection, Bijection, Injection
  <1>4. PICK g : g = SetToSeq(S)
    OBVIOUS
  <1>5. g \in [1..n -> S] /\ IsInjective(g)
    BY <1>1, <1>3, <1>4 DEF SetToSeq
  <1>6. g \in Seq(S) /\ Len(g) = n /\ DOMAIN g = 1..n
    BY <1>2, <1>5
  <1>7. g \in Injection(1..n, S)
    BY <1>5 DEF Injection
  <1>8. Cardinality(1..n) = Cardinality(S)
    BY <1>1, <1>2, FS_Interval
  <1>9. g \in Surjection(1..n, S)
    BY <1>7, <1>8, FS_Injection
  <1>10. \A x \in S : \E i \in 1..n : g[i] = x
    BY <1>9 DEF Surjection
  <1> QED
    BY <1>4, <1>5, <1>6, <1>10 DEF IsInjective

-----------------------------------------------------------------------------
(* The inductive invariant *)

\* Sequence numbers are positions in the log; range deletes have no time stamp and
\* never expire.
LogOK ==
    /\ log \in Seq(Rec) /\ Len(log) <= MaxWrites
    /\ \A i \in 1..Len(log) :
        /\ log[i].seq = i
        /\ log[i].op = "range" => log[i].exp = Never /\ log[i].ts = 0

BySeq == {p \in Rec \X Rec : p[1].seq < p[2].seq}

\* Memory holds records of the log; only one of its tables has any.
MemoryOK ==
    /\ active \in Seq(Rec) /\ Range(active) \subseteq Range(log)
    /\ Ordered(active, BySeq)
    /\ frozen \in Seq(Seq(Rec)) /\ Len(frozen) <= 1
    /\ frozen = <<>> \/ active = <<>>
    /\ \A i \in 1..Len(frozen) :
        Range(frozen[i]) \subseteq Range(log) /\ Ordered(frozen[i], Ascending)

\* The records of the log as an SST stores them.
Held == {Stored(x) : x \in Range(log)}

AscendingKeys == {p \in Rec \X Rec : ~KeyTsBefore(p[2], p[1])}

\* These records were written to the SST: records of the log, by key and time stamp
\* if it was written by a flush.
WrittenTo(id, recs) ==
    /\ recs \in Seq(Rec) /\ ssts[id] = Blocks(recs)
    /\ \A r \in Range(recs) : Stored(r) \in Held
    /\ id \notin merged => Ordered(recs, AscendingKeys)

SstsOK ==
    /\ DOMAIN ssts \subseteq 1..MaxSsts /\ merged \subseteq DOMAIN ssts
    /\ \A id \in DOMAIN ssts : \E recs : WrittenTo(id, recs)

\* x is the newest version of the record's key and time stamp among the first at.
NewestUpTo(at, rec, x) ==
    /\ x \in Range(log) /\ x.seq <= at /\ At(x) = At(rec)
    /\ \A y \in Range(log) : At(y) = At(rec) /\ y.seq <= at => y.seq <= x.seq

\* A patch between its read and its write: what it has read is the newest version,
\* and no other patch has been written since.
Patching(q) ==
    /\ q.pc = "write" /\ q.rec \in Rec /\ q.rec.op # "range"
    /\ q.at \in 0..Len(log)
    /\ q.sure => \E x : /\ NewestUpTo(q.at, q.rec, x)
                        /\ q.rec.val = x.val /\ (q.ttl \/ q.rec.exp = x.exp)
    /\ \A e \in patched : e.seq <= q.at

PatchOK ==
    /\ now \in 1..MaxNow
    /\ DOMAIN patch = Patchers
    /\ \A p \in Patchers : patch[p] = IdlePatch \/ Patching(patch[p])
    /\ \A p, q \in Patchers : patch[p].pc = "write" /\ patch[q].pc = "write" => p = q
    /\ \A e \in patched : e.seq \in 1..Len(log) /\ e.at \in 0..(e.seq - 1)

LookupInv == LogOK /\ MemoryOK /\ SstsOK /\ PatchOK /\ PatchesCompose

-----------------------------------------------------------------------------
(* The log and memory *)

LEMMA LogIs ==
    ASSUME LogOK
    PROVE  /\ \A i \in 1..Len(log) : log[i] \in Range(log) /\ log[i] \in Rec
           /\ \A x \in Range(log) : x \in Rec /\ x.seq \in 1..Len(log) /\ log[x.seq] = x
           /\ \A x, y \in Range(log) : x.seq = y.seq => x = y
           /\ \A x \in Range(log) : x.op = "range" => x.exp = Never /\ x.ts = 0
  <1>1. log \in Seq(Rec) /\ Range(log) = {log[i] : i \in 1..Len(log)}
    BY RangeSeq DEF LogOK
  <1>2. \A x \in Range(log) : x \in Rec /\ x.seq \in 1..Len(log) /\ log[x.seq] = x
    BY <1>1 DEF LogOK
  <1> QED
    BY <1>1, <1>2 DEF LogOK

LEMMA MemoryIs ==
    ASSUME LogOK, MemoryOK
    PROVE  /\ Memory \in Seq(Rec)
           /\ Range(Memory) = Range(active) \cup UNION {Range(frozen[i]) : i \in 1..Len(frozen)}
           /\ Range(Memory) \subseteq Range(log)
           /\ \A r \in Range(Memory) : InMemory(r)
  <1>1. active \in Seq(Rec) /\ frozen \in Seq(Seq(Rec))
    BY DEF MemoryOK
  <1>2. PICK flat : flat = FlattenSeq(frozen)
    OBVIOUS
  <1>3. flat \in Seq(Rec) /\ Range(flat) = UNION {Range(frozen[i]) : i \in 1..Len(frozen)}
    BY <1>1, <1>2, FlattenIs
  <1>4. Memory = active \o flat
    BY <1>2 DEF Memory
  <1>5. Memory \in Seq(Rec)
    BY <1>1, <1>3, <1>4
  <1>6. Range(Memory) = Range(active) \cup Range(flat)
    BY <1>1, <1>3, <1>4, RangeConcat
  <1>7. Range(flat) \subseteq Range(log)
    BY <1>3 DEF MemoryOK
  <1> QED
    BY <1>3, <1>5, <1>6, <1>7 DEF MemoryOK, InMemory

LEMMA RecIsNotNone ==
    ASSUME NEW r \in Rec
    PROVE  r # None
  <1>1. r.op \in Ops /\ None.op = "none"
    BY DEF Rec, None
  <1> QED
    BY <1>1 DEF Ops

\* The active table gives its newest version.
LEMMA ActiveGetIs ==
    ASSUME LogOK, MemoryOK, NEW k, NEW t
    PROVE  \/ ActiveGet(k, t) = None /\ \A r \in Range(active) : At(r) # <<k, t>>
           \/ /\ ActiveGet(k, t) \in Range(active) /\ At(ActiveGet(k, t)) = <<k, t>>
              /\ \A r \in Range(active) : At(r) = <<k, t>> => r.seq <= ActiveGet(k, t).seq
  <1>1. active \in Seq(Rec) /\ DOMAIN active = 1..Len(active)
        /\ Range(active) = {active[i] : i \in 1..Len(active)}
    BY RangeSeq DEF MemoryOK
  <1>2. PICK at : at = {i \in DOMAIN active : At(active[i]) = <<k, t>>}
    OBVIOUS
  <1>3. CASE at = {}
    <2>1. ActiveGet(k, t) = None
      BY <1>2, <1>3 DEF ActiveGet
    <2>2. \A r \in Range(active) : At(r) # <<k, t>>
      BY <1>1, <1>2, <1>3
    <2> QED
      BY <2>1, <2>2
  <1>4. CASE at # {}
    <2>1. at \in SUBSET Nat /\ Len(active) \in Nat /\ \A i \in at : i <= Len(active)
      BY <1>1, <1>2
    <2>2. PICK m \in at : \A i \in at : i <= m
      BY <1>4, <2>1, GreatestNatural
    <2>3. at \in SUBSET Int
      BY <2>1
    <2>4. Max(at) = m
      BY <2>2, <2>3, MaxIs
    <2>5. ActiveGet(k, t) = active[m]
      BY <1>2, <1>4, <2>4 DEF ActiveGet
    <2>6. m \in 1..Len(active) /\ At(active[m]) = <<k, t>>
      BY <1>1, <1>2, <2>2
    <2>7. ASSUME NEW r \in Range(active), At(r) = <<k, t>> PROVE r.seq <= active[m].seq
      <3>1. PICK i \in 1..Len(active) : r = active[i]
        BY <1>1
      <3>2. i \in at /\ i <= m
        BY <1>1, <1>2, <2>2, <2>7, <3>1
      <3>3. active[i] \in Rec /\ active[m] \in Rec
        BY <1>1, <2>6, <3>1
      <3>4. active[i].seq \in Int /\ active[m].seq \in Int
        BY <3>3, RecNumbers
      <3>5. i # m => i < m
        BY <2>6, <3>2
      <3>6. i < m => <<active[i], active[m]>> \in BySeq
        BY <2>6, <3>1 DEF MemoryOK, Ordered
      <3>7. i < m => active[i].seq < active[m].seq
        BY <3>6 DEF BySeq
      <3> QED
        BY <3>1, <3>4, <3>5, <3>7
    <2> QED
      BY <1>1, <2>5, <2>6, <2>7
  <1> QED
    BY <1>3, <1>4

\* A frozen table gives its newest version.
LEMMA FrozenGetIs ==
    ASSUME LogOK, NEW table, Range(table) \subseteq Range(log), NEW k, NEW t
    PROVE  \/ FrozenGet(table, k, t) = None /\ \A r \in Range(table) : At(r) # <<k, t>>
           \/ /\ FrozenGet(table, k, t) \in Range(table)
              /\ At(FrozenGet(table, k, t)) = <<k, t>>
              /\ \A r \in Range(table) :
                    At(r) = <<k, t>> => r.seq <= FrozenGet(table, k, t).seq
  <1>1. PICK found : found = {r \in Range(table) : At(r) = <<k, t>>}
    OBVIOUS
  <1>2. CASE found = {}
    BY <1>1, <1>2 DEF FrozenGet
  <1>3. CASE found # {}
    <2>1. \A r \in found : r \in Range(log) /\ r.seq \in 1..Len(log) /\ log[r.seq] = r
      BY <1>1, LogIs
    <2>2. PICK seqs : seqs = {r.seq : r \in found}
      OBVIOUS
    <2>3. seqs \in SUBSET Nat /\ seqs # {} /\ Len(log) \in Nat /\ \A n \in seqs : n <= Len(log)
      BY <1>3, <2>1, <2>2 DEF LogOK
    <2>4. PICK m \in seqs : \A n \in seqs : n <= m
      BY <2>3, GreatestNatural
    <2>5. PICK x \in found : x.seq = m
      BY <2>2
    <2>6. \A s \in found : s.seq <= x.seq
      BY <2>2, <2>4, <2>5
    <2>7. FrozenGet(table, k, t) = CHOOSE r \in found : \A s \in found : s.seq <= r.seq
      BY <1>1, <1>3 DEF FrozenGet
    <2>8. PICK y : y = FrozenGet(table, k, t)
      OBVIOUS
    <2>9. y \in found /\ \A s \in found : s.seq <= y.seq
      BY <2>5, <2>6, <2>7, <2>8
    <2> QED
      BY <1>1, <2>8, <2>9
  <1> QED
    BY <1>2, <1>3

\* What MemTables::get looks at: one record, or none, for each table.
HitsAre(hits, k, t) ==
    /\ DOMAIN hits = 1..(Len(frozen) + 1)
    /\ hits[1] = ActiveGet(k, t)
    /\ \A i \in 1..Len(frozen) : hits[i + 1] = FrozenGet(frozen[i], k, t)

LEMMA MemTablesGetHits ==
    ASSUME LogOK, MemoryOK, NEW k, NEW t
    PROVE  \E hits : /\ HitsAre(hits, k, t)
                     /\ \/ /\ MemTablesGet(k, t) = None
                           /\ \A i \in DOMAIN hits : ~LiveInMemory(hits[i])
                        \/ \E m \in DOMAIN hits : LiveInMemory(hits[m])
                                                /\ MemTablesGet(k, t) = hits[m]
  <1>1. frozen \in Seq(Seq(Rec)) /\ Len(frozen) \in Nat /\ DOMAIN frozen = 1..Len(frozen)
    BY DEF MemoryOK
  <1>2. PICK g : g = [i \in DOMAIN frozen |-> FrozenGet(frozen[i], k, t)]
    OBVIOUS
  <1>3. PICK V : V = {ActiveGet(k, t)} \cup {g[i] : i \in 1..Len(frozen)}
    OBVIOUS
  <1>4. g \in Seq(V) /\ Len(g) = Len(frozen)
    <2>1. PICK n \in Nat : n = Len(frozen)
      BY <1>1
    <2>2. g \in [1..n -> V]
      BY <1>1, <1>2, <1>3, <2>1
    <2>3. g \in Seq(V) /\ Len(g) = n
      BY ONLY <2>2, n \in Nat
    <2> QED
      BY <2>1, <2>3
  <1>5. PICK hits : hits = <<ActiveGet(k, t)>> \o g
    OBVIOUS
  <1>6. HitsAre(hits, k, t)
    <2>0. ActiveGet(k, t) \in V
      BY <1>3
    <2>1. <<ActiveGet(k, t)>> \in Seq(V) /\ Len(<<ActiveGet(k, t)>>) = 1
      BY <2>0
    <2>2. hits \in Seq(V) /\ Len(hits) = Len(frozen) + 1
      BY <1>1, <1>4, <1>5, <2>1
    <2>3. hits[1] = ActiveGet(k, t)
      BY <1>4, <1>5, <2>1
    <2>4. \A i \in 1..Len(frozen) : hits[i + 1] = g[i]
      <3> SUFFICES ASSUME NEW i \in 1..Len(frozen) PROVE hits[i + 1] = g[i]
        OBVIOUS
      <3>1. PICK a : a = <<ActiveGet(k, t)>>
        OBVIOUS
      <3>2. a \in Seq(V) /\ Len(a) = 1 /\ hits = a \o g
        BY <1>5, <2>1, <3>1
      <3>3. i \in 1..Len(g) /\ i + 1 = 1 + i
        BY <1>4
      <3>4. hits[Len(a) + i] = g[i]
        <4>1. g \in Seq(V)
          BY <1>4
        <4>0. a \in Seq(V) /\ hits = a \o g
          BY <3>2
        <4>2. /\ hits \in Seq(V) /\ Len(hits) = Len(a) + Len(g)
              /\ \A m \in 1..Len(a) : hits[m] = a[m]
              /\ \A m \in 1..Len(g) : hits[Len(a) + m] = g[m]
          BY ONLY <4>0, <4>1, ConcatAt
        <4> QED
          BY <3>3, <4>2
      <3> QED
        BY <3>2, <3>3, <3>4
    <2> QED
      BY <1>1, <1>2, <2>2, <2>3, <2>4 DEF HitsAre
  <1>7. PICK live : live = {i \in DOMAIN hits : LiveInMemory(hits[i])}
    OBVIOUS
  <1>8. MemTablesGet(k, t) = IF live = {} THEN None ELSE hits[Min(live)]
    BY <1>2, <1>5, <1>7 DEF MemTablesGet
  <1>9. CASE live = {}
    BY <1>6, <1>7, <1>8, <1>9
  <1>10. CASE live # {}
    <2>1. live \in SUBSET Nat
      BY <1>1, <1>6, <1>7 DEF HitsAre
    <2>2. PICK m \in live : \A y \in live : m <= y
      BY <1>10, <2>1, LeastNatural
    <2>3. live \in SUBSET Int
      BY <2>1
    <2>4. Min(live) = m
      BY <2>2, <2>3, MinIs
    <2>5. m \in DOMAIN hits /\ LiveInMemory(hits[m]) /\ MemTablesGet(k, t) = hits[m]
      BY <1>7, <1>8, <1>10, <2>2, <2>4
    <2> QED
      BY <1>6, <2>5
  <1> QED
    BY <1>9, <1>10

\* A hit is a record of memory with the key and the time stamp.
LEMMA HitIs ==
    ASSUME LogOK, MemoryOK, NEW k, NEW t, NEW hits, HitsAre(hits, k, t),
           NEW i \in DOMAIN hits, hits[i] # None
    PROVE  hits[i] \in Range(Memory) /\ At(hits[i]) = <<k, t>>
  <1>1. Len(frozen) \in Nat
    BY DEF MemoryOK
  <1>2. Range(Memory) = Range(active) \cup UNION {Range(frozen[j]) : j \in 1..Len(frozen)}
    BY MemoryIs
  <1>3. i \in 1..(Len(frozen) + 1)
    BY DEF HitsAre
  <1>4. CASE i = 1
    <2>1. hits[i] = ActiveGet(k, t)
      BY <1>4 DEF HitsAre
    <2> QED
      BY <1>2, <2>1, ActiveGetIs
  <1>5. CASE i # 1
    <2>1. PICK j : j = i - 1
      OBVIOUS
    <2>2. j \in 1..Len(frozen) /\ i = j + 1
      BY <1>1, <1>3, <1>5, <2>1
    <2>3. hits[i] = FrozenGet(frozen[j], k, t)
      BY <2>2 DEF HitsAre
    <2>4. Range(frozen[j]) \subseteq Range(log)
      BY <2>2 DEF MemoryOK
    <2>5. hits[i] \in Range(frozen[j]) /\ At(hits[i]) = <<k, t>>
      BY <2>3, <2>4, FrozenGetIs
    <2> QED
      BY <1>2, <2>2, <2>5
  <1> QED
    BY <1>4, <1>5

LEMMA MemTablesGetIs ==
    ASSUME LogOK, MemoryOK, NEW k, NEW t, NEW mem, mem = MemTablesGet(k, t), mem # None
    PROVE  mem \in Range(Memory) /\ At(mem) = <<k, t>> /\ mem.exp >= now
  <1>1. PICK hits : /\ HitsAre(hits, k, t)
                    /\ \/ /\ MemTablesGet(k, t) = None
                          /\ \A i \in DOMAIN hits : ~LiveInMemory(hits[i])
                       \/ \E m \in DOMAIN hits : LiveInMemory(hits[m])
                                               /\ MemTablesGet(k, t) = hits[m]
    BY MemTablesGetHits
  <1>2. PICK m \in DOMAIN hits : LiveInMemory(hits[m]) /\ mem = hits[m]
    BY <1>1
  <1>3. mem \in Range(Memory) /\ At(mem) = <<k, t>>
    BY <1>1, <1>2, HitIs
  <1> QED
    BY <1>2, <1>3 DEF LiveInMemory

\* The newest version in memory.
NewestInMemory(r) ==
    /\ r \in Range(Memory)
    /\ \A s \in Range(Memory) : At(s) = At(r) => s.seq <= r.seq

\* The newest version, if memory has it and it has not expired, is what
\* MemTables::get returns.
LEMMA MemTablesGetNewest ==
    ASSUME LogOK, MemoryOK, NEW r, NewestInMemory(r), r.exp >= now
    PROVE  MemTablesGet(r.key, r.ts) = r
  <1>0. PICK k, t : k = r.key /\ t = r.ts
    OBVIOUS
  <1>1. PICK hits : /\ HitsAre(hits, k, t)
                    /\ \/ /\ MemTablesGet(k, t) = None
                          /\ \A i \in DOMAIN hits : ~LiveInMemory(hits[i])
                       \/ \E m \in DOMAIN hits : LiveInMemory(hits[m])
                                               /\ MemTablesGet(k, t) = hits[m]
    BY MemTablesGetHits
  <1>2. /\ Range(Memory) = Range(active) \cup UNION {Range(frozen[j]) : j \in 1..Len(frozen)}
        /\ Range(Memory) \subseteq Range(log)
    BY MemoryIs
  <1>3. /\ r \in Rec /\ r \in Range(log) /\ At(r) = <<k, t>> /\ r # None
        /\ \A s \in Range(Memory) : At(s) = <<k, t>> => s.seq <= r.seq
    <2>1. r \in Range(log) /\ r \in Rec
      BY <1>2, LogIs DEF NewestInMemory
    <2> QED
      BY <1>0, <2>1, RecIsNotNone DEF NewestInMemory, At
  <1>4. Len(frozen) \in Nat /\ Len(frozen) <= 1 /\ (frozen = <<>> \/ active = <<>>)
        /\ frozen \in Seq(Seq(Rec)) /\ active \in Seq(Rec)
    BY DEF MemoryOK
  <1>5. \A x \in Range(Memory) : At(x) = <<k, t>> /\ r.seq <= x.seq => x = r
    <2> SUFFICES ASSUME NEW x \in Range(Memory), At(x) = <<k, t>>, r.seq <= x.seq
                 PROVE  x = r
      OBVIOUS
    <2>1. x \in Range(log) /\ x \in Rec
      BY <1>2, LogIs
    <2>2. x.seq \in Int /\ r.seq \in Int
      BY <1>3, <2>1, RecNumbers
    <2>3. x.seq <= r.seq
      BY <1>3
    <2> QED
      BY <1>3, <2>1, <2>2, <2>3, LogIs
  <1>6. CASE r \in Range(active)
    <2>1. Len(frozen) = 0
      <3>1. active # <<>>
        BY <1>4, <1>6 DEF Range
      <3> QED
        BY <1>4, <3>1
    <2>2. DOMAIN hits = {1} /\ hits[1] = ActiveGet(k, t)
      BY <1>1, <2>1 DEF HitsAre
    <2>3. ActiveGet(k, t) \in Range(active) /\ At(ActiveGet(k, t)) = <<k, t>>
          /\ r.seq <= ActiveGet(k, t).seq
      BY <1>3, <1>6, ActiveGetIs
    <2>4. hits[1] = r
      BY <1>2, <1>5, <2>2, <2>3
    <2>5. LiveInMemory(hits[1])
      BY <1>3, <2>4 DEF LiveInMemory
    <2> QED
      BY <1>0, <1>1, <2>2, <2>4, <2>5
  <1>7. CASE r \notin Range(active)
    <2>1. PICK j \in 1..Len(frozen) : r \in Range(frozen[j])
      BY <1>2, <1>7 DEF NewestInMemory
    <2>2. j = 1 /\ Len(frozen) = 1 /\ active = <<>>
      <3>0. PICK n \in Nat : n = Len(frozen)
        BY <1>4
      <3>1. j = 1 /\ Len(frozen) = 1
        <4>1. n <= 1 /\ j \in 1..n
          BY <1>4, <2>1, <3>0
        <4>2. j = 1 /\ n = 1
          BY ONLY <4>1, n \in Nat
        <4> QED
          BY <3>0, <4>2
      <3>2. Len(<<>>) = 0
        OBVIOUS
      <3>3. frozen # <<>>
        BY <3>1, <3>2
      <3> QED
        BY <1>4, <3>1, <3>3
    <2>3. DOMAIN hits = {1, 2} /\ hits[1] = ActiveGet(k, t)
          /\ hits[2] = FrozenGet(frozen[1], k, t)
      BY <1>1, <2>2 DEF HitsAre
    <2>4. hits[1] = None
      <3>1. Range(active) = {}
        BY <2>2 DEF Range
      <3> QED
        BY <2>3, <3>1, ActiveGetIs
    <2>5. Range(frozen[1]) \subseteq Range(log)
      BY <2>2 DEF MemoryOK
    <2>6. FrozenGet(frozen[1], k, t) \in Range(frozen[1])
          /\ At(FrozenGet(frozen[1], k, t)) = <<k, t>>
          /\ r.seq <= FrozenGet(frozen[1], k, t).seq
      BY <1>3, <2>1, <2>2, <2>5, FrozenGetIs
    <2>7. hits[2] = r
      <3>1. hits[2] \in Range(Memory)
        BY <1>2, <2>1, <2>2, <2>3, <2>6
      <3> QED
        BY <1>5, <2>3, <2>6, <3>1
    <2>8. LiveInMemory(hits[2]) /\ ~LiveInMemory(hits[1])
      BY <1>3, <2>4, <2>7 DEF LiveInMemory
    <2> QED
      BY <1>0, <1>1, <2>3, <2>7, <2>8
  <1> QED
    BY <1>6, <1>7

-----------------------------------------------------------------------------
(* SSTs and point look-ups *)

LEMMA HeldIs ==
    ASSUME LogOK, NEW x \in Held
    PROVE  /\ x \in Rec /\ Stored(x) = x /\ x.seq = 0
           /\ \E y \in Range(log) : /\ x = Stored(y) /\ At(x) = At(y) /\ x.op = y.op
                                    /\ x.key = y.key /\ x.ts = y.ts
                                    /\ x.val = y.val /\ x.exp = y.exp /\ x.end = y.end
  <1>1. PICK y \in Range(log) : x = Stored(y)
    BY DEF Held
  <1>2. y \in Rec
    BY LogIs
  <1> QED
    BY <1>1, <1>2, StoredIs

LEMMA RangeAt ==
    ASSUME NEW R, NEW s \in Seq(R), NEW x \in Range(s)
    PROVE  \E i \in 1..Len(s) : s[i] = x
  BY RangeSeq

LEMMA SstBlocks ==
    ASSUME LogOK, SstsOK, NEW id \in DOMAIN ssts
    PROVE  /\ ssts[id] \in Seq(Seq(Rec)) /\ DOMAIN ssts[id] = 1..Len(ssts[id])
           /\ \A b \in 1..Len(ssts[id]) :
                /\ ssts[id][b] \in Seq(Rec) /\ Len(ssts[id][b]) \in 1..BlockSize
                /\ b < Len(ssts[id]) => Len(ssts[id][b]) = BlockSize
                /\ Range(ssts[id][b]) \subseteq Held
  <1>1. PICK recs : WrittenTo(id, recs)
    BY DEF SstsOK
  <1>2. recs \in Seq(Rec) /\ ssts[id] = Blocks(recs)
    BY <1>1 DEF WrittenTo
  <1>3. PICK blocks : blocks = Blocks(recs)
    OBVIOUS
  <1>4. /\ blocks \in Seq(Seq(Rec))
        /\ \A b \in 1..Len(blocks) : BlockIs(blocks, recs, b)
    BY <1>2, <1>3, BlocksAre
  <1>5. ASSUME NEW b \in 1..Len(blocks)
        PROVE  /\ blocks[b] \in Seq(Rec) /\ Len(blocks[b]) \in 1..BlockSize
               /\ b < Len(blocks) => Len(blocks[b]) = BlockSize
               /\ Range(blocks[b]) \subseteq Held
    <2>1. blocks[b] \in Seq(Rec) /\ BlockIs(blocks, recs, b)
      BY <1>4
    <2>2. ASSUME NEW x \in Range(blocks[b]) PROVE x \in Held
      <3>1. PICK i \in 1..Len(blocks[b]) : blocks[b][i] = x
        BY <2>1, RangeAt
      <3>2. PICK j \in 1..Len(recs) : x = Stored(recs[j])
        BY <2>1, <3>1 DEF BlockIs
      <3>3. recs[j] \in Range(recs)
        BY <1>2, RangeSeq
      <3> QED
        BY <1>1, <3>2, <3>3 DEF WrittenTo
    <2> QED
      BY <2>1, <2>2 DEF BlockIs
  <1>6. DOMAIN blocks = 1..Len(blocks)
    BY <1>4
  <1> QED
    BY <1>2, <1>3, <1>4, <1>5, <1>6

LEMMA PointBlockIs ==
    ASSUME LogOK, SstsOK, NEW id \in DOMAIN ssts, NEW k
    PROVE  Range(PointBlock(id, k)) \subseteq Held
  <1>1. PICK b : b = BinarySearchBlock(ssts[id], k)
    OBVIOUS
  <1>2. ssts[id] \in Seq(Seq(Rec))
    BY SstBlocks
  <1>3. Len(ssts[id]) \in Nat
    BY <1>2
  <1>4. b \in 0..Len(ssts[id])
    BY <1>1, <1>3, SearchFinds
  <1>5. CASE PointBlock(id, k) = <<>>
    BY <1>5 DEF Range
  <1>6. CASE PointBlock(id, k) # <<>>
    <2>1. b # 0 /\ PointBlock(id, k) = ssts[id][b]
      BY <1>1, <1>6 DEF PointBlock
    <2>2. b \in 1..Len(ssts[id])
      BY <1>3, <1>4, <2>1
    <2> QED
      BY <2>1, <2>2, SstBlocks
  <1> QED
    BY <1>5, <1>6

LEMMA FirstHitIs ==
    ASSUME NEW f, NEW x \in FirstHit(f), x # None
    PROVE  \E id \in DOMAIN f : x \in f[id]
  <1>1. PICK S : S = {i \in DOMAIN f : \A j \in DOMAIN f : j < i => None \in f[j]}
    OBVIOUS
  <1>2. FirstHit(f) = (UNION {f[id] \ {None} : id \in S})
                      \cup (IF \A id \in DOMAIN f : None \in f[id] THEN {None} ELSE {})
    BY <1>1 DEF FirstHit
  <1>3. x \in UNION {f[id] \ {None} : id \in S}
    BY <1>2
  <1> QED
    BY <1>1, <1>3

\* Engine::get_sync returns a record of memory or of an SST, at the key and the time
\* stamp it was asked for.
LEMMA GetSyncIs ==
    ASSUME LogOK, MemoryOK, SstsOK, NEW k, NEW t, NEW found \in GetSync(k, t), found # None
    PROVE  /\ found \in Rec /\ At(found) = <<k, t>>
           /\ found \in Range(Memory) \/ found \in Held
  <1>1. PICK mem : mem = MemTablesGet(k, t)
    OBVIOUS
  <1>2. CASE mem # None
    <2>1. mem \in Range(Memory) /\ At(mem) = <<k, t>>
      BY <1>1, <1>2, MemTablesGetIs
    <2>2. found = mem
      BY <1>1, <1>2 DEF GetSync
    <2>3. mem \in Rec
      BY <2>1, MemoryIs, LogIs
    <2> QED
      BY <2>1, <2>2, <2>3
  <1>3. CASE mem = None
    <2>1. PICK f : f = [id \in DOMAIN ssts |-> FindInRecords(PointBlock(id, k), k, t)]
      OBVIOUS
    <2>2. found \in FirstHit(f)
      BY <1>1, <1>3, <2>1 DEF GetSync
    <2>3. PICK id \in DOMAIN f : found \in f[id]
      BY <2>2, FirstHitIs
    <2>4. id \in DOMAIN ssts /\ found \in FindInRecords(PointBlock(id, k), k, t)
      BY <2>1, <2>3
    <2>5. PICK r \in Range(PointBlock(id, k)) : At(r) = <<k, t>> /\ found = Visible(r)
      BY <2>4 DEF FindInRecords
    <2>6. found = r /\ r \in Held
      BY <2>4, <2>5, PointBlockIs DEF Visible
    <2> QED
      BY <2>5, <2>6, HeldIs
  <1> QED
    BY <1>2, <1>3

\* The newest version that has not expired, if memory has it, is what get_sync
\* returns; nothing if it is a delete.
LEMMA GetSyncNewest ==
    ASSUME LogOK, MemoryOK, NEW r, NewestInMemory(r), r.exp >= now
    PROVE  GetSync(r.key, r.ts) = {IF r.op = "del" THEN None ELSE r}
  <1>1. MemTablesGet(r.key, r.ts) = r
    BY MemTablesGetNewest
  <1>2. r # None
    BY MemoryIs, LogIs, RecIsNotNone DEF NewestInMemory
  <1> QED
    BY <1>1, <1>2 DEF GetSync

-----------------------------------------------------------------------------
(* Writes *)

\* The next record that a client or a patch may write.
IsNext(rec) ==
    /\ rec \in Rec /\ rec.seq = Len(log) + 1
    /\ rec.op = "range" => rec.exp = Never /\ rec.ts = 0

LEMMA InsertLog ==
    ASSUME LogOK, NEW rec, IsNext(rec), Insert(rec)
    PROVE  /\ LogOK' /\ log' \in Seq(Rec) /\ Len(log') = Len(log) + 1
           /\ log'[Len(log) + 1] = rec /\ \A i \in 1..Len(log) : log'[i] = log[i]
           /\ Range(log') = Range(log) \cup {rec} /\ Held \subseteq Held'
  <1>1. log \in Seq(Rec) /\ rec \in Rec /\ log' = Append(log, rec) /\ Len(log) \in Nat
    BY DEF LogOK, IsNext, Insert
  <1>2. /\ log' \in Seq(Rec) /\ Len(log') = Len(log) + 1
        /\ log'[Len(log) + 1] = rec /\ \A i \in 1..Len(log) : log'[i] = log[i]
    BY <1>1
  <1>3. Range(log') = Range(log) \cup {rec}
    BY <1>1, RangeAppend
  <1>4. Len(log') <= MaxWrites
    BY <1>1, <1>2, Numbers DEF Insert
  <1>5. ASSUME NEW i \in 1..Len(log')
        PROVE  /\ log'[i].seq = i
               /\ log'[i].op = "range" => log'[i].exp = Never /\ log'[i].ts = 0
    <2>1. CASE i = Len(log) + 1
      BY <1>2, <2>1 DEF IsNext
    <2>2. CASE i # Len(log) + 1
      <3>1. i \in 1..Len(log)
        BY <1>1, <1>2, <2>2
      <3> QED
        BY <1>2, <3>1 DEF LogOK
    <2> QED
      BY <2>1, <2>2
  <1>6. LogOK'
    BY <1>2, <1>4, <1>5 DEF LogOK
  <1>7. Held \subseteq Held'
    BY <1>3 DEF Held
  <1> QED
    BY <1>2, <1>3, <1>6, <1>7

LEMMA InsertMemory ==
    ASSUME LogOK, MemoryOK, NEW rec, IsNext(rec), Insert(rec), UNCHANGED frozen
    PROVE  MemoryOK'
  <1>1. /\ active \in Seq(Rec) /\ rec \in Rec /\ active' = Append(active, rec)
        /\ frozen = <<>> /\ frozen' = frozen
    BY DEF MemoryOK, IsNext, Insert
  <1>2. Range(log') = Range(log) \cup {rec}
    BY InsertLog
  <1>3. active' \in Seq(Rec) /\ Range(active') = Range(active) \cup {rec}
    BY <1>1, RangeAppend
  <1>4. \A y \in Range(active) : <<y, rec>> \in BySeq
    <2> SUFFICES ASSUME NEW y \in Range(active) PROVE <<y, rec>> \in BySeq
      OBVIOUS
    <2>1. y \in Range(log)
      BY DEF MemoryOK
    <2>2. y \in Rec /\ y.seq \in 1..Len(log)
      BY <2>1, LogIs
    <2>3. Len(log) \in Nat
      BY DEF LogOK
    <2>4. y.seq < rec.seq
      BY <2>2, <2>3 DEF IsNext
    <2> QED
      BY <1>1, <2>2, <2>4 DEF BySeq
  <1>5. Ordered(active', BySeq)
    <2>1. Ordered(active, BySeq)
      BY DEF MemoryOK
    <2> QED
      BY <1>1, <1>4, <2>1, OrderedAppend
  <1>6. Range(active') \subseteq Range(log')
    BY <1>2, <1>3 DEF MemoryOK
  <1> QED
    BY <1>1, <1>3, <1>5, <1>6 DEF MemoryOK

\* An SST keeps what was written to it as the log grows.
LEMMA GrowingLog ==
    ASSUME SstsOK, Held \subseteq Held', UNCHANGED <<ssts, merged>>
    PROVE  SstsOK'
  <1>1. ASSUME NEW id \in DOMAIN ssts' PROVE \E recs : WrittenTo(id, recs)'
    <2>1. PICK recs : WrittenTo(id, recs)
      BY DEF SstsOK
    <2>2. WrittenTo(id, recs)'
      BY <2>1 DEF WrittenTo
    <2> QED
      BY <2>2
  <1> QED
    BY <1>1 DEF SstsOK

LEMMA NewestUpToKept ==
    ASSUME LogOK, NEW rec, IsNext(rec), Insert(rec),
           NEW at \in 0..Len(log), NEW r, NEW x, NewestUpTo(at, r, x)
    PROVE  NewestUpTo(at, r, x)'
  <1>1. Range(log') = Range(log) \cup {rec}
    BY InsertLog
  <1>2. rec.seq = Len(log) + 1 /\ Len(log) \in Nat
    BY DEF IsNext, LogOK
  <1>3. ~(rec.seq <= at)
    BY <1>2
  <1> QED
    BY <1>1, <1>3 DEF NewestUpTo

\* PatchesCompose for one patch, a log and a history of patches.
ComposesIn(e, l, ps) ==
    LET r == l[e.seq]
        older == {s \in {x \in Range(l) : At(x) = <<r.key, r.ts>>} : s.seq < e.seq}
    IN e.sure /\ ~(\E i \in (e.at + 1)..(e.seq - 1) :
                        /\ i \in DOMAIN l /\ At(l[i]) = <<r.key, r.ts>>
                        /\ \A p \in ps : p.seq # i)
        => /\ e.value \/ r.val = Newest(older).val
           /\ e.ttl \/ DefaultTtl # 0 \/ r.exp = Newest(older).exp

LEMMA ComposeIs ==
    /\ PatchesCompose <=> \A e \in patched : ComposesIn(e, log, patched)
    /\ PatchesCompose' <=> \A e \in patched' : ComposesIn(e, log', patched')
  BY DEF PatchesCompose, ComposesIn, VersionsOf, PlainWriteBetween, Newest

\* A later record changes nothing for a patch that has been written.
LEMMA ComposesKept ==
    ASSUME LogOK, NEW rec, IsNext(rec), Insert(rec), NEW e, e.seq \in 1..Len(log),
           e.at \in 0..(e.seq - 1), NEW ps, ps = patched \/ \E n : ps = patched \cup {n}
                                                         /\ n.seq = Len(log) + 1,
           ComposesIn(e, log, patched)
    PROVE  ComposesIn(e, log', ps)
  <1>1. /\ Len(log') = Len(log) + 1 /\ log \in Seq(Rec) /\ log' \in Seq(Rec)
        /\ \A i \in 1..Len(log) : log'[i] = log[i]
        /\ Range(log') = Range(log) \cup {rec} /\ Len(log) \in Nat
    BY InsertLog DEF LogOK
  <1>2. PICK r : r = log[e.seq]
    OBVIOUS
  <1>3. r = log'[e.seq]
    BY <1>1, <1>2
  <1>4. rec.seq = Len(log) + 1
    BY DEF IsNext
  <1>5. ~(rec.seq < e.seq)
    BY <1>1, <1>4
  <1>6. PICK older, after :
            /\ older = {s \in {x \in Range(log) : At(x) = <<r.key, r.ts>>} : s.seq < e.seq}
            /\ after = {s \in {x \in Range(log') : At(x) = <<r.key, r.ts>>} :
                            s.seq < e.seq}
    OBVIOUS
  <1>7. older = after
    BY <1>1, <1>5, <1>6
  <1>8. ASSUME NEW i \in (e.at + 1)..(e.seq - 1), i \in DOMAIN log,
               At(log[i]) = <<r.key, r.ts>>, \A p \in patched : p.seq # i
        PROVE  i \in DOMAIN log' /\ At(log'[i]) = <<r.key, r.ts>> /\ \A p \in ps : p.seq # i
    <2>1. i \in 1..Len(log) /\ i \in 1..Len(log') /\ i # Len(log) + 1
      BY <1>1, <1>8
    <2> QED
      BY <1>1, <1>8, <2>1
  <1>9. PICK before, later :
            /\ before = {i \in (e.at + 1)..(e.seq - 1) :
                            /\ i \in DOMAIN log /\ At(log[i]) = <<r.key, r.ts>>
                            /\ \A p \in patched : p.seq # i}
            /\ later = {i \in (e.at + 1)..(e.seq - 1) :
                            /\ i \in DOMAIN log' /\ At(log'[i]) = <<r.key, r.ts>>
                            /\ \A p \in ps : p.seq # i}
    OBVIOUS
  <1>10. before \subseteq later
    BY <1>8, <1>9
  <1>11. e.sure /\ before = {} =>
            /\ e.value \/ r.val = Newest(older).val
            /\ e.ttl \/ DefaultTtl # 0 \/ r.exp = Newest(older).exp
    BY <1>2, <1>6, <1>9 DEF ComposesIn
  <1>12. ASSUME e.sure, later = {}
         PROVE  /\ e.value \/ r.val = Newest(after).val
                /\ e.ttl \/ DefaultTtl # 0 \/ r.exp = Newest(after).exp
    <2>1. before = {}
      BY <1>10, <1>12
    <2> QED
      BY <1>7, <1>11, <1>12, <2>1
  <1>13. later = {} <=> ~(\E i \in (e.at + 1)..(e.seq - 1) :
                            /\ i \in DOMAIN log' /\ At(log'[i]) = <<r.key, r.ts>>
                            /\ \A p \in ps : p.seq # i)
    BY <1>9
  <1> QED
    BY <1>3, <1>6, <1>12, <1>13, Zenon DEF ComposesIn

\* A write that is not a patch.
LEMMA PlainKeeps ==
    ASSUME LookupInv, NEW rec, IsNext(rec), Insert(rec),
           UNCHANGED <<frozen, ssts, merged, now, patch, patched>>
    PROVE  LookupInv'
  <1>0. LogOK /\ MemoryOK /\ SstsOK /\ PatchOK /\ PatchesCompose
    BY DEF LookupInv
  <1>1. LogOK' /\ Len(log') = Len(log) + 1 /\ Len(log) \in Nat /\ Held \subseteq Held'
    BY <1>0, InsertLog DEF LogOK
  <1>2. MemoryOK' /\ SstsOK'
    BY <1>0, <1>1, InsertMemory, GrowingLog
  <1>3. ASSUME NEW p \in Patchers PROVE (patch[p] = IdlePatch \/ Patching(patch[p]))'
    <2>1. PICK q : q = patch[p]
      OBVIOUS
    <2>2. CASE q = IdlePatch
      BY <2>1, <2>2
    <2>3. CASE q # IdlePatch
      <3>1. Patching(q)
        BY <1>0, <2>1, <2>3 DEF PatchOK
      <3>2. q.at \in 0..Len(log) /\ q.at \in 0..Len(log')
        BY <1>1, <3>1 DEF Patching
      <3>3. q.sure => \E x : /\ NewestUpTo(q.at, q.rec, x)'
                             /\ q.rec.val = x.val /\ (q.ttl \/ q.rec.exp = x.exp)
        <4> SUFFICES ASSUME q.sure
                     PROVE  \E x : /\ NewestUpTo(q.at, q.rec, x)'
                                   /\ q.rec.val = x.val /\ (q.ttl \/ q.rec.exp = x.exp)
          OBVIOUS
        <4>1. PICK x : /\ NewestUpTo(q.at, q.rec, x)
                       /\ q.rec.val = x.val /\ (q.ttl \/ q.rec.exp = x.exp)
          BY <3>1 DEF Patching
        <4>2. NewestUpTo(q.at, q.rec, x)'
          BY <1>0, <3>2, <4>1, NewestUpToKept
        <4> QED
          BY <4>1, <4>2
      <3>4. /\ q.pc = "write" /\ q.rec \in Rec /\ q.rec.op # "range"
            /\ \A e \in patched : e.seq <= q.at
        BY <3>1 DEF Patching
      <3>5. Patching(q)'
        BY <3>2, <3>3, <3>4 DEF Patching
      <3>6. patch'[p] = q
        BY <2>1
      <3> QED
        BY <3>5, <3>6 DEF Patching
    <2> QED
      BY <2>2, <2>3
  <1>4. PatchOK'
    <2>1. \A e \in patched : e.seq \in 1..Len(log) /\ e.at \in 0..(e.seq - 1)
      BY <1>0 DEF PatchOK
    <2>2. \A e \in patched : e.seq \in 1..Len(log')
      BY <1>1, <2>1
    <2>3. now \in 1..MaxNow /\ DOMAIN patch = Patchers
          /\ \A p, q \in Patchers : patch[p].pc = "write" /\ patch[q].pc = "write" => p = q
      BY <1>0 DEF PatchOK
    <2>4. now' = now /\ patch' = patch /\ patched' = patched
      OBVIOUS
    <2>5. (\A p \in Patchers : patch[p] = IdlePatch \/ Patching(patch[p]))'
      BY <1>3
    <2>6. (\A e \in patched : e.seq \in 1..Len(log) /\ e.at \in 0..(e.seq - 1))'
      BY <2>1, <2>2, <2>4
    <2>7. (now \in 1..MaxNow /\ DOMAIN patch = Patchers
          /\ \A p, q \in Patchers : patch[p].pc = "write" /\ patch[q].pc = "write" => p = q)'
      BY <2>3, <2>4
    <2> QED
      BY <2>5, <2>6, <2>7 DEF PatchOK
  <1>5. PatchesCompose'
    <2>1. \A e \in patched : ComposesIn(e, log, patched)
      BY <1>0, ComposeIs
    <2>2. ASSUME NEW e \in patched PROVE ComposesIn(e, log', patched')
      <3>1. e.seq \in 1..Len(log) /\ e.at \in 0..(e.seq - 1)
        BY <1>0 DEF PatchOK
      <3>2. ComposesIn(e, log, patched)
        BY <2>1
      <3>3. ComposesIn(e, log', patched)
        BY <1>0, <3>1, <3>2, ComposesKept
      <3> QED
        BY <3>3
    <2>3. patched' = patched
      OBVIOUS
    <2> QED
      BY <2>2, <2>3, ComposeIs
  <1> QED
    BY <1>1, <1>2, <1>4, <1>5 DEF LookupInv

LEMMA RecordIs ==
    ASSUME NEW seq \in Nat, NEW op \in Ops, NEW k \in Keys, NEW t \in 0..MaxTs,
           NEW val \in 1..MaxWrites, NEW exp \in Nat, NEW end \in Nat, NEW rec,
           rec = Record(seq, op, k, t, val, exp, end)
    PROVE  /\ rec \in Rec /\ rec.seq = seq /\ rec.op = op /\ rec.key = k /\ rec.ts = t
           /\ rec.val = val /\ rec.exp = exp /\ rec.end = end
  BY DEF Record, Rec

LEMMA ExpireAtIs ==
    ASSUME NEW t \in Nat, NEW exp \in Nat
    PROVE  ExpireAt(t, exp) \in Nat /\ (DefaultTtl = 0 => ExpireAt(t, exp) = exp)
  BY Numbers DEF ExpireAt

LEMMA WriteKeeps ==
    ASSUME LookupInv, Write
    PROVE  LookupInv'
  <1>0. LogOK /\ Len(log) \in Nat
    BY DEF LookupInv, LogOK
  <1>1. PICK n : n = Len(log) + 1
    OBVIOUS
  <1>2. n \in Nat /\ NextSeq = n
    BY <1>0, <1>1 DEF NextSeq
  <1>3. Len(log) < MaxWrites => n \in 1..MaxWrites
    BY <1>0, <1>1, Numbers
  <1>4. \A c \in Cells : c[1] \in Keys /\ c[2] \in 0..MaxTs
    BY LookupAssumption, Numbers DEF Keys
  <1>5. ASSUME NEW c \in Cells, Delete(c[1], c[2]) PROVE LookupInv'
    <2>0. PICK k \in Keys, t \in 0..MaxTs : k = c[1] /\ t = c[2]
      BY <1>4
    <2>1. PICK rec : rec = Record(n, "del", k, t, n, Never, 0)
      OBVIOUS
    <2>2. Insert(rec) /\ UNCHANGED <<frozen, ssts, merged, now, patch, patched>>
      BY <1>2, <1>5, <2>0, <2>1 DEF Delete
    <2>3. n \in 1..MaxWrites
      BY <1>3, <2>2 DEF Insert
    <2>4. rec \in Rec /\ rec.seq = n /\ rec.op = "del"
      BY <1>2, <2>1, <2>3, Numbers, RecordIs, SMTT(30) DEF Ops
    <2>5. IsNext(rec)
      BY <1>1, <2>4 DEF IsNext
    <2> QED
      BY <2>2, <2>5, PlainKeeps
  <1>6. ASSUME NEW c \in Cells, NEW exp \in Expiries,
               Put(c[1], c[2], exp) \/ PutTtl(c[1], c[2], exp)
        PROVE  LookupInv'
    <2>0. PICK k \in Keys, t \in 0..MaxTs : k = c[1] /\ t = c[2]
      BY <1>4
    <2>10. PICK e : e \in {exp, ExpireAt(t, exp)} /\ Insert(Record(n, "put", k, t, n, e, 0))
      BY <1>2, <1>6, <2>0 DEF Put, PutTtl
    <2>1. PICK rec : rec = Record(n, "put", k, t, n, e, 0)
      OBVIOUS
    <2>2. Insert(rec) /\ UNCHANGED <<frozen, ssts, merged, now, patch, patched>>
      BY <1>6, <2>10, <2>1 DEF Put, PutTtl
    <2>11. exp \in Nat /\ t \in Nat
      BY LookupAssumption, Numbers
    <2>3. n \in 1..MaxWrites /\ e \in Nat
      BY <1>3, <2>2, <2>10, <2>11, ExpireAtIs DEF Insert
    <2>4. rec \in Rec /\ rec.seq = n /\ rec.op = "put"
      BY <1>2, <2>1, <2>3, Numbers, RecordIs, SMTT(30) DEF Ops
    <2>5. IsNext(rec)
      BY <1>1, <2>4 DEF IsNext
    <2> QED
      BY <2>2, <2>5, PlainKeeps
  <1>7. ASSUME NEW g \in Ranges, DeleteRange(g[1], g[2]) PROVE LookupInv'
    <2>0. PICK k \in Keys, end \in Nat : k = g[1] /\ end = g[2]
      BY LookupAssumption, Numbers DEF Keys
    <2>1. PICK rec : rec = Record(n, "range", k, 0, n, Never, end)
      OBVIOUS
    <2>2. Insert(rec) /\ UNCHANGED <<frozen, ssts, merged, now, patch, patched>>
      BY <1>2, <1>7, <2>0, <2>1 DEF DeleteRange
    <2>3. n \in 1..MaxWrites /\ 0 \in 0..MaxTs
      BY <1>3, <2>2, Numbers DEF Insert
    <2>4. rec \in Rec /\ rec.seq = n /\ rec.op = "range" /\ rec.exp = Never /\ rec.ts = 0
      BY <1>2, <2>1, <2>3, Numbers, RecordIs DEF Ops
    <2>5. IsNext(rec)
      BY <1>1, <2>4 DEF IsNext
    <2> QED
      BY <2>2, <2>5, PlainKeeps
  <1> QED
    BY <1>5, <1>6, <1>7 DEF Write

-----------------------------------------------------------------------------
(* Patches *)

LEMMA NewestIs ==
    ASSUME LogOK, NEW S \in SUBSET Range(log), NEW x \in S, \A s \in S : s.seq <= x.seq
    PROVE  Newest(S) = x
  <1>1. \A r \in S : r.seq \in Int
    BY LogIs
  <1>2. \A r \in S : (\A s \in S : s.seq <= r.seq) => r = x
    <2> SUFFICES ASSUME NEW r \in S, \A s \in S : s.seq <= r.seq PROVE r = x
      OBVIOUS
    <2>1. r.seq = x.seq
      BY <1>1
    <2> QED
      BY <2>1, LogIs
  <1> QED
    BY <1>2 DEF Newest

LEMMA NewestExists ==
    ASSUME LogOK, NEW S \in SUBSET Range(log), S # {}
    PROVE  Newest(S) \in S /\ \A s \in S : s.seq <= Newest(S).seq
  <1>1. PICK seqs : seqs = {r.seq : r \in S}
    OBVIOUS
  <1>2. /\ seqs \in SUBSET Nat /\ seqs # {} /\ Len(log) \in Nat
        /\ \A n \in seqs : n <= Len(log)
    BY <1>1, LogIs DEF LogOK
  <1>3. PICK m \in seqs : \A n \in seqs : n <= m
    BY <1>2, GreatestNatural
  <1>4. PICK x \in S : x.seq = m
    BY <1>1
  <1>5. \A s \in S : s.seq <= x.seq
    BY <1>1, <1>3, <1>4
  <1>6. Newest(S) = x
    BY <1>5, NewestIs
  <1> QED
    BY <1>5, <1>6

LEMMA RangeFinite ==
    ASSUME NEW R, NEW s \in Seq(R)
    PROVE  IsFiniteSet(Range(s))
  <1>1. s \in Surjection(1..Len(s), Range(s))
    BY RangeSeq DEF Surjection
  <1>2. IsFiniteSet(1..Len(s))
    BY FS_Interval
  <1> QED
    BY <1>1, <1>2, FS_Surjection

\* The read of a patch that is sure finds the newest version.
LEMMA SureRead ==
    ASSUME LogOK, MemoryOK, SstsOK, NEW k, NEW t,
           NEW found \in GetSync(k, t), found # None,
           NEW newest, newest = Newest(VersionsOf(k, t)),
           \/ InMemory(newest) /\ newest.exp >= now
           \/ Cardinality(VersionsOf(k, t)) = 1
    PROVE  /\ newest \in VersionsOf(k, t)
           /\ \A s \in VersionsOf(k, t) : s.seq <= newest.seq
           /\ found.val = newest.val /\ found.exp = newest.exp
  <1>1. /\ found \in Rec /\ At(found) = <<k, t>>
        /\ found \in Range(Memory) \/ found \in Held
    BY GetSyncIs
  <1>2. PICK all : all = VersionsOf(k, t)
    OBVIOUS
  <1>3. all \in SUBSET Range(log) /\ all = {r \in Range(log) : At(r) = <<k, t>>}
    BY <1>2 DEF VersionsOf
  <1>4. PICK y \in all : found.val = y.val /\ found.exp = y.exp
    <2>1. CASE found \in Range(Memory)
      BY <1>1, <1>3, <2>1, MemoryIs
    <2>2. CASE found \in Held
      <3>1. PICK z \in Range(log) : At(found) = At(z) /\ found.val = z.val
                                    /\ found.exp = z.exp
        BY <2>2, HeldIs
      <3> QED
        BY <1>1, <1>3, <3>1
    <2> QED
      BY <1>1, <2>1, <2>2
  <1>5. newest \in all /\ \A s \in all : s.seq <= newest.seq
    BY <1>2, <1>3, <1>4, NewestExists
  <1>6. CASE InMemory(newest) /\ newest.exp >= now
    <2>1. newest \in Rec /\ At(newest) = <<k, t>>
      BY <1>3, <1>5, LogIs
    <2>2. newest.key = k /\ newest.ts = t
      BY <2>1 DEF At
    <2>3. NewestInMemory(newest)
      <3>1. Range(Memory) \subseteq Range(log)
        BY MemoryIs
      <3> QED
        BY <1>3, <1>5, <1>6, <2>1, <3>1 DEF NewestInMemory, InMemory
    <2>4. GetSync(k, t) = {IF newest.op = "del" THEN None ELSE newest}
      BY <1>6, <2>2, <2>3, GetSyncNewest
    <2>5. found = newest
      BY <2>4
    <2> QED
      BY <1>2, <1>5, <2>5
  <1>7. CASE Cardinality(all) = 1
    <2>1. IsFiniteSet(all)
      <3>1. log \in Seq(Rec)
        BY DEF LogOK
      <3>2. IsFiniteSet(Range(log))
        BY <3>1, RangeFinite
      <3> QED
        BY <1>3, <3>2, FS_Subset
    <2>2. PICK z : all = {z}
      BY <1>7, <2>1, FS_Singleton
    <2>3. newest = y
      BY <1>4, <1>5, <2>2
    <2> QED
      BY <1>2, <1>4, <1>5, <2>3
  <1> QED
    BY <1>2, <1>6, <1>7

\* Patch p has read: the entry q.
PatchReadTo(p, k, t, found, q) ==
    /\ patch' = [patch EXCEPT ![p] = q]
    /\ q.pc = "write" /\ q.at = Len(log)
    /\ q.sure => \/ InMemory(Newest(VersionsOf(k, t))) /\ Newest(VersionsOf(k, t)).exp >= now
                 \/ Cardinality(VersionsOf(k, t)) = 1
    /\ q.rec = [found EXCEPT !.exp = IF q.ttl THEN t + 1 ELSE @]

LEMMA PatchReadIs ==
    ASSUME NEW p, NEW k, NEW t, NEW value, NEW ttl, PatchRead(p, k, t, value, ttl)
    PROVE  \E found \in GetSync(k, t) \ {None} : \E q : PatchReadTo(p, k, t, found, q)
  <1>1. PICK found \in GetSync(k, t) \ {None} :
            patch' = [patch EXCEPT ![p] =
                [pc |-> "write", at |-> Len(log), value |-> value, ttl |-> ttl,
                 sure |-> LET all == VersionsOf(k, t)
                              newest == Newest(all)
                          IN \/ InMemory(newest) /\ newest.exp >= now
                             \/ Cardinality(all) = 1,
                 rec |-> [found EXCEPT !.exp = IF ttl THEN t + 1 ELSE @]]]
    BY DEF PatchRead
  <1>2. PICK all, newest : all = VersionsOf(k, t) /\ newest = Newest(all)
    OBVIOUS
  <1>3. PICK sure : sure = (\/ InMemory(newest) /\ newest.exp >= now
                            \/ Cardinality(all) = 1)
    OBVIOUS
  <1>4. PICK rec : rec = [found EXCEPT !.exp = IF ttl THEN t + 1 ELSE @]
    OBVIOUS
  <1>5. PICK q : q = [pc |-> "write", at |-> Len(log), value |-> value, ttl |-> ttl,
                      sure |-> sure, rec |-> rec]
    OBVIOUS
  <1>6. patch' = [patch EXCEPT ![p] = q]
    BY <1>1, <1>2, <1>3, <1>4, <1>5
  <1>7. q.pc = "write" /\ q.at = Len(log) /\ q.sure = sure /\ q.rec = rec /\ q.ttl = ttl
    BY <1>5
  <1>8. PatchReadTo(p, k, t, found, q)
    BY <1>2, <1>3, <1>4, <1>6, <1>7 DEF PatchReadTo
  <1> QED
    BY <1>8

LEMMA PatchReadKeeps ==
    ASSUME LookupInv, NEW p \in Patchers, NEW c \in PatchCells, NEW value, NEW ttl,
           PatchRead(p, c[1], c[2], value, ttl)
    PROVE  LookupInv'
  <1>0. LogOK /\ MemoryOK /\ SstsOK /\ PatchOK /\ PatchesCompose
    BY DEF LookupInv
  <1>1. PICK k \in Keys, t \in 1..MaxTs : k = c[1] /\ t = c[2]
    BY LookupAssumption DEF Keys
  <1>2. PICK found \in GetSync(k, t) \ {None} : \E q : PatchReadTo(p, k, t, found, q)
    BY <1>1, PatchReadIs
  <1>3. PICK q : PatchReadTo(p, k, t, found, q)
    BY <1>2
  <1>4. UNCHANGED <<active, frozen, ssts, merged, now, log, patched>> /\ PatchLockFree
    BY DEF PatchRead
  <1>5. /\ found \in Rec /\ At(found) = <<k, t>>
        /\ found \in Range(Memory) \/ found \in Held
    BY <1>0, <1>2, GetSyncIs
  <1>6. PICK e : e = IF q.ttl THEN t + 1 ELSE found.exp
    OBVIOUS
  <1>7. e \in Nat
    BY <1>1, <1>5, <1>6 DEF Rec
  <1>8. q.rec = [found EXCEPT !.exp = e]
    BY <1>3, <1>6 DEF PatchReadTo
  <1>9. /\ q.rec \in Rec /\ At(q.rec) = <<k, t>> /\ q.rec.op = found.op
        /\ q.rec.val = found.val /\ q.rec.exp = e
    <2>1. found = [seq |-> found.seq, op |-> found.op, key |-> found.key, ts |-> found.ts,
                   val |-> found.val, exp |-> found.exp, end |-> found.end]
      BY <1>5 DEF Rec
    <2>2. q.rec = [seq |-> found.seq, op |-> found.op, key |-> found.key, ts |-> found.ts,
                   val |-> found.val, exp |-> e, end |-> found.end]
      BY <1>8, <2>1
    <2>3. q.rec \in Rec
      BY <1>5, <1>7, <2>2 DEF Rec
    <2>4. q.rec.key = found.key /\ q.rec.ts = found.ts
      BY <2>2
    <2> QED
      BY <1>5, <2>2, <2>3, <2>4 DEF At
  <1>10. found.op # "range"
    <2>1. \E y \in Range(log) : At(y) = <<k, t>> /\ y.op = found.op
      <3>1. CASE found \in Range(Memory)
        BY <1>0, <1>5, <3>1, MemoryIs
      <3>2. CASE found \in Held
        BY <1>0, <1>5, <3>2, HeldIs
      <3> QED
        BY <1>5, <3>1, <3>2
    <2>2. PICK y \in Range(log) : At(y) = <<k, t>> /\ y.op = found.op
      BY <2>1
    <2>3. y.ts = t /\ t # 0
      BY <1>1, <2>2 DEF At
    <2> QED
      BY <1>0, <2>2, <2>3, LogIs
  <1>11. ASSUME q.sure
         PROVE  \E x : /\ NewestUpTo(q.at, q.rec, x)
                       /\ q.rec.val = x.val /\ (q.ttl \/ q.rec.exp = x.exp)
    <2>1. PICK x : x = Newest(VersionsOf(k, t))
      OBVIOUS
    <2>2. \/ InMemory(x) /\ x.exp >= now
          \/ Cardinality(VersionsOf(k, t)) = 1
      BY <1>3, <1>11, <2>1 DEF PatchReadTo
    <2>3. /\ x \in VersionsOf(k, t)
          /\ \A s \in VersionsOf(k, t) : s.seq <= x.seq
          /\ found.val = x.val /\ found.exp = x.exp
      BY <1>0, <1>2, <2>1, <2>2, SureRead
    <2>4. q.at = Len(log) /\ \A y \in Range(log) : y.seq <= q.at
      <3>1. \A y \in Range(log) : y.seq \in 1..Len(log)
        BY <1>0, LogIs
      <3>2. q.at = Len(log)
        BY <1>3 DEF PatchReadTo
      <3> QED
        BY <3>1, <3>2
    <2>5. NewestUpTo(q.at, q.rec, x)
      BY <1>9, <2>3, <2>4 DEF NewestUpTo, VersionsOf
    <2>6. q.ttl \/ q.rec.exp = x.exp
      BY <1>6, <1>9, <2>3
    <2> QED
      BY <1>9, <2>3, <2>5, <2>6
  <1>12. q.pc = "write" /\ q.at \in 0..Len(log) /\ \A h \in patched : h.seq <= q.at
    <2>1. q.pc = "write" /\ q.at = Len(log) /\ Len(log) \in Nat
      BY <1>0, <1>3 DEF PatchReadTo, LogOK
    <2>2. \A h \in patched : h.seq \in 1..Len(log)
      BY <1>0 DEF PatchOK
    <2> QED
      BY <2>1, <2>2
  <1>13. Patching(q)
    BY <1>9, <1>10, <1>11, <1>12 DEF Patching
  <1>14. \A i \in Patchers : patch[i] = IdlePatch \/ Patching(patch[i])
    BY <1>0 DEF PatchOK
  <1>15. \A i \in Patchers : patch[i] = IdlePatch
    BY <1>4, <1>14 DEF PatchLockFree, Patching
  <1>16. /\ DOMAIN patch' = Patchers /\ patch'[p] = q
         /\ \A i \in Patchers : i # p => patch'[i] = IdlePatch
    <2>1. DOMAIN patch = Patchers
      BY <1>0 DEF PatchOK
    <2>2. patch' = [patch EXCEPT ![p] = q]
      BY <1>3 DEF PatchReadTo
    <2> QED
      BY <1>15, <2>1, <2>2
  <1>17. LogOK' /\ MemoryOK' /\ PatchesCompose'
    <2>1. LogOK'
      BY <1>0, <1>4 DEF LogOK
    <2>2. MemoryOK'
      BY <1>0, <1>4 DEF MemoryOK
    <2>3. PatchesCompose'
      <3>1. log' = log /\ patched' = patched
        BY <1>4
      <3> QED
        BY <1>0, <3>1, ComposeIs
    <2> QED
      BY <2>1, <2>2, <2>3
  <1>18. SstsOK'
    <2>1. Held \subseteq Held'
      BY <1>4 DEF Held
    <2> QED
      BY <1>0, <1>4, <2>1, GrowingLog
  <1>19. PatchOK'
    <2>1. IdlePatch.pc # "write"
      BY DEF IdlePatch
    <2>2. (\A i \in Patchers : patch[i] = IdlePatch \/ Patching(patch[i]))'
      <3> SUFFICES ASSUME NEW i \in Patchers
                   PROVE  (patch[i] = IdlePatch \/ Patching(patch[i]))'
        OBVIOUS
      <3>1. CASE i = p
        BY <1>4, <1>13, <1>16, <3>1 DEF Patching, NewestUpTo
      <3>2. CASE i # p
        BY <1>16, <3>2
      <3> QED
        BY <3>1, <3>2
    <2>3. (\A i, j \in Patchers : patch[i].pc = "write" /\ patch[j].pc = "write" => i = j)'
      BY <1>16, <2>1
    <2>4. (now \in 1..MaxNow /\ \A h \in patched : /\ h.seq \in 1..Len(log)
                                                  /\ h.at \in 0..(h.seq - 1))'
      BY <1>0, <1>4 DEF PatchOK
    <2> QED
      BY <1>16, <2>2, <2>3, <2>4 DEF PatchOK
  <1> QED
    BY <1>17, <1>18, <1>19 DEF LookupInv

\* A patch that is written composes with the newest version.
LEMMA PatchComposes ==
    ASSUME LogOK, NEW rec, IsNext(rec), Insert(rec), NEW q, Patching(q),
           At(rec) = At(q.rec), DefaultTtl = 0 => rec.exp = q.rec.exp,
           q.value \/ rec.val = q.rec.val,
           NEW n, n.seq = Len(log) + 1, n.at = q.at, n.value = q.value, n.ttl = q.ttl,
           n.sure = q.sure
    PROVE  ComposesIn(n, log', patched \cup {n})
  <1>1. /\ Len(log') = Len(log) + 1 /\ log' \in Seq(Rec) /\ Len(log) \in Nat
        /\ \A i \in 1..Len(log) : log'[i] = log[i]
        /\ log'[Len(log) + 1] = rec
        /\ Range(log') = Range(log) \cup {rec}
    BY InsertLog DEF LogOK
  <1>2. rec = log'[n.seq] /\ rec \in Rec /\ rec.seq = Len(log) + 1
    BY <1>1 DEF IsNext
  <1>3. PICK older : older = {s \in {x \in Range(log') : At(x) = <<rec.key, rec.ts>>} :
                                    s.seq < n.seq}
    OBVIOUS
  <1>4. PICK between : between = {i \in (n.at + 1)..(n.seq - 1) :
                                    /\ i \in DOMAIN log' /\ At(log'[i]) = <<rec.key, rec.ts>>
                                    /\ \A h \in patched \cup {n} : h.seq # i}
    OBVIOUS
  <1>5. ASSUME n.sure, between = {}
        PROVE  /\ n.value \/ rec.val = Newest(older).val
               /\ n.ttl \/ DefaultTtl # 0 \/ rec.exp = Newest(older).exp
    <2>1. PICK x : /\ NewestUpTo(q.at, q.rec, x)
                   /\ q.rec.val = x.val /\ (q.ttl \/ q.rec.exp = x.exp)
      BY <1>5 DEF Patching
    <2>2. At(rec) = <<rec.key, rec.ts>> /\ At(q.rec) = <<rec.key, rec.ts>>
      BY DEF At
    <2>3. older \subseteq Range(log)
      <3>1. ~(rec.seq < n.seq)
        BY <1>1, <1>2
      <3> QED
        BY <1>1, <1>3, <3>1
    <2>4. q.at \in 0..Len(log) /\ \A h \in patched : h.seq <= q.at
      BY DEF Patching
    <2>5. x \in older
      <3>1. x \in Range(log) /\ x.seq <= q.at /\ At(x) = <<rec.key, rec.ts>>
        BY <2>1, <2>2 DEF NewestUpTo
      <3>2. x.seq \in 1..Len(log)
        BY <3>1, LogIs
      <3>3. x.seq < n.seq
        BY <1>1, <3>2
      <3> QED
        BY <1>1, <1>3, <3>1, <3>3
    <2>6. ASSUME NEW s \in older PROVE s.seq <= x.seq
      <3>1. s \in Range(log) /\ At(s) = <<rec.key, rec.ts>>
        BY <1>3, <2>3
      <3>2. s.seq \in 1..Len(log) /\ log[s.seq] = s
        BY <3>1, LogIs
      <3>3. s.seq <= q.at
        <4> SUFFICES ASSUME ~(s.seq <= q.at) PROVE FALSE
          OBVIOUS
        <4>1. PICK i : i = s.seq
          OBVIOUS
        <4>2. i \in (n.at + 1)..(n.seq - 1) /\ i \in 1..Len(log')
          BY <1>1, <2>4, <3>2, <4>1
        <4>3. i \in DOMAIN log' /\ At(log'[i]) = <<rec.key, rec.ts>>
          BY <1>1, <3>1, <3>2, <4>1, <4>2
        <4>4. \A h \in patched \cup {n} : h.seq # i
          <5>1. n.seq # i
            BY <1>1, <3>2, <4>1
          <5>2. \A h \in patched : h.seq # i
            BY <2>4, <4>1
          <5> QED
            BY <5>1, <5>2
        <4>5. i \in between
          BY <1>4, <4>2, <4>3, <4>4
        <4> QED
          BY <1>5, <4>5
      <3> QED
        BY <2>1, <2>2, <3>1, <3>3 DEF NewestUpTo
    <2>7. Newest(older) = x
      BY <2>3, <2>5, <2>6, NewestIs
    <2> QED
      BY <2>1, <2>7
  <1>6. between = {} <=> ~(\E i \in (n.at + 1)..(n.seq - 1) :
                            /\ i \in DOMAIN log' /\ At(log'[i]) = <<rec.key, rec.ts>>
                            /\ \A h \in patched \cup {n} : h.seq # i)
    BY <1>4
  <1> QED
    BY <1>2, <1>3, <1>5, <1>6, Zenon DEF ComposesIn

LEMMA PatchWriteKeeps ==
    ASSUME LookupInv, NEW p \in Patchers, PatchWrite(p)
    PROVE  LookupInv'
  <1>0. LogOK /\ MemoryOK /\ SstsOK /\ PatchOK /\ PatchesCompose
    BY DEF LookupInv
  <1>1. PICK q : q = patch[p]
    OBVIOUS
  <1>2. PICK rec : rec = [q.rec EXCEPT !.seq = NextSeq,
                                       !.val = IF q.value THEN NextSeq ELSE @,
                                       !.exp = ExpireAt(q.rec.ts, @)]
    OBVIOUS
  <1>3. PICK n : n = [seq |-> NextSeq, at |-> q.at, value |-> q.value, ttl |-> q.ttl,
                      sure |-> q.sure]
    OBVIOUS
  <1>4. /\ q.pc = "write" /\ Insert(rec) /\ patched' = patched \cup {n}
        /\ patch' = [patch EXCEPT ![p] = IdlePatch]
        /\ UNCHANGED <<frozen, ssts, merged, now>>
    BY <1>1, <1>2, <1>3 DEF PatchWrite
  <1>5. /\ DOMAIN patch = Patchers
        /\ \A i \in Patchers : patch[i] = IdlePatch \/ Patching(patch[i])
        /\ \A i, j \in Patchers : patch[i].pc = "write" /\ patch[j].pc = "write" => i = j
        /\ \A e \in patched : e.seq \in 1..Len(log) /\ e.at \in 0..(e.seq - 1)
        /\ now \in 1..MaxNow
    BY <1>0 DEF PatchOK
  <1>6. Patching(q)
    BY <1>1, <1>4, <1>5 DEF IdlePatch
  <1>7. Len(log) \in Nat /\ NextSeq = Len(log) + 1 /\ NextSeq \in 1..MaxWrites
    BY <1>0, <1>4, Numbers DEF LogOK, NextSeq, Insert
  <1>8. /\ rec \in Rec /\ rec.seq = NextSeq /\ rec.op = q.rec.op /\ At(rec) = At(q.rec)
        /\ (DefaultTtl = 0 => rec.exp = q.rec.exp) /\ (q.value \/ rec.val = q.rec.val)
    <2>1. PICK v, e : /\ v = IF q.value THEN NextSeq ELSE q.rec.val
                      /\ e = ExpireAt(q.rec.ts, q.rec.exp)
      OBVIOUS
    <2>2. q.rec \in Rec
      BY <1>6 DEF Patching
    <2>10. q.rec.ts \in Nat /\ q.rec.exp \in Nat
      BY <2>2, Numbers DEF Rec
    <2>11. e \in Nat /\ (DefaultTtl = 0 => e = q.rec.exp)
      BY <2>1, <2>10, ExpireAtIs
    <2>3. v \in 1..MaxWrites
      BY <1>7, <2>1, <2>2 DEF Rec
    <2>4. q.rec = [seq |-> q.rec.seq, op |-> q.rec.op, key |-> q.rec.key, ts |-> q.rec.ts,
                   val |-> q.rec.val, exp |-> q.rec.exp, end |-> q.rec.end]
      BY <2>2 DEF Rec
    <2>5. rec = [seq |-> NextSeq, op |-> q.rec.op, key |-> q.rec.key, ts |-> q.rec.ts,
                 val |-> v, exp |-> e, end |-> q.rec.end]
      BY <1>2, <2>1, <2>4
    <2>6. NextSeq \in Nat
      BY <1>7
    <2>7. rec \in Rec
      BY <2>2, <2>3, <2>5, <2>6, <2>11 DEF Rec
    <2>8. rec.key = q.rec.key /\ rec.ts = q.rec.ts
      BY <2>5
    <2>9. rec.exp = e /\ rec.val = v /\ rec.seq = NextSeq /\ rec.op = q.rec.op
      BY <2>5
    <2> QED
      BY <2>1, <2>7, <2>8, <2>9, <2>11 DEF At
  <1>9. IsNext(rec)
    BY <1>6, <1>7, <1>8 DEF IsNext, Patching
  <1>10. LogOK' /\ Len(log') = Len(log) + 1 /\ Held \subseteq Held'
    BY <1>0, <1>4, <1>9, InsertLog
  <1>11. MemoryOK' /\ SstsOK'
    BY <1>0, <1>4, <1>9, <1>10, InsertMemory, GrowingLog
  <1>12. n.seq = Len(log) + 1 /\ n.at = q.at /\ n.value = q.value /\ n.ttl = q.ttl
         /\ n.sure = q.sure /\ q.at \in 0..Len(log)
    BY <1>3, <1>6, <1>7 DEF Patching
  <1>13. \A i \in Patchers : patch'[i] = IdlePatch
    <2>1. \A i \in Patchers : i # p => patch[i].pc # "write"
      BY <1>1, <1>4, <1>5
    <2>2. \A i \in Patchers : i # p => patch[i] = IdlePatch
      BY <1>5, <2>1 DEF Patching
    <2> QED
      BY <1>4, <1>5, <2>2
  <1>14. PatchOK'
    <2>1. IdlePatch.pc # "write"
      BY DEF IdlePatch
    <2>2. (\A i \in Patchers : patch[i] = IdlePatch \/ Patching(patch[i]))'
      BY <1>13
    <2>3. (\A i, j \in Patchers : patch[i].pc = "write" /\ patch[j].pc = "write" => i = j)'
      BY <1>13, <2>1
    <2>4. \A e \in patched' : e.seq \in 1..Len(log') /\ e.at \in 0..(e.seq - 1)
      <3> SUFFICES ASSUME NEW e \in patched'
                   PROVE  e.seq \in 1..Len(log') /\ e.at \in 0..(e.seq - 1)
        OBVIOUS
      <3>1. CASE e \in patched
        <4>1. e.seq \in 1..Len(log) /\ e.at \in 0..(e.seq - 1)
          BY <1>5, <3>1
        <4> QED
          BY <1>7, <1>10, <4>1
      <3>2. CASE e = n
        BY <1>7, <1>10, <1>12, <3>2
      <3> QED
        BY <1>4, <3>1, <3>2
    <2>5. now' \in 1..MaxNow /\ DOMAIN patch' = Patchers
      BY <1>4, <1>5
    <2> QED
      BY <2>2, <2>3, <2>4, <2>5 DEF PatchOK
  <1>15. \A e \in patched' : ComposesIn(e, log', patched')
    <2>1. PICK ps : ps = patched \cup {n}
      OBVIOUS
    <2>2. ASSUME NEW e \in patched PROVE ComposesIn(e, log', ps)
      <3>1. e.seq \in 1..Len(log) /\ e.at \in 0..(e.seq - 1)
        BY <1>5
      <3>2. ComposesIn(e, log, patched)
        BY <1>0, ComposeIs
      <3>3. ps = patched \/ \E m : ps = patched \cup {m} /\ m.seq = Len(log) + 1
        BY <1>12, <2>1
      <3> QED
        BY <1>0, <1>4, <1>9, <3>1, <3>2, <3>3, ComposesKept
    <2>3. ComposesIn(n, log', ps)
      BY <1>0, <1>4, <1>6, <1>8, <1>9, <1>12, <2>1, PatchComposes
    <2>4. patched' = ps
      BY <1>4, <2>1
    <2> QED
      BY <2>1, <2>2, <2>3, <2>4
  <1>16. PatchesCompose'
    BY <1>15, ComposeIs
  <1> QED
    BY <1>10, <1>11, <1>14, <1>16 DEF LookupInv

-----------------------------------------------------------------------------
(* Flushes, merges, garbage collection *)

LEMMA HistoryKept ==
    ASSUME LookupInv, UNCHANGED <<log, patch, patched>>, now' \in 1..MaxNow
    PROVE  LogOK' /\ PatchOK' /\ PatchesCompose' /\ Held' = Held
  <1>0. LogOK /\ PatchOK /\ PatchesCompose
    BY DEF LookupInv
  <1>1. log' = log /\ patch' = patch /\ patched' = patched
    OBVIOUS
  <1>2. LogOK' /\ Held' = Held
    BY <1>0, <1>1 DEF LogOK, Held
  <1>3. PatchesCompose'
    BY <1>0, <1>1, ComposeIs
  <1>4. PatchOK'
    BY <1>0, <1>1 DEF PatchOK, Patching, NewestUpTo
  <1> QED
    BY <1>2, <1>3, <1>4

LEMMA FreezeKeeps ==
    ASSUME LookupInv, Freeze
    PROVE  LookupInv'
  <1>0. LogOK /\ MemoryOK /\ SstsOK /\ PatchOK
    BY DEF LookupInv
  <1>1. /\ frozen' = <<Sorted(active, Before)>> /\ active' = <<>>
        /\ UNCHANGED <<ssts, merged, now, patch, log, patched>>
    BY DEF Freeze
  <1>2. LogOK' /\ PatchOK' /\ PatchesCompose' /\ Held' = Held
    <2>1. now' \in 1..MaxNow
      BY <1>0, <1>1 DEF PatchOK
    <2> QED
      BY <1>1, <2>1, HistoryKept
  <1>3. SstsOK'
    BY <1>0, <1>1, <1>2, GrowingLog
  <1>4. PICK t : t = Sorted(active, Before)
    OBVIOUS
  <1>5. t \in Seq(Rec) /\ Range(t) = Range(active) /\ Ordered(t, Ascending)
    BY <1>0, <1>4, SortedBefore DEF MemoryOK
  <1>6. /\ frozen' \in Seq(Seq(Rec)) /\ Len(frozen') = 1
        /\ \A i \in 1..Len(frozen') : frozen'[i] = t
    BY <1>1, <1>4, <1>5
  <1>7. active' \in Seq(Rec) /\ Range(active') = {} /\ Ordered(active', BySeq)
    BY <1>1 DEF Range, Ordered
  <1>8. Range(t) \subseteq Range(log')
    BY <1>0, <1>1, <1>5 DEF MemoryOK
  <1>9. MemoryOK'
    BY <1>1, <1>5, <1>6, <1>7, <1>8 DEF MemoryOK
  <1> QED
    BY <1>2, <1>3, <1>9 DEF LookupInv

\* The records of a table that have not expired.
LEMMA UnexpiredIs ==
    ASSUME NEW recs \in Seq(Rec)
    PROVE  /\ Unexpired(recs) \in Seq(Rec)
           /\ Range(Unexpired(recs)) = {r \in Range(recs) : r.exp > now}
           /\ \A rel : Ordered(recs, rel) => Ordered(Unexpired(recs), rel)
  <1>1. PICK set : set = {r \in Range(recs) : r.exp > now}
    OBVIOUS
  <1>2. Unexpired(recs) = Only(recs, set)
    BY <1>1 DEF Unexpired
  <1>3. /\ Only(recs, set) \in Seq(Rec)
        /\ Range(Only(recs, set)) = Range(recs) \cap set
        /\ \A rel : Ordered(recs, rel) => Ordered(Only(recs, set), rel)
    BY OnlyIs
  <1> QED
    BY <1>1, <1>2, <1>3

LEMMA AscendingIsByKey == Ascending \subseteq AscendingKeys
  BY DEF Ascending, AscendingKeys, Before

LEMMA OrderedMore ==
    ASSUME NEW s, NEW rel, NEW more, rel \subseteq more, Ordered(s, rel)
    PROVE  Ordered(s, more)
  BY DEF Ordered

\* The id of the next SST is new.
LEMMA NextSstIdIs ==
    ASSUME SstsOK
    PROVE  NextSstId \in Nat \ {0} /\ NextSstId \notin DOMAIN ssts
  <1>1. PICK ids : ids = DOMAIN ssts \cup {0}
    OBVIOUS
  <1>2. ids \in SUBSET Nat /\ ids # {} /\ MaxSsts \in Nat /\ \A i \in ids : i <= MaxSsts
    BY <1>1, Numbers DEF SstsOK
  <1>3. PICK m \in ids : \A i \in ids : i <= m
    BY <1>2, GreatestNatural
  <1>4. ids \in SUBSET Int
    BY <1>2
  <1>5. Max(ids) = m
    BY <1>3, <1>4, MaxIs
  <1>6. NextSstId = m + 1 /\ m \in Nat
    BY <1>1, <1>2, <1>5 DEF NextSstId
  <1>7. m + 1 \notin ids
    BY <1>2, <1>3, <1>6
  <1> QED
    BY <1>1, <1>6, <1>7

LEMMA FlushKeeps ==
    ASSUME LookupInv, Flush
    PROVE  LookupInv'
  <1>0. LogOK /\ MemoryOK /\ SstsOK /\ PatchOK
    BY DEF LookupInv
  <1>1. PICK recs : recs = Unexpired(Head(frozen))
    OBVIOUS
  <1>2. /\ frozen # <<>> /\ NextSstId <= MaxSsts /\ frozen' = Tail(frozen)
        /\ ssts' = IF recs = <<>> THEN ssts ELSE WithSst(ssts, NextSstId, Blocks(recs))
        /\ UNCHANGED <<active, merged, now, patch, log, patched>>
    BY <1>1 DEF Flush
  <1>3. LogOK' /\ PatchOK' /\ PatchesCompose' /\ Held' = Held
    <2>1. now' \in 1..MaxNow
      BY <1>0, <1>2 DEF PatchOK
    <2> QED
      BY <1>2, <2>1, HistoryKept
  <1>4. frozen \in Seq(Seq(Rec)) /\ Len(frozen) = 1 /\ Head(frozen) = frozen[1]
        /\ Tail(frozen) = <<>>
    <2>1. frozen \in Seq(Seq(Rec)) /\ Len(frozen) <= 1 /\ Len(frozen) \in Nat
      BY <1>0 DEF MemoryOK
    <2>2. Len(frozen) # 0
      BY ONLY <1>2, <2>1
    <2>3. Len(frozen) = 1
      <3>1. PICK n \in Nat : n = Len(frozen)
        BY <2>1
      <3>2. n <= 1 /\ n # 0
        BY <2>1, <2>2, <3>1
      <3> QED
        BY ONLY <3>1, <3>2, n \in Nat
    <2>4. Head(frozen) = frozen[1]
      BY ONLY <1>2, <2>1
    <2>5. Tail(frozen) \in Seq(Seq(Rec)) /\ Len(Tail(frozen)) = 0
      BY <1>2, <2>1, <2>3
    <2>6. Tail(frozen) = <<>>
      BY <2>5, EmptySeq
    <2> QED
      BY <2>1, <2>3, <2>4, <2>6
  <1>5. MemoryOK'
    <2>1. frozen' = <<>> /\ frozen' \in Seq(Seq(Rec)) /\ Len(frozen') = 0
      BY <1>2, <1>4
    <2> QED
      BY <1>0, <1>2, <2>1 DEF MemoryOK
  <1>6. PICK table : table = frozen[1]
    OBVIOUS
  <1>7. table \in Seq(Rec) /\ Range(table) \subseteq Range(log) /\ Ordered(table, Ascending)
    <2>0. Len(frozen) = 1
      BY <1>4
    <2>1. 1 \in 1..Len(frozen)
      BY ONLY <2>0
    <2>2. frozen[1] \in Seq(Rec)
      <3>1. frozen \in Seq(Seq(Rec))
        BY <1>4
      <3> QED
        BY ONLY <2>1, <3>1
    <2> QED
      BY <1>0, <1>6, <2>1, <2>2 DEF MemoryOK
  <1>8. /\ recs \in Seq(Rec) /\ Range(recs) \subseteq Range(log)
        /\ Ordered(recs, AscendingKeys)
    <2>1. recs = Unexpired(table)
      BY <1>1, <1>4, <1>6
    <2>2. /\ recs \in Seq(Rec) /\ Range(recs) \subseteq Range(table)
          /\ Ordered(recs, Ascending)
      BY <1>7, <2>1, UnexpiredIs
    <2> QED
      BY <1>7, <2>2, AscendingIsByKey, OrderedMore
  <1>9. SstsOK'
    <2>1. CASE recs = <<>>
      BY <1>0, <1>2, <1>3, <2>1, GrowingLog
    <2>2. CASE recs # <<>>
      <3>1. PICK id : id = NextSstId
        OBVIOUS
      <3>2. id \in Nat \ {0} /\ id \notin DOMAIN ssts /\ id \in 1..MaxSsts
        BY <1>0, <1>2, <3>1, NextSstIdIs, Numbers
      <3>3. /\ DOMAIN ssts' = DOMAIN ssts \cup {id} /\ ssts'[id] = Blocks(recs)
            /\ \A i \in DOMAIN ssts : ssts'[i] = ssts[i]
        <4>1. PICK blocks : blocks = Blocks(recs)
          OBVIOUS
        <4>2. PICK more : more = ssts'
          OBVIOUS
        <4>3. more = WithSst(ssts, id, blocks)
          BY <1>2, <2>2, <3>1, <4>1, <4>2
        <4>4. /\ DOMAIN more = DOMAIN ssts \cup {id} /\ more[id] = blocks
              /\ \A i \in DOMAIN ssts : more[i] = ssts[i]
          BY <3>2, <4>3 DEF WithSst
        <4> QED
          BY <4>1, <4>2, <4>4
      <3>4. WrittenTo(id, recs)'
        <4>1. \A r \in Range(recs) : Stored(r) \in Held'
          BY <1>3, <1>8 DEF Held
        <4> QED
          BY <1>8, <3>3, <4>1 DEF WrittenTo
      <3>5. ASSUME NEW i \in DOMAIN ssts PROVE \E rs : WrittenTo(i, rs)'
        <4>1. PICK rs : WrittenTo(i, rs)
          BY <1>0 DEF SstsOK
        <4>2. WrittenTo(i, rs)'
          BY <1>2, <1>3, <3>3, <4>1 DEF WrittenTo
        <4> QED
          BY <4>2
      <3> QED
        BY <1>0, <1>2, <3>2, <3>3, <3>4, <3>5 DEF SstsOK
    <2> QED
      BY <2>1, <2>2
  <1> QED
    BY <1>3, <1>5, <1>9 DEF LookupInv

LEMMA MergeSourceIs ==
    ASSUME LogOK, SstsOK, NEW id \in DOMAIN ssts
    PROVE  MergeSource(id) \in Seq(Rec) /\ Range(MergeSource(id)) \subseteq Held
  <1>1. PICK blocks : blocks = ssts[id]
    OBVIOUS
  <1>2. /\ blocks \in Seq(Seq(Rec)) /\ DOMAIN blocks = 1..Len(blocks)
        /\ \A b \in 1..Len(blocks) :
            blocks[b] \in Seq(Rec) /\ Range(blocks[b]) \subseteq Held
    BY <1>1, SstBlocks
  <1>3. ASSUME NEW b \in 1..Len(blocks)
        PROVE  /\ BlockIterator(blocks[b]) \in Seq(Rec)
               /\ Range(BlockIterator(blocks[b])) \subseteq Held
    <2>1. PICK u : u = Unexpired(blocks[b])
      OBVIOUS
    <2>2. blocks[b] \in Seq(Rec) /\ Range(blocks[b]) \subseteq Held
      BY <1>2
    <2>3. u \in Seq(Rec) /\ Range(u) \subseteq Range(blocks[b])
      BY <2>1, <2>2, UnexpiredIs
    <2>4. Sorted(u, After) \in Seq(Rec) /\ Range(Sorted(u, After)) = Range(u)
      BY <2>3, SortedAfter
    <2> QED
      BY <2>1, <2>2, <2>3, <2>4 DEF BlockIterator
  <1>4. PICK s : s = [b \in DOMAIN blocks |-> BlockIterator(blocks[b])]
    OBVIOUS
  <1>5. s \in Seq(Seq(Rec)) /\ Len(s) = Len(blocks)
    <2>0. Len(blocks) \in Nat
      BY <1>2
    <2>1. PICK n \in Nat : n = Len(blocks)
      BY ONLY <2>0
    <2>2. s \in [1..n -> Seq(Rec)]
      BY <1>2, <1>3, <1>4, <2>1
    <2>3. s \in Seq(Seq(Rec)) /\ Len(s) = n
      BY ONLY <2>2, n \in Nat
    <2> QED
      BY <2>1, <2>3
  <1>6. MergeSource(id) = FlattenSeq(s)
    BY <1>1, <1>4 DEF MergeSource
  <1>7. FlattenSeq(s) \in Seq(Rec)
        /\ Range(FlattenSeq(s)) = UNION {Range(s[i]) : i \in 1..Len(s)}
    BY <1>5, FlattenIs
  <1>8. \A i \in 1..Len(s) : Range(s[i]) \subseteq Held
    BY <1>2, <1>3, <1>4, <1>5
  <1> QED
    BY <1>6, <1>7, <1>8

\* A merge writes records of the SSTs it reads.
LEMMA MergesAre ==
    ASSUME LogOK, SstsOK, NEW ids \in SUBSET DOMAIN ssts, NEW out \in Merges(ids)
    PROVE  out \in Seq(Rec) /\ Range(out) \subseteq Held
  <1>1. PICK order : order = SetToSeq(ids)
    OBVIOUS
  <1>2. order \in Seq(ids)
    <2>1. IsFiniteSet(1..MaxSsts)
      BY Numbers, FS_Interval
    <2>2. ids \in SUBSET (1..MaxSsts)
      BY DEF SstsOK
    <2>3. IsFiniteSet(ids)
      BY <2>1, <2>2, FS_Subset
    <2> QED
      BY <1>1, <2>3, SetToSeqIs
  <1>3. PICK sources : sources = [i \in DOMAIN order |-> MergeSource(order[i])]
    OBVIOUS
  <1>4. PICK n \in Nat : n = Len(order) /\ DOMAIN order = 1..n
    BY <1>2
  <1>5. \A i \in 1..n : order[i] \in DOMAIN ssts
    BY <1>2, <1>4
  <1>6. \A i \in 1..n : sources[i] \in Seq(Rec) /\ Range(sources[i]) \subseteq Held
    BY <1>3, <1>4, <1>5, MergeSourceIs
  <1>7. sources \in Seq(Seq(Rec)) /\ DOMAIN sources = 1..n
    <2>1. sources \in [1..n -> Seq(Rec)]
      BY <1>3, <1>4, <1>6
    <2> QED
      BY ONLY <2>1, n \in Nat
  <1>8. out \in Drain(sources, {}, TRUE)
    BY <1>1, <1>3 DEF Merges
  <1>9. /\ out \in Seq(Rec)
        /\ \A r \in Range(out) : \E i \in DOMAIN sources : r \in Range(sources[i])
    BY <1>7, <1>8, DrainIs
  <1> QED
    BY <1>6, <1>7, <1>9

LEMMA CompactKeeps ==
    ASSUME LookupInv, Compact
    PROVE  LookupInv'
  <1>0. LogOK /\ MemoryOK /\ SstsOK /\ PatchOK
    BY DEF LookupInv
  <1>1. UNCHANGED <<active, frozen, now, patch, log, patched>> /\ NextSstId <= MaxSsts
    BY DEF Compact
  <1>2. LogOK' /\ PatchOK' /\ PatchesCompose' /\ Held' = Held
    <2>1. now' \in 1..MaxNow
      BY <1>0, <1>1 DEF PatchOK
    <2> QED
      BY <1>1, <2>1, HistoryKept
  <1>3. MemoryOK'
    BY <1>0, <1>1 DEF MemoryOK
  <1>4. PICK ids \in SUBSET DOMAIN ssts : \E out \in Merges(ids) :
            LET rest == [id \in DOMAIN ssts \ ids |-> ssts[id]] IN
            IF out = <<>> THEN ssts' = rest /\ merged' = merged \ ids
            ELSE /\ ssts' = WithSst(rest, NextSstId, Blocks(out))
                 /\ merged' = (merged \ ids) \cup {NextSstId}
    BY DEF Compact
  <1>5. PICK out \in Merges(ids) :
            LET rest == [id \in DOMAIN ssts \ ids |-> ssts[id]] IN
            IF out = <<>> THEN ssts' = rest /\ merged' = merged \ ids
            ELSE /\ ssts' = WithSst(rest, NextSstId, Blocks(out))
                 /\ merged' = (merged \ ids) \cup {NextSstId}
    BY <1>4
  <1>6. PICK rest : rest = [id \in DOMAIN ssts \ ids |-> ssts[id]]
    OBVIOUS
  <1>7. out \in Seq(Rec) /\ Range(out) \subseteq Held
    BY <1>0, MergesAre
  <1>8. DOMAIN ssts \subseteq 1..MaxSsts /\ merged \subseteq DOMAIN ssts
    BY <1>0 DEF SstsOK
  <1>9. PICK new : new = NextSstId
    OBVIOUS
  <1>10. new \in 1..MaxSsts /\ new \notin DOMAIN ssts
    BY <1>0, <1>1, <1>9, NextSstIdIs, Numbers
  <1>11. ASSUME NEW i \in DOMAIN ssts \ ids, ssts'[i] = ssts[i],
                i \notin merged' => i \notin merged
         PROVE  \E rs : WrittenTo(i, rs)'
    <2>1. PICK rs : WrittenTo(i, rs)
      BY <1>0 DEF SstsOK
    <2>2. WrittenTo(i, rs)'
      BY <1>2, <1>11, <2>1 DEF WrittenTo
    <2> QED
      BY <2>2
  <1>12. CASE out = <<>>
    <2>1. ssts' = rest /\ merged' = merged \ ids
      BY <1>5, <1>6, <1>12
    <2>2. DOMAIN ssts' = DOMAIN ssts \ ids /\ \A i \in DOMAIN ssts' : ssts'[i] = ssts[i]
      BY <1>6, <2>1
    <2>3. \A i \in DOMAIN ssts' : \E rs : WrittenTo(i, rs)'
      BY <1>11, <2>1, <2>2
    <2>4. SstsOK'
      BY <1>8, <2>1, <2>2, <2>3 DEF SstsOK
    <2> QED
      BY <1>2, <1>3, <2>4 DEF LookupInv
  <1>13. CASE out # <<>>
    <2>1. ssts' = WithSst(rest, new, Blocks(out)) /\ merged' = (merged \ ids) \cup {new}
      BY <1>5, <1>6, <1>9, <1>13
    <2>2. /\ DOMAIN ssts' = (DOMAIN ssts \ ids) \cup {new} /\ ssts'[new] = Blocks(out)
          /\ \A i \in DOMAIN ssts \ ids : ssts'[i] = ssts[i]
      BY <1>6, <1>10, <2>1 DEF WithSst
    <2>3. \A i \in DOMAIN ssts \ ids : \E rs : WrittenTo(i, rs)'
      BY <1>11, <2>1, <2>2
    <2>4. WrittenTo(new, out)'
      <3>1. \A r \in Range(out) : Stored(r) \in Held'
        BY <1>0, <1>2, <1>7, HeldIs
      <3> QED
        BY <1>7, <2>1, <2>2, <3>1 DEF WrittenTo
    <2>5. SstsOK'
      BY <1>8, <1>10, <2>1, <2>2, <2>3, <2>4 DEF SstsOK
    <2> QED
      BY <1>2, <1>3, <2>5 DEF LookupInv
  <1> QED
    BY <1>12, <1>13

LEMMA GcKeeps ==
    ASSUME LookupInv, Gc
    PROVE  LookupInv'
  <1>0. LogOK /\ MemoryOK /\ SstsOK /\ PatchOK
    BY DEF LookupInv
  <1>1. PICK kept : kept = {i \in DOMAIN ssts : ~Expired(ssts[i])}
    OBVIOUS
  <1>2. /\ ssts' = [id \in kept |-> ssts[id]] /\ merged' = merged \cap DOMAIN ssts'
        /\ UNCHANGED <<active, frozen, now, patch, log, patched>>
    BY <1>1 DEF Gc
  <1>3. LogOK' /\ PatchOK' /\ PatchesCompose' /\ Held' = Held
    <2>1. now' \in 1..MaxNow
      BY <1>0, <1>2 DEF PatchOK
    <2> QED
      BY <1>2, <2>1, HistoryKept
  <1>4. MemoryOK'
    BY <1>0, <1>2 DEF MemoryOK
  <1>5. DOMAIN ssts' = kept /\ kept \subseteq DOMAIN ssts /\ \A i \in kept : ssts'[i] = ssts[i]
    BY <1>1, <1>2
  <1>6. ASSUME NEW i \in kept PROVE \E rs : WrittenTo(i, rs)'
    <2>1. PICK rs : WrittenTo(i, rs)
      BY <1>0, <1>5 DEF SstsOK
    <2>2. WrittenTo(i, rs)'
      BY <1>2, <1>3, <1>5, <2>1 DEF WrittenTo
    <2> QED
      BY <2>2
  <1>7. SstsOK'
    BY <1>0, <1>2, <1>5, <1>6 DEF SstsOK
  <1> QED
    BY <1>3, <1>4, <1>7 DEF LookupInv

LEMMA TickKeeps ==
    ASSUME LookupInv, Tick
    PROVE  LookupInv'
  <1>0. LogOK /\ MemoryOK /\ SstsOK /\ PatchOK
    BY DEF LookupInv
  <1>1. now < MaxNow /\ now' = now + 1
        /\ UNCHANGED <<active, frozen, ssts, merged, patch, log, patched>>
    BY DEF Tick
  <1>2. now' \in 1..MaxNow
    BY <1>0, <1>1, Numbers DEF PatchOK
  <1>3. LogOK' /\ PatchOK' /\ PatchesCompose' /\ Held' = Held
    BY <1>1, <1>2, HistoryKept
  <1>4. MemoryOK'
    BY <1>0, <1>1 DEF MemoryOK
  <1>5. SstsOK'
    BY <1>0, <1>1, <1>3, GrowingLog
  <1> QED
    BY <1>3, <1>4, <1>5 DEF LookupInv

-----------------------------------------------------------------------------
(* The theorems *)

LEMMA InitInv ==
    ASSUME Init
    PROVE  LookupInv
  <1>1. /\ active = <<>> /\ frozen = <<>> /\ ssts = <<>> /\ merged = {} /\ now = 1
        /\ patch = [p \in Patchers |-> IdlePatch] /\ log = <<>> /\ patched = {}
    BY DEF Init
  <1>2. LogOK
    BY <1>1, Numbers DEF LogOK
  <1>3. MemoryOK
    BY <1>1 DEF MemoryOK, Range, Ordered
  <1>4. SstsOK
    <2>1. DOMAIN ssts = {}
      BY <1>1
    <2> QED
      BY <1>1, <2>1 DEF SstsOK
  <1>5. PatchOK
    <2>1. IdlePatch.pc # "write"
      BY DEF IdlePatch
    <2> QED
      BY <1>1, <2>1, Numbers DEF PatchOK
  <1>6. PatchesCompose
    BY <1>1 DEF PatchesCompose
  <1> QED
    BY <1>2, <1>3, <1>4, <1>5, <1>6 DEF LookupInv

LEMMA StepInv ==
    ASSUME LookupInv, [Next]_vars
    PROVE  LookupInv'
  <1>1. CASE Write
    BY <1>1, WriteKeeps
  <1>2. CASE Freeze
    BY <1>2, FreezeKeeps
  <1>3. CASE Flush
    BY <1>3, FlushKeeps
  <1>4. CASE Compact
    BY <1>4, CompactKeeps
  <1>5. CASE Gc
    BY <1>5, GcKeeps
  <1>6. CASE Tick
    BY <1>6, TickKeeps
  <1>7. ASSUME NEW p \in Patchers, Patch(p) PROVE LookupInv'
    <2>1. ASSUME NEW c \in PatchCells, NEW value \in BOOLEAN,
                 PatchRead(p, c[1], c[2], value, ~value)
          PROVE  LookupInv'
      BY <2>1, PatchReadKeeps
    <2>2. CASE PatchWrite(p)
      BY <2>2, PatchWriteKeeps
    <2> QED
      BY <1>7, <2>1, <2>2 DEF Patch
  <1>8. CASE UNCHANGED vars
    <2>1. UNCHANGED <<active, frozen, ssts, merged, now, patch, log, patched>>
      BY <1>8 DEF vars
    <2>2. now' \in 1..MaxNow
      BY <2>1 DEF LookupInv, PatchOK
    <2>3. LogOK' /\ PatchOK' /\ PatchesCompose' /\ Held' = Held
      BY <2>1, <2>2, HistoryKept
    <2>4. MemoryOK'
      BY <2>1 DEF LookupInv, MemoryOK
    <2>5. SstsOK'
      BY <2>1, <2>3, GrowingLog DEF LookupInv
    <2> QED
      BY <2>3, <2>4, <2>5 DEF LookupInv
  <1> QED
    BY <1>1, <1>2, <1>3, <1>4, <1>5, <1>6, <1>7, <1>8 DEF Next

LEMMA Invariant == Spec => []LookupInv
  BY InitInv, StepInv, PTL DEF Spec

\* Engine::patch_record holds patch_lock from its read to its write: what a patch
\* leaves alone is what the newest version had, for any number of patching threads.
THEOREM PatchesLoseNothing == Spec => []PatchesCompose
  <1>1. LookupInv => PatchesCompose
    BY DEF LookupInv
  <1> QED
    BY <1>1, Invariant, PTL

-----------------------------------------------------------------------------
(* Scans *)

\* The places of the blocks.
Places == UNION {{id} \X DOMAIN ssts[id] : id \in DOMAIN ssts}

LEMMA PlacesAre ==
    ASSUME LogOK, SstsOK
    PROVE  /\ IsFiniteSet(Places) /\ IsFiniteSet(DOMAIN ssts)
           /\ \A b \in Places : /\ b[1] \in DOMAIN ssts /\ b[2] \in 1..Len(ssts[b[1]])
                                /\ b = <<b[1], b[2]>>
           /\ \A id \in DOMAIN ssts : \A b \in 1..Len(ssts[id]) : <<id, b>> \in Places
  <1>1. IsFiniteSet(DOMAIN ssts)
    <2>1. IsFiniteSet(1..MaxSsts)
      BY Numbers, FS_Interval
    <2>2. DOMAIN ssts \in SUBSET (1..MaxSsts)
      BY DEF SstsOK
    <2> QED
      BY <2>1, <2>2, FS_Subset
  <1>2. \A id \in DOMAIN ssts : DOMAIN ssts[id] = 1..Len(ssts[id]) /\ Len(ssts[id]) \in Nat
    <2> SUFFICES ASSUME NEW id \in DOMAIN ssts
                 PROVE  DOMAIN ssts[id] = 1..Len(ssts[id]) /\ Len(ssts[id]) \in Nat
      OBVIOUS
    <2>1. ssts[id] \in Seq(Seq(Rec))
      BY SstBlocks
    <2> QED
      BY <2>1
  <1>3. PICK f : f = [id \in DOMAIN ssts |-> {id} \X DOMAIN ssts[id]]
    OBVIOUS
  <1>4. PICK S : S = {{id} \X DOMAIN ssts[id] : id \in DOMAIN ssts}
    OBVIOUS
  <1>5. IsFiniteSet(S)
    <2>1. f \in Surjection(DOMAIN ssts, S)
      BY <1>3, <1>4 DEF Surjection
    <2> QED
      BY <1>1, <2>1, FS_Surjection
  <1>6. \A T \in S : IsFiniteSet(T)
    <2> SUFFICES ASSUME NEW id \in DOMAIN ssts PROVE IsFiniteSet({id} \X DOMAIN ssts[id])
      BY <1>4
    <2>1. IsFiniteSet(DOMAIN ssts[id])
      BY <1>2, FS_Interval
    <2>2. IsFiniteSet({id})
      BY FS_Singleton
    <2> QED
      BY <2>1, <2>2, FS_Product
  <1>7. IsFiniteSet(UNION S)
    BY <1>5, <1>6, FS_UNION
  <1>8. Places = UNION S
    BY <1>4 DEF Places
  <1>9. \A b \in Places : \E id \in DOMAIN ssts : b \in {id} \X DOMAIN ssts[id]
    BY DEF Places
  <1>10. \A b \in Places : /\ b[1] \in DOMAIN ssts /\ b[2] \in 1..Len(ssts[b[1]])
                           /\ b = <<b[1], b[2]>>
    BY <1>2, <1>9
  <1>11. \A id \in DOMAIN ssts : \A b \in 1..Len(ssts[id]) : <<id, b>> \in Places
    BY <1>2 DEF Places
  <1> QED
    BY <1>1, <1>7, <1>8, <1>10, <1>11

LEMMA BlockSourceIs ==
    ASSUME NEW q, NEW block \in Seq(Rec)
    PROVE  /\ BlockSource(q, block) \in Seq(Rec)
           /\ Range(BlockSource(q, block)) =
                {r \in Range(block) : /\ r.exp > now /\ r.op # "range"
                                      /\ IF IsFullScan(q) THEN r.op # "del" ELSE Matches(q, r)}
           /\ \A rel : Ordered(block, rel) => Ordered(BlockSource(q, block), rel)
  <1>1. PICK u : u = Unexpired(block)
    OBVIOUS
  <1>2. PICK set : set = {r \in Range(block) :
            r.op # "range" /\ IF IsFullScan(q) THEN r.op # "del" ELSE Matches(q, r)}
    OBVIOUS
  <1>3. /\ u \in Seq(Rec) /\ Range(u) = {r \in Range(block) : r.exp > now}
        /\ \A rel : Ordered(block, rel) => Ordered(u, rel)
    BY <1>1, UnexpiredIs
  <1>4. BlockSource(q, block) = Only(u, set)
    BY <1>1, <1>2 DEF BlockSource
  <1>5. /\ Only(u, set) \in Seq(Rec) /\ Range(Only(u, set)) = Range(u) \cap set
        /\ \A rel : Ordered(u, rel) => Ordered(Only(u, set), rel)
    BY <1>3, OnlyIs
  <1> QED
    BY <1>2, <1>3, <1>4, <1>5

LEMMA MemTablesQueryIs ==
    ASSUME LogOK, MemoryOK, NEW q
    PROVE  /\ MemTablesQuery(q) \in Seq(Rec)
           /\ Range(MemTablesQuery(q)) =
                {r \in Range(Memory) : /\ Matches(q, r)
                                       /\ EndsAtTilde(q) => r.key <= Tilde
                                       /\ r.exp >= now}
           /\ \A rel : Ordered(Memory, rel) => Ordered(MemTablesQuery(q), rel)
  <1>1. Memory \in Seq(Rec)
    BY MemoryIs
  <1>2. PICK set : set = {r \in Range(Memory) : /\ Matches(q, r)
                                                /\ EndsAtTilde(q) => r.key <= Tilde
                                                /\ r.exp >= now}
    OBVIOUS
  <1>3. MemTablesQuery(q) = Only(Memory, set)
    BY <1>2 DEF MemTablesQuery
  <1>4. /\ Only(Memory, set) \in Seq(Rec) /\ Range(Only(Memory, set)) = Range(Memory) \cap set
        /\ \A rel : Ordered(Memory, rel) => Ordered(Only(Memory, set), rel)
    BY <1>1, OnlyIs
  <1> QED
    BY <1>2, <1>3, <1>4

\* Where the records of a scan come from: the first source is memory, in order, the
\* others are blocks.
SourcesAre(q, sources) ==
    /\ sources \in Seq(Seq(Rec)) /\ Len(sources) >= 1
    /\ sources[1] = Sorted(MemTablesQuery(q), Before)
    /\ \A i \in 2..Len(sources) : \E b \in Candidates(q) :
            sources[i] = BlockSource(q, ssts[b[1]][b[2]])

\* ... each of the candidates once.
EachOnce(q, sources, order) ==
    /\ Len(order) \in Nat /\ Len(sources) = 1 + Len(order)
    /\ \A i \in 1..Len(order) : /\ order[i] \in Candidates(q)
                               /\ sources[1 + i] = BlockSource(q, ssts[order[i][1]][order[i][2]])
    /\ \A b \in Candidates(q) : \E i \in 1..Len(order) : order[i] = b
    /\ \A i, k \in 1..Len(order) : order[i] = order[k] => i = k

LEMMA ScanIs ==
    ASSUME LogOK, MemoryOK, SstsOK, NEW q, NEW out \in Scan(q)
    PROVE  \E sources :
            /\ SourcesAre(q, sources)
            /\ \E order : EachOnce(q, sources, order)
            /\ out \in Drain(sources, Tombstones(q, MemTablesQuery(q),
                                {ssts[b[1]][b[2]] : b \in Candidates(q)}), FALSE)
  <1>1. PICK order : order = SetToSeq(Candidates(q))
    OBVIOUS
  <1>2. Candidates(q) \subseteq Places /\ IsFiniteSet(Candidates(q))
    <2>1. Candidates(q) \in SUBSET Places
      BY DEF Candidates, Places
    <2> QED
      BY <2>1, PlacesAre, FS_Subset
  <1>3. /\ order \in Seq(Candidates(q))
        /\ \A b \in Candidates(q) : \E i \in 1..Len(order) : order[i] = b
        /\ \A i, k \in 1..Len(order) : order[i] = order[k] => i = k
    BY <1>1, <1>2, SetToSeqIs
  <1>4. PICK n \in Nat : n = Len(order) /\ DOMAIN order = 1..n
    BY <1>3
  <1>5. PICK g : g = [i \in DOMAIN order |-> BlockSource(q, ssts[order[i][1]][order[i][2]])]
    OBVIOUS
  <1>6. \A i \in 1..n : g[i] \in Seq(Rec) /\ \E b \in Candidates(q) :
                                                g[i] = BlockSource(q, ssts[b[1]][b[2]])
    <2> SUFFICES ASSUME NEW i \in 1..n
                 PROVE  g[i] \in Seq(Rec) /\ \E b \in Candidates(q) :
                                                g[i] = BlockSource(q, ssts[b[1]][b[2]])
      OBVIOUS
    <2>1. PICK b : b = order[i]
      OBVIOUS
    <2>2. b \in Candidates(q) /\ g[i] = BlockSource(q, ssts[b[1]][b[2]])
      BY <1>3, <1>4, <1>5, <2>1
    <2>3. b[1] \in DOMAIN ssts /\ b[2] \in 1..Len(ssts[b[1]])
      BY <1>2, <2>2, PlacesAre
    <2>4. ssts[b[1]][b[2]] \in Seq(Rec)
      BY <2>3, SstBlocks
    <2>5. BlockSource(q, ssts[b[1]][b[2]]) \in Seq(Rec)
      BY <2>4, BlockSourceIs
    <2> QED
      BY <2>2, <2>5
  <1>7. g \in Seq(Seq(Rec)) /\ Len(g) = n
    <2>1. g \in [1..n -> Seq(Rec)]
      BY <1>4, <1>5, <1>6
    <2> QED
      BY ONLY <2>1, n \in Nat
  <1>8. PICK m : m = Sorted(MemTablesQuery(q), Before)
    OBVIOUS
  <1>9. m \in Seq(Rec)
    BY <1>8, MemTablesQueryIs, SortedBefore
  <1>10. PICK a, sources : a = <<m>> /\ sources = a \o g
    OBVIOUS
  <1>11. a \in Seq(Seq(Rec)) /\ Len(a) = 1 /\ a[1] = m
    BY <1>9, <1>10
  <1>12. /\ sources \in Seq(Seq(Rec)) /\ Len(sources) = Len(a) + Len(g)
         /\ \A i \in 1..Len(a) : sources[i] = a[i]
         /\ \A i \in 1..Len(g) : sources[Len(a) + i] = g[i]
    BY ONLY <1>7, <1>10, <1>11, ConcatAt
  <1>13. \A i \in 2..Len(sources) : \E b \in Candidates(q) :
            sources[i] = BlockSource(q, ssts[b[1]][b[2]])
    <2> SUFFICES ASSUME NEW i \in 2..Len(sources)
                 PROVE  \E b \in Candidates(q) :
                            sources[i] = BlockSource(q, ssts[b[1]][b[2]])
      OBVIOUS
    <2>1. PICK j : j = i - 1
      OBVIOUS
    <2>2. j \in 1..n /\ i = 1 + j
      BY <1>7, <1>11, <1>12, <2>1
    <2>3. sources[i] = g[j]
      BY <1>7, <1>11, <1>12, <2>2
    <2> QED
      BY <1>6, <2>2, <2>3
  <1>14. SourcesAre(q, sources)
    <2>1. Len(sources) = 1 + n /\ sources[1] = m
      BY <1>7, <1>11, <1>12
    <2> QED
      BY <1>8, <1>12, <1>13, <2>1 DEF SourcesAre
  <1>15. out \in Drain(sources, Tombstones(q, MemTablesQuery(q),
                            {ssts[b[1]][b[2]] : b \in Candidates(q)}), FALSE)
    BY <1>1, <1>5, <1>8, <1>10 DEF Scan
  <1>16. EachOnce(q, sources, order)
    <2>1. \A i \in 1..n : /\ order[i] \in Candidates(q) /\ sources[1 + i] = g[i]
                          /\ g[i] = BlockSource(q, ssts[order[i][1]][order[i][2]])
      BY <1>3, <1>4, <1>5, <1>7, <1>11, <1>12
    <2>2. Len(sources) = 1 + n /\ Len(order) = n
      BY <1>4, <1>7, <1>11, <1>12
    <2> QED
      BY <1>3, <2>1, <2>2 DEF EachOnce
  <1> QED
    BY <1>14, <1>15, <1>16

\* The largest expiry of a block is that of one of its records.
LEMMA MaxExpIs ==
    ASSUME NEW block \in Seq(Rec), Len(block) # 0, NEW r \in Range(block)
    PROVE  Info(block).maxExp \in Nat /\ r.exp <= Info(block).maxExp
  <1>1. PICK n \in Nat \ {0} : n = Len(block) /\ DOMAIN block = 1..n
    OBVIOUS
  <1>2. PICK f : f = [i \in 1..n |-> block[i].exp]
    OBVIOUS
  <1>3. \A i \in 1..n : f[i] \in Nat /\ f[i] = block[i].exp
    <2>1. \A i \in 1..n : block[i] \in Rec
      BY <1>1
    <2>2. \A x \in Rec : x.exp \in Nat
      BY DEF Rec
    <2> QED
      BY <1>2, <2>1, <2>2
  <1>4. PICK m \in 1..n : \A j \in 1..n : f[j] <= f[m]
    BY <1>3, GreatestOf
  <1>5. PICK S : S = {block[i].exp : i \in DOMAIN block}
    OBVIOUS
  <1>6. S \in SUBSET Int /\ f[m] \in S /\ \A y \in S : y <= f[m]
    BY <1>1, <1>3, <1>4, <1>5
  <1>7. Max(S) = f[m]
    BY <1>6, MaxIs
  <1>8. Info(block).maxExp = f[m]
    BY <1>5, <1>7 DEF Info
  <1>9. r.exp \in S
    BY <1>1, <1>5, RangeAt
  <1> QED
    BY <1>3, <1>6, <1>8, <1>9

\* A full scan meets every range delete that is in a block, or in memory up to "~".
LEMMA ScanSeesRange ==
    ASSUME LookupInv, NEW g \in Range(log), g.op = "range",
           Homes(g) # {} \/ (InMemory(g) /\ g.key <= Tilde)
    PROVE  \E t \in Tombstones(AllKeys, MemTablesQuery(AllKeys),
                        {ssts[b[1]][b[2]] : b \in Candidates(AllKeys)}) :
                t.key = g.key /\ t.end = g.end
  <1>0. LogOK /\ MemoryOK /\ SstsOK /\ now \in 1..MaxNow
    BY DEF LookupInv, PatchOK
  <1>1. g \in Rec /\ g.exp = Never /\ Never > now
    <2>1. g \in Rec /\ g.exp = Never
      BY <1>0, LogIs
    <2>2. Never > now
      BY <1>0, Numbers, LookupAssumption
    <2> QED
      BY <2>1, <2>2
  <1>2. AllKeys.kind = "all" /\ AllKeys.time = <<>> /\ AllKeys.lo = 0 /\ AllKeys.hi = MaxKey
    BY DEF AllKeys, Query
  <1>3. CASE InMemory(g) /\ g.key <= Tilde
    <2>1. Matches(AllKeys, g)
      <3>1. g.key \in 1..MaxKey
        BY <1>1 DEF Rec, Keys
      <3>2. g.key \in 0..MaxKey
        BY <3>1, Numbers
      <3> QED
        BY <1>2, <3>2 DEF Matches, InTime
    <2>2. g \in Range(MemTablesQuery(AllKeys))
      <3>1. g.exp >= now
        BY <1>0, <1>1, Numbers
      <3> QED
        BY <1>0, <1>3, <2>1, <3>1, MemTablesQueryIs DEF InMemory
    <2>3. g \in RangesOf(MemTablesQuery(AllKeys))
      BY <1>1, <2>2 DEF RangesOf
    <2> QED
      BY <2>3 DEF Tombstones
  <1>4. CASE Homes(g) # {}
    <2>1. PICK b \in Places : HeldBy(g, ssts[b[1]][b[2]])
      BY <1>4 DEF Homes, Places
    <2>2. PICK block : block = ssts[b[1]][b[2]]
      OBVIOUS
    <2>3. b[1] \in DOMAIN ssts /\ b[2] \in 1..Len(ssts[b[1]])
      BY <1>0, PlacesAre
    <2>4. block \in Seq(Rec) /\ Len(block) \in 1..BlockSize
      BY <1>0, <2>2, <2>3, SstBlocks
    <2>5. PICK t : t = Stored(g)
      OBVIOUS
    <2>6. t \in Range(block) /\ t.op = "range" /\ t.exp = Never /\ t.key = g.key
          /\ t.end = g.end
      BY <1>1, <2>1, <2>2, <2>5, StoredIs DEF HeldBy
    <2>7. ~IsExpired(Info(block))
      <3>1. Len(block) # 0
        BY <2>4, Numbers
      <3>2. Info(block).maxExp \in Nat /\ t.exp <= Info(block).maxExp
        BY <2>4, <2>6, <3>1, MaxExpIs
      <3> QED
        BY <1>0, <1>1, <2>6, <3>2, Numbers DEF IsExpired
    <2>8. b \in Candidates(AllKeys)
      BY <1>2, <2>2, <2>7 DEF Candidates, Places, OverlapsKey, InTimeSet
    <2>9. t \in RangesOf(block)
      BY <1>1, <2>6 DEF RangesOf
    <2> QED
      BY <2>2, <2>6, <2>8, <2>9 DEF Tombstones
  <1> QED
    BY <1>3, <1>4

\* Engine::delete_range: as long as the range delete is in a memtable or an SST, a full
\* scan returns nothing in its range that was written before it, whatever flushes,
\* merges and garbage collection have done.
THEOREM RangeDeletesHide == Spec => []RangeDeleteHides
  <1>1. ASSUME LookupInv PROVE RangeDeleteHides
    <2>0. LogOK /\ MemoryOK /\ SstsOK
      BY <1>1 DEF LookupInv
    <2>1. SUFFICES ASSUME NEW out \in Scan(AllKeys), NEW i \in DOMAIN out,
                          NEW g \in Range(log), g.op = "range",
                          Homes(g) # {} \/ (InMemory(g) /\ g.key <= Tilde),
                          g.key <= out[i].key /\ out[i].key < g.end
                   PROVE  FALSE
      BY DEF RangeDeleteHides
    <2>2. PICK tombs : tombs = Tombstones(AllKeys, MemTablesQuery(AllKeys),
                                    {ssts[b[1]][b[2]] : b \in Candidates(AllKeys)})
      OBVIOUS
    <2>3. PICK sources : SourcesAre(AllKeys, sources) /\ out \in Drain(sources, tombs, FALSE)
      BY <2>0, <2>2, ScanIs
    <2>4. out \in Seq(Rec) /\ \A r \in Range(out) : ~IsTombstoned(r, tombs)
      BY <2>3, DrainIs DEF SourcesAre
    <2>5. out[i] \in Range(out)
      BY DEF Range
    <2>6. PICK t \in tombs : t.key = g.key /\ t.end = g.end
      BY <1>1, <2>1, <2>2, ScanSeesRange
    <2>7. IsTombstoned(out[i], tombs)
      BY <2>1, <2>6 DEF IsTombstoned
    <2> QED
      BY <2>4, <2>5, <2>7
  <1> QED
    BY <1>1, Invariant, PTL

\* The file of a flush is in ascending order of keys and time stamps.
LEMMA FlushedAscending ==
    ASSUME LogOK, SstsOK, NEW id \in DOMAIN ssts, id \notin merged
    PROVE  /\ IsAscending(RecordsOf(ssts[id]))
           /\ \A b \in 1..Len(ssts[id]) : Ordered(ssts[id][b], AscendingKeys)
  <1>1. PICK recs : WrittenTo(id, recs)
    BY DEF SstsOK
  <1>2. recs \in Seq(Rec) /\ ssts[id] = Blocks(recs) /\ Ordered(recs, AscendingKeys)
    BY <1>1 DEF WrittenTo
  <1>3. PICK flat : flat = RecordsOf(ssts[id])
    OBVIOUS
  <1>4. flat = [i \in 1..Len(recs) |-> Stored(recs[i])]
    BY <1>2, <1>3, BlocksFlatten DEF RecordsOf
  <1>5. ASSUME NEW i \in 1..Len(recs), NEW j \in 1..Len(recs), i < j
        PROVE  ~KeyTsBefore(Stored(recs[j]), Stored(recs[i]))
    <2>1. recs[i] \in Rec /\ recs[j] \in Rec
      BY <1>2
    <2>2. ~KeyTsBefore(recs[j], recs[i])
      BY <1>2, <1>5 DEF Ordered, AscendingKeys
    <2> QED
      BY <2>1, <2>2, StoredIs DEF KeyTsBefore
  <1>6. IsAscending(flat)
    <2>1. PICK n \in Nat : n = Len(recs)
      BY <1>2
    <2>2. \A i \in 1..n : Stored(recs[i]) \in Rec
      BY <1>2, <2>1, StoredIs
    <2>3. flat \in [1..n -> Rec]
      BY <1>4, <2>1, <2>2
    <2>4. Len(flat) = n
      BY ONLY <2>3, n \in Nat
    <2>5. ASSUME NEW i \in 1..(n - 1) PROVE ~KeyTsBefore(flat[i + 1], flat[i])
      <3>1. i \in 1..n /\ i + 1 \in 1..n /\ i < i + 1
        OBVIOUS
      <3>2. flat[i] = Stored(recs[i]) /\ flat[i + 1] = Stored(recs[i + 1])
        BY <1>4, <2>1, <3>1
      <3> QED
        BY <1>5, <2>1, <3>1, <3>2
    <2> QED
      BY <2>4, <2>5 DEF IsAscending
  <1>7. ASSUME NEW b \in 1..Len(ssts[id]) PROVE Ordered(ssts[id][b], AscendingKeys)
    <2>1. PICK blocks : blocks = Blocks(recs)
      OBVIOUS
    <2>2. blocks \in Seq(Seq(Rec)) /\ BlockIs(blocks, recs, b)
      BY <1>2, <1>7, <2>1, BlocksAre
    <2>3. PICK d : d = (b - 1) * BlockSize
      OBVIOUS
    <2>4. PICK t : t = blocks[b]
      OBVIOUS
    <2>5. \A i \in 1..Len(t) : d + i \in 1..Len(recs) /\ t[i] = Stored(recs[d + i])
      BY <2>2, <2>3, <2>4 DEF BlockIs
    <2>6. d \in Int
      <3>1. b - 1 \in Int /\ BlockSize \in Int
        BY Numbers
      <3> QED
        BY <2>3, <3>1
    <2>7. t \in Seq(Rec)
      BY <1>2, <1>7, <2>1, <2>2, <2>4
    <2>8. ASSUME NEW i \in 1..Len(t), NEW j \in 1..Len(t), i < j
          PROVE  <<t[i], t[j]>> \in AscendingKeys
      <3>1. d + i \in 1..Len(recs) /\ d + j \in 1..Len(recs) /\ d + i < d + j
        BY <2>5, <2>6, <2>8
      <3>2. ~KeyTsBefore(Stored(recs[d + j]), Stored(recs[d + i]))
        BY <1>5, <3>1
      <3>3. t[i] \in Rec /\ t[j] \in Rec
        BY <2>7
      <3> QED
        BY <2>5, <3>2, <3>3 DEF AscendingKeys
    <2>9. Ordered(t, AscendingKeys)
      BY <2>8 DEF Ordered
    <2> QED
      BY <1>2, <2>1, <2>4, <2>9
  <1> QED
    BY <1>3, <1>6, <1>7

LEMMA RecIsRecord ==
    ASSUME NEW r \in Rec
    PROVE  IsRecord(r)
  BY DEF Rec, Ops, IsRecord

\* The tables have the shape that do_flush, the SST writers and the merges give them:
\* sorted frozen tables, full blocks but for the last, flushed files in ascending order.
THEOREM TablesShaped == Spec => []TypeOK
  <1>1. ASSUME LookupInv PROVE TypeOK
    <2>0. LogOK /\ MemoryOK /\ SstsOK /\ PatchOK
      BY <1>1 DEF LookupInv
    <2>1. \A r \in Range(Memory) : IsRecord(r) /\ r.seq \in 1..Len(log)
      BY <2>0, MemoryIs, LogIs, RecIsRecord
    <2>2. Len(frozen) <= 1 /\ merged \subseteq DOMAIN ssts /\ now \in 1..MaxNow
      BY <2>0 DEF MemoryOK, SstsOK, PatchOK
    <2>3. \A p \in Patchers : patch[p].pc \in {"idle", "write"}
      BY <2>0 DEF PatchOK, Patching, IdlePatch
    <2>4. ASSUME NEW id \in DOMAIN ssts, NEW b \in DOMAIN ssts[id]
          PROVE  /\ Len(ssts[id][b]) \in 1..BlockSize
                 /\ b < Len(ssts[id]) => Len(ssts[id][b]) = BlockSize
                 /\ \A r \in Range(ssts[id][b]) : IsRecord(r)
      <3>1. b \in 1..Len(ssts[id])
        BY <2>0, SstBlocks
      <3>2. /\ Len(ssts[id][b]) \in 1..BlockSize
            /\ b < Len(ssts[id]) => Len(ssts[id][b]) = BlockSize
            /\ Range(ssts[id][b]) \subseteq Held
        BY <2>0, <3>1, SstBlocks
      <3>3. \A r \in Range(ssts[id][b]) : IsRecord(r)
        BY <2>0, <3>2, HeldIs, RecIsRecord
      <3> QED
        BY <3>2, <3>3
    <2>5. \A id \in DOMAIN ssts : id \notin merged => IsAscending(RecordsOf(ssts[id]))
      BY <2>0, FlushedAscending
    <2> QED
      BY <2>1, <2>2, <2>3, <2>4, <2>5 DEF TypeOK
  <1> QED
    BY <1>1, Invariant, PTL

-----------------------------------------------------------------------------
(* The newest version in memory, in a scan *)

\* The first source holds r, the newest version, and is sorted; a source that has other
\* versions is in ascending order.
Guarded(sources, idx, r) ==
    /\ sources \in Seq(Seq(Rec)) /\ Len(sources) >= 1
    /\ idx \in 1..Len(sources[1]) /\ sources[1][idx] = r /\ r \in Rec
    /\ Ordered(sources[1], Ascending)
    /\ \A i \in DOMAIN sources : \A x \in Range(sources[i]) : At(x) = At(r) =>
            Ordered(sources[i], AscendingKeys) /\ (x = r \/ x.seq < r.seq)

\* No version is left in the sources.
AllPopped(sources, pos, r) ==
    \A i \in DOMAIN sources : \A j \in 1..Len(sources[i]) :
        pos[i] < j => At(sources[i][j]) # At(r)

\* The last pop was a version, and none of the next records comes before it.
AmongVersions(sources, run, r) ==
    /\ run.last = At(r)
    /\ \A i \in DOMAIN sources :
        run.pos[i] < Len(sources[i]) => ~KeyTsBefore(sources[i][run.pos[i] + 1], r)

LEMMA FirstIs ==
    ASSUME NEW sources, NEW pos, NEW descending, ~descending,
           NEW i \in FirstSources(sources, pos, descending),
           NEW j \in DOMAIN sources, pos[j] < Len(sources[j])
    PROVE  ~Before(sources[j][pos[j] + 1], sources[i][pos[i] + 1])
  BY DEF FirstSources

LEMMA OrderIs ==
    ASSUME NEW a \in Rec, NEW b \in Rec
    PROVE  /\ KeyTsBefore(a, b) <=> (a.key < b.key \/ (a.key = b.key /\ a.ts < b.ts))
           /\ At(a) = At(b) <=> (a.key = b.key /\ a.ts = b.ts)
           /\ Before(a, b) <=> (KeyTsBefore(a, b) \/ (At(a) = At(b) /\ a.seq > b.seq))
           /\ ~KeyTsBefore(a, b) /\ ~KeyTsBefore(b, a) => At(a) = At(b)
  <1>1. /\ KeyTsBefore(a, b) <=> (a.key < b.key \/ (a.key = b.key /\ a.ts < b.ts))
        /\ KeyTsBefore(b, a) <=> (b.key < a.key \/ (b.key = a.key /\ b.ts < a.ts))
        /\ At(a) = At(b) <=> (a.key = b.key /\ a.ts = b.ts)
        /\ Before(a, b) <=> (KeyTsBefore(a, b) \/ (At(a) = At(b) /\ a.seq > b.seq))
    BY DEF KeyTsBefore, At, Before
  <1>2. a.key \in Int /\ b.key \in Int /\ a.ts \in Int /\ b.ts \in Int
    BY RecNumbers
  <1> QED
    BY <1>1, <1>2

\* What comes after something that does not come after.
LEMMA BeforeChain ==
    ASSUME NEW a \in Rec, NEW b \in Rec, NEW c \in Rec, ~Before(b, a), Before(b, c)
    PROVE  Before(a, c)
  <1>1. /\ a.key \in Int /\ b.key \in Int /\ c.key \in Int
        /\ a.ts \in Int /\ b.ts \in Int /\ c.ts \in Int
        /\ a.seq \in Int /\ b.seq \in Int /\ c.seq \in Int
    BY RecNumbers
  <1>2. \/ b.key < c.key \/ (b.key = c.key /\ b.ts < c.ts)
        \/ (b.key = c.key /\ b.ts = c.ts /\ b.seq > c.seq)
    BY BeforeIs
  <1>3. ~(\/ b.key < a.key \/ (b.key = a.key /\ b.ts < a.ts)
          \/ (b.key = a.key /\ b.ts = a.ts /\ b.seq > a.seq))
    BY BeforeIs
  <1>4. \/ a.key < c.key \/ (a.key = c.key /\ a.ts < c.ts)
        \/ (a.key = c.key /\ a.ts = c.ts /\ a.seq > c.seq)
    BY ONLY <1>1, <1>2, <1>3
  <1> QED
    BY <1>4, BeforeIs

\* Of two records of a source in order, the later one.
LEMMA InOrder ==
    ASSUME NEW s \in Seq(Rec), NEW i \in 1..Len(s), NEW j \in 1..Len(s), i <= j
    PROVE  /\ Ordered(s, Ascending) => ~Before(s[j], s[i])
           /\ Ordered(s, AscendingKeys) => ~KeyTsBefore(s[j], s[i])
  <1>1. s[i] \in Rec /\ s[j] \in Rec
    OBVIOUS
  <1>2. CASE i = j
    <2>1. s[i].key \in Int /\ s[i].ts \in Int /\ s[i].seq \in Int
      BY <1>1, RecNumbers
    <2> QED
      BY <1>2, <2>1 DEF Before, KeyTsBefore
  <1>3. CASE i < j
    <2>1. ASSUME Ordered(s, Ascending) PROVE ~Before(s[j], s[i])
      BY <1>3, <2>1 DEF Ordered, Ascending
    <2>2. ASSUME Ordered(s, AscendingKeys) PROVE ~KeyTsBefore(s[j], s[i])
      BY <1>3, <2>2 DEF Ordered, AscendingKeys
    <2> QED
      BY <2>1, <2>2
  <1> QED
    BY <1>2, <1>3

\* As long as r has not been popped, no other version is.
LEMMA PopsNewestFirst ==
    ASSUME NEW sources, NEW idx, NEW r, Guarded(sources, idx, r),
           NEW run \in Runs(sources), run.pos[1] < idx,
           NEW descending, ~descending, NEW i \in FirstSources(sources, run.pos, descending),
           NEW x, x = sources[i][run.pos[i] + 1], At(x) = At(r)
    PROVE  x = r
  <1>0. sources \in Seq(Seq(Rec)) /\ Len(sources) >= 1
    BY DEF Guarded
  <1>1. /\ i \in DOMAIN sources /\ sources[i] \in Seq(Rec)
        /\ run.pos[i] + 1 \in 1..Len(sources[i]) /\ x \in Rec
    BY <1>0, FirstSourcesIs
  <1>2. x \in Range(sources[i])
    BY <1>1, RangeSeq
  <1>3. x = r \/ x.seq < r.seq
    BY <1>1, <1>2 DEF Guarded
  <1>4. 1 \in DOMAIN sources /\ run.pos[1] \in Nat
    <2>1. 1 \in DOMAIN sources
      BY <1>0
    <2> QED
      BY <2>1 DEF Runs
  <1>5. PICK s, k : s = sources[1] /\ k = run.pos[1] + 1
    OBVIOUS
  <1>6. /\ s \in Seq(Rec) /\ idx \in 1..Len(s) /\ s[idx] = r /\ r \in Rec
        /\ Ordered(s, Ascending)
    BY <1>0, <1>4, <1>5 DEF Guarded
  <1>7. k \in 1..Len(s) /\ k <= idx /\ run.pos[1] < Len(s)
    BY <1>4, <1>5, <1>6
  <1>8. s[k] \in Rec
    BY <1>6, <1>7
  <1>9. ~Before(r, s[k])
    BY <1>6, <1>7, InOrder
  <1>10. ~Before(s[k], x)
    BY <1>1, <1>4, <1>5, <1>7, FirstIs
  <1>11. ~Before(r, x)
    BY <1>1, <1>6, <1>8, <1>9, <1>10, BeforeChain
  <1>12. ~(x.seq < r.seq)
    <2>1. x.seq \in Int /\ r.seq \in Int
      BY <1>1, <1>6, RecNumbers
    <2> QED
      BY <1>1, <1>6, <1>11, <2>1, OrderIs
  <1> QED
    BY <1>3, <1>12

\* The pop of r: what is left comes after it.
LEMMA PopsNewest ==
    ASSUME NEW sources, NEW idx, NEW r, Guarded(sources, idx, r),
           NEW run \in Runs(sources), NEW tombstones,
           NEW descending, ~descending, NEW i \in FirstSources(sources, run.pos, descending),
           NEW x, x = sources[i][run.pos[i] + 1],
           NEW new, PopIs(run, i, x, tombstones, new),
           run.pos[1] < idx, idx <= new.pos[1]
    PROVE  AmongVersions(sources, new, r)
  <1>0. sources \in Seq(Seq(Rec)) /\ Len(sources) >= 1
    BY DEF Guarded
  <1>1. /\ i \in DOMAIN sources /\ sources[i] \in Seq(Rec) /\ run.pos[i] \in Nat
        /\ run.pos[i] + 1 \in 1..Len(sources[i]) /\ x \in Rec
    BY <1>0, FirstSourcesIs
  <1>2. /\ run.pos \in [DOMAIN sources -> Nat]
        /\ new.pos = [run.pos EXCEPT ![i] = run.pos[i] + 1] /\ new.last = At(x)
    BY DEF Runs, PopIs
  <1>3. 1 \in DOMAIN sources /\ idx \in Nat
    <2>1. 1 \in DOMAIN sources
      BY <1>0
    <2>2. sources[1] \in Seq(Rec) /\ idx \in 1..Len(sources[1])
      BY <1>0, <2>1 DEF Guarded
    <2> QED
      BY <2>1, <2>2
  <1>4. i = 1 /\ run.pos[1] + 1 = idx
    <2>1. CASE i # 1
      BY <1>2, <1>3, <2>1
    <2>2. CASE i = 1
      <3>1. new.pos[1] = run.pos[1] + 1 /\ run.pos[1] \in Nat
        BY <1>1, <1>2, <2>2
      <3> QED
        BY <1>3, <2>2, <3>1
    <2> QED
      BY <2>1, <2>2
  <1>5. x = r /\ Ordered(sources[1], Ascending)
    BY <1>4 DEF Guarded
  <1>6. ASSUME NEW j \in DOMAIN sources, new.pos[j] < Len(sources[j])
        PROVE  ~KeyTsBefore(sources[j][new.pos[j] + 1], r)
    <2>1. PICK s, n : s = sources[j] /\ n = new.pos[j]
      OBVIOUS
    <2>2. s \in Seq(Rec) /\ n \in Nat /\ n + 1 \in 1..Len(s)
      <3>1. s \in Seq(Rec)
        BY <1>0, <2>1
      <3>2. n \in Nat
        BY <1>1, <1>2, <2>1
      <3>3. n < Len(s)
        BY <1>6, <2>1
      <3> QED
        BY <3>1, <3>2, <3>3
    <2>3. s[n + 1] \in Rec
      BY <2>2
    <2>4. ~Before(s[n + 1], r)
      <3>1. CASE j = 1
        <4>1. n = idx
          BY <1>1, <1>2, <1>4, <2>1, <3>1
        <4>2. n \in 1..Len(s) /\ s[n] = r /\ n <= n + 1
          BY <1>1, <1>4, <1>5, <2>1, <2>2, <3>1, <4>1
        <4> QED
          BY <1>5, <2>1, <2>2, <3>1, <4>2, InOrder
      <3>2. CASE j # 1
        <4>1. n = run.pos[j]
          BY <1>2, <1>4, <2>1, <3>2
        <4> QED
          BY <1>4, <1>5, <1>6, <2>1, <4>1, FirstIs
      <3> QED
        BY <3>1, <3>2
    <2> QED
      BY <1>1, <1>5, <2>1, <2>3, <2>4, OrderIs
  <1> QED
    BY <1>2, <1>5, <1>6 DEF AmongVersions

LEMMA SameAt ==
    ASSUME NEW a \in Rec, NEW b \in Rec, NEW c \in Rec, At(a) = At(b)
    PROVE  /\ KeyTsBefore(a, c) <=> KeyTsBefore(b, c)
           /\ KeyTsBefore(c, a) <=> KeyTsBefore(c, b)
  <1>1. a.key = b.key /\ a.ts = b.ts
    BY OrderIs
  <1> QED
    BY <1>1 DEF KeyTsBefore

\* A pop among the versions: of another version, or when none is left.
LEMMA PopsAmong ==
    ASSUME NEW sources, NEW idx, NEW r, Guarded(sources, idx, r),
           NEW run \in Runs(sources), NEW tombstones,
           NEW descending, ~descending, NEW i \in FirstSources(sources, run.pos, descending),
           NEW x, x = sources[i][run.pos[i] + 1],
           NEW new, PopIs(run, i, x, tombstones, new), AmongVersions(sources, run, r)
    PROVE  AllPopped(sources, new.pos, r) \/ AmongVersions(sources, new, r)
  <1>0. sources \in Seq(Seq(Rec)) /\ r \in Rec
    BY DEF Guarded
  <1>1. /\ i \in DOMAIN sources /\ sources[i] \in Seq(Rec) /\ run.pos[i] \in Nat
        /\ run.pos[i] + 1 \in 1..Len(sources[i]) /\ x \in Rec
    BY <1>0, FirstSourcesIs
  <1>2. /\ run.pos \in [DOMAIN sources -> Nat]
        /\ new.pos = [run.pos EXCEPT ![i] = run.pos[i] + 1] /\ new.last = At(x)
    BY DEF Runs, PopIs
  <1>3. CASE At(x) = At(r)
    <2>1. ASSUME NEW j \in DOMAIN sources, new.pos[j] < Len(sources[j])
          PROVE  ~KeyTsBefore(sources[j][new.pos[j] + 1], r)
      <3>1. CASE j # i
        <4>1. new.pos[j] = run.pos[j]
          BY <1>2, <3>1
        <4> QED
          BY <2>1, <4>1 DEF AmongVersions
      <3>2. CASE j = i
        <4>1. PICK s, n : s = sources[i] /\ n = run.pos[i] + 1
          OBVIOUS
        <4>2. new.pos[j] = n
          BY <1>1, <1>2, <3>2, <4>1
        <4>3. s \in Seq(Rec) /\ n \in 1..Len(s) /\ n + 1 \in 1..Len(s) /\ n <= n + 1
          BY <1>1, <2>1, <3>2, <4>1, <4>2
        <4>4. x \in Range(s) /\ x = s[n]
          BY <1>1, <4>1, <4>3, RangeSeq
        <4>5. Ordered(s, AscendingKeys)
          BY <1>1, <1>3, <4>1, <4>4 DEF Guarded
        <4>6. ~KeyTsBefore(s[n + 1], x)
          BY <4>3, <4>4, <4>5, InOrder
        <4>7. s[n + 1] \in Rec
          BY <4>3
        <4> QED
          BY <1>0, <1>1, <1>3, <3>2, <4>1, <4>2, <4>6, <4>7, SameAt
      <3> QED
        BY <3>1, <3>2
    <2> QED
      BY <1>2, <1>3, <2>1 DEF AmongVersions
  <1>4. CASE At(x) # At(r)
    <2>1. run.pos[i] < Len(sources[i])
      BY <1>1
    <2>2. ~KeyTsBefore(x, r)
      BY <1>1, <2>1 DEF AmongVersions
    <2>3. KeyTsBefore(r, x)
      BY <1>0, <1>1, <1>4, <2>2, OrderIs
    <2>4. ASSUME NEW j \in DOMAIN sources, NEW m \in 1..Len(sources[j]), new.pos[j] < m,
                 At(sources[j][m]) = At(r)
          PROVE  FALSE
      <3>1. PICK s, n : s = sources[j] /\ n = run.pos[j]
        OBVIOUS
      <3>2. s \in Seq(Rec) /\ m \in 1..Len(s)
        BY <1>0, <2>4, <3>1
      <3>3. n \in Nat /\ n < m
        <4>1. new.pos[j] = n \/ new.pos[j] = n + 1
          BY <1>1, <1>2, <3>1
        <4>2. n \in Nat
          BY <1>2, <3>1
        <4> QED
          BY <2>4, <3>2, <4>1, <4>2
      <3>4. n + 1 \in 1..Len(s) /\ n + 1 <= m /\ n < Len(s)
        BY <3>2, <3>3
      <3>5. PICK y : y = s[n + 1]
        OBVIOUS
      <3>6. y \in Rec /\ s[m] \in Rec
        BY <3>2, <3>4, <3>5
      <3>7. s[m] \in Range(s)
        BY <3>2, RangeSeq
      <3>8. Ordered(s, AscendingKeys)
        BY <2>4, <3>1, <3>7 DEF Guarded
      <3>9. ~KeyTsBefore(s[m], y)
        BY <3>2, <3>4, <3>5, <3>8, InOrder
      <3>10. ~KeyTsBefore(r, y)
        BY <1>0, <2>4, <3>1, <3>6, <3>9, SameAt
      <3>11. ~KeyTsBefore(y, r)
        BY <3>1, <3>4, <3>5 DEF AmongVersions
      <3>12. At(y) = At(r)
        BY <1>0, <3>6, <3>10, <3>11, OrderIs
      <3>13. KeyTsBefore(y, x)
        BY <1>0, <1>1, <2>3, <3>6, <3>12, SameAt
      <3>14. ~Before(y, x)
        BY <3>1, <3>4, <3>5, FirstIs
      <3> QED
        BY <1>1, <3>6, <3>13, <3>14, OrderIs
    <2> QED
      BY <2>4 DEF AllPopped
  <1> QED
    BY <1>3, <1>4

\* A scan returns no version but the newest.
LEMMA DrainNewest ==
    ASSUME NEW sources, NEW idx, NEW r, Guarded(sources, idx, r), NEW tombstones,
           NEW descending, ~descending, NEW out \in Drain(sources, tombstones, descending)
    PROVE  out \in Seq(Rec) /\ \A x \in Range(out) : At(x) = At(r) => x = r
  <1> DEFINE Good == {x \in Rec : At(x) = At(r) => x = r}
             J == {run \in Runs(sources) :
                    /\ Range(run.out) \subseteq Good
                    /\ \/ run.pos[1] < idx
                       \/ AllPopped(sources, run.pos, r)
                       \/ AmongVersions(sources, run, r)}
  <1>0. sources \in Seq(Seq(Rec)) /\ 1 \in DOMAIN sources /\ idx \in Nat \ {0}
    <2>1. sources \in Seq(Seq(Rec)) /\ 1 \in DOMAIN sources
      BY DEF Guarded
    <2>2. sources[1] \in Seq(Rec) /\ idx \in 1..Len(sources[1])
      BY <2>1 DEF Guarded
    <2> QED
      BY <2>1, <2>2
  <1>1. StartRun(sources) \in J
    <2>1. StartRun(sources) \in Runs(sources)
      BY <1>0 DEF StartRun, Runs
    <2>2. Range(StartRun(sources).out) \subseteq Good
      BY DEF StartRun, Range
    <2>3. StartRun(sources).pos[1] = 0
      BY <1>0 DEF StartRun
    <2> QED
      BY <1>0, <2>1, <2>2, <2>3
  <1>2. Keeps(J, sources, tombstones, descending)
    <2> SUFFICES ASSUME NEW run \in J, NEW i \in FirstSources(sources, run.pos, descending)
                 PROVE  Popped(run, i, sources[i][run.pos[i] + 1], tombstones) \in J
      BY DEF Keeps
    <2>1. PICK x, new : /\ x = sources[i][run.pos[i] + 1]
                        /\ new = Popped(run, i, x, tombstones)
      OBVIOUS
    <2>2. run \in Runs(sources) /\ Range(run.out) \subseteq Good /\ run.out \in Seq(Rec)
      BY DEF Runs
    <2>3. new \in Runs(sources) /\ x \in Rec /\ PopIs(run, i, x, tombstones, new)
      BY <1>0, <2>1, <2>2, PoppedIs
    <2>4. /\ i \in DOMAIN sources /\ run.pos[i] \in Nat
          /\ run.pos[i] + 1 \in 1..Len(sources[i])
      BY <1>0, <2>2, FirstSourcesIs
    <2>5. run.pos \in [DOMAIN sources -> Nat] /\ new.pos \in [DOMAIN sources -> Nat]
      BY <2>2, <2>3 DEF Runs
    <2>6. \/ new.pos[1] < idx \/ AllPopped(sources, new.pos, r)
          \/ AmongVersions(sources, new, r)
      <3>1. CASE run.pos[1] < idx
        <4>1. new.pos[1] < idx \/ idx <= new.pos[1]
          BY <1>0, <2>5
        <4> QED
          BY <2>1, <2>2, <2>3, <3>1, <4>1, PopsNewest
      <3>2. CASE AllPopped(sources, run.pos, r)
        <4>1. \A j \in DOMAIN sources : run.pos[j] <= new.pos[j]
          BY <2>3, <2>4, <2>5 DEF PopIs
        <4>2. \A j \in DOMAIN sources : \A m \in 1..Len(sources[j]) :
                    new.pos[j] < m => run.pos[j] < m
          BY <2>5, <4>1
        <4> QED
          BY <3>2, <4>2 DEF AllPopped
      <3>3. CASE AmongVersions(sources, run, r)
        BY <2>1, <2>2, <2>3, <3>3, PopsAmong
      <3>4. run.pos[1] < idx \/ AllPopped(sources, run.pos, r) \/ AmongVersions(sources, run, r)
        OBVIOUS
      <3> QED
        BY ONLY <3>1, <3>2, <3>3, <3>4
    <2>7. ASSUME At(x) = At(r) PROVE x = r \/ new.out = run.out
      <3>1. CASE run.pos[1] < idx
        <4>1. x = sources[i][run.pos[i] + 1] /\ run \in Runs(sources)
          BY <2>1, <2>2
        <4>2. x = r
          BY ONLY <2>7, <3>1, <4>1, ~descending, Guarded(sources, idx, r), PopsNewestFirst,
                  i \in FirstSources(sources, run.pos, descending)
        <4> QED
          BY <4>2
      <3>2. CASE AllPopped(sources, run.pos, r)
        <4>1. run.pos[i] < run.pos[i] + 1
          BY <2>4
        <4> QED
          BY <2>1, <2>4, <2>7, <3>2, <4>1 DEF AllPopped
      <3>3. CASE AmongVersions(sources, run, r)
        BY <2>3, <2>7, <3>3 DEF AmongVersions, PopIs
      <3>4. run.pos[1] < idx \/ AllPopped(sources, run.pos, r) \/ AmongVersions(sources, run, r)
        OBVIOUS
      <3> QED
        BY ONLY <3>1, <3>2, <3>3, <3>4
    <2>8. Range(new.out) \subseteq Good
      <3>1. CASE new.out = run.out
        BY <2>2, <3>1
      <3>2. CASE new.out # run.out
        <4>1. new.out = Append(run.out, x)
          BY <2>3, <3>2 DEF PopIs
        <4>2. Range(new.out) = Range(run.out) \cup {x}
          BY <2>2, <2>3, <4>1, RangeAppend
        <4>3. x \in Good
          BY <2>3, <2>7, <3>2
        <4> QED
          BY <2>2, <4>2, <4>3
      <3> QED
        BY <3>1, <3>2
    <2> QED
      BY <2>1, <2>3, <2>6, <2>8
  <1>3. PICK run \in J : run \in Runs(sources) /\ run.out = out
    <2>1. PICK K : K = J
      OBVIOUS
    <2> HIDE DEF J
    <2>2. StartRun(sources) \in K /\ Keeps(K, sources, tombstones, descending)
      BY <1>1, <1>2, <2>1
    <2>3. sources \in Seq(Seq(Rec))
      BY <1>0
    <2>4. \A o \in Drain(sources, tombstones, descending) :
                \E run \in K : run \in Runs(sources) /\ run.out = o
      BY ONLY <2>2, <2>3, DrainKeeps
    <2> QED
      BY <2>1, <2>4
  <1> QED
    BY <1>3 DEF Runs

\* r is the newest version of its key and time stamp, memory has it, and no merged
\* SST has another.
Winner(r) ==
    /\ r \in Range(Memory) /\ r.key <= Tilde /\ r.exp >= now
    /\ \A s \in Range(log) : At(s) = At(r) => s.seq <= r.seq
    /\ \A id \in merged : \A s \in Range(RecordsOf(ssts[id])) : At(s) # At(r)

\* The blocks that a scan reads with r.
LEMMA BlockGuarded ==
    ASSUME LookupInv, NEW q, NEW r, Winner(r), NEW b \in Candidates(q),
           NEW s, s = BlockSource(q, ssts[b[1]][b[2]]), NEW x \in Range(s), At(x) = At(r)
    PROVE  Ordered(s, AscendingKeys) /\ x.seq < r.seq
  <1>0. LogOK /\ MemoryOK /\ SstsOK
    BY DEF LookupInv
  <1>1. PICK id, block : id = b[1] /\ block = ssts[id][b[2]]
    OBVIOUS
  <1>2. id \in DOMAIN ssts /\ b[2] \in 1..Len(ssts[id])
    <2>1. b \in Places
      BY DEF Candidates, Places
    <2> QED
      BY <1>0, <1>1, <2>1, PlacesAre
  <1>3. /\ block \in Seq(Rec) /\ Range(block) \subseteq Held
        /\ ssts[id] \in Seq(Seq(Rec))
    BY <1>0, <1>1, <1>2, SstBlocks
  <1>4. s = BlockSource(q, block)
    BY <1>1
  <1>5. Range(s) \subseteq Range(block)
    BY <1>3, <1>4, BlockSourceIs
  <1>6. x.seq < r.seq
    <2>1. x.seq = 0
      BY <1>0, <1>3, <1>5, HeldIs
    <2>2. r.seq \in 1..Len(log) /\ Len(log) \in Nat
      BY <1>0, MemoryIs, LogIs DEF Winner, LogOK
    <2> QED
      BY <2>1, <2>2
  <1>7. id \notin merged
    <2>1. PICK t : t = ssts[id]
      OBVIOUS
    <2>2. Range(FlattenSeq(t)) = UNION {Range(t[i]) : i \in 1..Len(t)}
      BY <1>3, <2>1, FlattenIs
    <2>3. x \in Range(RecordsOf(ssts[id]))
      BY <1>1, <1>2, <1>5, <2>1, <2>2 DEF RecordsOf
    <2> QED
      BY <2>3 DEF Winner
  <1>8. Ordered(block, AscendingKeys)
    BY <1>0, <1>1, <1>2, <1>7, FlushedAscending
  <1>9. Ordered(s, AscendingKeys)
    BY <1>3, <1>4, <1>8, BlockSourceIs
  <1> QED
    BY <1>6, <1>9

LEMMA ScanGuarded ==
    ASSUME LookupInv, NEW q, NEW r, Winner(r), Matches(q, r), NEW sources,
           SourcesAre(q, sources)
    PROVE  \E idx : Guarded(sources, idx, r)
  <1>0. LogOK /\ MemoryOK /\ SstsOK
    BY DEF LookupInv
  <1>1. PICK mem, s : mem = MemTablesQuery(q) /\ s = Sorted(mem, Before)
    OBVIOUS
  <1>2. /\ mem \in Seq(Rec) /\ Range(mem) \subseteq Range(Memory)
        /\ r \in Range(mem)
    BY <1>0, <1>1, MemTablesQueryIs DEF Winner
  <1>3. s \in Seq(Rec) /\ Range(s) = Range(mem) /\ Ordered(s, Ascending)
    BY <1>1, <1>2, SortedBefore
  <1>4. PICK idx \in 1..Len(s) : s[idx] = r
    BY <1>2, <1>3, RangeAt
  <1>5. /\ sources \in Seq(Seq(Rec)) /\ Len(sources) >= 1 /\ sources[1] = s
        /\ \A i \in 2..Len(sources) : \E b \in Candidates(q) :
                sources[i] = BlockSource(q, ssts[b[1]][b[2]])
    BY <1>1 DEF SourcesAre
  <1>6. r \in Rec
    BY <1>3, <1>4
  <1>7. ASSUME NEW i \in DOMAIN sources, NEW x \in Range(sources[i]), At(x) = At(r)
        PROVE  Ordered(sources[i], AscendingKeys) /\ (x = r \/ x.seq < r.seq)
    <2>1. CASE i = 1
      <3>1. Ordered(s, AscendingKeys)
        BY <1>3, AscendingIsByKey, OrderedMore
      <3>2. x \in Range(log) /\ r \in Range(log)
        BY <1>0, <1>2, <1>3, <1>5, <1>7, <2>1, MemoryIs
      <3>3. x.seq <= r.seq
        BY <1>7, <3>2 DEF Winner
      <3>4. x.seq \in Int /\ r.seq \in Int /\ (x.seq = r.seq => x = r)
        BY <1>0, <3>2, LogIs
      <3> QED
        BY <1>5, <2>1, <3>1, <3>3, <3>4
    <2>2. CASE i # 1
      <3>1. i \in 2..Len(sources)
        BY <1>5, <2>2
      <3>2. PICK b \in Candidates(q) : sources[i] = BlockSource(q, ssts[b[1]][b[2]])
        BY <1>5, <3>1
      <3> QED
        BY <1>7, <3>2, BlockGuarded
    <2> QED
      BY <2>1, <2>2
  <1> QED
    BY <1>3, <1>4, <1>5, <1>6, <1>7 DEF Guarded

\* The other queries do not meet a version at all.
LEMMA ScanMatches ==
    ASSUME LookupInv, NEW q \in Queries, NEW r \in Rec, NEW sources, SourcesAre(q, sources),
           NEW i \in DOMAIN sources, NEW x \in Range(sources[i]), At(x) = At(r)
    PROVE  Matches(q, r)
  <1>0. LogOK /\ MemoryOK /\ SstsOK
    BY DEF LookupInv
  <1>1. sources \in Seq(Seq(Rec)) /\ Len(sources) >= 1
    BY DEF SourcesAre
  <1>2. x \in Rec
    <2>1. sources[i] \in Seq(Rec)
      BY <1>1
    <2> QED
      BY <2>1, RangeSeq
  <1>3. SUFFICES Matches(q, x) \/ IsFullScan(q)
    <2>1. x.key = r.key /\ x.ts = r.ts
      BY <1>2, OrderIs
    <2>2. CASE Matches(q, x)
      BY <2>1, <2>2 DEF Matches
    <2>3. CASE IsFullScan(q)
      <3>1. q.lo = 0 /\ q.hi = MaxKey /\ q.time = <<>>
        BY <2>3, Numbers DEF IsFullScan, Queries, AllKeys, Query
      <3>2. r.key \in 1..MaxKey
        BY DEF Rec, Keys
      <3>3. r.key \in 0..MaxKey
        BY <3>2, Numbers
      <3> QED
        BY <3>1, <3>3 DEF Matches, InTime
    <2> QED
      BY <1>3, <2>2, <2>3
  <1>4. CASE i = 1
    <2>1. x \in Range(MemTablesQuery(q))
      <3>1. MemTablesQuery(q) \in Seq(Rec)
        BY <1>0, MemTablesQueryIs
      <3> QED
        BY <1>4, <3>1, SortedBefore DEF SourcesAre
    <2> QED
      BY <1>0, <2>1, MemTablesQueryIs
  <1>5. CASE i # 1
    <2>1. i \in 2..Len(sources)
      BY <1>1, <1>5
    <2>2. PICK b \in Candidates(q) : sources[i] = BlockSource(q, ssts[b[1]][b[2]])
      BY <2>1 DEF SourcesAre
    <2>3. b \in Places
      BY DEF Candidates, Places
    <2>4. ssts[b[1]][b[2]] \in Seq(Rec)
      BY <1>0, <2>3, PlacesAre, SstBlocks
    <2> QED
      BY <2>2, <2>4, BlockSourceIs
  <1> QED
    BY <1>4, <1>5

\* Engine::get_sync and the scans: the newest version, a delete too, hides all older
\* ones while memory has it, whatever flushes and garbage collection have done with
\* those; for scans, unless a merge has written an older one to a file.
THEOREM NewestHidesOlder == Spec => []MemoryWins
  <1>1. ASSUME LookupInv PROVE MemoryWins
    <2> DEFINE newest == {r \in Range(Memory) : /\ r.op # "range" /\ r.exp > now
                                                /\ r = Newest(VersionsOf(r.key, r.ts))}
               inMerged == UNION {Range(RecordsOf(ssts[id])) : id \in merged}
               scanned == {r \in newest : r.key <= Tilde /\ \A s \in inMerged : At(s) # At(r)}
    <2>0. LogOK /\ MemoryOK /\ SstsOK
      BY <1>1 DEF LookupInv
    <2>1. ASSUME NEW r \in newest
          PROVE  /\ r \in Range(Memory) /\ r.exp >= now /\ r \in Rec
                 /\ \A s \in Range(log) : At(s) = At(r) => s.seq <= r.seq
      <3>1. r \in Range(Memory) /\ r.exp > now /\ r = Newest(VersionsOf(r.key, r.ts))
        BY <2>1
      <3>2. r \in Range(log) /\ r \in Rec
        BY <2>0, <3>1, MemoryIs, LogIs
      <3>6. r.exp >= now
        <4>1. r.exp \in Int
          BY <3>2 DEF Rec
        <4>2. now \in Int
          BY <1>1 DEF LookupInv, PatchOK
        <4> QED
          BY <3>1, <4>1, <4>2
      <3>3. PICK S : S = VersionsOf(r.key, r.ts)
        OBVIOUS
      <3>4. S = {s \in Range(log) : At(s) = At(r)}
        BY <3>3 DEF VersionsOf, At
      <3>5. \A s \in S : s.seq <= Newest(S).seq
        BY <2>0, <3>2, <3>4, NewestExists
      <3> QED
        BY <3>1, <3>2, <3>3, <3>4, <3>5, <3>6
    <2>2. ASSUME NEW r \in newest
          PROVE  GetSync(r.key, r.ts) = {IF r.op = "del" THEN None ELSE r}
      <3>1. /\ r \in Range(Memory) /\ r.exp >= now
            /\ \A s \in Range(log) : At(s) = At(r) => s.seq <= r.seq
        BY <2>1, <2>2
      <3>2. NewestInMemory(r)
        BY <2>0, <3>1, MemoryIs DEF NewestInMemory
      <3> QED
        BY <2>0, <3>1, <3>2, GetSyncNewest
    <2>3. ASSUME NEW q \in Queries, NEW out \in Scan(q), NEW n \in DOMAIN out,
                 NEW r \in scanned, At(out[n]) = At(r)
          PROVE  out[n] = r
      <3>1. r \in newest /\ r.key <= Tilde /\ \A s \in inMerged : At(s) # At(r)
        BY <2>3
      <3>2. Winner(r) /\ r \in Rec
        <4>1. \A id \in merged : \A s \in Range(RecordsOf(ssts[id])) : At(s) # At(r)
          BY <3>1
        <4>2. /\ r \in Range(Memory) /\ r.exp >= now /\ r \in Rec
              /\ \A s \in Range(log) : At(s) = At(r) => s.seq <= r.seq
          BY <2>1, <3>1
        <4> QED
          BY <3>1, <4>1, <4>2 DEF Winner
      <3>3. PICK tombs, down : /\ down = FALSE
                               /\ tombs = Tombstones(q, MemTablesQuery(q),
                                            {ssts[b[1]][b[2]] : b \in Candidates(q)})
        OBVIOUS
      <3>4. PICK sources : SourcesAre(q, sources) /\ out \in Drain(sources, tombs, FALSE)
        BY <2>0, <2>3, <3>3, ScanIs
      <3>5. out \in Drain(sources, tombs, down) /\ ~down
        BY <3>3, <3>4, Zenon
      <3>6. sources \in Seq(Seq(Rec))
        BY <3>4 DEF SourcesAre
      <3>7. out[n] \in Range(out)
        BY <2>3 DEF Range
      <3>8. PICK i \in DOMAIN sources : out[n] \in Range(sources[i])
        BY <3>5, <3>6, <3>7, DrainIs
      <3>9. Matches(q, r)
        BY <1>1, <2>3, <3>2, <3>4, <3>8, ScanMatches
      <3>10. PICK idx : Guarded(sources, idx, r)
        BY <1>1, <3>2, <3>4, <3>9, ScanGuarded
      <3>11. \A x \in Range(out) : At(x) = At(r) => x = r
        BY <3>5, <3>10, DrainNewest
      <3> QED
        BY <2>3, <3>7, <3>11
    <2> QED
      BY <2>2, <2>3 DEF MemoryWins
  <1> QED
    BY <1>1, Invariant, PTL

-----------------------------------------------------------------------------
(* Point look-ups *)

LEMMA InfoKeys ==
    ASSUME NEW block \in Seq(Rec), Len(block) # 0
    PROVE  /\ Info(block).minKey = block[1].key
           /\ Info(block).maxKey = block[Len(block)].key
           /\ 1 \in 1..Len(block) /\ Len(block) \in 1..Len(block)
  <1>1. Head(block) = block[1] /\ Last(block) = block[Len(block)]
    BY DEF Last
  <1>2. 1 \in 1..Len(block) /\ Len(block) \in 1..Len(block)
    OBVIOUS
  <1> QED
    BY <1>1, <1>2 DEF Info

\* The keys of a flushed file do not decrease from block to block.
LEMMA FlushedKeys ==
    ASSUME LogOK, SstsOK, NEW id \in DOMAIN ssts, id \notin merged,
           NEW c \in 1..Len(ssts[id]), NEW d \in 1..Len(ssts[id]), c < d,
           NEW x \in Range(ssts[id][c]), NEW y \in Range(ssts[id][d])
    PROVE  x.key <= y.key
  <1>1. PICK recs : WrittenTo(id, recs)
    BY DEF SstsOK
  <1>2. recs \in Seq(Rec) /\ ssts[id] = Blocks(recs) /\ Ordered(recs, AscendingKeys)
    BY <1>1 DEF WrittenTo
  <1>3. PICK blocks : blocks = Blocks(recs)
    OBVIOUS
  <1>4. /\ blocks \in Seq(Seq(Rec)) /\ c \in 1..Len(blocks) /\ d \in 1..Len(blocks)
        /\ BlockIs(blocks, recs, c) /\ BlockIs(blocks, recs, d)
        /\ x \in Range(blocks[c]) /\ y \in Range(blocks[d])
    BY <1>2, <1>3, BlocksAre
  <1>5. blocks[c] \in Seq(Rec) /\ blocks[d] \in Seq(Rec)
    BY <1>4
  <1>6. PICK i \in 1..Len(blocks[c]) : blocks[c][i] = x
    BY <1>4, <1>5, RangeAt
  <1>7. PICK j \in 1..Len(blocks[d]) : blocks[d][j] = y
    BY <1>4, <1>5, RangeAt
  <1>8. PICK m, n : m = (c - 1) * BlockSize + i /\ n = (d - 1) * BlockSize + j
    OBVIOUS
  <1>9. /\ m \in 1..Len(recs) /\ x = Stored(recs[m])
        /\ n \in 1..Len(recs) /\ y = Stored(recs[n])
    BY <1>4, <1>6, <1>7, <1>8 DEF BlockIs
  <1>10. m < n
    <2>1. PICK a \in Nat : a = c - 1
      OBVIOUS
    <2>2. PICK e \in Nat : e = d - 1
      OBVIOUS
    <2>3. PICK s \in Nat : s = BlockSize
      BY Numbers
    <2>4. a + 1 <= e /\ a + 1 \in Nat
      BY <2>1, <2>2
    <2>5. (a + 1) * s <= e * s /\ e * s \in Nat
      BY <2>4, TimesGrows
    <2>6. (a + 1) * s = a * s + s /\ a * s \in Nat
      BY TimesSucc
    <2>7. i <= s /\ i \in Nat /\ j \in Nat /\ j >= 1
      <3>1. Len(blocks[c]) \in 1..BlockSize
        BY <1>4 DEF BlockIs
      <3>2. Len(blocks[d]) \in 1..BlockSize
        BY <1>4 DEF BlockIs
      <3> QED
        BY <2>3, <3>1, <3>2
    <2>8. m = a * s + i /\ n = e * s + j
      BY <1>8, <2>1, <2>2, <2>3
    <2> QED
      BY ONLY <2>5, <2>6, <2>7, <2>8, a \in Nat, e \in Nat, s \in Nat
  <1>11. recs[m] \in Rec /\ recs[n] \in Rec /\ ~KeyTsBefore(recs[n], recs[m])
    BY <1>2, <1>9, <1>10 DEF Ordered, AscendingKeys
  <1>12. x.key = recs[m].key /\ y.key = recs[n].key
    BY <1>9, <1>11, StoredIs
  <1>13. recs[m].key \in Int /\ recs[n].key \in Int
    BY <1>11, RecNumbers
  <1> QED
    BY <1>11, <1>12, <1>13 DEF KeyTsBefore

\* The record is in a block of a flushed file, and no other block has its key.
AloneIn(x, id, b) ==
    /\ id \in DOMAIN ssts /\ id \notin merged /\ b \in 1..Len(ssts[id])
    /\ x \in Range(ssts[id][b])
    /\ \A c \in 1..Len(ssts[id]) : c # b =>
            \A s \in Range(ssts[id][c]) : s.key # x.key

LEMMA SstBlock ==
    ASSUME LogOK, SstsOK, NEW id \in DOMAIN ssts, NEW b \in 1..Len(ssts[id])
    PROVE  /\ ssts[id][b] \in Seq(Rec) /\ Len(ssts[id][b]) # 0
           /\ \E z : z \in Range(ssts[id][b])
  <1>1. ssts[id][b] \in Seq(Rec) /\ Len(ssts[id][b]) \in 1..BlockSize
    BY SstBlocks
  <1>2. PICK t : t = ssts[id][b]
    OBVIOUS
  <1>3. t \in Seq(Rec) /\ Len(t) \in Nat /\ Len(t) # 0
    BY <1>1, <1>2
  <1>4. 1 \in 1..Len(t)
    BY <1>3
  <1>5. t[1] \in Range(t)
    BY <1>3, <1>4, RangeSeq
  <1> QED
    BY <1>2, <1>3, <1>5

LEMMA KeysOfBlock ==
    ASSUME LogOK, SstsOK, NEW id \in DOMAIN ssts, id \notin merged,
           NEW b \in 1..Len(ssts[id]), NEW info, info = Info(ssts[id][b]),
           NEW x \in Range(ssts[id][b])
    PROVE  /\ info.minKey \in Int /\ info.maxKey \in Int
           /\ info.minKey <= x.key /\ x.key <= info.maxKey
           /\ \E y \in Range(ssts[id][b]) : info.minKey = y.key
           /\ \E y \in Range(ssts[id][b]) : info.maxKey = y.key
  <1>1. PICK t \in Seq(Rec) : t = ssts[id][b] /\ Len(t) # 0
    BY SstBlock
  <1>2. Ordered(t, AscendingKeys)
    BY <1>1, FlushedAscending
  <1>3. PICK n \in Nat : n = Len(t)
    BY <1>1
  <1>4. /\ info.minKey = t[1].key /\ info.maxKey = t[n].key
        /\ 1 \in 1..n /\ n \in 1..n
    BY <1>1, <1>3, InfoKeys
  <1>5. PICK i \in 1..n : t[i] = x
    BY <1>1, <1>3, RangeAt
  <1>6. t[1] \in Rec /\ t[n] \in Rec /\ x \in Rec
    BY <1>1, <1>3, <1>4, <1>5
  <1>7. ~KeyTsBefore(x, t[1]) /\ ~KeyTsBefore(t[n], x)
    <2>1. 1 <= i /\ i <= n
      BY <1>5
    <2> QED
      BY <1>1, <1>2, <1>3, <1>4, <1>5, <2>1, InOrder
  <1>8. /\ t[1].key \in Int /\ t[n].key \in Int /\ x.key \in Int
    BY <1>6, RecNumbers
  <1>9. t[1] \in Range(t) /\ t[n] \in Range(t)
    BY <1>1, <1>3, <1>4, RangeSeq
  <1> QED
    BY <1>1, <1>4, <1>7, <1>8, <1>9 DEF KeyTsBefore

LEMMA AloneIsOnly ==
    ASSUME LogOK, SstsOK, NEW x, NEW id, NEW b, AloneIn(x, id, b)
    PROVE  OnlyBlock(ssts[id], Len(ssts[id]), x.key, b)
  <1>1. /\ id \in DOMAIN ssts /\ id \notin merged /\ b \in 1..Len(ssts[id])
        /\ x \in Range(ssts[id][b])
    BY DEF AloneIn
  <1>2. x.key \in Int
    BY <1>1, SstBlocks, HeldIs, RecNumbers
  <1>3. /\ Info(ssts[id][b]).minKey <= x.key /\ x.key <= Info(ssts[id][b]).maxKey
    BY <1>1, KeysOfBlock
  <1>4. ASSUME NEW c \in 1..Len(ssts[id]), NEW info, info = Info(ssts[id][c])
        PROVE  /\ info.minKey \in Int /\ info.maxKey \in Int
               /\ info.minKey <= info.maxKey
               /\ c < b => info.maxKey < x.key
               /\ b < c => x.key < info.minKey
    <2>1. PICK t \in Seq(Rec) : t = ssts[id][c] /\ Len(t) # 0
      BY <1>1, SstBlock
    <2>2. PICK z : z \in Range(ssts[id][c])
      BY <1>1, SstBlock
    <2>3. info.minKey \in Int /\ info.maxKey \in Int /\ info.minKey <= info.maxKey
      <3>1. /\ info.minKey \in Int /\ info.maxKey \in Int
            /\ info.minKey <= z.key /\ z.key <= info.maxKey
        BY <1>1, <1>4, <2>2, KeysOfBlock
      <3>2. z.key \in Int
        BY <1>1, <2>2, SstBlocks, HeldIs, RecNumbers
      <3> QED
        BY <3>1, <3>2
    <2>4. PICK low \in Range(ssts[id][c]) : info.minKey = low.key
      BY <1>1, <1>4, <2>2, KeysOfBlock
    <2>5. PICK high \in Range(ssts[id][c]) : info.maxKey = high.key
      BY <1>1, <1>4, <2>2, KeysOfBlock
    <2>6. c < b => info.maxKey < x.key
      <3> SUFFICES ASSUME c < b PROVE info.maxKey < x.key
        OBVIOUS
      <3>1. high.key <= x.key
        BY <1>1, <2>5, FlushedKeys
      <3>2. high.key # x.key
        BY <2>5 DEF AloneIn
      <3> QED
        BY <1>2, <2>3, <2>5, <3>1, <3>2
    <2>7. b < c => x.key < info.minKey
      <3> SUFFICES ASSUME b < c PROVE x.key < info.minKey
        OBVIOUS
      <3>1. x.key <= low.key
        BY <1>1, <2>4, FlushedKeys
      <3>2. low.key # x.key
        BY <2>4 DEF AloneIn
      <3> QED
        BY <1>2, <2>3, <2>4, <3>1, <3>2
    <2> QED
      BY <2>3, <2>6, <2>7
  <1> QED
    BY <1>1, <1>2, <1>3, <1>4 DEF OnlyBlock

\* The block that a point look-up reads is the one that holds the key: the bloom
\* filter does not deny it, and the block has not expired.
LEMMA PointBlockHolds ==
    ASSUME LogOK, SstsOK, now \in Nat, NEW x, NEW id, NEW b, AloneIn(x, id, b), x.exp > now
    PROVE  PointBlock(id, x.key) = ssts[id][b]
  <1>1. /\ id \in DOMAIN ssts /\ id \notin merged /\ b \in 1..Len(ssts[id])
        /\ x \in Range(ssts[id][b])
    BY DEF AloneIn
  <1>2. PICK blocks \in Seq(Seq(Rec)) : blocks = ssts[id]
    BY <1>1, SstBlocks
  <1>3. BinarySearchBlock(ssts[id], x.key) = b
    <2>1. OnlyBlock(blocks, Len(blocks), x.key, b) /\ Len(blocks) \in Nat
      BY <1>2, AloneIsOnly
    <2>2. BinarySearchBlock(blocks, x.key) = b
      BY <2>1, SearchFindsKey
    <2> QED
      BY <1>2, <2>2
  <1>4. MayContain(BloomOf(ssts[id]), x.key)
    <2>1. x \in Range(RecordsOf(ssts[id]))
      BY <1>1, <1>2, FlattenIs DEF RecordsOf
    <2> QED
      BY <2>1 DEF MayContain, BloomOf
  <1>5. ~IsExpired(Info(ssts[id][b]))
    <2>1. PICK t \in Seq(Rec) : t = ssts[id][b] /\ Len(t) # 0
      BY <1>1, SstBlock
    <2>2. Info(t).maxExp \in Nat /\ x.exp <= Info(t).maxExp
      BY <1>1, <2>1, MaxExpIs
    <2>3. x.exp \in Nat
      BY <1>1, SstBlocks, HeldIs DEF Rec
    <2> QED
      BY <2>1, <2>2, <2>3 DEF IsExpired
  <1> QED
    BY <1>1, <1>3, <1>4, <1>5 DEF PointBlock

\* query_point_inline ends with a result; not with none if an SST has only hits.
LEMMA FirstHitSome ==
    ASSUME NEW f, DOMAIN f \subseteq Nat, \A id \in DOMAIN f : f[id] # {}
    PROVE  \E x : x \in FirstHit(f)
  <1>1. PICK S : S = {i \in DOMAIN f : \A j \in DOMAIN f : j < i => None \in f[j]}
    OBVIOUS
  <1>2. FirstHit(f) = (UNION {f[id] \ {None} : id \in S})
                      \cup (IF \A id \in DOMAIN f : None \in f[id] THEN {None} ELSE {})
    BY <1>1 DEF FirstHit
  <1>3. CASE \A id \in DOMAIN f : None \in f[id]
    BY <1>2, <1>3
  <1>4. CASE ~(\A id \in DOMAIN f : None \in f[id])
    <2>1. PICK T : T = {id \in DOMAIN f : None \notin f[id]}
      OBVIOUS
    <2>2. T \in SUBSET Nat /\ T # {}
      BY <1>4, <2>1
    <2>3. PICK m \in T : \A y \in T : m <= y
      BY <2>2, LeastNatural
    <2>4. m \in DOMAIN f /\ None \notin f[m] /\ m \in Nat
      BY <2>1, <2>2, <2>3
    <2>5. ASSUME NEW j \in DOMAIN f, j < m PROVE None \in f[j]
      <3>1. j \in Nat /\ m \in Nat
        BY <2>4
      <3>2. j \notin T
        BY <2>3, <2>5, <3>1
      <3> QED
        BY <2>1, <3>2
    <2>6. m \in S
      BY <1>1, <2>4, <2>5
    <2>7. PICK x : x \in f[m] \ {None}
      BY <2>4
    <2> QED
      BY <1>2, <2>6, <2>7
  <1> QED
    BY <1>3, <1>4

LEMMA FirstHitSure ==
    ASSUME NEW f, NEW id \in DOMAIN f, None \notin f[id], NEW x \in FirstHit(f)
    PROVE  x # None
  <1>1. PICK S : S = {i \in DOMAIN f : \A j \in DOMAIN f : j < i => None \in f[j]}
    OBVIOUS
  <1>2. FirstHit(f) = UNION {f[i] \ {None} : i \in S}
    BY <1>1 DEF FirstHit
  <1> QED
    BY <1>2

LEMMA OrderedAscends ==
    ASSUME NEW s \in Seq(Rec), Ordered(s, AscendingKeys)
    PROVE  IsAscending(s)
  <1> SUFFICES ASSUME NEW i \in 1..(Len(s) - 1) PROVE ~KeyTsBefore(s[i + 1], s[i])
    BY DEF IsAscending
  <1>1. i \in 1..Len(s) /\ i + 1 \in 1..Len(s) /\ i < i + 1
    OBVIOUS
  <1> QED
    BY <1>1 DEF Ordered, AscendingKeys

\* What reads have of a record that was written once.
LEMMA LoneIs ==
    ASSUME LookupInv, NEW r \in Range(log), Lone(r)
    PROVE  /\ r \in Rec /\ r.op = "put" /\ r # None /\ Stored(r) # None
           /\ \A y \in Range(log) : At(y) = At(r) => y = r
           /\ \A y \in Range(Memory) : At(y) = At(r) => y = r
           /\ \A y \in Held : At(y) = At(r) => y = Stored(r)
  <1>0. LogOK /\ MemoryOK
    BY DEF LookupInv
  <1>1. r \in Rec
    BY <1>0, LogIs
  <1>2. r.op = "put" /\ VersionsOf(r.key, r.ts) = {r}
    BY DEF Lone
  <1>3. \A y \in Range(log) : At(y) = At(r) => y = r
    BY <1>2 DEF VersionsOf, At
  <1>4. \A y \in Range(Memory) : At(y) = At(r) => y = r
    BY <1>0, <1>3, MemoryIs
  <1>5. ASSUME NEW y \in Held, At(y) = At(r) PROVE y = Stored(r)
    <2>1. PICK z \in Range(log) : y = Stored(z) /\ At(y) = At(z)
      BY <1>0, HeldIs
    <2> QED
      BY <1>3, <1>5, <2>1
  <1>6. r # None /\ Stored(r) # None
    BY <1>1, RecIsNotNone, StoredIs
  <1> QED
    BY <1>1, <1>2, <1>3, <1>4, <1>5, <1>6

\* A record that a point look-up reaches in an SST.
LEMMA ReachedIsAlone ==
    ASSUME LookupInv, NEW r \in Range(log), PointReaches(r), ~InMemory(r)
    PROVE  \E b \in Homes(r) : AloneIn(Stored(r), b[1], b[2])
  <1>0. LogOK /\ SstsOK
    BY DEF LookupInv
  <1>1. PICK b \in Homes(r) :
            /\ b[1] \notin merged
            /\ \A c \in DOMAIN ssts[b[1]] \ {b[2]} :
                    \A s \in Range(ssts[b[1]][c]) : s.key # r.key
    BY DEF PointReaches
  <1>2. b \in Places /\ Stored(r) \in Range(ssts[b[1]][b[2]])
    BY DEF Homes, Places, HeldBy
  <1>3. b[1] \in DOMAIN ssts /\ b[2] \in 1..Len(ssts[b[1]])
    BY <1>0, <1>2, PlacesAre
  <1>4. DOMAIN ssts[b[1]] = 1..Len(ssts[b[1]])
    BY <1>0, <1>3, SstBlocks
  <1>5. Stored(r).key = r.key
    BY <1>0, LogIs, StoredIs
  <1> QED
    BY <1>1, <1>2, <1>3, <1>4, <1>5 DEF AloneIn

\* get_sync finds a record that was written once, wherever it is.
LEMMA GetSyncFinds ==
    ASSUME LookupInv, NEW r \in Range(log), Lone(r), r.exp > now, PointReaches(r)
    PROVE  {Stored(x) : x \in GetSync(r.key, r.ts)} = {Stored(r)}
  <1>0. LogOK /\ MemoryOK /\ SstsOK /\ now \in Nat
    BY Numbers DEF LookupInv, PatchOK
  <1>1. /\ r \in Rec /\ r.op = "put" /\ r # None /\ Stored(r) # None
        /\ \A y \in Range(log) : At(y) = At(r) => y = r
        /\ \A y \in Range(Memory) : At(y) = At(r) => y = r
        /\ \A y \in Held : At(y) = At(r) => y = Stored(r)
    BY LoneIs
  <1>2. PICK k, t : k = r.key /\ t = r.ts
    OBVIOUS
  <1>3. At(r) = <<k, t>> /\ r.exp \in Nat
    BY <1>1, <1>2 DEF At, Rec
  <1>4. CASE InMemory(r)
    <2>1. NewestInMemory(r)
      <3>1. r.seq \in Nat
        BY <1>1 DEF Rec
      <3>2. \A s \in Range(Memory) : At(s) = At(r) => s.seq <= r.seq
        BY <1>1, <3>1
      <3> QED
        BY <1>4, <3>2 DEF NewestInMemory, InMemory
    <2>2. r.exp >= now
      BY <1>0, <1>3
    <2>3. GetSync(r.key, r.ts) = {IF r.op = "del" THEN None ELSE r}
      BY <1>0, <2>1, <2>2, GetSyncNewest
    <2> QED
      BY <1>1, <2>3
  <1>5. CASE ~InMemory(r)
    <2>1. MemTablesGet(k, t) = None
      <3>1. PICK mem : mem = MemTablesGet(k, t)
        OBVIOUS
      <3>2. mem # None => mem \in Range(Memory) /\ At(mem) = <<k, t>>
        BY <1>0, <3>1, MemTablesGetIs
      <3> QED
        BY <1>1, <1>3, <1>5, <3>1, <3>2 DEF InMemory
    <2>2. PICK f : f = [id \in DOMAIN ssts |-> FindInRecords(PointBlock(id, k), k, t)]
      OBVIOUS
    <2>3. GetSync(k, t) = FirstHit(f)
      BY <2>1, <2>2 DEF GetSync
    <2>4. PICK b \in Homes(r) : AloneIn(Stored(r), b[1], b[2])
      BY <1>5, ReachedIsAlone
    <2>5. PICK id, block : id = b[1] /\ block = ssts[id][b[2]]
      OBVIOUS
    <2>6. /\ id \in DOMAIN ssts /\ id \notin merged /\ b[2] \in 1..Len(ssts[id])
          /\ Stored(r) \in Range(block)
      BY <2>4, <2>5 DEF AloneIn
    <2>7. /\ Stored(r).key = k /\ Stored(r).exp > now /\ Stored(r).op = "put"
          /\ At(Stored(r)) = <<k, t>>
      BY <1>1, <1>2, <1>3, StoredIs
    <2>8. PointBlock(id, k) = block
      BY <1>0, <2>4, <2>5, <2>7, PointBlockHolds
    <2>9. block \in Seq(Rec) /\ IsAscending(block)
      <3>1. block \in Seq(Rec) /\ Ordered(block, AscendingKeys)
        BY <1>0, <2>5, <2>6, SstBlock, FlushedAscending
      <3> QED
        BY <3>1, OrderedAscends
    <2>10. f[id] = {Stored(r)}
      <3>1. PICK found : found = {x \in Range(block) : At(x) = <<k, t>>}
        OBVIOUS
      <3>2. Range(block) \subseteq Held
        BY <1>0, <2>5, <2>6, SstBlocks
      <3>3. found = {Stored(r)}
        BY <1>1, <1>3, <2>6, <2>7, <3>1, <3>2
      <3>4. Visible(Stored(r)) = Stored(r)
        BY <2>7 DEF Visible
      <3>5. f[id] = FindInRecords(block, k, t)
        BY <2>2, <2>6, <2>8
      <3>6. FindInRecords(block, k, t) = {Visible(x) : x \in found}
        BY <2>9, <3>1, <3>3 DEF FindInRecords
      <3> QED
        BY <3>3, <3>4, <3>5, <3>6
    <2>11. PICK y : y \in FirstHit(f)
      <3>1. DOMAIN f \subseteq Nat
        BY <1>0, <2>2 DEF SstsOK
      <3>2. \A j \in DOMAIN f : f[j] # {}
        BY <2>2 DEF FindInRecords
      <3> QED
        BY <3>1, <3>2, FirstHitSome
    <2>12. ASSUME NEW x \in GetSync(k, t) PROVE Stored(x) = Stored(r)
      <3>1. x # None
        BY <1>1, <2>2, <2>3, <2>6, <2>10, FirstHitSure
      <3>2. /\ x \in Rec /\ At(x) = <<k, t>>
            /\ x \in Range(Memory) \/ x \in Held
        BY <1>0, <3>1, GetSyncIs
      <3>3. x = r \/ x = Stored(r)
        BY <1>1, <1>3, <3>2
      <3> QED
        BY <1>1, <3>3, StoredIs
    <2> QED
      BY <1>2, <2>3, <2>11, <2>12
  <1> QED
    BY <1>4, <1>5

\* The records of the key were written once and are reached, none has a later time
\* stamp than r, and they are in one SST at most.
LatestOf(r) ==
    /\ r \in Range(log)
    /\ \A s \in Range(log) : s.key = r.key =>
            Lone(s) /\ s.exp > now /\ PointReaches(s) /\ s.ts <= r.ts
    /\ \A s, u \in Range(log) : s.key = r.key /\ u.key = r.key =>
            \A b \in Homes(s), c \in Homes(u) : b[1] = c[1]

LEMMA LatestIs ==
    ASSUME LookupInv, NEW r, LatestOf(r)
    PROVE  /\ r \in Range(log) /\ r \in Rec /\ Lone(r) /\ r.exp > now /\ PointReaches(r)
           /\ \A y \in Range(log) : y.key = r.key =>
                y \in Rec /\ y.op = "put" /\ y.ts <= r.ts /\ y.exp > now
           /\ \A y \in Range(log) : y.key = r.key /\ y.ts >= r.ts => y = r
  <1>0. LogOK
    BY DEF LookupInv
  <1>1. r \in Range(log) /\ r \in Rec
    BY <1>0, LogIs DEF LatestOf
  <1>2. Lone(r) /\ r.exp > now /\ PointReaches(r)
    BY <1>1 DEF LatestOf
  <1>3. ASSUME NEW y \in Range(log), y.key = r.key
        PROVE  y \in Rec /\ y.op = "put" /\ y.ts <= r.ts /\ y.exp > now
    <2>1. Lone(y) /\ y.exp > now /\ y.ts <= r.ts
      BY <1>3 DEF LatestOf
    <2> QED
      BY <1>0, <2>1, LogIs DEF Lone
  <1>4. ASSUME NEW y \in Range(log), y.key = r.key, y.ts >= r.ts PROVE y = r
    <2>1. y.ts \in Int /\ r.ts \in Int
      BY <1>1, <1>3, <1>4, RecNumbers
    <2>2. y.ts = r.ts
      BY <1>3, <1>4, <2>1
    <2>3. At(y) = At(r)
      BY <1>4, <2>2 DEF At
    <2> QED
      BY <1>1, <1>2, <2>3, LoneIs
  <1> QED
    BY <1>1, <1>2, <1>3, <1>4

\* MemTables::get_latest, for such a key.
LEMMA MemTablesLatest ==
    ASSUME LookupInv, NEW r, LatestOf(r), NEW mem, mem = MemTablesGetLatest(r.key)
    PROVE  \/ mem = None /\ ~InMemory(r)
           \/ mem \in Range(Memory) /\ mem.key = r.key /\ (InMemory(r) => mem = r)
  <1>0. LogOK /\ MemoryOK /\ now \in Nat
    BY Numbers DEF LookupInv, PatchOK
  <1>1. PICK found : found = {x \in Range(Memory) :
                                x.key = r.key /\ x.exp >= now /\ x.op = "put"}
    OBVIOUS
  <1>2. /\ r \in Range(log) /\ r \in Rec
        /\ \A y \in Range(log) : y.key = r.key =>
                y \in Rec /\ y.op = "put" /\ y.ts <= r.ts /\ y.exp > now
        /\ \A y \in Range(log) : y.key = r.key /\ y.ts >= r.ts => y = r
    BY LatestIs
  <1>3. InMemory(r) => r \in found
    <2>1. r.exp \in Nat /\ r.exp > now
      BY <1>2 DEF Rec
    <2>2. r.exp >= now
      BY <1>0, <2>1
    <2> QED
      BY <1>1, <1>2, <2>2 DEF InMemory
  <1>4. \A x \in found : /\ x \in Range(Memory) /\ x \in Range(log) /\ x \in Rec
                         /\ x.key = r.key /\ x.ts <= r.ts /\ x.ts \in Nat /\ x.seq \in Nat
    BY <1>0, <1>1, <1>2, MemoryIs DEF Rec
  <1>5. mem = IF found = {} THEN None
              ELSE CHOOSE x \in found : \A s \in found :
                        s.ts < x.ts \/ (s.ts = x.ts /\ s.seq <= x.seq)
    BY <1>1 DEF MemTablesGetLatest
  <1>6. CASE found = {}
    BY <1>3, <1>5, <1>6
  <1>7. CASE found # {}
    <2>1. PICK S : S = {x.ts : x \in found}
      OBVIOUS
    <2>2. S \in SUBSET Nat /\ S # {} /\ \A n \in S : n <= r.ts
      BY <1>4, <1>7, <2>1
    <2>3. r.ts \in Nat
      BY <1>2 DEF Rec
    <2>4. PICK m \in S : \A n \in S : n <= m
      BY <2>2, <2>3, GreatestNatural
    <2>5. PICK y \in found : y.ts = m
      BY <2>1, <2>4
    <2>6. ASSUME NEW s \in found PROVE s.ts < y.ts \/ (s.ts = y.ts /\ s.seq <= y.seq)
      <3>1. s.ts <= y.ts /\ s.ts \in Nat /\ y.ts \in Nat /\ y.seq \in Nat
        BY <1>4, <2>1, <2>4, <2>5
      <3>2. CASE s.ts < y.ts
        BY <3>2
      <3>3. CASE s.ts = y.ts
        <4>1. At(s) = At(y) /\ y \in Range(log) /\ s \in Range(log)
          BY <1>4, <3>3 DEF At
        <4>2. Lone(y)
          BY <1>4, <4>1 DEF LatestOf
        <4>3. s = y
          BY <4>1, <4>2, LoneIs
        <4> QED
          BY <3>1, <4>3
      <3> QED
        BY <3>1, <3>2, <3>3
    <2>7. /\ mem \in found
          /\ \A s \in found : s.ts < mem.ts \/ (s.ts = mem.ts /\ s.seq <= mem.seq)
      <3>1. mem = CHOOSE x \in found : \A s \in found :
                        s.ts < x.ts \/ (s.ts = x.ts /\ s.seq <= x.seq)
        BY <1>5, <1>7
      <3> QED
        BY <2>6, <3>1, Zenon
    <2>8. ASSUME InMemory(r) PROVE mem = r
      <3>1. r \in found
        BY <1>3, <2>8
      <3>2. mem.ts >= r.ts /\ mem \in Range(log) /\ mem.key = r.key
        BY <1>4, <2>3, <2>7, <3>1
      <3> QED
        BY <1>2, <3>2
    <2> QED
      BY <1>4, <2>7, <2>8
  <1> QED
    BY <1>6, <1>7

\* block_search_latest
LEMMA FindLatestIs ==
    ASSUME NEW block \in Seq(Rec), NEW k, NEW x \in FindLatest(block, k)
    PROVE  \/ /\ x = None
              /\ \A y \in Range(block) : ~(y.key = k /\ y.exp > now /\ y.op # "del")
           \/ /\ x \in Range(block) /\ x.key = k
              /\ \A y \in Range(block) : y.key = k /\ y.exp > now /\ y.op # "del"
                                            => y.ts <= x.ts
  <1>0. PICK n \in Nat : n = Len(block)
    OBVIOUS
  <1>1. DOMAIN block = 1..n /\ Range(block) = {block[i] : i \in 1..n}
    BY <1>0, RangeSeq
  <1>2. PICK live : live = {i \in 1..n :
                block[i].key = k /\ block[i].exp > now /\ block[i].op # "del"}
    OBVIOUS
  <1>3. PICK best : best = {i \in live : \A j \in live : block[j].ts <= block[i].ts}
    OBVIOUS
  <1>4. x = IF live = {} THEN None ELSE block[Min(best)]
    BY <1>1, <1>2, <1>3 DEF FindLatest
  <1>5. CASE live = {}
    BY <1>1, <1>2, <1>4, <1>5
  <1>6. CASE live # {}
    <2>1. \A i \in live : i \in 1..n /\ block[i].ts \in Nat /\ block[i].ts <= MaxTs
      <3>1. \A i \in 1..n : block[i] \in Rec
        BY <1>0
      <3> QED
        BY <1>2, <3>1, Numbers DEF Rec
    <2>2. PICK S : S = {block[i].ts : i \in live}
      OBVIOUS
    <2>3. S \in SUBSET Nat /\ S # {} /\ \A m \in S : m <= MaxTs
      BY <1>6, <2>1, <2>2
    <2>4. PICK m \in S : \A l \in S : l <= m
      BY <2>3, Numbers, GreatestNatural
    <2>5. PICK i \in live : block[i].ts = m
      BY <2>2, <2>4
    <2>6. i \in best
      BY <1>3, <2>2, <2>4, <2>5
    <2>7. best \in SUBSET Nat /\ best # {}
      <3>1. \A j \in live : j \in Nat
        BY <2>1
      <3>2. best \subseteq live
        BY <1>3
      <3> QED
        BY <2>6, <3>1, <3>2
    <2>8. PICK a \in best : \A y \in best : a <= y
      BY <2>7, LeastNatural
    <2>9. Min(best) = a
      <3>1. best \in SUBSET Int
        BY <2>7
      <3> QED
        BY <2>8, <3>1, MinIs
    <2>10. x = block[a] /\ a \in live /\ \A j \in live : block[j].ts <= block[a].ts
      BY <1>3, <1>4, <1>6, <2>8, <2>9
    <2> QED
      BY <1>1, <1>2, <2>10
  <1> QED
    BY <1>5, <1>6

LEMMA PointBlockSeq ==
    ASSUME LogOK, SstsOK, NEW id \in DOMAIN ssts, NEW k
    PROVE  /\ PointBlock(id, k) \in Seq(Rec)
           /\ \A x \in Range(PointBlock(id, k)) : \E b \in Places :
                    b[1] = id /\ x \in Range(ssts[id][b[2]])
  <1>1. PICK b : b = BinarySearchBlock(ssts[id], k)
    OBVIOUS
  <1>2. ssts[id] \in Seq(Seq(Rec))
    BY SstBlocks
  <1>3. Len(ssts[id]) \in Nat
    BY <1>2
  <1>4. b \in 0..Len(ssts[id])
    BY <1>1, <1>3, SearchFinds
  <1>5. CASE PointBlock(id, k) = <<>>
    BY <1>5 DEF Range
  <1>6. CASE PointBlock(id, k) # <<>>
    <2>1. b # 0 /\ PointBlock(id, k) = ssts[id][b]
      BY <1>1, <1>6 DEF PointBlock
    <2>2. b \in 1..Len(ssts[id])
      BY <1>3, <1>4, <2>1
    <2>3. PICK c : c = <<id, b>>
      OBVIOUS
    <2>4. c \in Places /\ c[1] = id /\ c[2] = b
      BY <2>2, <2>3, PlacesAre
    <2>5. ssts[id][b] \in Seq(Rec)
      BY <2>2, SstBlock
    <2> QED
      BY <2>1, <2>4, <2>5
  <1> QED
    BY <1>5, <1>6

\* get_latest finds the record with the latest time stamp.
LEMMA GetLatestFinds ==
    ASSUME LookupInv, NEW r, LatestOf(r)
    PROVE  {Stored(x) : x \in GetLatest(r.key)} = {Stored(r)}
  <1>0. LogOK /\ MemoryOK /\ SstsOK /\ now \in Nat
    BY Numbers DEF LookupInv, PatchOK
  <1>1. /\ r \in Range(log) /\ r \in Rec /\ Lone(r) /\ r.exp > now /\ PointReaches(r)
        /\ \A y \in Range(log) : y.key = r.key =>
                y \in Rec /\ y.op = "put" /\ y.ts <= r.ts /\ y.exp > now
        /\ \A y \in Range(log) : y.key = r.key /\ y.ts >= r.ts => y = r
    BY LatestIs
  <1>2. r # None /\ Stored(r) # None /\ r.op = "put"
    BY <1>1, LoneIs
  <1>3. PICK k, mem : k = r.key /\ mem = MemTablesGetLatest(k)
    OBVIOUS
  <1>4. PICK f : f = [id \in DOMAIN ssts |-> FindLatest(PointBlock(id, k), k)]
    OBVIOUS
  <1>5. GetLatest(k) =
            {IF s = None \/ (mem # None /\ mem.ts >= s.ts) THEN mem ELSE s : s \in FirstHit(f)}
    BY <1>3, <1>4 DEF GetLatest
  <1>6. PICK some : some \in FirstHit(f)
    <2>1. DOMAIN f \subseteq Nat
      BY <1>0, <1>4 DEF SstsOK
    <2>2. \A j \in DOMAIN f : f[j] # {}
      BY <1>4 DEF FindLatest
    <2> QED
      BY <2>1, <2>2, FirstHitSome
  <1>7. \/ mem = None /\ ~InMemory(r)
        \/ mem \in Range(Memory) /\ mem.key = k /\ (InMemory(r) => mem = r)
    BY <1>3, MemTablesLatest
  <1>8. ASSUME NEW id \in DOMAIN f, NEW x \in f[id], x # None
        PROVE  \E y \in Range(log) : /\ x = Stored(y) /\ y.key = k /\ x.ts = y.ts
                                     /\ \E b \in Homes(y) : b[1] = id
    <2>1. id \in DOMAIN ssts /\ x \in FindLatest(PointBlock(id, k), k)
      BY <1>4, <1>8
    <2>2. PICK block \in Seq(Rec) : block = PointBlock(id, k)
      BY <1>0, <2>1, PointBlockSeq
    <2>3. x \in Range(block) /\ x.key = k
      BY <1>8, <2>1, <2>2, FindLatestIs
    <2>4. PICK b \in Places : b[1] = id /\ x \in Range(ssts[id][b[2]])
      BY <1>0, <2>1, <2>2, <2>3, PointBlockSeq
    <2>5. x \in Held
      BY <1>0, <2>1, <2>2, <2>3, PointBlockIs
    <2>6. PICK y \in Range(log) : x = Stored(y) /\ x.key = y.key /\ x.ts = y.ts
      BY <1>0, <2>5, HeldIs
    <2>7. b \in Homes(y)
      BY <2>4, <2>6 DEF Homes, HeldBy, Places
    <2> QED
      BY <2>3, <2>4, <2>6, <2>7
  <1>9. ASSUME NEW s \in FirstHit(f), s # None
        PROVE  \E y \in Range(log) : /\ s = Stored(y) /\ y.key = k /\ s.ts = y.ts
                                     /\ s.ts <= r.ts
    <2>1. PICK id \in DOMAIN f : s \in f[id]
      BY <1>9, FirstHitIs
    <2>2. PICK y \in Range(log) : s = Stored(y) /\ y.key = k /\ s.ts = y.ts
      BY <1>8, <1>9, <2>1
    <2> QED
      BY <1>1, <1>3, <2>2
  <1>10. CASE InMemory(r)
    <2>1. mem = r
      BY <1>7, <1>10
    <2>2. ASSUME NEW s \in FirstHit(f)
          PROVE  (IF s = None \/ (mem # None /\ mem.ts >= s.ts) THEN mem ELSE s) = r
      <3>1. CASE s = None
        BY <2>1, <3>1
      <3>2. CASE s # None
        <4>1. PICK y \in Range(log) : y.key = k /\ s.ts = y.ts /\ s.ts <= r.ts
          BY <1>9, <3>2
        <4>2. y \in Rec
          BY <1>1, <1>3, <4>1
        <4>3. s.ts \in Int /\ r.ts \in Int
          BY <1>1, <4>1, <4>2, RecNumbers
        <4>4. mem.ts >= s.ts
          BY <2>1, <4>1, <4>3
        <4> QED
          BY <1>2, <2>1, <4>4
      <3> QED
        BY <3>1, <3>2
    <2>3. GetLatest(k) = {r}
      BY <1>5, <1>6, <2>2
    <2> QED
      BY <1>3, <2>3
  <1>11. CASE ~InMemory(r)
    <2>1. PICK b \in Homes(r) : AloneIn(Stored(r), b[1], b[2])
      BY <1>1, <1>11, ReachedIsAlone
    <2>2. PICK id, block : id = b[1] /\ block = ssts[id][b[2]]
      OBVIOUS
    <2>3. /\ id \in DOMAIN ssts /\ b[2] \in 1..Len(ssts[id]) /\ Stored(r) \in Range(block)
      BY <2>1, <2>2 DEF AloneIn
    <2>4. /\ Stored(r).key = k /\ Stored(r).exp > now /\ Stored(r).op = "put"
          /\ Stored(r).ts = r.ts
      BY <1>1, <1>2, <1>3, StoredIs
    <2>5. PointBlock(id, k) = block
      BY <1>0, <2>1, <2>2, <2>4, PointBlockHolds
    <2>6. block \in Seq(Rec)
      BY <1>0, <2>2, <2>3, SstBlock
    <2>7. ASSUME NEW x \in f[id] PROVE x = Stored(r)
      <3>1. x \in FindLatest(block, k)
        BY <1>4, <2>3, <2>5, <2>7
      <3>2. x # None /\ Stored(r).ts <= x.ts
        <4>1. \/ x = None
              \/ \A y \in Range(block) : y.key = k /\ y.exp > now /\ y.op # "del"
                                            => y.ts <= x.ts
          BY <2>6, <3>1, FindLatestIs
        <4>2. x # None
          BY <2>3, <2>4, <2>6, <3>1, FindLatestIs, RecIsNotNone, RangeSeq
        <4> QED
          BY <2>3, <2>4, <4>1, <4>2
      <3>3. PICK y \in Range(log) : x = Stored(y) /\ y.key = k /\ x.ts = y.ts
        BY <1>4, <1>8, <2>3, <2>7, <3>2
      <3>4. y \in Rec /\ y.ts \in Int /\ r.ts \in Int
        BY <1>1, <1>3, <3>3, RecNumbers
      <3>5. y.ts >= r.ts
        BY <2>4, <3>2, <3>3, <3>4
      <3> QED
        BY <1>1, <1>3, <3>3, <3>5
    <2>8. ASSUME NEW s \in FirstHit(f) PROVE s = Stored(r)
      <3>1. id \in DOMAIN f /\ None \notin f[id]
        BY <1>2, <1>4, <2>3, <2>7
      <3>2. s # None
        BY <2>8, <3>1, FirstHitSure
      <3>3. PICK j \in DOMAIN f : s \in f[j]
        BY <2>8, <3>2, FirstHitIs
      <3>4. PICK y \in Range(log) : y.key = k /\ \E c \in Homes(y) : c[1] = j
        BY <1>8, <3>2, <3>3
      <3>5. j = id
        BY <1>1, <1>3, <2>1, <2>2, <3>4 DEF LatestOf
      <3> QED
        BY <2>7, <3>3, <3>5
    <2>9. mem = None \/ (mem \in Range(log) /\ mem.key = k /\ ~(mem.ts >= r.ts))
      <3>1. CASE mem = None
        BY <3>1
      <3>2. CASE mem # None
        <4>1. mem \in Range(Memory) /\ mem.key = k
          BY <1>7, <3>2
        <4>2. mem \in Range(log)
          BY <1>0, <4>1, MemoryIs
        <4>3. mem # r
          BY <1>11, <4>1 DEF InMemory
        <4> QED
          BY <1>1, <1>3, <4>1, <4>2, <4>3
      <3> QED
        BY <3>1, <3>2
    <2>10. GetLatest(k) = {Stored(r)}
      <3>1. ASSUME NEW s \in FirstHit(f)
            PROVE  (IF s = None \/ (mem # None /\ mem.ts >= s.ts) THEN mem ELSE s) = Stored(r)
        <4>1. s = Stored(r) /\ s # None
          BY <1>2, <2>8
        <4>2. ~(mem # None /\ mem.ts >= s.ts)
          BY <2>4, <2>9, <4>1
        <4> QED
          BY <4>1, <4>2
      <3> QED
        BY <1>5, <1>6, <3>1
    <2> QED
      BY <1>1, <1>3, <2>10, StoredIs
  <1> QED
    BY <1>10, <1>11

LEMMA AtMostOne ==
    ASSUME NEW S, IsFiniteSet(S), Cardinality(S) <= 1, NEW x \in S, NEW y \in S
    PROVE  x = y
  <1>1. Cardinality(S) \in Nat
    BY FS_CardinalityType
  <1>2. Cardinality(S) # 0
    BY FS_EmptySet
  <1>3. Cardinality(S) = 1
    BY <1>1, <1>2
  <1> QED
    BY <1>3, FS_Singleton

\* Engine::get_sync and get_latest, for any instance: a record that was written once,
\* whose key no range delete has covered and that has not expired is found by its key
\* and time stamp, in memory or through the bloom filter, the block index and the
\* block of any flushed SST; so is the latest one of a key that is in one SST at most.
THEOREM PointReadsSucceed == Spec => []PointReadsFind
  <1>1. ASSUME LookupInv PROVE PointReadsFind
    <2>0. LogOK /\ SstsOK
      BY <1>1 DEF LookupInv
    <2>1. ASSUME NEW r \in Range(log), Lone(r), r.exp > now, PointReaches(r)
          PROVE  {Stored(x) : x \in GetSync(r.key, r.ts)} = {Stored(r)}
      BY <1>1, <2>1, GetSyncFinds
    <2>2. ASSUME NEW r \in Range(log), NEW all, all = {s \in Range(log) : s.key = r.key},
                 \A s \in all : Lone(s) /\ s.exp > now /\ PointReaches(s),
                 \A s \in all : s.ts <= r.ts,
                 Cardinality(UNION {{b[1] : b \in Homes(s)} : s \in all}) <= 1
          PROVE  {Stored(x) : x \in GetLatest(r.key)} = {Stored(r)}
      <3>1. PICK S : S = UNION {{b[1] : b \in Homes(s)} : s \in all}
        OBVIOUS
      <3>2. \A s : Homes(s) \subseteq Places
        BY DEF Homes, Places
      <3>3. S \in SUBSET DOMAIN ssts
        BY <2>0, <3>1, <3>2, PlacesAre
      <3>4. IsFiniteSet(S)
        BY <2>0, <3>3, PlacesAre, FS_Subset
      <3>5. ASSUME NEW s \in Range(log), NEW u \in Range(log), s.key = r.key, u.key = r.key,
                   NEW b \in Homes(s), NEW c \in Homes(u)
            PROVE  b[1] = c[1]
        <4>1. b[1] \in S /\ c[1] \in S
          BY <2>2, <3>1, <3>5
        <4>2. Cardinality(S) <= 1
          BY <2>2, <3>1
        <4> QED
          BY <3>4, <4>1, <4>2, AtMostOne
      <3>6. LatestOf(r)
        BY <2>2, <3>5 DEF LatestOf
      <3> QED
        BY <1>1, <3>6, GetLatestFinds
    <2> QED
      BY <2>1, <2>2 DEF PointReadsFind
  <1> QED
    BY <1>1, Invariant, PTL

-----------------------------------------------------------------------------
(* Copies of a record: sequences *)

Across(s, t, rel) == \A x \in Range(s), y \in Range(t) : <<x, y>> \in rel

LEMMA OrderedConcat ==
    ASSUME NEW R, NEW s \in Seq(R), NEW t \in Seq(R), NEW u, u = s \o t, NEW rel
    PROVE  Ordered(u, rel) <=> Ordered(s, rel) /\ Ordered(t, rel) /\ Across(s, t, rel)
  <1>1. PICK m \in Nat, n \in Nat : m = Len(s) /\ n = Len(t)
    OBVIOUS
  <1>2. /\ u \in Seq(R) /\ Len(u) = m + n
        /\ \A i \in 1..m : u[i] = s[i]
        /\ \A i \in 1..n : u[m + i] = t[i]
    BY <1>1, ConcatAt
  <1>3. Range(s) = {s[i] : i \in 1..m} /\ Range(t) = {t[i] : i \in 1..n}
    BY <1>1, RangeSeq
  <1>4. ASSUME Ordered(u, rel)
        PROVE  Ordered(s, rel) /\ Ordered(t, rel) /\ Across(s, t, rel)
    <2>1. \A i, j \in 1..(m + n) : i < j => <<u[i], u[j]>> \in rel
      BY <1>2, <1>4 DEF Ordered
    <2>2. ASSUME NEW i \in 1..m, NEW j \in 1..m, i < j PROVE <<s[i], s[j]>> \in rel
      <3>1. i \in 1..(m + n) /\ j \in 1..(m + n)
        BY <1>1
      <3> QED
        BY <1>2, <2>1, <2>2, <3>1
    <2>3. ASSUME NEW i \in 1..n, NEW j \in 1..n, i < j PROVE <<t[i], t[j]>> \in rel
      <3>1. m + i \in 1..(m + n) /\ m + j \in 1..(m + n) /\ m + i < m + j
        BY <1>1, <2>3
      <3>2. <<u[m + i], u[m + j]>> \in rel
        BY <2>1, <3>1
      <3> QED
        BY <1>2, <3>2
    <2>4. ASSUME NEW i \in 1..m, NEW j \in 1..n PROVE <<s[i], t[j]>> \in rel
      <3>1. i \in 1..(m + n) /\ m + j \in 1..(m + n) /\ i < m + j
        BY <1>1
      <3>2. <<u[i], u[m + j]>> \in rel
        BY <2>1, <3>1
      <3> QED
        BY <1>2, <3>2
    <2> QED
      BY <1>1, <1>3, <2>2, <2>3, <2>4 DEF Ordered, Across
  <1>5. ASSUME Ordered(s, rel), Ordered(t, rel), Across(s, t, rel)
        PROVE  Ordered(u, rel)
    <2> SUFFICES ASSUME NEW i \in 1..(m + n), NEW j \in 1..(m + n), i < j
                 PROVE  <<u[i], u[j]>> \in rel
      BY <1>2 DEF Ordered
    <2>0. i \in Int /\ j \in Int /\ m \in Int
      BY <1>1
    <2>1. CASE j <= m
      <3>1. i \in 1..m /\ j \in 1..m
        BY <1>1, <2>1
      <3> QED
        BY <1>1, <1>2, <1>5, <3>1 DEF Ordered
    <2>2. CASE j > m
      <3>1. PICK b : b = j - m
        OBVIOUS
      <3>2. b \in 1..n /\ j = m + b /\ u[j] = t[b]
        BY <1>1, <1>2, <2>2, <3>1
      <3>3. CASE i <= m
        <4>1. i \in 1..m /\ u[i] = s[i]
          BY <1>1, <1>2, <3>3
        <4>2. s[i] \in Range(s) /\ t[b] \in Range(t)
          BY <1>3, <3>2, <4>1
        <4> QED
          BY <1>5, <3>2, <4>1, <4>2 DEF Across
      <3>4. CASE i > m
        <4>1. PICK a : a = i - m
          OBVIOUS
        <4>2. a \in 1..n /\ i = m + a /\ u[i] = t[a] /\ a < b
          BY <1>1, <1>2, <3>1, <3>4, <4>1
        <4> QED
          BY <1>1, <1>5, <3>2, <4>2 DEF Ordered
      <3> QED
        BY ONLY <2>0, <3>3, <3>4
    <2> QED
      BY ONLY <2>0, <2>1, <2>2
  <1> QED
    BY <1>4, <1>5

\* Each of the first k sequences is in order, and across two of them.
AllOrdered(ss, k, rel) ==
    /\ \A i \in 1..k : Ordered(ss[i], rel)
    /\ \A i, j \in 1..k : i < j => Across(ss[i], ss[j], rel)

LEMMA FlattenOrdered ==
    ASSUME NEW R, NEW ss \in Seq(Seq(R)), NEW rel
    PROVE  Ordered(FlattenSeq(ss), rel) <=> AllOrdered(ss, Len(ss), rel)
  <1>0. PICK N \in Nat : N = Len(ss)
    OBVIOUS
  <1>1. PICK f \in [0..N -> Seq(R)] :
            /\ f[0] = <<>>
            /\ \A n \in 1..N : f[n] = f[n - 1] \o ss[n]
            /\ FlattenSeq(ss) = f[N]
    BY <1>0, FlattenRuns
  <1> DEFINE First(k) == UNION {Range(ss[i]) : i \in 1..k}
             G == {k \in 0..N : /\ Range(f[k]) = First(k)
                                /\ Ordered(f[k], rel) <=> AllOrdered(ss, k, rel)}
  <1>2. 0 \in G
    <2>1. Range(f[0]) = {} /\ First(0) = {}
      BY <1>1 DEF Range
    <2>2. Ordered(f[0], rel) /\ AllOrdered(ss, 0, rel)
      BY <1>1 DEF Ordered, AllOrdered
    <2> QED
      BY <2>1, <2>2
  <1>3. ASSUME NEW k \in 0..N, k # N, k \in G PROVE k + 1 \in G
    <2>1. /\ k + 1 \in 1..N /\ (k + 1) - 1 = k /\ k + 1 \in 0..N
          /\ 1..(k + 1) = (1..k) \cup {k + 1}
      BY <1>3
    <2>2. PICK a, b : a = f[k] /\ b = ss[k + 1]
      OBVIOUS
    <2>3. a \in Seq(R) /\ b \in Seq(R) /\ f[k + 1] = a \o b
      <3>1. f[k] \in Seq(R)
        BY <1>1, <1>3
      <3>2. ss[k + 1] \in Seq(R)
        BY <1>0, <2>1
      <3>3. f[k + 1] = f[(k + 1) - 1] \o ss[k + 1]
        BY <1>1, <2>1
      <3> QED
        BY <2>1, <2>2, <3>1, <3>2, <3>3
    <2>4. Range(f[k + 1]) = Range(a) \cup Range(b)
      <3>1. Range(a \o b) = Range(a) \cup Range(b)
        BY ONLY <2>3, RangeConcat
      <3> QED
        BY <2>3, <3>1
    <2>5. Range(a) = First(k) /\ (Ordered(a, rel) <=> AllOrdered(ss, k, rel))
      BY <1>3, <2>2
    <2>6. First(k + 1) = First(k) \cup Range(b)
      BY <2>1, <2>2
    <2>7. Ordered(f[k + 1], rel) <=> Ordered(a, rel) /\ Ordered(b, rel) /\ Across(a, b, rel)
      BY <2>3, OrderedConcat
    <2>8. Across(a, b, rel) <=> \A i \in 1..k : Across(ss[i], b, rel)
      BY <2>5 DEF Across
    <2>9. AllOrdered(ss, k + 1, rel) <=>
            /\ AllOrdered(ss, k, rel) /\ Ordered(b, rel)
            /\ \A i \in 1..k : Across(ss[i], b, rel)
      <3>1. ASSUME AllOrdered(ss, k + 1, rel)
            PROVE  /\ AllOrdered(ss, k, rel) /\ Ordered(b, rel)
                   /\ \A i \in 1..k : Across(ss[i], b, rel)
        <4>1. \A i \in 1..k : i < k + 1 /\ i \in 1..(k + 1)
          BY <1>3
        <4> QED
          BY <2>1, <2>2, <3>1, <4>1 DEF AllOrdered
      <3>2. ASSUME AllOrdered(ss, k, rel), Ordered(b, rel),
                   \A i \in 1..k : Across(ss[i], b, rel)
            PROVE  AllOrdered(ss, k + 1, rel)
        <4>1. \A i, j \in 1..(k + 1) : i < j => i \in 1..k
          BY <1>3
        <4> QED
          BY <2>1, <2>2, <3>2, <4>1 DEF AllOrdered
      <3> QED
        BY <3>1, <3>2
    <2>10. Range(f[k + 1]) = First(k + 1)
      BY <2>4, <2>5, <2>6
    <2> QED
      BY <2>1, <2>5, <2>7, <2>8, <2>9, <2>10
  <1>4. \A k \in 0..N : k \in G
    <2> HIDE DEF G
    <2> QED
      BY <1>2, <1>3, UpTo
  <1>5. N \in 0..N
    OBVIOUS
  <1> QED
    BY <1>0, <1>1, <1>4, <1>5

-----------------------------------------------------------------------------
(* The loop over the heap reaches the end of its sources *)

\* The places in the first k sources, and those whose records are popped.
FirstPlaces(ss, k) == {p \in (1..k) \X Nat : p[2] \in 1..Len(ss[p[1]])}

Taken(ss, pos) == {p \in FirstPlaces(ss, Len(ss)) : p[2] <= pos[p[1]]}

LEMMA CountTo ==
    ASSUME NEW m \in Nat
    PROVE  IsFiniteSet(1..m) /\ Cardinality(1..m) = m
  <1>1. IsFiniteSet(1..m) /\ Cardinality(1..m) = IF 1 > m THEN 0 ELSE m - 1 + 1
    BY FS_Interval
  <1> QED
    BY <1>1

LEMMA PlacesCount ==
    ASSUME NEW R, NEW ss \in Seq(Seq(R))
    PROVE  /\ IsFiniteSet(FirstPlaces(ss, Len(ss)))
           /\ Cardinality(FirstPlaces(ss, Len(ss))) = Len(FlattenSeq(ss))
  <1>0. PICK N \in Nat : N = Len(ss)
    OBVIOUS
  <1>1. PICK f \in [0..N -> Seq(R)] :
            /\ f[0] = <<>>
            /\ \A n \in 1..N : f[n] = f[n - 1] \o ss[n]
            /\ FlattenSeq(ss) = f[N]
    BY <1>0, FlattenRuns
  <1> DEFINE G == {k \in 0..N : /\ IsFiniteSet(FirstPlaces(ss, k))
                                /\ Cardinality(FirstPlaces(ss, k)) = Len(f[k])}
  <1>2. 0 \in G
    <2>1. FirstPlaces(ss, 0) = {}
      BY DEF FirstPlaces
    <2>2. Len(f[0]) = 0 /\ 0 \in 0..N
      BY <1>1
    <2>3. IsFiniteSet(FirstPlaces(ss, 0)) /\ Cardinality(FirstPlaces(ss, 0)) = 0
      BY ONLY <2>1, FS_EmptySet, Zenon
    <2> QED
      BY <2>2, <2>3
  <1>3. ASSUME NEW k \in 0..N, k # N, k \in G PROVE k + 1 \in G
    <2>1. /\ k + 1 \in 1..N /\ (k + 1) - 1 = k /\ k + 1 \in 0..N
          /\ 1..(k + 1) = (1..k) \cup {k + 1} /\ k + 1 \notin 1..k
      BY <1>3
    <2>2. PICK a, b : a = f[k] /\ b = ss[k + 1]
      OBVIOUS
    <2>3. a \in Seq(R) /\ b \in Seq(R) /\ f[k + 1] = a \o b
      <3>1. f[k] \in Seq(R)
        BY <1>1, <1>3
      <3>2. ss[k + 1] \in Seq(R)
        BY <1>0, <2>1
      <3>3. f[k + 1] = f[(k + 1) - 1] \o ss[k + 1]
        BY <1>1, <2>1
      <3> QED
        BY <2>1, <2>2, <3>1, <3>2, <3>3
    <2>4. Len(f[k + 1]) = Len(a) + Len(b) /\ Len(a) \in Nat /\ Len(b) \in Nat
      BY <2>3, ConcatAt
    <2>5. PICK row : row = {k + 1} \X (1..Len(b))
      OBVIOUS
    <2>6. IsFiniteSet(row) /\ Cardinality(row) = Len(b)
      <3>1. IsFiniteSet({k + 1}) /\ Cardinality({k + 1}) = 1
        BY FS_Singleton
      <3>2. IsFiniteSet(1..Len(b)) /\ Cardinality(1..Len(b)) = Len(b)
        BY ONLY <2>4, CountTo
      <3>3. IsFiniteSet(row) /\ Cardinality(row) = Cardinality({k + 1}) * Cardinality(1..Len(b))
        BY <2>5, <3>1, <3>2, FS_Product
      <3> QED
        BY <2>4, <3>1, <3>2, <3>3
    <2>7. PICK old : old = FirstPlaces(ss, k)
      OBVIOUS
    <2>8. FirstPlaces(ss, k + 1) = old \cup row
      <3>1. ASSUME NEW p \in FirstPlaces(ss, k + 1) PROVE p \in old \cup row
        BY <2>1, <2>2, <2>5, <2>7 DEF FirstPlaces
      <3>2. ASSUME NEW p \in old PROVE p \in FirstPlaces(ss, k + 1)
        BY <2>1, <2>7 DEF FirstPlaces
      <3>3. ASSUME NEW p \in row PROVE p \in FirstPlaces(ss, k + 1)
        <4>1. p \in (1..(k + 1)) \X Nat /\ p[1] = k + 1 /\ p[2] \in 1..Len(b)
          BY <2>1, <2>5
        <4> QED
          BY <2>2, <4>1 DEF FirstPlaces
      <3> QED
        BY <3>1, <3>2, <3>3
    <2>9. old \cap row = {}
      BY <2>1, <2>5, <2>7 DEF FirstPlaces
    <2>10. IsFiniteSet(old) /\ Cardinality(old) = Len(a)
      BY <1>3, <2>2, <2>7
    <2>11. /\ IsFiniteSet(old \cup row)
           /\ Cardinality(old \cup row) = Cardinality(old) + Cardinality(row) - Cardinality(old \cap row)
      BY <2>6, <2>10, FS_Union
    <2>12. Cardinality(old \cup row) = Len(a) + Len(b)
      <3>1. Cardinality(old \cap row) = 0
        BY <2>9, FS_EmptySet
      <3> QED
        BY <2>4, <2>6, <2>10, <2>11, <3>1
    <2> QED
      BY <2>1, <2>4, <2>8, <2>11, <2>12
  <1>4. \A k \in 0..N : k \in G
    <2> HIDE DEF G
    <2> QED
      BY <1>2, <1>3, UpTo
  <1>5. N \in 0..N
    OBVIOUS
  <1> QED
    BY <1>0, <1>1, <1>4, <1>5

\* The source is one step further.
MovesOn(sources, run, i, new) ==
    /\ i \in 1..Len(sources) /\ run.pos[i] \in Nat
    /\ run.pos[i] + 1 \in 1..Len(sources[i]) /\ new.pos[i] = run.pos[i] + 1
    /\ \A k \in 1..Len(sources) : run.pos[k] \in Nat /\ (k # i => new.pos[k] = run.pos[k])

LEMMA PopMoves ==
    ASSUME NEW sources \in Seq(Seq(Rec)), NEW tombstones, NEW descending,
           NEW run \in Runs(sources),
           NEW i \in FirstSources(sources, run.pos, descending),
           NEW r, NEW new, PopIs(run, i, r, tombstones, new)
    PROVE  MovesOn(sources, run, i, new)
  <1>1. /\ i \in DOMAIN sources /\ run.pos[i] \in Nat
        /\ run.pos[i] + 1 \in 1..Len(sources[i])
    BY FirstSourcesIs
  <1>2. DOMAIN sources = 1..Len(sources)
    OBVIOUS
  <1>3. run.pos \in [1..Len(sources) -> Nat]
    BY <1>2 DEF Runs
  <1>4. new.pos = [run.pos EXCEPT ![i] = run.pos[i] + 1]
    BY DEF PopIs
  <1> QED
    BY <1>1, <1>2, <1>3, <1>4 DEF MovesOn

\* A pop takes one record.
LEMMA PopTakes ==
    ASSUME NEW sources \in Seq(Seq(Rec)), NEW tombstones, NEW descending,
           NEW run \in Runs(sources),
           NEW i \in FirstSources(sources, run.pos, descending),
           NEW new, new = Popped(run, i, sources[i][run.pos[i] + 1], tombstones)
    PROVE  Cardinality(Taken(sources, new.pos)) = Cardinality(Taken(sources, run.pos)) + 1
  <1>1. /\ i \in DOMAIN sources /\ run.pos[i] \in Nat
        /\ run.pos[i] + 1 \in 1..Len(sources[i])
    BY FirstSourcesIs
  <1>2. PICK pos : pos = run.pos
    OBVIOUS
  <1>3. pos \in [DOMAIN sources -> Nat]
    BY <1>2 DEF Runs
  <1>4. new.pos = [pos EXCEPT ![i] = pos[i] + 1]
    <2>1. PICK r : r = sources[i][run.pos[i] + 1]
      OBVIOUS
    <2>2. PopIs(run, i, r, tombstones, new)
      BY <2>1, PoppedIs
    <2> QED
      BY <1>2, <2>2 DEF PopIs
  <1>5. PICK n \in Nat : n = Len(sources) /\ DOMAIN sources = 1..n
    OBVIOUS
  <1>6. PICK p : p = <<i, pos[i] + 1>>
    OBVIOUS
  <1>7. PICK old : old = Taken(sources, pos)
    OBVIOUS
  <1>8. p \notin old
    BY <1>2, <1>1, <1>6, <1>7 DEF Taken
  <1>9. Taken(sources, new.pos) = old \cup {p}
    <2>1. p \in FirstPlaces(sources, n) /\ p[1] = i /\ p[2] = pos[i] + 1
      BY <1>1, <1>2, <1>5, <1>6 DEF FirstPlaces
    <2>2. ASSUME NEW u \in FirstPlaces(sources, n)
          PROVE  u[2] <= new.pos[u[1]] <=> (u[2] <= pos[u[1]] \/ u = p)
      <3>1. u = <<u[1], u[2]>> /\ u[1] \in 1..n /\ u[2] \in Nat
        BY <2>2 DEF FirstPlaces
      <3>2. CASE u[1] = i
        <4>1. new.pos[u[1]] = pos[i] + 1 /\ pos[i] \in Nat
          BY <1>1, <1>3, <1>4, <3>2
        <4>2. u = p <=> u[2] = pos[i] + 1
          BY <1>6, <3>1, <3>2
        <4> QED
          BY <3>1, <3>2, <4>1, <4>2
      <3>3. CASE u[1] # i
        <4>1. new.pos[u[1]] = pos[u[1]]
          BY <1>3, <1>4, <1>5, <3>1, <3>3
        <4>2. u # p
          BY <2>1, <3>3
        <4> QED
          BY <4>1, <4>2
      <3> QED
        BY <3>2, <3>3
    <2> QED
      BY <1>5, <1>7, <2>1, <2>2 DEF Taken
  <1>10. IsFiniteSet(old)
    <2>1. IsFiniteSet(FirstPlaces(sources, Len(sources)))
      BY PlacesCount
    <2>2. old \in SUBSET FirstPlaces(sources, Len(sources))
      BY <1>7 DEF Taken
    <2> QED
      BY <2>1, <2>2, FS_Subset
  <1> QED
    BY <1>2, <1>7, <1>8, <1>9, <1>10, FS_AddElement

\* What holds of the first run and is kept by every pop holds at the end, with all
\* records popped.
EndsIn(J, sources, out) ==
    \E run \in J : /\ run \in Runs(sources) /\ run.out = out
                   /\ \A i \in 1..Len(sources) : \A j \in 1..Len(sources[i]) :
                            j <= run.pos[i]

LEMMA DrainEnds ==
    ASSUME NEW sources \in Seq(Seq(Rec)), NEW tombstones, NEW descending,
           NEW J, StartRun(sources) \in J, Keeps(J, sources, tombstones, descending),
           NEW out \in Drain(sources, tombstones, descending)
    PROVE  EndsIn(J, sources, out)
  <1>0. PICK N \in Nat : \E f : Draining(f, N, sources, tombstones, descending)
    BY DrainRuns
  <1>1. PICK f : Draining(f, N, sources, tombstones, descending)
    BY <1>0
  <1> DEFINE G == {n \in 0..N : \A run \in f[n] :
                        run \in J /\ Cardinality(Taken(sources, run.pos)) = n}
  <1>2. 0 \in G
    <2>1. PICK start : start = StartRun(sources)
      OBVIOUS
    <2>2. f[0] = {start} /\ start \in J
      BY <1>1, <2>1 DEF Draining
    <2>3. start.pos = [i \in DOMAIN sources |-> 0]
      BY <2>1 DEF StartRun
    <2>4. Taken(sources, start.pos) = {}
      BY <2>3 DEF Taken, FirstPlaces
    <2>5. Cardinality(Taken(sources, start.pos)) = 0
      BY ONLY <2>4, FS_EmptySet, Zenon
    <2> QED
      BY <2>2, <2>5
  <1>3. ASSUME NEW k \in 0..N, k # N, k \in G PROVE k + 1 \in G
    <2>1. k + 1 \in 1..N /\ (k + 1) - 1 = k /\ k + 1 \in 0..N
      BY <1>3
    <2>2. f[k + 1] = DrainStep(sources, tombstones, descending, f[k])
      BY <1>1, <2>1 DEF Draining
    <2>3. \A run \in f[k] : run \in J /\ Cardinality(Taken(sources, run.pos)) = k
      BY <1>3
    <2>4. f[k] \subseteq Runs(sources)
      BY <1>1, <1>3 DEF Draining
    <2>5. ASSUME NEW new \in f[k + 1]
          PROVE  new \in J /\ Cardinality(Taken(sources, new.pos)) = k + 1
      <3>0. PICK run \in f[k] : \E i \in FirstSources(sources, run.pos, descending) :
                new = Popped(run, i, sources[i][run.pos[i] + 1], tombstones)
        BY <2>2, <2>5 DEF DrainStep
      <3>1. PICK i \in FirstSources(sources, run.pos, descending) :
                new = Popped(run, i, sources[i][run.pos[i] + 1], tombstones)
        BY <3>0
      <3>2. run \in J /\ run \in Runs(sources) /\ Cardinality(Taken(sources, run.pos)) = k
        BY <2>3, <2>4, <3>1
      <3>3. new \in J
        BY <3>1, <3>2 DEF Keeps
      <3>4. Cardinality(Taken(sources, new.pos)) = Cardinality(Taken(sources, run.pos)) + 1
        BY ONLY <3>1, <3>2, sources \in Seq(Seq(Rec)), PopTakes, ZenonT(30)
      <3> QED
        BY ONLY <3>2, <3>3, <3>4
    <2> QED
      BY <2>1, <2>5
  <1>4. \A k \in 0..N : k \in G
    <2> HIDE DEF G
    <2> QED
      BY <1>2, <1>3, UpTo
  <1>5. PICK run \in f[N] : run.out = out
    BY <1>1 DEF Draining
  <1>6. N \in G /\ f[N] \subseteq Runs(sources) /\ N = Len(FlattenSeq(sources))
    <2>1. N \in 0..N
      OBVIOUS
    <2> QED
      BY <1>1, <1>4, <2>1 DEF Draining
  <1>7. run \in J /\ run \in Runs(sources) /\ Cardinality(Taken(sources, run.pos)) = N
    BY <1>5, <1>6
  <1>8. PICK all, taken : all = FirstPlaces(sources, Len(sources)) /\ taken = Taken(sources, run.pos)
    OBVIOUS
  <1>9. taken = all
    <2>1. IsFiniteSet(all) /\ Cardinality(all) = N
      BY <1>6, <1>8, PlacesCount
    <2>2. taken \in SUBSET all /\ Cardinality(taken) = N
      BY <1>7, <1>8 DEF Taken
    <2>3. Cardinality(all) = Cardinality(taken)
      BY <2>1, <2>2
    <2> QED
      BY <2>1, <2>2, <2>3, FS_Subset
  <1>10. ASSUME NEW i \in 1..Len(sources), NEW j \in 1..Len(sources[i])
         PROVE  j <= run.pos[i]
    <2>1. PICK p : p = <<i, j>>
      OBVIOUS
    <2>2. p \in all /\ p[1] = i /\ p[2] = j
      BY <1>8, <2>1 DEF FirstPlaces
    <2> QED
      BY <1>8, <1>9, <2>2 DEF Taken
  <1> QED
    BY <1>5, <1>7, <1>10 DEF EndsIn

\* At most one record of the sources is at c.
OnceIn(sources, c) ==
    \A i, k \in 1..Len(sources) : \A j \in 1..Len(sources[i]), l \in 1..Len(sources[k]) :
        At(sources[i][j]) = c /\ At(sources[k][l]) = c => i = k /\ j = l

\* Then the loop returns it at most once.
LEMMA DrainOnce ==
    ASSUME NEW sources \in Seq(Seq(Rec)), NEW tombstones, NEW descending, NEW c,
           OnceIn(sources, c), NEW out \in Drain(sources, tombstones, descending)
    PROVE  Once(out, c)
  <1> DEFINE Gone(pos) == \E i \in 1..Len(sources) : \E j \in 1..Len(sources[i]) :
                                j <= pos[i] /\ At(sources[i][j]) = c
             J == {run \in Runs(sources) : /\ Once(run.out, c)
                                           /\ Has(run.out, c) => Gone(run.pos)}
  <1>1. StartRun(sources) \in J
    <2>1. PICK start : start = StartRun(sources)
      OBVIOUS
    <2>2. start.out = <<>>
      BY <2>1 DEF StartRun
    <2>3. start \in Runs(sources)
      BY <2>1, <2>2, AtNumbers DEF StartRun, Runs
    <2>4. Once(start.out, c) /\ ~Has(start.out, c)
      BY <2>2 DEF Once, Ordered, Has, Range
    <2> QED
      BY <2>1, <2>3, <2>4
  <1>2. Keeps(J, sources, tombstones, descending)
    <2> SUFFICES ASSUME NEW run \in J, NEW i \in FirstSources(sources, run.pos, descending),
                        NEW new, new = Popped(run, i, sources[i][run.pos[i] + 1], tombstones)
                 PROVE  new \in J
      BY DEF Keeps
    <2>1. run \in Runs(sources) /\ Once(run.out, c) /\ (Has(run.out, c) => Gone(run.pos))
      OBVIOUS
    <2>2. PICK r : r = sources[i][run.pos[i] + 1]
      OBVIOUS
    <2>3. new \in Runs(sources) /\ r \in Rec /\ PopIs(run, i, r, tombstones, new)
      BY <2>1, <2>2, PoppedIs
    <2>4. /\ i \in 1..Len(sources) /\ run.pos[i] \in Nat
          /\ run.pos[i] + 1 \in 1..Len(sources[i]) /\ new.pos[i] = run.pos[i] + 1
          /\ \A k \in 1..Len(sources) :
                run.pos[k] \in Nat /\ (k # i => new.pos[k] = run.pos[k])
      <3>1. MovesOn(sources, run, i, new)
        BY <2>1, <2>3, PopMoves
      <3> QED
        BY <3>1 DEF MovesOn
    <2>5. run.out \in Seq(Rec)
      BY <2>1 DEF Runs
    <2>7. \A k \in 1..Len(sources) : run.pos[k] \in Nat /\ run.pos[k] <= new.pos[k]
                                        /\ new.pos[k] \in Nat
      <3> SUFFICES ASSUME NEW k \in 1..Len(sources)
                   PROVE  /\ run.pos[k] \in Nat /\ run.pos[k] <= new.pos[k]
                          /\ new.pos[k] \in Nat
        OBVIOUS
      <3>1. CASE k = i
        BY ONLY <2>4, <3>1
      <3>2. CASE k # i
        <4>1. new.pos[k] = run.pos[k] /\ run.pos[k] \in Nat
          BY <2>4, <3>2
        <4> QED
          BY <4>1
      <3> QED
        BY <3>1, <3>2
    <2>8. Gone(run.pos) => Gone(new.pos)
      <3> SUFFICES ASSUME NEW k \in 1..Len(sources), NEW j \in 1..Len(sources[k]),
                          j <= run.pos[k], At(sources[k][j]) = c
                   PROVE  Gone(new.pos)
        OBVIOUS
      <3>1. j <= new.pos[k]
        <4>1. sources[k] \in Seq(Rec)
          OBVIOUS
        <4>2. j \in Int
          BY ONLY j \in 1..Len(sources[k]), <4>1
        <4>3. run.pos[k] \in Nat /\ run.pos[k] <= new.pos[k] /\ new.pos[k] \in Nat
          BY <2>7
        <4> QED
          BY ONLY j <= run.pos[k], <4>2, <4>3
      <3> QED
        BY <3>1
    <2>9. At(r) = c => Gone(new.pos) /\ ~Gone(run.pos)
      <3> SUFFICES ASSUME At(r) = c PROVE Gone(new.pos) /\ ~Gone(run.pos)
        OBVIOUS
      <3>1. Gone(new.pos)
        <4>1. run.pos[i] + 1 <= new.pos[i]
          BY ONLY <2>4
        <4> QED
          BY <2>2, <2>4, <4>1
      <3>2. ASSUME NEW k \in 1..Len(sources), NEW j \in 1..Len(sources[k]),
                   j <= run.pos[k], At(sources[k][j]) = c
            PROVE  FALSE
        <4>1. k = i /\ j = run.pos[i] + 1
          BY <2>2, <2>4, <3>2 DEF OnceIn
        <4> QED
          BY ONLY <2>4, <3>2, <4>1
      <3> QED
        BY <3>1, <3>2
    <2>10. CASE new.out = run.out
      BY <2>1, <2>3, <2>8, <2>10
    <2>11. CASE new.out = Append(run.out, r)
      <3>a. r \in Rec /\ run.out \in Seq(Rec)
        BY <2>3, <2>5
      <3>1. Range(new.out) = Range(run.out) \cup {r} /\ Range(run.out) \subseteq Rec
        BY ONLY <3>a, <2>11, RangeAppend, RangeSeq
      <3>2. ~Has(run.out, c) \/ At(r) # c
        BY <2>1, <2>9
      <3>3. \A y \in Range(run.out) : <<y, r>> \in Apart(c)
        BY <2>3, <3>1, <3>2 DEF Has, Apart
      <3>4. Once(new.out, c)
        BY <2>1, <2>3, <2>5, <2>11, <3>3, OrderedAppend DEF Once
      <3>5. Has(new.out, c) => Gone(new.pos)
        BY <2>1, <2>8, <2>9, <3>1 DEF Has
      <3> QED
        BY <2>3, <3>4, <3>5
    <2> QED
      BY <2>3, <2>10, <2>11, Zenon DEF PopIs
  <1>3. \A o \in Drain(sources, tombstones, descending) :
                \E run \in J : run \in Runs(sources) /\ run.out = o
    <2> HIDE DEF J
    <2> QED
      BY <1>1, <1>2, DrainKeeps
  <1> QED
    BY <1>3

\* The loop returns a record that is the only one at its key and time stamp, unless
\* it is deleted.
LEMMA DrainFinds ==
    ASSUME NEW sources \in Seq(Seq(Rec)), NEW tombstones, NEW descending, NEW c,
           OnceIn(sources, c), c # <<0, 0>>,
           NEW i0 \in 1..Len(sources), NEW j0 \in 1..Len(sources[i0]),
           NEW x, x = sources[i0][j0], At(x) = c, x.op = "put", ~IsTombstoned(x, tombstones),
           NEW out \in Drain(sources, tombstones, descending)
    PROVE  x \in Range(out)
  <1> DEFINE J == {run \in Runs(sources) :
                        /\ run.last = c => j0 <= run.pos[i0]
                        /\ j0 <= run.pos[i0] => x \in Range(run.out)}
  <1>1. StartRun(sources) \in J
    <2>1. PICK start : start = StartRun(sources)
      OBVIOUS
    <2>2. start.last = <<0, 0>> /\ start.pos = [i \in DOMAIN sources |-> 0]
      BY <2>1 DEF StartRun
    <2>3. start \in Runs(sources)
      BY <2>1, AtNumbers DEF StartRun, Runs
    <2>4. ~(j0 <= start.pos[i0])
      <3>1. i0 \in DOMAIN sources
        OBVIOUS
      <3>2. start.pos[i0] = 0
        BY <2>2, <3>1
      <3> QED
        BY <3>2
    <2> QED
      BY <2>1, <2>2, <2>3, <2>4
  <1>2. Keeps(J, sources, tombstones, descending)
    <2> SUFFICES ASSUME NEW run \in J, NEW i \in FirstSources(sources, run.pos, descending),
                        NEW new, new = Popped(run, i, sources[i][run.pos[i] + 1], tombstones)
                 PROVE  new \in J
      BY DEF Keeps
    <2>1. /\ run \in Runs(sources) /\ (run.last = c => j0 <= run.pos[i0])
          /\ j0 <= run.pos[i0] => x \in Range(run.out)
      OBVIOUS
    <2>2. PICK r : r = sources[i][run.pos[i] + 1]
      OBVIOUS
    <2>3. new \in Runs(sources) /\ r \in Rec /\ PopIs(run, i, r, tombstones, new)
      BY <2>1, <2>2, PoppedIs
    <2>4. /\ i \in 1..Len(sources) /\ run.pos[i] \in Nat
          /\ run.pos[i] + 1 \in 1..Len(sources[i]) /\ new.pos[i] = run.pos[i] + 1
          /\ \A k \in 1..Len(sources) :
                run.pos[k] \in Nat /\ (k # i => new.pos[k] = run.pos[k])
      <3>1. MovesOn(sources, run, i, new)
        BY <2>1, <2>3, PopMoves
      <3> QED
        BY <3>1, Zenon DEF MovesOn
    <2>5. run.out \in Seq(Rec) /\ new.last = At(r)
      BY <2>1, <2>3, Zenon DEF Runs, PopIs
    <2>a. r \in Rec /\ run.out \in Seq(Rec)
      BY <2>3, <2>5
    <2>6. Range(run.out) \subseteq Range(new.out)
      <3>1. CASE new.out = run.out
        BY <3>1
      <3>2. CASE new.out = Append(run.out, r)
        BY ONLY <2>a, <3>2, RangeAppend
      <3> QED
        BY <2>3, <3>1, <3>2, Zenon DEF PopIs
    <2>7. CASE At(r) = c
      <3>1. i = i0 /\ run.pos[i] + 1 = j0
        BY <2>2, <2>4, <2>7 DEF OnceIn
      <3>2. r = x /\ ~(j0 <= run.pos[i0])
        BY ONLY <2>2, <2>4, <3>1, x = sources[i0][j0]
      <3>3. new.out = Append(run.out, r)
        BY <2>1, <2>3, <2>7, <3>2, Zenon DEF PopIs
      <3>4. x \in Range(new.out)
        BY ONLY <2>a, <3>2, <3>3, RangeAppend
      <3>5. j0 <= new.pos[i0]
        BY ONLY <2>4, <3>1
      <3> QED
        BY <2>3, <3>4, <3>5
    <2>8. CASE At(r) # c
      <3>1. ASSUME j0 <= new.pos[i0] PROVE j0 <= run.pos[i0]
        <4>1. CASE i # i0
          <5>1. new.pos[i0] = run.pos[i0]
            BY <2>4, <4>1
          <5> QED
            BY <3>1, <5>1
        <4>2. CASE i = i0
          <5>1. run.pos[i] + 1 # j0
            BY <2>2, <2>8, <4>2
          <5>2. sources[i0] \in Seq(Rec)
            OBVIOUS
          <5>3. j0 \in Int
            BY ONLY j0 \in 1..Len(sources[i0]), <5>2
          <5> QED
            BY ONLY <2>4, <3>1, <4>2, <5>1, <5>3
        <4> QED
          BY <4>1, <4>2
      <3> QED
        BY <2>1, <2>3, <2>5, <2>6, <2>8, <3>1
    <2> QED
      BY <2>7, <2>8
  <1>3. EndsIn(J, sources, out)
    <2> HIDE DEF J
    <2> QED
      BY <1>1, <1>2, DrainEnds
  <1> QED
    BY <1>3 DEF EndsIn

-----------------------------------------------------------------------------
(* Copies of a record: the invariant *)

\* c is the key and time stamp of at most one record.
SingleIn(recs, c) == \A x, y \in recs : At(x) = c /\ At(y) = c => x = y

\* Memory and the SSTs have at most one record at c.
OnceHere(mem, files, c) ==
    /\ Once(mem, c)
    /\ \A id \in DOMAIN files :
        /\ Once(RecordsOf(files[id]), c)
        /\ Has(RecordsOf(files[id]), c) => ~Has(mem, c)
    /\ \A i, j \in DOMAIN files :
        Has(RecordsOf(files[i]), c) /\ Has(RecordsOf(files[j]), c) => i = j

\* A flush moves the records of memory into an SST, and a merge those of its SSTs
\* into another, so that what was written once is in one place.
OnceOK == \A c : SingleIn(Range(log), c) => OnceHere(Memory, ssts, c)

LEMMA OnceFewer ==
    ASSUME NEW mem, NEW files, NEW c, OnceHere(mem, files, c),
           NEW mem2, Once(mem2, c), Range(mem2) \subseteq Range(mem),
           NEW rest, DOMAIN rest \subseteq DOMAIN files,
           \A i \in DOMAIN rest : rest[i] = files[i]
    PROVE  OnceHere(mem2, rest, c)
  <1>1. Has(mem2, c) => Has(mem, c)
    BY DEF Has
  <1> QED
    BY <1>1 DEF OnceHere

LEMMA OnceNewFile ==
    ASSUME NEW mem, NEW rest, NEW c, OnceHere(mem, rest, c),
           NEW id, id \notin DOMAIN rest, NEW blocks, Once(RecordsOf(blocks), c),
           Has(RecordsOf(blocks), c) =>
                ~Has(mem, c) /\ \A i \in DOMAIN rest : ~Has(RecordsOf(rest[i]), c),
           NEW files, files = WithSst(rest, id, blocks)
    PROVE  OnceHere(mem, files, c)
  <1>1. /\ DOMAIN files = DOMAIN rest \cup {id} /\ files[id] = blocks
        /\ \A i \in DOMAIN rest : files[i] = rest[i]
    BY DEF WithSst
  <1>2. \A i \in DOMAIN files :
            /\ Once(RecordsOf(files[i]), c)
            /\ Has(RecordsOf(files[i]), c) => ~Has(mem, c)
    BY <1>1 DEF OnceHere
  <1>3. ASSUME NEW i \in DOMAIN files, NEW j \in DOMAIN files,
               Has(RecordsOf(files[i]), c), Has(RecordsOf(files[j]), c)
        PROVE  i = j
    BY <1>1, <1>3 DEF OnceHere
  <1>4. Once(mem, c)
    BY DEF OnceHere
  <1> QED
    BY <1>2, <1>3, <1>4 DEF OnceHere

\* The records of an SST, as it stores them.
LEMMA StoredOnce ==
    ASSUME NEW recs \in Seq(Rec), NEW c, Once(recs, c)
    PROVE  /\ Once(RecordsOf(Blocks(recs)), c)
           /\ Has(RecordsOf(Blocks(recs)), c) => Has(recs, c)
  <1>1. PICK flat : flat = RecordsOf(Blocks(recs))
    OBVIOUS
  <1>2. PICK n \in Nat : n = Len(recs)
    OBVIOUS
  <1>3. flat = [i \in 1..n |-> Stored(recs[i])]
    BY <1>1, <1>2, BlocksFlatten DEF RecordsOf
  <1>4. \A i \in 1..n : recs[i] \in Rec /\ Stored(recs[i]) \in Rec
                        /\ At(Stored(recs[i])) = At(recs[i])
    BY <1>2, StoredIs
  <1>5. flat \in Seq(Rec) /\ Len(flat) = n
    <2>1. flat \in [1..n -> Rec]
      BY <1>3, <1>4
    <2> QED
      BY ONLY <2>1, n \in Nat
  <1>6. ASSUME NEW i \in 1..n, NEW j \in 1..n, i < j
        PROVE  <<flat[i], flat[j]>> \in Apart(c)
    <2>1. <<recs[i], recs[j]>> \in Apart(c)
      BY <1>2, <1>6 DEF Once, Ordered
    <2>2. flat[i] = Stored(recs[i]) /\ flat[j] = Stored(recs[j])
      BY <1>3
    <2> QED
      BY <1>4, <2>1, <2>2 DEF Apart
  <1>7. Once(flat, c)
    BY <1>5, <1>6 DEF Once, Ordered
  <1>8. Has(flat, c) => Has(recs, c)
    <2> SUFFICES ASSUME NEW x \in Range(flat), At(x) = c PROVE Has(recs, c)
      BY DEF Has
    <2>1. PICK i \in 1..n : x = flat[i]
      BY <1>5, RangeAt
    <2>2. recs[i] \in Range(recs) /\ At(recs[i]) = c
      BY <1>2, <1>3, <1>4, <2>1, RangeSeq
    <2> QED
      BY <2>2 DEF Has
  <1> QED
    BY <1>1, <1>7, <1>8

LEMMA MemoryForms ==
    ASSUME NEW a \in Seq(Rec), NEW t \in Seq(Seq(Rec)), Len(t) <= 1, t = <<>> \/ a = <<>>,
           NEW mem, mem = a \o FlattenSeq(t)
    PROVE  /\ t = <<>> => mem = a
           /\ t # <<>> => Len(t) = 1 /\ mem = t[1] /\ t[1] \in Seq(Rec)
  <1>1. PICK N \in Nat : N = Len(t)
    OBVIOUS
  <1>2. PICK f \in [0..N -> Seq(Rec)] :
            /\ f[0] = <<>>
            /\ \A n \in 1..N : f[n] = f[n - 1] \o t[n]
            /\ FlattenSeq(t) = f[N]
    BY <1>1, FlattenRuns
  <1>3. CASE t = <<>>
    <2>1. N = 0
      BY <1>1, <1>3
    <2>2. FlattenSeq(t) = <<>>
      BY <1>2, <2>1
    <2> QED
      BY <1>3, <2>2
  <1>4. CASE t # <<>>
    <2>1. N = 1
      <3>1. N # 0
        BY <1>1, <1>4, EmptySeq
      <3>2. N <= 1
        BY <1>1
      <3> QED
        BY ONLY <3>1, <3>2, N \in Nat
    <2>0. 1 \in 1..N /\ 1 \in 1..Len(t) /\ 1 - 1 = 0
      BY <1>1, <2>1
    <2>2. t[1] \in Seq(Rec)
      BY ONLY <2>0, t \in Seq(Seq(Rec))
    <2>3. f[1] = f[0] \o t[1]
      <3>1. f[1] = f[1 - 1] \o t[1]
        BY <1>2, <2>0
      <3> QED
        BY <2>0, <3>1
    <2>4. FlattenSeq(t) = t[1]
      BY <1>2, <2>1, <2>2, <2>3
    <2>5. a = <<>>
      BY <1>4
    <2> QED
      BY <1>1, <1>4, <2>1, <2>2, <2>4, <2>5
  <1> QED
    BY <1>3, <1>4

LEMMA MemoryTables ==
    ASSUME MemoryOK
    PROVE  /\ frozen = <<>> => Memory = active
           /\ frozen # <<>> => Len(frozen) = 1 /\ Memory = frozen[1] /\ frozen[1] \in Seq(Rec)
  BY MemoryForms DEF MemoryOK, Memory

\* The records of an SST are those of its blocks.
LEMMA RecordsHeld ==
    ASSUME LogOK, SstsOK, NEW id \in DOMAIN ssts
    PROVE  /\ RecordsOf(ssts[id]) \in Seq(Rec)
           /\ Range(RecordsOf(ssts[id])) = UNION {Range(ssts[id][b]) : b \in 1..Len(ssts[id])}
           /\ Range(RecordsOf(ssts[id])) \subseteq Held
  <1>1. ssts[id] \in Seq(Seq(Rec))
    BY SstBlocks
  <1>2. /\ RecordsOf(ssts[id]) \in Seq(Rec)
        /\ Range(RecordsOf(ssts[id])) = UNION {Range(ssts[id][b]) : b \in 1..Len(ssts[id])}
    BY <1>1, FlattenIs DEF RecordsOf
  <1>3. \A b \in 1..Len(ssts[id]) : Range(ssts[id][b]) \subseteq Held
    BY SstBlocks
  <1> QED
    BY <1>2, <1>3

LEMMA InsertOnce ==
    ASSUME LookupInv, LogOK', OnceOK, NEW rec, Insert(rec), UNCHANGED <<frozen, ssts>>
    PROVE  OnceOK'
  <1>0. LogOK /\ MemoryOK /\ SstsOK
    BY DEF LookupInv
  <1>1. PICK l, n : l = log' /\ n = Len(log) + 1
    OBVIOUS
  <1>2. /\ log \in Seq(Rec) /\ l \in Seq(Rec) /\ l = Append(log, rec) /\ n \in Nat
        /\ \A i \in 1..Len(l) : l[i].seq = i
    BY <1>0, <1>1 DEF LogOK, Insert
  <1>3. Len(l) = n /\ l[n] = rec /\ n \in 1..n
    BY <1>1, <1>2
  <1>4. rec \in Rec /\ rec.seq = n
    BY <1>2, <1>3
  <1>5. Range(l) = Range(log) \cup {rec}
    BY <1>2, <1>4, RangeAppend
  <1>6. rec \notin Range(log)
    <2>1. \A x \in Range(log) : x.seq \in 1..Len(log)
      BY <1>0, LogIs
    <2> QED
      BY <1>1, <1>2, <1>4, <2>1
  <1>7. frozen = <<>> /\ Memory = active
    BY <1>0, MemoryTables DEF Insert
  <1>8. PICK mem : mem = Memory'
    OBVIOUS
  <1>9. mem = Append(Memory, rec)
    <2>0. PICK a, fz : a = active' /\ fz = frozen'
      OBVIOUS
    <2>1. mem = a \o FlattenSeq(fz)
      BY <1>8, <2>0 DEF Memory
    <2>2. a = Append(active, rec) /\ fz = <<>> /\ active \in Seq(Rec)
      BY <1>0, <1>7, <2>0 DEF Insert, MemoryOK
    <2>3. a \in Seq(Rec) /\ fz \in Seq(Seq(Rec)) /\ Len(fz) <= 1
      BY <1>4, <2>2
    <2>4. mem = a
      BY ONLY <2>1, <2>2, <2>3, MemoryForms
    <2> QED
      BY <1>7, <2>2, <2>4
  <1>10. Memory \in Seq(Rec) /\ Range(Memory) \subseteq Range(log)
    BY <1>0, MemoryIs
  <1>11. Range(mem) = Range(Memory) \cup {rec}
    BY <1>4, <1>9, <1>10, RangeAppend
  <1>12. ASSUME NEW c, SingleIn(Range(l), c) PROVE OnceHere(mem, ssts, c)
    <2>1. SingleIn(Range(log), c)
      BY <1>5, <1>12 DEF SingleIn
    <2>2. OnceHere(Memory, ssts, c)
      BY <2>1 DEF OnceOK
    <2>3. At(rec) = c => \A x \in Range(log) : At(x) # c
      BY <1>5, <1>6, <1>12 DEF SingleIn
    <2>4. Once(mem, c)
      <3>1. \A y \in Range(Memory) : <<y, rec>> \in Apart(c)
        <4>1. \A y \in Range(Memory) : y \in Rec
          BY <1>10, RangeSeq
        <4> QED
          BY <1>4, <1>10, <2>3, <4>1 DEF Apart
      <3>2. Ordered(Memory, Apart(c))
        BY <2>2 DEF OnceHere, Once
      <3>3. Ordered(mem, Apart(c))
        BY <1>4, <1>9, <1>10, <3>1, <3>2, OrderedAppend
      <3> QED
        BY <3>3 DEF Once
    <2>5. ASSUME NEW id \in DOMAIN ssts, Has(RecordsOf(ssts[id]), c)
          PROVE  ~Has(mem, c)
      <3>1. ~Has(Memory, c)
        BY <2>2, <2>5 DEF OnceHere
      <3>2. PICK x \in Range(RecordsOf(ssts[id])) : At(x) = c
        BY <2>5 DEF Has
      <3>3. x \in Held
        BY <1>0, <3>2, RecordsHeld
      <3>4. PICK y \in Range(log) : At(x) = At(y)
        BY <1>0, <3>3, HeldIs
      <3>5. At(rec) # c
        BY <2>3, <3>2, <3>4
      <3> QED
        BY <1>11, <3>1, <3>5 DEF Has
    <2> QED
      BY <2>2, <2>4, <2>5 DEF OnceHere
  <1> QED
    BY <1>1, <1>8, <1>12 DEF OnceOK

LEMMA FreezeOnce ==
    ASSUME LookupInv, OnceOK, Freeze
    PROVE  OnceOK'
  <1>0. MemoryOK /\ active \in Seq(Rec)
    BY DEF LookupInv, MemoryOK
  <1>1. /\ frozen = <<>> /\ frozen' = <<Sorted(active, Before)>> /\ active' = <<>>
        /\ UNCHANGED <<ssts, log>>
    BY DEF Freeze
  <1>2. Memory = active
    BY <1>0, <1>1, MemoryTables
  <1>3. PICK t, mem : t = Sorted(active, Before) /\ mem = Memory'
    OBVIOUS
  <1>4. /\ t \in Seq(Rec) /\ Range(t) = Range(active)
        /\ \A c : Once(active, c) => Once(t, c)
    BY <1>0, <1>3, SortedBefore
  <1>5. mem = t
    <2>1. PICK fz : fz = frozen'
      OBVIOUS
    <2>2. PICK a : a = <<>>
      OBVIOUS
    <2>a. a \in Seq(Rec)
      BY <2>2
    <2>3. mem = a \o FlattenSeq(fz)
      BY <1>1, <1>3, <2>1, <2>2 DEF Memory
    <2>4. fz = <<t>> /\ fz \in Seq(Seq(Rec)) /\ Len(fz) <= 1 /\ fz # <<>> /\ fz[1] = t
      BY <1>1, <1>3, <1>4, <2>1
    <2>5. mem = fz[1]
      BY ONLY <2>a, <2>2, <2>3, <2>4, MemoryForms
    <2> QED
      BY <2>4, <2>5
  <1>6. ASSUME NEW c, SingleIn(Range(log), c) PROVE OnceHere(mem, ssts, c)
    <2>1. OnceHere(Memory, ssts, c)
      BY <1>6 DEF OnceOK
    <2>2. Once(mem, c)
      BY <1>2, <1>4, <1>5, <2>1 DEF OnceHere
    <2> QED
      BY <1>2, <1>4, <1>5, <2>1, <2>2, OnceFewer
  <1> QED
    BY <1>1, <1>3, <1>6 DEF OnceOK

LEMMA FlushOnce ==
    ASSUME LookupInv, OnceOK, Flush
    PROVE  OnceOK'
  <1>0. MemoryOK /\ SstsOK /\ frozen \in Seq(Seq(Rec)) /\ (frozen = <<>> \/ active = <<>>)
    BY DEF LookupInv, MemoryOK
  <1>1. PICK recs : recs = Unexpired(Head(frozen))
    OBVIOUS
  <1>2. /\ frozen # <<>> /\ frozen' = Tail(frozen) /\ UNCHANGED <<active, log>>
        /\ ssts' = IF recs = <<>> THEN ssts ELSE WithSst(ssts, NextSstId, Blocks(recs))
    BY <1>1 DEF Flush
  <1>3. Len(frozen) = 1 /\ Memory = frozen[1] /\ frozen[1] \in Seq(Rec)
    BY <1>0, <1>2, MemoryTables
  <1>4. PICK t : t = Memory
    OBVIOUS
  <1>5. t \in Seq(Rec) /\ recs = Unexpired(t)
    <2>1. Head(frozen) = frozen[1]
      BY ONLY <1>0, <1>3, <1>2
    <2> QED
      BY <1>1, <1>3, <1>4, <2>1
  <1>6. /\ recs \in Seq(Rec) /\ Range(recs) \subseteq Range(t)
        /\ \A c : Once(t, c) => Once(recs, c)
    BY <1>5, UnexpiredIs DEF Once
  <1>7. PICK mem, files, id : mem = Memory' /\ files = ssts' /\ id = NextSstId
    OBVIOUS
  <1>8. mem = <<>>
    <2>1. PICK fz : fz = frozen'
      OBVIOUS
    <2>2. fz \in Seq(Seq(Rec)) /\ Len(fz) = 0
      BY ONLY <1>0, <1>2, <1>3, <2>1
    <2>3. fz = <<>> /\ active' = <<>>
      BY <1>0, <1>2, <2>2, EmptySeq
    <2>4. PICK a : a = <<>>
      OBVIOUS
    <2>a. a \in Seq(Rec)
      BY <2>4
    <2>5. mem = a \o FlattenSeq(fz)
      BY <1>7, <2>1, <2>3, <2>4 DEF Memory
    <2>6. Len(fz) <= 1 /\ fz = <<>>
      BY <2>2, <2>3
    <2>7. mem = a
      BY ONLY <2>a, <2>2, <2>5, <2>6, MemoryForms
    <2> QED
      BY <2>4, <2>7
  <1>9. Range(mem) = {} /\ \A c : Once(mem, c) /\ ~Has(mem, c)
    BY <1>8 DEF Range, Once, Ordered, Has
  <1>10. ASSUME NEW c, SingleIn(Range(log), c) PROVE OnceHere(mem, files, c)
    <2>1. OnceHere(t, ssts, c)
      BY <1>4, <1>10 DEF OnceOK
    <2>2. OnceHere(mem, ssts, c)
      BY <1>9, <2>1, OnceFewer
    <2>3. CASE recs = <<>>
      BY <1>2, <1>7, <2>2, <2>3
    <2>4. CASE recs # <<>>
      <3>1. files = WithSst(ssts, id, Blocks(recs)) /\ id \notin DOMAIN ssts
        BY <1>0, <1>2, <1>7, <2>4, NextSstIdIs
      <3>2. Once(recs, c)
        BY <1>6, <2>1 DEF OnceHere
      <3>3. PICK blocks : blocks = Blocks(recs)
        OBVIOUS
      <3>4. Once(RecordsOf(blocks), c) /\ (Has(RecordsOf(blocks), c) => Has(recs, c))
        BY <1>6, <3>2, <3>3, StoredOnce
      <3>5. Has(RecordsOf(blocks), c) =>
                ~Has(mem, c) /\ \A i \in DOMAIN ssts : ~Has(RecordsOf(ssts[i]), c)
        <4>1. Has(recs, c) => Has(t, c)
          BY <1>6 DEF Has
        <4> QED
          BY <1>9, <2>1, <3>4, <4>1 DEF OnceHere
      <3> QED
        BY <2>2, <3>1, <3>3, <3>4, <3>5, OnceNewFile
    <2> QED
      BY <2>3, <2>4
  <1> QED
    BY <1>2, <1>7, <1>10 DEF OnceOK

\* Fewer records of each table, none of them twice where there was only one.
LEMMA FlattenShrinks ==
    ASSUME NEW ss \in Seq(Seq(Rec)), NEW tt \in Seq(Seq(Rec)), Len(tt) = Len(ss), NEW c,
           \A i \in 1..Len(ss) : /\ Range(tt[i]) \subseteq Range(ss[i])
                                 /\ Once(ss[i], c) => Once(tt[i], c),
           Once(FlattenSeq(ss), c)
    PROVE  /\ Once(FlattenSeq(tt), c)
           /\ Range(FlattenSeq(tt)) \subseteq Range(FlattenSeq(ss))
  <1>1. AllOrdered(ss, Len(ss), Apart(c))
    BY FlattenOrdered DEF Once
  <1>2. \A i \in 1..Len(ss) : Once(ss[i], c)
    BY <1>1 DEF AllOrdered, Once
  <1>3. \A i, j \in 1..Len(ss) : i < j => Across(tt[i], tt[j], Apart(c))
    BY <1>1 DEF AllOrdered, Across
  <1>4. AllOrdered(tt, Len(tt), Apart(c))
    BY <1>2, <1>3 DEF AllOrdered, Once
  <1>5. Once(FlattenSeq(tt), c)
    BY <1>4, FlattenOrdered DEF Once
  <1>6. /\ Range(FlattenSeq(tt)) = UNION {Range(tt[i]) : i \in 1..Len(tt)}
        /\ Range(FlattenSeq(ss)) = UNION {Range(ss[i]) : i \in 1..Len(ss)}
    BY FlattenIs
  <1> QED
    BY <1>5, <1>6

LEMMA MergeSourceOnce ==
    ASSUME LogOK, SstsOK, NEW id \in DOMAIN ssts, NEW c, Once(RecordsOf(ssts[id]), c)
    PROVE  /\ Once(MergeSource(id), c)
           /\ Has(MergeSource(id), c) => Has(RecordsOf(ssts[id]), c)
  <1>1. PICK blocks : blocks = ssts[id]
    OBVIOUS
  <1>2. /\ blocks \in Seq(Seq(Rec)) /\ DOMAIN blocks = 1..Len(blocks)
        /\ \A b \in 1..Len(blocks) : blocks[b] \in Seq(Rec)
    BY <1>1, SstBlocks
  <1>3. ASSUME NEW b \in 1..Len(blocks)
        PROVE  /\ BlockIterator(blocks[b]) \in Seq(Rec)
               /\ Range(BlockIterator(blocks[b])) \subseteq Range(blocks[b])
               /\ Once(blocks[b], c) => Once(BlockIterator(blocks[b]), c)
    <2>1. PICK u : u = Unexpired(blocks[b])
      OBVIOUS
    <2>2. blocks[b] \in Seq(Rec)
      BY <1>2
    <2>3. /\ u \in Seq(Rec) /\ Range(u) \subseteq Range(blocks[b])
          /\ Once(blocks[b], c) => Once(u, c)
      BY <2>1, <2>2, UnexpiredIs DEF Once
    <2>4. /\ Sorted(u, After) \in Seq(Rec) /\ Range(Sorted(u, After)) = Range(u)
          /\ Once(u, c) => Once(Sorted(u, After), c)
      BY <2>3, SortedAfter
    <2> QED
      BY <2>1, <2>3, <2>4 DEF BlockIterator
  <1>4. PICK s : s = [b \in DOMAIN blocks |-> BlockIterator(blocks[b])]
    OBVIOUS
  <1>5. s \in Seq(Seq(Rec)) /\ Len(s) = Len(blocks)
    <2>0. Len(blocks) \in Nat
      BY <1>2
    <2>1. PICK n \in Nat : n = Len(blocks)
      BY ONLY <2>0
    <2>2. s \in [1..n -> Seq(Rec)]
      BY <1>2, <1>3, <1>4, <2>1
    <2>3. s \in Seq(Seq(Rec)) /\ Len(s) = n
      BY ONLY <2>2, n \in Nat
    <2> QED
      BY <2>1, <2>3
  <1>6. MergeSource(id) = FlattenSeq(s)
    BY <1>1, <1>4 DEF MergeSource
  <1>7. \A b \in 1..Len(blocks) : /\ Range(s[b]) \subseteq Range(blocks[b])
                                  /\ Once(blocks[b], c) => Once(s[b], c)
    BY <1>2, <1>3, <1>4
  <1>8. Once(FlattenSeq(blocks), c)
    BY <1>1 DEF RecordsOf
  <1>9. Once(FlattenSeq(s), c) /\ Range(FlattenSeq(s)) \subseteq Range(FlattenSeq(blocks))
    BY <1>2, <1>5, <1>7, <1>8, FlattenShrinks
  <1> QED
    BY <1>1, <1>6, <1>9 DEF Has, RecordsOf

\* Sources with one copy each, and no two of them with one.
LEMMA OnceInIs ==
    ASSUME NEW sources \in Seq(Seq(Rec)), NEW c,
           \A i \in 1..Len(sources) : Once(sources[i], c),
           \A i, k \in 1..Len(sources) : Has(sources[i], c) /\ Has(sources[k], c) => i = k
    PROVE  OnceIn(sources, c)
  <1>1. SUFFICES ASSUME NEW i \in 1..Len(sources), NEW k \in 1..Len(sources),
                        NEW j \in 1..Len(sources[i]), NEW l \in 1..Len(sources[k]),
                        At(sources[i][j]) = c, At(sources[k][l]) = c
                 PROVE  i = k /\ j = l
    BY DEF OnceIn
  <1>2. sources[i] \in Seq(Rec) /\ sources[k] \in Seq(Rec)
    OBVIOUS
  <1>3. sources[i][j] \in Range(sources[i]) /\ sources[k][l] \in Range(sources[k])
    BY <1>2 DEF Range
  <1>4. i = k
    BY <1>1, <1>3 DEF Has
  <1>5. ~(j < l) /\ ~(l < j)
    <2>1. Once(sources[i], c) /\ l \in 1..Len(sources[i]) /\ At(sources[i][l]) = c
      BY <1>1, <1>4
    <2>2. \A m, o \in 1..Len(sources[i]) : m < o =>
                ~(At(sources[i][m]) = c /\ At(sources[i][o]) = c)
      BY <2>1 DEF Once, Ordered, Apart
    <2> QED
      BY <1>1, <2>1, <2>2
  <1>6. j \in Int /\ l \in Int
    BY <1>2
  <1> QED
    BY <1>4, <1>5, <1>6

\* The merge of a compaction: it writes one copy of what it reads once.
LEMMA MergesOnce ==
    ASSUME LogOK, SstsOK, NEW ids \in SUBSET DOMAIN ssts, NEW out \in Merges(ids),
           NEW c, NEW mem, OnceHere(mem, ssts, c)
    PROVE  /\ Once(out, c)
           /\ Has(out, c) => \E id \in ids : Has(RecordsOf(ssts[id]), c)
  <1>1. PICK order : order = SetToSeq(ids)
    OBVIOUS
  <1>2. order \in Seq(ids)
        /\ \A i, j \in 1..Len(order) : order[i] = order[j] => i = j
    <2>1. IsFiniteSet(1..MaxSsts)
      BY Numbers, FS_Interval
    <2>2. ids \in SUBSET (1..MaxSsts)
      BY DEF SstsOK
    <2>3. IsFiniteSet(ids)
      BY <2>1, <2>2, FS_Subset
    <2> QED
      BY <1>1, <2>3, SetToSeqIs
  <1>3. PICK sources : sources = [i \in DOMAIN order |-> MergeSource(order[i])]
    OBVIOUS
  <1>4. PICK n \in Nat : n = Len(order) /\ DOMAIN order = 1..n
    BY <1>2
  <1>5. \A i \in 1..n : order[i] \in ids
    BY <1>2, <1>4
  <1>6. ASSUME NEW i \in 1..n
        PROVE  /\ sources[i] \in Seq(Rec) /\ Once(sources[i], c)
               /\ Has(sources[i], c) => Has(RecordsOf(ssts[order[i]]), c)
    <2>1. PICK id \in DOMAIN ssts : id = order[i]
      BY <1>5
    <2>2. sources[i] = MergeSource(id)
      BY <1>3, <1>4, <2>1
    <2>3. Once(RecordsOf(ssts[id]), c)
      BY DEF OnceHere
    <2> QED
      BY <2>1, <2>2, <2>3, MergeSourceIs, MergeSourceOnce
  <1>7. sources \in Seq(Seq(Rec)) /\ DOMAIN sources = 1..n /\ Len(sources) = n
    <2>1. sources \in [1..n -> Seq(Rec)]
      BY <1>3, <1>4, <1>6
    <2> QED
      BY ONLY <2>1, n \in Nat
  <1>8. PICK down, none : down = TRUE /\ none = {}
    BY Zenon
  <1>9. out \in Drain(sources, none, down)
    BY <1>1, <1>3, <1>8, Zenon DEF Merges
  <1>10. OnceIn(sources, c)
    <2>1. \A i, k \in 1..n : Has(sources[i], c) /\ Has(sources[k], c) => i = k
      BY <1>2, <1>4, <1>5, <1>6 DEF OnceHere
    <2> QED
      BY <1>6, <1>7, <2>1, OnceInIs
  <1>11. Once(out, c)
    BY <1>7, <1>9, <1>10, DrainOnce
  <1>12. \A r \in Range(out) : \E i \in DOMAIN sources : r \in Range(sources[i])
    BY <1>7, <1>9, DrainIs
  <1>13. Has(out, c) => \E id \in ids : Has(RecordsOf(ssts[id]), c)
    <2> SUFFICES ASSUME NEW x \in Range(out), At(x) = c
                 PROVE  \E id \in ids : Has(RecordsOf(ssts[id]), c)
      BY DEF Has
    <2>1. PICK i \in 1..n : x \in Range(sources[i])
      BY <1>7, <1>12
    <2>2. Has(RecordsOf(ssts[order[i]]), c)
      BY <1>6, <2>1 DEF Has
    <2> QED
      BY <1>5, <2>2
  <1> QED
    BY <1>11, <1>13

LEMMA CompactOnce ==
    ASSUME LookupInv, OnceOK, Compact
    PROVE  OnceOK'
  <1>0. MemoryOK /\ SstsOK /\ LogOK
    BY DEF LookupInv
  <1>1. UNCHANGED <<active, frozen, log>>
    BY DEF Compact
  <1>2. PICK ids \in SUBSET DOMAIN ssts : \E out \in Merges(ids) :
            LET rest == [id \in DOMAIN ssts \ ids |-> ssts[id]] IN
            IF out = <<>> THEN ssts' = rest
            ELSE ssts' = WithSst(rest, NextSstId, Blocks(out))
    BY DEF Compact
  <1>3. PICK out \in Merges(ids) :
            LET rest == [id \in DOMAIN ssts \ ids |-> ssts[id]] IN
            IF out = <<>> THEN ssts' = rest
            ELSE ssts' = WithSst(rest, NextSstId, Blocks(out))
    BY <1>2
  <1>4. PICK rest : rest = [id \in DOMAIN ssts \ ids |-> ssts[id]]
    OBVIOUS
  <1>5. PICK mem, files, new : mem = Memory /\ files = ssts' /\ new = NextSstId
    OBVIOUS
  <1>6. mem = Memory'
    BY <1>1, <1>5 DEF Memory
  <1>7. out \in Seq(Rec)
    BY <1>0, MergesAre
  <1>8. DOMAIN rest = DOMAIN ssts \ ids /\ \A i \in DOMAIN rest : rest[i] = ssts[i]
    BY <1>4
  <1>9. ASSUME NEW c, SingleIn(Range(log), c) PROVE OnceHere(mem, files, c)
    <2>1. OnceHere(mem, ssts, c)
      BY <1>5, <1>9 DEF OnceOK
    <2>2. OnceHere(mem, rest, c)
      <3>1. Once(mem, c)
        BY <2>1 DEF OnceHere
      <3> QED
        BY <1>8, <2>1, <3>1, OnceFewer
    <2>3. CASE out = <<>>
      BY <1>3, <1>4, <1>5, <2>2, <2>3
    <2>4. CASE out # <<>>
      <3>1. files = WithSst(rest, new, Blocks(out)) /\ new \notin DOMAIN rest
        BY <1>0, <1>3, <1>4, <1>5, <1>8, <2>4, NextSstIdIs
      <3>2. /\ Once(out, c)
            /\ Has(out, c) => \E id \in ids : Has(RecordsOf(ssts[id]), c)
        BY <1>0, <2>1, MergesOnce
      <3>3. PICK blocks : blocks = Blocks(out)
        OBVIOUS
      <3>4. Once(RecordsOf(blocks), c) /\ (Has(RecordsOf(blocks), c) => Has(out, c))
        BY <1>7, <3>2, <3>3, StoredOnce
      <3>5. Has(RecordsOf(blocks), c) =>
                ~Has(mem, c) /\ \A i \in DOMAIN rest : ~Has(RecordsOf(rest[i]), c)
        BY <1>8, <2>1, <3>2, <3>4 DEF OnceHere
      <3> QED
        BY <2>2, <3>1, <3>3, <3>4, <3>5, OnceNewFile
    <2> QED
      BY <2>3, <2>4
  <1> QED
    BY <1>1, <1>5, <1>6, <1>9 DEF OnceOK

LEMMA GcOnce ==
    ASSUME OnceOK, Gc
    PROVE  OnceOK'
  <1>1. UNCHANGED <<active, frozen, log>>
    BY DEF Gc
  <1>2. PICK mem, files : mem = Memory /\ files = ssts'
    OBVIOUS
  <1>3. mem = Memory'
    BY <1>1, <1>2 DEF Memory
  <1>4. DOMAIN files \subseteq DOMAIN ssts /\ \A i \in DOMAIN files : files[i] = ssts[i]
    BY <1>2 DEF Gc
  <1>5. ASSUME NEW c, SingleIn(Range(log), c) PROVE OnceHere(mem, files, c)
    <2>1. OnceHere(mem, ssts, c) /\ Once(mem, c)
      BY <1>2, <1>5 DEF OnceOK, OnceHere
    <2> QED
      BY <1>4, <2>1, OnceFewer
  <1> QED
    BY <1>1, <1>2, <1>3, <1>5 DEF OnceOK

LEMMA StepOnce ==
    ASSUME LookupInv, OnceOK, [Next]_vars
    PROVE  OnceOK'
  <1>0. LogOK'
    BY StepInv DEF LookupInv
  <1>1. ASSUME NEW rec, Insert(rec), UNCHANGED <<frozen, ssts>> PROVE OnceOK'
    BY <1>0, <1>1, InsertOnce
  <1>2. ASSUME UNCHANGED <<active, frozen, ssts, log>> PROVE OnceOK'
    BY <1>2 DEF OnceOK, Memory
  <1>3. CASE Write
    BY <1>1, <1>3 DEF Write, Delete, Put, PutTtl, DeleteRange
  <1>4. CASE Freeze
    BY <1>4, FreezeOnce
  <1>5. CASE Flush
    BY <1>5, FlushOnce
  <1>6. CASE Compact
    BY <1>6, CompactOnce
  <1>7. CASE Gc
    BY <1>7, GcOnce
  <1>8. CASE Tick
    BY <1>2, <1>8 DEF Tick
  <1>9. ASSUME NEW p \in Patchers, Patch(p) PROVE OnceOK'
    <2>1. ASSUME NEW c \in PatchCells, NEW value \in BOOLEAN,
                 PatchRead(p, c[1], c[2], value, ~value)
          PROVE  OnceOK'
      BY <1>2, <2>1 DEF PatchRead
    <2>2. CASE PatchWrite(p)
      BY <1>1, <2>2 DEF PatchWrite
    <2> QED
      BY <1>9, <2>1, <2>2 DEF Patch
  <1>10. CASE UNCHANGED vars
    BY <1>2, <1>10 DEF vars
  <1> QED
    BY <1>3, <1>4, <1>5, <1>6, <1>7, <1>8, <1>9, <1>10 DEF Next

LEMMA InitOnce ==
    ASSUME Init
    PROVE  OnceOK
  <1>1. active = <<>> /\ frozen = <<>> /\ ssts = <<>>
    BY DEF Init
  <1>2. frozen \in Seq(Seq(Rec)) /\ active \in Seq(Rec) /\ Len(frozen) <= 1
    BY <1>1
  <1>3. PICK mem : mem = Memory
    OBVIOUS
  <1>4. mem = active
    BY <1>1, <1>2, <1>3, MemoryForms DEF Memory
  <1>5. \A c : Once(mem, c)
    BY <1>1, <1>4 DEF Once, Ordered
  <1>6. DOMAIN ssts = {}
    BY <1>1
  <1> QED
    BY <1>3, <1>5, <1>6 DEF OnceOK, OnceHere

LEMMA OnceInvariant == Spec => []OnceOK
  BY InitInv, InitOnce, StepInv, StepOnce, PTL DEF Spec

-----------------------------------------------------------------------------
(* Scans return each record once *)

\* The sources of a scan have one copy of a record that was written once.
LEMMA ScanOnce ==
    ASSUME LookupInv, OnceOK, NEW r \in Range(log), Lone(r), NEW c, c = At(r),
           NEW q, NEW sources, SourcesAre(q, sources), NEW order, EachOnce(q, sources, order)
    PROVE  OnceIn(sources, c)
  <1>0. LogOK /\ MemoryOK /\ SstsOK
    BY DEF LookupInv
  <1>1. OnceHere(Memory, ssts, c)
    <2>1. SingleIn(Range(log), c)
      BY LoneIs DEF SingleIn
    <2> QED
      BY <2>1 DEF OnceOK
  <1>2. sources \in Seq(Seq(Rec)) /\ sources[1] = Sorted(MemTablesQuery(q), Before)
    BY DEF SourcesAre
  <1>3. Once(sources[1], c) /\ (Has(sources[1], c) => Has(Memory, c))
    <2>1. PICK mem : mem = MemTablesQuery(q)
      OBVIOUS
    <2>2. mem \in Seq(Rec) /\ Range(mem) \subseteq Range(Memory)
      BY <1>0, <2>1, MemTablesQueryIs
    <2>3. Once(mem, c)
      BY <1>0, <1>1, <2>1, MemTablesQueryIs DEF OnceHere, Once
    <2>4. Once(Sorted(mem, Before), c) /\ Range(Sorted(mem, Before)) = Range(mem)
      BY <2>2, <2>3, SortedBefore
    <2> QED
      BY <1>2, <2>1, <2>2, <2>4 DEF Has
  <1>4. PICK n \in Nat : n = Len(order) /\ Len(sources) = 1 + n
    BY DEF EachOnce
  <1>5. ASSUME NEW i \in 1..n, NEW b, b = order[i]
        PROVE  /\ b[1] \in DOMAIN ssts /\ b[2] \in 1..Len(ssts[b[1]]) /\ b = <<b[1], b[2]>>
               /\ Once(sources[1 + i], c)
               /\ Range(sources[1 + i]) \subseteq Range(ssts[b[1]][b[2]])
    <2>1. b \in Candidates(q) /\ sources[1 + i] = BlockSource(q, ssts[b[1]][b[2]])
      BY <1>4, <1>5 DEF EachOnce
    <2>2. b \in Places
      BY <2>1 DEF Candidates, Places
    <2>3. b[1] \in DOMAIN ssts /\ b[2] \in 1..Len(ssts[b[1]]) /\ b = <<b[1], b[2]>>
      BY <1>0, <2>2, PlacesAre
    <2>4. PICK blocks : blocks = ssts[b[1]]
      OBVIOUS
    <2>5. blocks \in Seq(Seq(Rec)) /\ blocks[b[2]] \in Seq(Rec)
      BY <1>0, <2>3, <2>4, SstBlocks
    <2>6. AllOrdered(blocks, Len(blocks), Apart(c))
      <3>1. Ordered(FlattenSeq(blocks), Apart(c))
        BY <1>1, <2>3, <2>4 DEF OnceHere, Once, RecordsOf
      <3> QED
        BY <2>5, <3>1, FlattenOrdered
    <2>7. Ordered(blocks[b[2]], Apart(c))
      BY <2>3, <2>4, <2>6 DEF AllOrdered
    <2>8. PICK block : block = blocks[b[2]]
      OBVIOUS
    <2>9. /\ Range(BlockSource(q, block)) \subseteq Range(block)
          /\ Ordered(BlockSource(q, block), Apart(c))
      BY <2>5, <2>7, <2>8, BlockSourceIs
    <2> QED
      BY <2>1, <2>3, <2>4, <2>8, <2>9 DEF Once
  <1>6. ASSUME NEW i \in 1..n, Has(sources[1 + i], c), NEW b, b = order[i]
        PROVE  /\ Has(RecordsOf(ssts[b[1]]), c)
               /\ \E x \in Range(ssts[b[1]][b[2]]) : At(x) = c
    <2>1. PICK x \in Range(sources[1 + i]) : At(x) = c
      BY <1>6 DEF Has
    <2>2. b[1] \in DOMAIN ssts /\ b[2] \in 1..Len(ssts[b[1]]) /\ x \in Range(ssts[b[1]][b[2]])
      BY <1>5, <1>6, <2>1
    <2>3. x \in Range(RecordsOf(ssts[b[1]]))
      BY <1>0, <2>2, RecordsHeld
    <2> QED
      BY <2>1, <2>2, <2>3 DEF Has
  <1>7. ASSUME NEW i \in 1..n, NEW k \in 1..n, Has(sources[1 + i], c), Has(sources[1 + k], c)
        PROVE  i = k
    <2>1. PICK b, d : b = order[i] /\ d = order[k]
      OBVIOUS
    <2>2. /\ b[1] \in DOMAIN ssts /\ b[2] \in 1..Len(ssts[b[1]]) /\ b = <<b[1], b[2]>>
          /\ d[1] \in DOMAIN ssts /\ d[2] \in 1..Len(ssts[d[1]]) /\ d = <<d[1], d[2]>>
      BY <1>5, <2>1
    <2>3. /\ Has(RecordsOf(ssts[b[1]]), c) /\ Has(RecordsOf(ssts[d[1]]), c)
          /\ \E x \in Range(ssts[b[1]][b[2]]) : At(x) = c
          /\ \E y \in Range(ssts[d[1]][d[2]]) : At(y) = c
      BY <1>6, <1>7, <2>1
    <2>4. b[1] = d[1]
      BY <1>1, <2>2, <2>3 DEF OnceHere
    <2>5. PICK blocks : blocks = ssts[b[1]]
      OBVIOUS
    <2>6. blocks \in Seq(Seq(Rec))
      BY <1>0, <2>2, <2>5, SstBlocks
    <2>7. AllOrdered(blocks, Len(blocks), Apart(c))
      <3>1. Ordered(FlattenSeq(blocks), Apart(c))
        BY <1>1, <2>2, <2>5 DEF OnceHere, Once, RecordsOf
      <3> QED
        BY <2>6, <3>1, FlattenOrdered
    <2>8. \A m, o \in 1..Len(blocks) : m < o => Across(blocks[m], blocks[o], Apart(c))
      BY <2>7 DEF AllOrdered
    <2>9. ~(b[2] < d[2]) /\ ~(d[2] < b[2])
      <3>1. PICK x, y : /\ x \in Range(blocks[b[2]]) /\ y \in Range(blocks[d[2]])
                        /\ At(x) = c /\ At(y) = c
        BY <2>3, <2>4, <2>5
      <3>2. <<x, y>> \notin Apart(c) /\ <<y, x>> \notin Apart(c)
        BY <3>1 DEF Apart
      <3>3. b[2] \in 1..Len(blocks) /\ d[2] \in 1..Len(blocks)
        BY <2>2, <2>4, <2>5
      <3> QED
        BY <2>8, <3>1, <3>2, <3>3 DEF Across
    <2>10. b[2] \in Int /\ d[2] \in Int
      BY <2>2, <2>4, <2>5, <2>6
    <2>11. b[2] = d[2]
      BY ONLY <2>9, <2>10
    <2>12. order[i] = order[k]
      BY <2>1, <2>2, <2>4, <2>11
    <2> QED
      BY <1>4, <2>12 DEF EachOnce
  <1>8. ASSUME NEW i \in 1..n, Has(sources[1 + i], c) PROVE ~Has(sources[1], c)
    <2>1. PICK b : b = order[i]
      OBVIOUS
    <2>2. b[1] \in DOMAIN ssts /\ Has(RecordsOf(ssts[b[1]]), c)
      BY <1>5, <1>6, <1>8, <2>1
    <2> QED
      BY <1>1, <1>3, <2>2 DEF OnceHere
  <1>9. \A m \in 1..Len(sources) : m = 1 \/ \E i \in 1..n : m = 1 + i
    <2> SUFFICES ASSUME NEW m \in 1..Len(sources), m # 1 PROVE \E i \in 1..n : m = 1 + i
      OBVIOUS
    <2>1. m - 1 \in 1..n /\ m = 1 + (m - 1)
      BY <1>4
    <2> QED
      BY <2>1
  <1>10. \A m \in 1..Len(sources) : Once(sources[m], c)
    BY <1>3, <1>5, <1>9
  <1>11. \A m, o \in 1..Len(sources) : Has(sources[m], c) /\ Has(sources[o], c) => m = o
    BY <1>7, <1>8, <1>9
  <1> QED
    BY <1>2, <1>10, <1>11, OnceInIs

LEMMA DivGrows ==
    ASSUME NEW a \in Nat, NEW b \in Nat, NEW d \in Nat \ {0}, a <= b
    PROVE  a \div d <= b \div d /\ a \div d \in Nat /\ b \div d \in Nat
  <1>1. PICK x, y : x = a \div d /\ y = b \div d
    OBVIOUS
  <1>2. /\ x \in Nat /\ x * d <= a /\ a < (x + 1) * d
        /\ y \in Nat /\ y * d <= b /\ b < (y + 1) * d
    BY <1>1
  <1>3. ~(y + 1 <= x)
    <2> SUFFICES ASSUME y + 1 <= x PROVE FALSE
      OBVIOUS
    <2>1. (y + 1) * d <= x * d
      BY ONLY <1>2, y + 1 <= x, d \in Nat, TimesGrows
    <2>2. (y + 1) * d \in Int /\ x * d \in Int
      BY ONLY <1>2, d \in Nat
    <2> QED
      BY ONLY <1>2, <2>1, <2>2, a \in Nat, b \in Nat, a <= b
  <1> QED
    BY <1>1, <1>2, <1>3

\* The time range of a block is that of its records.
LEMMA TimesOfBlock ==
    ASSUME NEW block \in Seq(Rec), Len(block) # 0, NEW r \in Range(block),
           NEW info, info = Info(block)
    PROVE  /\ info.minTs \in Nat /\ info.maxTs \in Nat
           /\ info.minTs <= r.ts /\ r.ts <= info.maxTs
  <1>1. PICK n \in Nat \ {0} : n = Len(block) /\ DOMAIN block = 1..n
    OBVIOUS
  <1>2. PICK f, g : f = [i \in 1..n |-> block[i].ts] /\ g = [i \in 1..n |-> MaxTs - block[i].ts]
    OBVIOUS
  <1>3. \A i \in 1..n : /\ f[i] \in Nat /\ f[i] = block[i].ts
                        /\ g[i] \in Nat /\ g[i] = MaxTs - f[i]
    <2>1. \A i \in 1..n : block[i] \in Rec
      BY <1>1
    <2>2. \A x \in Rec : x.ts \in 0..MaxTs
      BY DEF Rec
    <2> QED
      BY <1>2, <2>1, <2>2, Numbers
  <1>4. PICK m \in 1..n : \A j \in 1..n : f[j] <= f[m]
    BY <1>3, GreatestOf
  <1>5. PICK l \in 1..n : \A j \in 1..n : g[j] <= g[l]
    BY <1>3, GreatestOf
  <1>6. \A j \in 1..n : f[l] <= f[j]
    BY <1>3, <1>5, Numbers
  <1>7. PICK S : S = {block[i].ts : i \in DOMAIN block}
    OBVIOUS
  <1>8. S \in SUBSET Int /\ f[m] \in S /\ f[l] \in S /\ \A y \in S : f[l] <= y /\ y <= f[m]
    <2>1. S = {f[i] : i \in 1..n}
      BY <1>1, <1>3, <1>7
    <2> QED
      BY ONLY <1>3, <1>4, <1>6, <2>1, l \in 1..n, m \in 1..n
  <1>9. Max(S) = f[m] /\ Min(S) = f[l]
    BY <1>8, MaxIs, MinIs
  <1>10. info.maxTs = f[m] /\ info.minTs = f[l]
    BY <1>7, <1>9 DEF Info
  <1>11. r.ts \in S
    BY <1>1, <1>7, RangeAt
  <1> QED
    BY <1>3, <1>8, <1>10, <1>11

\* What the queries ask for.
LEMMA QueryIs ==
    ASSUME NEW q \in Queries
    PROVE  /\ q.lo \in Int /\ q.hi \in Int
           /\ q.time = <<>> \/ (q.time[1] \in Nat /\ q.time[2] \in Nat)
  BY Numbers DEF Queries, AllKeys, Query

\* The block index offers a scan every block that holds an unexpired record it
\* matches, as far as the block infos tell.
LEMMA HomeIsCandidate ==
    ASSUME LookupInv, NEW q \in Queries, NEW r \in Rec, r.exp > now, Matches(q, r),
           NEW b \in Homes(r),
           q.kind = "open" => Info(ssts[b[1]][b[2]]).minKey <= Fallback,
           \/ IsFullScan(q)
           \/ /\ b[1] \notin merged
              /\ q.time # <<>> =>
                   Bucket(Info(ssts[b[1]][b[2]]).minTs) >= Bucket(q.time[1])
    PROVE  b \in Candidates(q)
  <1>0. LogOK /\ MemoryOK /\ SstsOK /\ now \in 1..MaxNow
    BY DEF LookupInv, PatchOK
  <1>1. b \in Places /\ HeldBy(r, ssts[b[1]][b[2]])
    BY DEF Homes, Places
  <1>2. b[1] \in DOMAIN ssts /\ b[2] \in 1..Len(ssts[b[1]])
    BY <1>0, <1>1, PlacesAre
  <1>3. PICK block, info : block = ssts[b[1]][b[2]] /\ info = Info(block)
    OBVIOUS
  <1>4. PICK x : x = Stored(r)
    OBVIOUS
  <1>5. block \in Seq(Rec) /\ Len(block) # 0 /\ x \in Range(block)
    BY <1>0, <1>1, <1>2, <1>3, <1>4, SstBlock DEF HeldBy
  <1>6. x \in Rec /\ x.key = r.key /\ x.ts = r.ts /\ x.exp = r.exp
    BY <1>4, StoredIs
  <1>7. ~IsExpired(info)
    <2>1. info.maxExp \in Nat /\ r.exp <= info.maxExp
      BY <1>3, <1>5, <1>6, MaxExpIs
    <2>2. r.exp \in Int /\ now \in Int
      BY <1>0 DEF Rec
    <2> QED
      BY <2>1, <2>2 DEF IsExpired
  <1>8. OverlapsKey(q, info)
    <2>1. CASE IsFullScan(q)
      <3>1. PICK n \in Nat \ {0} : n = Len(block)
        BY <1>5
      <3>2. block[n] \in Rec /\ info.maxKey = block[n].key
        BY <1>3, <1>5, <3>1, InfoKeys
      <3>3. info.maxKey >= 0
        BY <3>2, Numbers, SMTT(30) DEF Rec, Keys
      <3> QED
        BY <1>3, <2>1, <3>3 DEF IsFullScan, OverlapsKey, LastKey
    <2>2. CASE b[1] \notin merged
      <3>1. /\ info.minKey \in Int /\ info.maxKey \in Int
            /\ info.minKey <= r.key /\ r.key <= info.maxKey
        BY <1>0, <1>2, <1>3, <1>5, <1>6, <2>2, KeysOfBlock
      <3>2. r.key \in Int /\ q.lo <= r.key /\ r.key <= q.hi
        BY QueryIs, RecNumbers DEF Matches
      <3> QED
        BY <1>3, <3>1, <3>2, QueryIs DEF OverlapsKey, LastKey
    <2> QED
      BY <2>1, <2>2
  <1>9. InTimeSet(q, info)
    <2>1. CASE q.time = <<>>
      BY <2>1 DEF InTimeSet
    <2>2. CASE q.time # <<>>
      <3>1. Bucket(info.minTs) >= Bucket(q.time[1])
        BY <1>3, <2>2 DEF IsFullScan
      <3>2. q.time[1] \in Nat /\ q.time[2] \in Nat
        BY <2>2, QueryIs
      <3>3. q.time[1] <= r.ts /\ r.ts <= q.time[2]
        BY <2>2 DEF Matches, InTime
      <3>4. /\ info.minTs \in Nat /\ info.maxTs \in Nat
            /\ info.minTs <= r.ts /\ r.ts <= info.maxTs
        BY <1>3, <1>5, <1>6, TimesOfBlock
      <3>5. r.ts \in Int
        BY RecNumbers
      <3>6. info.minTs <= q.time[2] /\ info.maxTs >= q.time[1]
        BY ONLY <3>2, <3>3, <3>4, <3>5
      <3>7. /\ Bucket(info.minTs) <= Bucket(q.time[2])
            /\ Bucket(info.minTs) \in Nat /\ Bucket(q.time[2]) \in Nat
        BY <3>2, <3>4, <3>6, DivGrows, Numbers DEF Bucket
      <3>8. Bucket(q.time[1]) \in Nat
        BY <3>2, DivGrows, Numbers DEF Bucket
      <3>9. Bucket(info.minTs) \in Bucket(q.time[1])..Bucket(q.time[2])
        BY ONLY <3>1, <3>7, <3>8
      <3> QED
        BY <3>6, <3>9 DEF InTimeSet
    <2> QED
      BY <2>1, <2>2
  <1> QED
    BY <1>1, <1>3, <1>7, <1>8, <1>9 DEF Candidates, Places

\* A record that a scan matches and reaches is in one of its sources.
LEMMA ScanMeets ==
    ASSUME LookupInv, NEW q \in Queries, NEW r \in Range(log), Lone(r), r.exp > now,
           Matches(q, r), ScanReaches(q, r),
           NEW sources, SourcesAre(q, sources), NEW order, EachOnce(q, sources, order)
    PROVE  \E i \in 1..Len(sources) : \E x \in Range(sources[i]) : x = r \/ x = Stored(r)
  <1>0. LogOK /\ MemoryOK /\ SstsOK /\ now \in 1..MaxNow
    BY DEF LookupInv, PatchOK
  <1>1. r \in Rec /\ r.op = "put"
    BY LoneIs
  <1>2. CASE InMemory(r) /\ (EndsAtTilde(q) => r.key <= Tilde)
    <2>1. PICK mem : mem = MemTablesQuery(q)
      OBVIOUS
    <2>2. r.exp >= now
      BY <1>0, <1>1 DEF Rec
    <2>3. mem \in Seq(Rec) /\ r \in Range(mem)
      BY <1>0, <1>2, <2>1, <2>2, MemTablesQueryIs DEF InMemory
    <2>4. r \in Range(Sorted(mem, Before))
      BY <2>3, SortedBefore
    <2>5. 1 \in 1..Len(sources) /\ sources[1] = Sorted(mem, Before)
      BY <2>1 DEF SourcesAre
    <2> QED
      BY <2>4, <2>5
  <1>3. CASE ~(InMemory(r) /\ (EndsAtTilde(q) => r.key <= Tilde))
    <2>1. PICK b \in Homes(r) :
            /\ q.kind = "open" => Info(ssts[b[1]][b[2]]).minKey <= Fallback
            /\ \/ IsFullScan(q)
               \/ /\ b[1] \notin merged
                  /\ q.time # <<>> =>
                       Bucket(Info(ssts[b[1]][b[2]]).minTs) >= Bucket(q.time[1])
      BY <1>3 DEF ScanReaches
    <2>2. b \in Candidates(q)
      BY <1>1, <2>1, HomeIsCandidate
    <2>3. b \in Places /\ HeldBy(r, ssts[b[1]][b[2]])
      BY DEF Homes, Places
    <2>4. PICK block, x : block = ssts[b[1]][b[2]] /\ x = Stored(r)
      OBVIOUS
    <2>5. block \in Seq(Rec) /\ x \in Range(block)
      BY <1>0, <2>3, <2>4, PlacesAre, SstBlock DEF HeldBy
    <2>6. x.op = "put" /\ x.exp > now /\ Matches(q, x)
      BY <1>1, <2>4, StoredIs DEF Matches
    <2>7. x \in Range(BlockSource(q, block))
      BY <2>5, <2>6, BlockSourceIs
    <2>8. PICK i \in 1..Len(order) : order[i] = b
      BY <2>2 DEF EachOnce
    <2>9. 1 + i \in 1..Len(sources) /\ sources[1 + i] = BlockSource(q, block)
      BY <2>4, <2>8 DEF EachOnce
    <2> QED
      BY <2>4, <2>7, <2>9
  <1> QED
    BY <1>2, <1>3

\* No range delete that a scan has seen covers the record.
LEMMA ScanSpares ==
    ASSUME LookupInv, NEW r \in Range(log), Lone(r), NEW q, NEW x, x.key = r.key
    PROVE  ~IsTombstoned(x, Tombstones(q, MemTablesQuery(q),
                                {ssts[b[1]][b[2]] : b \in Candidates(q)}))
  <1>0. LogOK /\ MemoryOK /\ SstsOK
    BY DEF LookupInv
  <1>1. SUFFICES ASSUME NEW g \in Tombstones(q, MemTablesQuery(q),
                                {ssts[b[1]][b[2]] : b \in Candidates(q)})
                 PROVE  ~(g.key <= r.key /\ r.key < g.end)
    BY DEF IsTombstoned
  <1>2. \A y \in Range(log) : y.op = "range" => ~(y.key <= r.key /\ r.key < y.end)
    BY DEF Lone
  <1>3. CASE g \in RangesOf(MemTablesQuery(q))
    <2>1. g \in Range(log) /\ g.op = "range"
      BY <1>0, <1>3, MemTablesQueryIs, MemoryIs DEF RangesOf
    <2> QED
      BY <1>2, <2>1
  <1>4. CASE g \notin RangesOf(MemTablesQuery(q))
    <2>1. PICK b \in Candidates(q) : g \in RangesOf(ssts[b[1]][b[2]])
      BY <1>4 DEF Tombstones
    <2>2. b \in Places
      BY DEF Candidates, Places
    <2>3. g \in Held /\ g.op = "range"
      BY <1>0, <2>1, <2>2, PlacesAre, SstBlocks DEF RangesOf
    <2>4. PICK y \in Range(log) : g.op = y.op /\ g.key = y.key /\ g.end = y.end
      BY <1>0, <2>3, HeldIs
    <2> QED
      BY <1>2, <2>3, <2>4
  <1> QED
    BY <1>3, <1>4

LEMMA ScanReturns ==
    ASSUME LookupInv, OnceOK, NEW q \in Queries, NEW r \in Range(log), Lone(r), r.exp > now,
           Matches(q, r), ScanReaches(q, r), NEW out \in Scan(q)
    PROVE  Cardinality({i \in DOMAIN out : Stored(out[i]) = Stored(r)}) = 1
  <1>0. LogOK /\ MemoryOK /\ SstsOK
    BY DEF LookupInv
  <1>1. r \in Rec /\ r.op = "put"
    BY LoneIs
  <1>2. PICK c, tombs, down : /\ c = At(r) /\ down = FALSE
                              /\ tombs = Tombstones(q, MemTablesQuery(q),
                                            {ssts[b[1]][b[2]] : b \in Candidates(q)})
    BY Zenon
  <1>3. PICK sources : /\ SourcesAre(q, sources) /\ out \in Drain(sources, tombs, FALSE)
                       /\ \E order : EachOnce(q, sources, order)
    BY <1>0, <1>2, ScanIs
  <1>4. PICK order : EachOnce(q, sources, order)
    BY <1>3
  <1>5. sources \in Seq(Seq(Rec)) /\ out \in Drain(sources, tombs, down)
    BY <1>2, <1>3, Zenon DEF SourcesAre
  <1>6. OnceIn(sources, c)
    BY <1>2, <1>3, <1>4, ScanOnce
  <1>7. PICK i0 \in 1..Len(sources) : \E x \in Range(sources[i0]) : x = r \/ x = Stored(r)
    BY <1>3, <1>4, ScanMeets
  <1>8. PICK x \in Range(sources[i0]) : x = r \/ x = Stored(r)
    BY <1>7
  <1>9. sources[i0] \in Seq(Rec)
    BY <1>5
  <1>10. PICK j0 \in 1..Len(sources[i0]) : x = sources[i0][j0]
    BY <1>8, <1>9, RangeAt
  <1>11. /\ At(x) = c /\ x.op = "put" /\ x.key = r.key /\ Stored(x) = Stored(r)
    BY <1>1, <1>2, <1>8, StoredIs
  <1>12. ~IsTombstoned(x, tombs)
    BY <1>2, <1>11, ScanSpares
  <1>13. c # <<0, 0>>
    <2>1. r.key \in 1..MaxKey
      BY <1>1 DEF Rec, Keys
    <2>2. r.key # 0
      BY <2>1, Numbers
    <2> QED
      BY <1>2, <2>2 DEF At
  <1>14. x \in Range(out)
    BY <1>5, <1>6, <1>10, <1>11, <1>12, <1>13, DrainFinds
  <1>15. out \in Seq(Rec) /\ Once(out, c)
    BY <1>5, <1>6, DrainIs, DrainOnce
  <1>16. PICK n \in 1..Len(out) : out[n] = x
    BY <1>14, <1>15, RangeAt
  <1>17. ASSUME NEW i \in DOMAIN out, Stored(out[i]) = Stored(r) PROVE i = n
    <2>1. i \in 1..Len(out) /\ out[i] \in Rec
      BY <1>15
    <2>2. At(out[i]) = c
      BY <1>1, <1>2, <1>17, <2>1, StoredIs
    <2>3. \A k, m \in 1..Len(out) : k < m => ~(At(out[k]) = c /\ At(out[m]) = c)
      BY <1>15 DEF Once, Ordered, Apart
    <2>4. ~(i < n) /\ ~(n < i)
      BY <1>11, <1>16, <2>1, <2>2, <2>3
    <2> QED
      BY <1>15, <2>1, <2>4
  <1>18. {i \in DOMAIN out : Stored(out[i]) = Stored(r)} = {n}
    BY <1>11, <1>15, <1>16, <1>17
  <1> QED
    BY <1>18, FS_Singleton

\* ScanIterator over memtables and SSTs: a record that was written once and has not
\* expired is returned exactly once by every scan that matches and reaches it, through
\* any sequence of flushes, merges and garbage collections.
THEOREM ScansReturnOnce == Spec => []ScanComplete
  <1>1. ASSUME LookupInv, OnceOK PROVE ScanComplete
    BY <1>1, ScanReturns DEF ScanComplete
  <1> QED
    BY <1>1, Invariant, OnceInvariant, PTL
=============================================================================
