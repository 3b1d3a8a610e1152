------------------------------ MODULE JsonQuery -------------------------------
(***************************************************************************)
(* Reading from JsonDB: the byte encoding of values and keys               *)
(* (src/src/jsondb/encoding.rs), the look-ups by index of JsonDB and of a   *)
(* Transaction with buffered writes (db.rs, transaction.rs), and the query  *)
(* builder with its choice of an index (query.rs).                         *)
(*                                                                         *)
(* The engine is taken to be an ordered map (module Lookup has the scans    *)
(* that are not), and the index entries to be those of the documents.       *)
(* Keys are sequences of bytes 0..MaxByte.  The eight payload bytes of a    *)
(* number are one of them, so that it can be 0, the separator, or MaxByte.  *)
(* A string may hold any byte, the separator too, but no primary key does.  *)
(***************************************************************************)
EXTENDS Integers, SequencesExt

CONSTANTS
    Keys,       \* encoded primary keys
    DocSet,     \* documents: [Fields -> value or Absent]
    Fields,
    Absent,     \* the document does not have the field
    None,       \* no such document; in a transaction: deleted
    IndexDefs,  \* StoreDef::indexes: sequence of [name, paths, multi]
    Lookups,    \* values get_by_index is called with
    Bounds,     \* pairs of values range_by_index is called with
    Queries,    \* QueryBuilders: [filters, order, desc, limit, offset]
    NoLimit, NoOrder,
    HalfByte    \* bytes are 0..2 * HalfByte - 1

ASSUME JsonQueryAssumption ==
    /\ HalfByte \in Nat /\ HalfByte >= 5   \* room for the tags
    /\ None \notin DocSet
    /\ NoLimit \notin Nat

VARIABLES
    docs,    \* [Keys -> document or None]
    writes,  \* Transaction::writes: [subset of Keys -> document or None]
    call,    \* the call that was made
    result   \* what it returned: sequence of <<key, document>>

vars == <<docs, writes, call, result>>

-----------------------------------------------------------------------------
(* Bytes *)

MaxByte == 2 * HalfByte - 1

Below(s, t) ==
    \/ IsStrictPrefix(s, t)
    \/ \E n \in 1..Len(s) : /\ n <= Len(t) /\ s[n] < t[n]
                            /\ SubSeq(s, 1, n - 1) = SubSeq(t, 1, n - 1)

\* increment_prefix_bytes
IncrementPrefix(key) ==
    LET room == {n \in DOMAIN key : key[n] < MaxByte} IN
    IF room = {} THEN Append(key, 0)
    ELSE LET last == Max(room) IN [SubSeq(key, 1, last) EXCEPT ![last] = @ + 1]

\* The elements of a finite set in the order of a total order.
InOrder(S, Before(_, _)) ==
    [n \in 1..Cardinality(S) |->
        CHOOSE x \in S : Cardinality({y \in S : Before(y, x)}) = n - 1]

-----------------------------------------------------------------------------
(* Values: kind and content, the content of a number being its only element *)

Null == [k |-> "null", v |-> <<>>]
Bool(b) == [k |-> "bool", v |-> <<b>>]      \* 0 or 1
I64(i) == [k |-> "int", v |-> <<i>>]
U64(u) == [k |-> "u64", v |-> <<u>>]        \* above i64::MAX
F64(bits) == [k |-> "float", v |-> <<bits>>]
Str(s) == [k |-> "str", v |-> s]
Arr(s) == [k |-> "arr", v |-> s]            \* of numbers

\* All bits of a negative float are inverted, of a positive one the sign.
EncodeFloat(bits) == IF bits >= HalfByte THEN MaxByte - bits ELSE bits + HalfByte

\* encode_index_value
EncodeIndexValue(x) ==
    CASE x.k = "null"  -> <<1>>
      [] x.k = "bool"  -> <<2 + x.v[1]>>
      [] x.k = "int"   -> <<4, x.v[1] + HalfByte>>
      [] x.k = "float" -> <<5, EncodeFloat(x.v[1])>>
      [] x.k = "u64"   -> <<6, x.v[1] - HalfByte>>
      [] x.k = "str"   -> <<7>> \o x.v
      [] x.k = "arr"   -> <<8>> \o x.v

Sep == <<0>>

\* encode_composite_value
EncodeComposite(row) ==
    FoldLeftDomain(LAMBDA acc, n :
        acc \o (IF n > 1 THEN Sep ELSE <<>>) \o EncodeIndexValue(row[n]), <<>>, row)

\* The store has one name.
DocPrefix == <<1, 9>> \o Sep
DocKey(key) == DocPrefix \o key
IdxPrefix(idx) == <<2, 9>> \o Sep \o idx.name \o Sep
IdxKey(idx, enc, key) == IdxPrefix(idx) \o enc \o Sep \o key

\* Mutant: the value is not closed by a separator.
IdxValueOpen(idx, enc) == IdxPrefix(idx) \o enc

IdxValuePrefix(idx, enc) == IdxPrefix(idx) \o enc \o Sep

\* extract_index_values: a row per index, or per element of an array.
ExtractIndexValues(doc, idx) ==
    IF \E n \in DOMAIN idx.paths : doc[idx.paths[n]] = Absent THEN {}
    ELSE LET raw == [n \in DOMAIN idx.paths |-> doc[idx.paths[n]]] IN
         IF idx.multi /\ Len(raw) = 1 /\ raw[1].k = "arr"
         THEN {<<I64(i)>> : i \in ToSet(raw[1].v)}
         ELSE {raw}

-----------------------------------------------------------------------------
(* Engine::scan *)

Stored == {k \in Keys : docs[k] # None}
Indexes == ToSet(IndexDefs)

\* The records of the engine: <<key, primary key>>.
Engine ==
    {<<DocKey(k), k>> : k \in Stored}
    \cup UNION {{<<IdxKey(idx, EncodeComposite(row), k), k>> :
                    row \in ExtractIndexValues(docs[k], idx)} :
                <<idx, k>> \in Indexes \X Stored}

\* ScanRange::to_query_params: a range that ends where the prefix does is a
\* prefix filter, every other one includes both ends.
InRange(key, start, end) ==
    IF end = IncrementPrefix(start) THEN IsPrefix(start, key)
    ELSE ~Below(key, start) /\ ~Below(end, key)

\* The primary keys of the records, in the order of the records.
ScanFrom(start, end) ==
    LET found == {r \in Engine : InRange(r[1], start, end)}
        sorted == InOrder(found, LAMBDA r, s : Below(r[1], s[1]))
    IN [n \in DOMAIN sorted |-> sorted[n][2]]

ScanPrefix(prefix) == ScanFrom(prefix, IncrementPrefix(prefix))

Found(keys) == [n \in DOMAIN keys |-> <<keys[n], docs[keys[n]]>>]

-----------------------------------------------------------------------------
(* JsonDB: scan, get_by_index, range_by_index *)

\* A composite index takes an array for a full match.
EncodeArg(idx, x) ==
    IF Len(idx.paths) > 1 /\ x.k = "arr"
    THEN EncodeComposite([n \in DOMAIN x.v |-> I64(x.v[n])])
    ELSE EncodeIndexValue(x)

GetByIndex(idx, x) == Found(ScanPrefix(IdxValuePrefix(idx, EncodeArg(idx, x))))

RangeByIndex(idx, lo, hi) ==
    Found(ScanFrom(IdxPrefix(idx) \o EncodeArg(idx, lo), IdxPrefix(idx) \o EncodeArg(idx, hi)))

ScanStore == Found(ScanPrefix(DocPrefix))

-----------------------------------------------------------------------------
(* Transaction: the same, over the write buffer *)

\* What a scanned key stands for: the buffered document if there is one and it
\* passes the test, nothing if it was deleted.
Overlay(keys, Test(_)) ==
    FoldLeft(LAMBDA acc, k :
        IF k \notin DOMAIN writes THEN Append(acc, <<k, docs[k]>>)
        ELSE IF writes[k] # None /\ Test(writes[k]) THEN Append(acc, <<k, writes[k]>>)
        ELSE acc, <<>>, keys)

\* Buffered documents that are added after the scan, in the order of a hash map.
Buffered(Test(_, _)) ==
    LET new == {k \in DOMAIN writes : writes[k] # None /\ Test(k, writes[k])}
    IN LET order == SetToSeq(new) IN [n \in DOMAIN order |-> <<order[n], writes[order[n]]>>]

TxScan ==
    Overlay(ScanPrefix(DocPrefix), LAMBDA d : TRUE)
    \o Buffered(LAMBDA k, d : k \notin Stored)

\* Mutant: a buffered document is counted whether or not the scan has seen it.
TxCountTwice ==
    Len(Overlay(ScanPrefix(DocPrefix), LAMBDA d : TRUE)) + Len(Buffered(LAMBDA k, d : TRUE))

TxCount ==
    Len(Overlay(ScanPrefix(DocPrefix), LAMBDA d : TRUE))
    + Len(Buffered(LAMBDA k, d : k \notin Stored))

\* Only the first field of the index is compared, with the value itself; what the
\* scan has returned is not added again.
TxGetByIndex(idx, x) ==
    LET Test(d) == d[idx.paths[1]] = x
        seen == Overlay(ScanPrefix(IdxValuePrefix(idx, EncodeIndexValue(x))), Test)
    IN seen \o Buffered(LAMBDA k, d : Test(d) /\ \A n \in DOMAIN seen : seen[n][1] # k)

\* Buffered documents that exist in the engine are passed over after the scan.
TxRangeByIndex(idx, lo, hi) ==
    LET from == EncodeIndexValue(lo)
        to == EncodeIndexValue(hi)
        Test(d) == /\ d[idx.paths[1]] # Absent
                   /\ ~Below(EncodeIndexValue(d[idx.paths[1]]), from)
                   /\ Below(EncodeIndexValue(d[idx.paths[1]]), to)
    IN Overlay(ScanFrom(IdxPrefix(idx) \o from, IdxPrefix(idx) \o to), Test)
       \o Buffered(LAMBDA k, d : k \notin Stored /\ Test(d))

-----------------------------------------------------------------------------
(* QueryBuilder::collect *)

Eq(field, x) == [op |-> "eq", field |-> field, args |-> <<x>>]
Between(field, lo, hi) == [op |-> "range", field |-> field, args |-> <<lo, hi>>]
In(field, xs) == [op |-> "in", field |-> field, args |-> xs]

\* filter_matches
FilterMatches(doc, f) ==
    LET x == doc[f.field] IN
    /\ x # Absent
    /\ CASE f.op = "eq" -> x = f.args[1]
         [] f.op = "range" -> /\ ~Below(EncodeIndexValue(x), EncodeIndexValue(f.args[1]))
                              /\ Below(EncodeIndexValue(x), EncodeIndexValue(f.args[2]))
         [] f.op = "in" -> \E n \in DOMAIN f.args :
                              EncodeIndexValue(x) = EncodeIndexValue(f.args[n])

FiltersOn(q, path) == SelectSeq(q.filters, LAMBDA f : f.field = path)
Filtered(q, path) == FiltersOn(q, path) # <<>>

\* score_index: leading fields of the index that some filter is about.
Score(q, idx) ==
    Max({0} \cup {n \in DOMAIN idx.paths : \A m \in 1..n : Filtered(q, idx.paths[m])})

\* plan_scan: the first of the indexes with the best score; <<>> is a full scan.
UsedIndex(q) ==
    LET scores == [n \in DOMAIN IndexDefs |-> Score(q, IndexDefs[n])]
        best == {n \in DOMAIN IndexDefs : /\ scores[n] > 0
                                          /\ \A m \in DOMAIN IndexDefs : scores[m] <= scores[n]}
    IN IF best = {} THEN <<>> ELSE <<IndexDefs[Min(best)]>>

WithoutLastSep(key) == IF key[Len(key)] = 0 THEN SubSeq(key, 1, Len(key) - 1) ELSE key

\* build_index_scan: the leading fields with an Eq filter, then one with a Range.
\* The separator at the end goes, and so does a last byte that happens to be 0.
IndexScan(q, idx) ==
    LET First(n) == FiltersOn(q, idx.paths[n])[1]
        Is(n, op) == n \in DOMAIN idx.paths /\ Filtered(q, idx.paths[n]) /\ First(n).op = op
        eqs == Max({0} \cup {n \in DOMAIN idx.paths : \A m \in 1..n : Is(m, "eq")})
        fixed == FoldLeft(LAMBDA acc, n : acc \o EncodeIndexValue(First(n).args[1]) \o Sep,
                          IdxPrefix(idx), [n \in 1..eqs |-> n])
    IN IF Is(eqs + 1, "range")
       THEN ScanFrom(WithoutLastSep(fixed \o EncodeIndexValue(First(eqs + 1).args[1])),
                     fixed \o EncodeIndexValue(First(eqs + 1).args[2]))
       ELSE ScanPrefix(WithoutLastSep(fixed))

NeedsSort(q) ==
    /\ q.order # NoOrder
    /\ ~\E idx \in ToSet(UsedIndex(q)) : ~q.desc /\ idx.paths[1] = q.order

\* Mutant: the offset is not counted.
EarlyAtLimit(q, keys) ==
    IF q.limit = NoLimit THEN keys ELSE SubSeq(keys, 1, Min({Len(keys), q.limit}))

\* The loop stops after limit + offset documents, the first one always taken.
Early(q, keys) ==
    IF q.limit = NoLimit THEN keys
    ELSE SubSeq(keys, 1, Min({Len(keys), Max({1, q.limit + q.offset})}))

\* What the plan scans, before the loop stops.
Planned(q) ==
    IF UsedIndex(q) = <<>> THEN ScanPrefix(DocPrefix) ELSE IndexScan(q, UsedIndex(q)[1])

\* A full scan stops early even when a sort is to follow.
ScannedKeys(q) ==
    IF UsedIndex(q) # <<>> /\ NeedsSort(q) THEN Planned(q) ELSE Early(q, Planned(q))

OrderKey(q, key) ==
    EncodeIndexValue(IF docs[key][q.order] = Absent THEN Null ELSE docs[key][q.order])

\* The stable sort.
Ordered(q, keys) ==
    LET Before(m, n) ==
            LET a == OrderKey(q, keys[m])
                b == OrderKey(q, keys[n])
            IN IF a = b THEN m < n ELSE IF q.desc THEN Below(b, a) ELSE Below(a, b)
        places == InOrder(DOMAIN keys, Before)
    IN [n \in DOMAIN keys |-> keys[places[n]]]

Collect(q) ==
    LET kept == SelectSeq(ScannedKeys(q), LAMBDA k :
                    \A n \in DOMAIN q.filters : FilterMatches(docs[k], q.filters[n]))
        sorted == IF NeedsSort(q) THEN Ordered(q, kept) ELSE kept
        last == IF q.limit = NoLimit THEN Len(sorted)
                ELSE Min({Len(sorted), q.offset + q.limit})
    IN Found(SubSeq(sorted, q.offset + 1, last))

-----------------------------------------------------------------------------
(* One call at a time *)

NoCall == [op |-> "none"]

Init ==
    /\ docs \in [Keys -> DocSet \cup {None}]
    /\ writes = <<>>
    /\ call = NoCall
    /\ result = <<>>

\* A transaction buffers a put or a delete.
Buffer(k, d) ==
    /\ call = NoCall /\ DOMAIN writes = {}
    /\ writes' = [key \in {k} |-> d]
    /\ UNCHANGED <<docs, call, result>>

Return(c, r) ==
    /\ call = NoCall
    /\ call' = c
    /\ result' = r
    /\ UNCHANGED <<docs, writes>>

Direct == DOMAIN writes = {}

CallCollect == Direct /\ \E q \in Queries : Return([op |-> "collect", q |-> q], Collect(q))

CallGetByIndex ==
    \E idx \in Indexes, x \in Lookups :
        Return([op |-> "get", idx |-> idx, x |-> x],
               IF Direct THEN GetByIndex(idx, x) ELSE TxGetByIndex(idx, x))

CallRangeByIndex ==
    \E idx \in Indexes, b \in Bounds :
        Return([op |-> "range", idx |-> idx, lo |-> b[1], hi |-> b[2]],
               IF Direct THEN RangeByIndex(idx, b[1], b[2])
               ELSE TxRangeByIndex(idx, b[1], b[2]))

CallScan == Return([op |-> "scan"], IF Direct THEN ScanStore ELSE TxScan)

\* count: as many elements as it counts.
CallCount ==
    Return([op |-> "count"],
           [n \in 1..(IF Direct THEN Len(ScanStore) ELSE TxCount) |-> <<>>])

Next ==
    \/ \E k \in Keys, d \in DocSet \cup {None} : Buffer(k, d)
    \/ CallCollect \/ CallGetByIndex \/ CallRangeByIndex \/ CallScan \/ CallCount

Spec == Init /\ [][Next]_vars

-----------------------------------------------------------------------------
(* Reference definitions *)

Number(x) ==
    IF x.k = "float" /\ x.v[1] >= HalfByte THEN HalfByte - x.v[1] ELSE x.v[1]

Numbers == {"int", "u64", "float"}

\* "null < false < true < number < string < other" (encoding.rs)
Rank(x) ==
    CASE x.k = "null" -> 0 [] x.k = "bool" -> 1 + x.v[1] [] x.k \in Numbers -> 3
      [] x.k = "str" -> 4 [] x.k = "arr" -> 5

Less(x, y) ==
    \/ Rank(x) < Rank(y)
    \/ Rank(x) = 3 /\ Rank(y) = 3 /\ Number(x) < Number(y)
    \/ Rank(x) = Rank(y) /\ Rank(x) > 3 /\ Below(x.v, y.v)

\* Rows compare field by field.
RowLess(r, s) ==
    \/ \E n \in 1..Len(r) : /\ n <= Len(s) /\ Less(r[n], s[n])
                            /\ SubSeq(r, 1, n - 1) = SubSeq(s, 1, n - 1)
    \/ IsStrictPrefix(r, s)

\* The documents as they are once the transaction has committed.
After == [k \in Keys |-> IF k \in DOMAIN writes THEN writes[k] ELSE docs[k]]

RowsOf(d, idx) == IF d = None THEN {} ELSE ExtractIndexValues(d, idx)

ArgRow(idx, x) == IF Len(idx.paths) > 1 /\ x.k = "arr"
                  THEN [n \in DOMAIN x.v |-> I64(x.v[n])] ELSE <<x>>

WantedByGet(idx, x) ==
    {<<k, row>> \in UNION {{k} \X RowsOf(After[k], idx) : k \in Keys} :
        IsPrefix(ArgRow(idx, x), row)}

WantedByRange(idx, lo, hi) ==
    {<<k, row>> \in UNION {{k} \X RowsOf(After[k], idx) : k \in Keys} :
        ~RowLess(row, ArgRow(idx, lo)) /\ RowLess(row, ArgRow(idx, hi))}

\* The documents of the rows, as often as they have rows.
IsAnswer(rows) ==
    /\ ToSet(result) = {<<r[1], After[r[1]]>> : r \in rows}
    /\ Len(result) = Cardinality(rows)

\* Those documents at least.
HasAnswer(rows) == {<<r[1], After[r[1]]>> : r \in rows} \subseteq ToSet(result)

\* Numbers of one kind only: integers sort below floats and those below large
\* integers, whatever their value.
OneKind(xs) == \A x, y \in xs : x.k \in Numbers /\ y.k \in Numbers => x.k = y.k

\* No string goes on with a separator where another one ends: the bytes after it
\* would be compared with the primary keys of that one's entries.
Separable(xs) == \A x, y \in xs : x.k = "str" /\ y.k = "str" => ~IsPrefix(x.v \o Sep, y.v)

\* The values of a field, before and after.
ValuesAt(path) ==
    {d[path] : d \in {d \in {docs[k] : k \in Keys} \cup {After[k] : k \in Keys} :
                        d # None /\ d[path] # Absent}}

ValuesOf(idx) == UNION {ValuesAt(idx.paths[n]) : n \in DOMAIN idx.paths}

-----------------------------------------------------------------------------
(* Properties *)

\* JsonDB::get_by_index and range_by_index, through tags, separators, the bounds of
\* a prefix and the inclusive end of a key range: a look-up returns every document
\* with a row equal to the value.  It returns no other, and a range returns exactly
\* the documents in [start, end) in the order of values, not of bytes, as long as
\* no string goes on with a separator where another one ends (a look-up of "a"
\* returns the document of "a\x00b" too) and the numbers are of one kind.
IndexReadsExact ==
    DOMAIN writes = {} =>
        /\ call.op = "get" =>
            /\ HasAnswer(WantedByGet(call.idx, call.x))
            /\ Separable({call.x} \cup ValuesOf(call.idx)) =>
                IsAnswer(WantedByGet(call.idx, call.x))
        /\ call.op = "range" /\ OneKind({call.lo, call.hi} \cup ValuesAt(call.idx.paths[1]))
           /\ Separable({call.lo, call.hi} \cup ValuesOf(call.idx)) =>
            IsAnswer(WantedByRange(call.idx, call.lo, call.hi))
        /\ call.op = "scan" => ToSet(result) = {<<k, docs[k]>> : k \in Stored}
        /\ call.op \in {"scan", "count"} => Len(result) = Cardinality(Stored)

\* A write to an existing document moves it into the range.
MovedInto(idx, lo, hi) ==
    \E k \in DOMAIN writes \cap Stored :
        /\ writes[k] # None
        /\ \E row \in RowsOf(writes[k], idx) : ~RowLess(row, <<lo>>) /\ RowLess(row, <<hi>>)
        /\ \A row \in RowsOf(docs[k], idx) : RowLess(row, <<lo>>) \/ ~RowLess(row, <<hi>>)

\* Reads of a Transaction, "visible within this transaction" (transaction.rs):
\* they return what the database would after the commit, each document once,
\* for an index of one field that is not multi-entry and strings as above.
\* range_by_index misses a document whose buffered version has moved into the range.
TransactionReads ==
    DOMAIN writes # {} =>
        /\ call.op = "scan" =>
            /\ ToSet(result) = {<<k, After[k]>> : k \in {k \in Keys : After[k] # None}}
            /\ Len(result) = Cardinality(ToSet(result))
        /\ call.op = "count" => Len(result) = Cardinality({k \in Keys : After[k] # None})
        /\ call.op = "get" /\ Len(call.idx.paths) = 1 /\ ~call.idx.multi =>
            /\ HasAnswer(WantedByGet(call.idx, call.x))
            /\ Separable({call.x} \cup ValuesOf(call.idx)) =>
                IsAnswer(WantedByGet(call.idx, call.x))
        /\ call.op = "range" /\ Len(call.idx.paths) = 1 /\ ~call.idx.multi
           /\ OneKind({call.lo, call.hi} \cup ValuesAt(call.idx.paths[1]))
           /\ Separable({call.lo, call.hi} \cup ValuesOf(call.idx))
           /\ ~MovedInto(call.idx, call.lo, call.hi) =>
            IsAnswer(WantedByRange(call.idx, call.lo, call.hi))

\* A filter, by the order of values.
Holds(d, f) ==
    LET x == d[f.field] IN
    /\ x # Absent
    /\ CASE f.op = "eq" -> x = f.args[1]
         [] f.op = "range" -> ~Less(x, f.args[1]) /\ Less(x, f.args[2])
         [] f.op = "in" -> \E n \in DOMAIN f.args : x = f.args[n]

Matches(q) ==
    {k \in Stored : \A n \in DOMAIN q.filters : Holds(docs[k], q.filters[n])}

\* Order by the field, documents without it first.
Precedes(q, j, k) ==
    LET At(key) == IF docs[key][q.order] = Absent THEN Null ELSE docs[key][q.order]
    IN IF q.desc THEN Less(At(k), At(j)) ELSE Less(At(j), At(k))

\* The answer to a query: as many matches as offset and limit leave, each once
\* and, if an order is asked for, each at a place it can have in the sorted list.
Answers(q, r) ==
    LET all == Matches(q)
        left == Max({0, Cardinality(all) - q.offset})
    IN /\ Len(r) = IF q.limit = NoLimit THEN left ELSE Min({left, q.limit})
       /\ \A n \in DOMAIN r : r[n][1] \in all
       /\ \A m, n \in DOMAIN r : r[m][1] = r[n][1] => m = n
       /\ q.order # NoOrder => \A n \in DOMAIN r :
            LET place == q.offset + n IN
            /\ Cardinality({k \in all : Precedes(q, k, r[n][1])}) < place
            /\ Cardinality({k \in all : Precedes(q, r[n][1], k)}) <= Cardinality(all) - place

\* The index the query uses has a row of every match: a document without one of
\* the fields of a composite index has none, nor has an array in a multi-entry one.
IndexComplete(q) ==
    \A idx \in ToSet(UsedIndex(q)), k \in Matches(q) :
        docs[k][idx.paths[1]].k # "arr" /\ ExtractIndexValues(docs[k], idx) # {}

\* The scan stays in its index: without a value for its first field the prefix
\* is the name of the index, which may begin the name of another one.
IndexApart(q) ==
    \A idx \in ToSet(UsedIndex(q)) :
        \/ FiltersOn(q, idx.paths[1])[1].op # "in"
        \/ \A other \in Indexes \ {idx} : ~IsPrefix(idx.name, other.name)

\* What a range or an order compares as bytes beside primary keys is Separable.
BytesInOrder(q) ==
    LET ranges == {n \in DOMAIN q.filters : q.filters[n].op = "range"}
        args == UNION {ToSet(q.filters[n].args) : n \in ranges}
    IN \A f \in Fields :
        f = q.order \/ (\E n \in ranges : q.filters[n].field = f) =>
            Separable(args \cup ValuesAt(f))

\* Stopping at the limit leaves out no match: what is scanned are matches, and
\* a full scan is not sorted afterwards.
LimitSafe(q) ==
    \/ q.limit = NoLimit
    \/ UsedIndex(q) # <<>> /\ NeedsSort(q)
    \/ ToSet(Planned(q)) \subseteq Matches(q) /\ ~NeedsSort(q)

\* QueryBuilder::collect "return[s] matching documents" (query.rs): whichever
\* index is chosen, filters, order, offset and limit give the answer that
\* looking at every document would give.  It may not when the index does not
\* have all matches, when it is scanned by its name alone and another name
\* continues it, when the scan stops at the limit before the filters or the
\* sort have been applied, or when numbers of different kinds or strings that
\* differ by what follows a separator are compared.
QueryAnswers ==
    call.op = "collect" =>
        LET q == call.q IN
        /\ IndexComplete(q) /\ IndexApart(q) /\ LimitSafe(q) /\ BytesInOrder(q)
        /\ OneKind(UNION {ToSet(q.filters[n].args) : n \in DOMAIN q.filters}
                   \cup UNION {ValuesAt(f) : f \in Fields})
        => Answers(q, result)
===============================================================================
