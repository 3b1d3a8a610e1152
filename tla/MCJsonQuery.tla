----------------------------- MODULE MCJsonQuery ------------------------------
\* JsonQuery on a store with an index of field a, a composite one of a and b whose
\* name continues the name of the first, and a multi-entry one of b.
EXTENDS JsonQuery

MCFields == {"a", "b"}

MCIndexDefs ==
    <<[name |-> <<3>>, paths |-> <<"a">>, multi |-> FALSE],
      [name |-> <<3, 4>>, paths |-> <<"a", "b">>, multi |-> FALSE],
      [name |-> <<4>>, paths |-> <<"b">>, multi |-> TRUE]>>

\* Encoded to the separator, to the largest byte and in between.
Low == I64(-HalfByte)
High == I64(HalfByte - 1)
One == I64(1)
X == Str(<<3>>)
XY == Str(<<3, 4>>)
XSep == Str(<<3, 0, 2>>)    \* the separator and a primary key follow

Doc(x, y) == [f \in MCFields |-> IF f = "a" THEN x ELSE y]

MCDocSet ==
    {Doc(Low, One), Doc(One, Low), Doc(High, Absent), Doc(X, Arr(<<1, 2>>)), Doc(XY, One),
     Doc(XSep, One), Doc(F64(HalfByte + 1), Null), Doc(F64(HalfByte + 2), U64(HalfByte))}

MCKeys == {<<1>>, <<2>>, <<2, 2>>}

MCLookups == {Low, High, One, X, XSep, Null, Arr(<<-HalfByte, 1>>)}

MCBounds ==
    {<<Low, One>>, <<One, High>>, <<X, XY>>, <<X, XSep>>, <<XY, Arr(<<1>>)>>, <<Null, X>>,
     <<F64(HalfByte + 2), F64(HalfByte + 1)>>,
     <<Arr(<<-HalfByte, 1>>), Arr(<<-HalfByte, 2>>)>>}

MCFilters ==
    {<<>>, <<Eq("a", Low)>>, <<Eq("a", X)>>, <<Eq("b", One)>>, <<Eq("b", Arr(<<1, 2>>))>>,
     <<Between("a", Low, High)>>, <<Between("a", X, Arr(<<1>>))>>, <<Between("a", XSep, XY)>>,
     <<Between("a", F64(HalfByte + 2), F64(0))>>,
     <<In("a", <<One, Low>>)>>, <<In("b", <<One, Null>>)>>,
     <<Eq("a", Low), Between("b", One, High)>>, <<Between("a", Low, High), Eq("b", One)>>}

MCQueries ==
    {q \in [filters : MCFilters, order : {NoOrder, "a", "b"}, desc : BOOLEAN,
            limit : {NoLimit, 1}, offset : {0, 1}] : q.order = NoOrder => ~q.desc}

\* A transaction over at most two stored documents.
SmallTransactions == DOMAIN writes # {} => Cardinality(Stored) <= 2
===============================================================================
