----------------------- MODULE AttributeCalls_proofs -----------------------
(***************************************************************************)
(* Proofs about AttributeCalls, for every kind of attribute, any default   *)
(* size, any values and any number of changes.                             *)
(***************************************************************************)
EXTENDS AttributeCalls, SequenceTheorems, SetLemmas

Items == Item \cup {JUNK}

LEMMA FunctionIsSeq ==
  ASSUME NEW S, NEW n \in Nat, NEW f \in [1..n -> S]
  PROVE  f \in Seq(S) /\ Len(f) = n
BY SeqDef

LEMMA SameSeq ==
  ASSUME NEW S, NEW u \in Seq(S), NEW v \in Seq(S), Len(u) = Len(v),
         \A i \in 1..Len(u) : u[i] = v[i]
  PROVE  u = v
BY LenProperties

-----------------------------------------------------------------------------
(***************************************************************************)
(* Lists.                                                                  *)
(***************************************************************************)
Fits(b) == b \in Buffer /\ b.count <= Len(b.list)

(* The value of a buffer has as many items as its count says.              *)
LEMMA ListValueFacts ==
  ASSUME NEW b, Fits(b)
  PROVE  /\ ListValue(b) \in Seq(Items)
         /\ Len(ListValue(b)) = b.count
         /\ \A i \in 1..b.count : ListValue(b)[i] = b.list[i]
<1>1. b.count \in Nat /\ b.list \in Seq(Items) /\ b.count <= Len(b.list)
  BY DEF Fits, Buffer, Items
<1>2. \A i \in 1..b.count : b.list[i] \in Items
  BY <1>1, ElementOfSeq
<1>3. /\ SubSeq(b.list, 1, b.count) \in Seq(Items)
      /\ Len(SubSeq(b.list, 1, b.count)) = b.count
      /\ \A i \in 1..b.count : SubSeq(b.list, 1, b.count)[i] = b.list[i]
  BY <1>1, <1>2, SubSeqProperties
<1> QED
  BY <1>3 DEF ListValue

LEMMA ExactFacts ==
  ASSUME NEW v \in Seq(Items)
  PROVE  Fits(ExactList(v)) /\ ListValue(ExactList(v)) = v /\ ExactList(v).count = Len(v)
<1>1. v \in Seq(Items) /\ Len(v) \in Nat
  BY LenProperties
<1>2. Fits(ExactList(v)) /\ ExactList(v).list = v /\ ExactList(v).count = Len(v)
  BY <1>1 DEF Fits, Buffer, ExactList, Items
<1> QED
  BY <1>1, <1>2, ListValueFacts, SameSeq

LEMMA NullFacts == Fits(NullList) /\ NullList.count = 0
BY EmptySeq DEF Fits, Buffer, NullList, Items

(* An allocated buffer has the room it says, and no less than asked for.   *)
LEMMA AllocFacts ==
  ASSUME NEW b \in Buffer, NEW n \in Nat
  PROVE  /\ Fits(AllocList(b, n))
         /\ AllocList(b, n).count = SizeFor(n)
         /\ SizeFor(n) \in Nat /\ SizeFor(n) >= n
<1>1. SizeFor(n) \in Nat /\ SizeFor(n) >= n
  BY SizeAssumption DEF SizeFor
<1>2. b.list \in Seq(Items)
  BY DEF Buffer, Items
<1> DEFINE f == [i \in 1..SizeFor(n) |-> IF i <= Room(b) THEN b.list[i] ELSE JUNK]
<1>3. f \in [1..SizeFor(n) -> Items]
  <2>1. \A i \in 1..SizeFor(n) : i <= Room(b) => b.list[i] \in Items
    BY <1>1, <1>2, ElementOfSeq, LenProperties DEF Room
  <2> QED
    BY <2>1 DEF Items
<1>4. f \in Seq(Items) /\ Len(f) = SizeFor(n)
  BY <1>1, <1>3, FunctionIsSeq
<1>5. AllocList(b, n) = [count |-> SizeFor(n), list |-> f]
  BY DEF AllocList
<1> HIDE DEF f
<1> QED
  BY <1>1, <1>4, <1>5 DEF Fits, Buffer, Items

(* A copy that fits is whole; one that does not asks for what it needs.    *)
LEMMA CopyFacts ==
  ASSUME NEW in, Fits(in), NEW out, Fits(out)
  PROVE  LET c == CopyList(in, out) IN
         /\ c.fits <=> in.count <= out.count
         /\ c.out \in Buffer /\ c.out.count = in.count
         /\ c.fits => Fits(c.out) /\ ListValue(c.out) = ListValue(in)
<1>1. /\ in.count \in Nat /\ in.list \in Seq(Items) /\ in.count <= Len(in.list)
      /\ out.count \in Nat /\ out.list \in Seq(Items) /\ out.count <= Len(out.list)
      /\ out = [count |-> out.count, list |-> out.list]
  BY DEF Fits, Buffer, Items
<1> DEFINE f == [i \in DOMAIN out.list |-> IF i <= in.count THEN in.list[i] ELSE out.list[i]]
<1>2. CASE out.count < in.count
  <2>1. CopyList(in, out) = [fits |-> FALSE, out |-> [out EXCEPT !.count = in.count]]
    BY <1>2 DEF CopyList
  <2> QED
    BY <1>1, <1>2, <2>1 DEF Buffer, Items
<1>3. CASE ~(out.count < in.count)
  <2>1. CopyList(in, out) = [fits |-> TRUE, out |-> [count |-> in.count, list |-> f]]
    BY <1>3 DEF CopyList
  <2>2. DOMAIN out.list = 1..Len(out.list) /\ Len(out.list) \in Nat
    BY <1>1, LenProperties
  <2>3. f \in [1..Len(out.list) -> Items]
    <3>1. \A i \in 1..Len(out.list) : out.list[i] \in Items
      BY <1>1, ElementOfSeq
    <3>2. \A i \in 1..Len(out.list) : i <= in.count => in.list[i] \in Items
      BY <1>1, <2>2, ElementOfSeq, LenProperties
    <3> QED
      BY <2>2, <3>1, <3>2
  <2>4. f \in Seq(Items) /\ Len(f) = Len(out.list)
    BY <2>2, <2>3, FunctionIsSeq
  <2>5. \A i \in 1..in.count : f[i] = in.list[i]
    BY <1>1, <1>3, <2>2
  <2> DEFINE o == [count |-> in.count, list |-> f]
  <2> HIDE DEF f
  <2>6. Fits(o) /\ o.count = in.count /\ o.list = f
    BY <1>1, <1>3, <2>4 DEF Fits, Buffer, Items
  <2> HIDE DEF o
  <2>7. ListValue(o) = ListValue(in)
    <3>1. /\ ListValue(o) \in Seq(Items) /\ Len(ListValue(o)) = in.count
          /\ \A i \in 1..in.count : ListValue(o)[i] = in.list[i]
      BY <2>5, <2>6, ListValueFacts
    <3>2. /\ ListValue(in) \in Seq(Items) /\ Len(ListValue(in)) = in.count
          /\ \A i \in 1..in.count : ListValue(in)[i] = in.list[i]
      BY ListValueFacts
    <3>3. \A i \in 1..Len(ListValue(o)) : ListValue(o)[i] = ListValue(in)[i]
      BY <3>1, <3>2
    <3> QED
      BY <3>1, <3>2, <3>3, SameSeq
  <2>8. CopyList(in, out).fits = TRUE /\ CopyList(in, out).out = o
    BY <2>1 DEF o
  <2> QED
    BY <1>1, <1>3, <2>6, <2>7, <2>8 DEF Fits
<1> QED
  BY <1>2, <1>3

-----------------------------------------------------------------------------
(***************************************************************************)
(* Lists of lists.                                                         *)
(***************************************************************************)
RowsFit(b) ==
  /\ b \in NestedBuffer
  /\ b.count <= Len(b.list)
  /\ \A i \in 1..Len(b.list) : Fits(b.list[i])

RowsValue(b) == [i \in 1..b.count |-> ListValue(b.list[i])]

LEMMA RowsFacts ==
  ASSUME NEW b, RowsFit(b)
  PROVE  /\ b.count \in Nat /\ Len(b.list) \in Nat /\ b.count <= Len(b.list)
         /\ DOMAIN b.list = 1..Len(b.list)
         /\ \A i \in 1..Len(b.list) : Fits(b.list[i]) /\ b.list[i] \in Buffer
         /\ \A i \in 1..b.count : Len(ListValue(b.list[i])) = b.list[i].count
         /\ RowsValue(b) \in Seq(Seq(Items)) /\ Len(RowsValue(b)) = b.count
         /\ DOMAIN RowsValue(b) = 1..b.count
<1>1. /\ b.count \in Nat /\ b.list \in Seq(Buffer) /\ b.count <= Len(b.list)
      /\ \A i \in 1..Len(b.list) : Fits(b.list[i])
  BY DEF RowsFit, NestedBuffer
<1>2. Len(b.list) \in Nat /\ DOMAIN b.list = 1..Len(b.list)
  BY <1>1, LenProperties
<1>3. \A i \in 1..b.count : i \in 1..Len(b.list)
  BY <1>1, <1>2
<1>4. \A i \in 1..b.count : ListValue(b.list[i]) \in Seq(Items)
                            /\ Len(ListValue(b.list[i])) = b.list[i].count
  BY <1>1, <1>3, ListValueFacts
<1>5. RowsValue(b) \in [1..b.count -> Seq(Items)]
  BY <1>4 DEF RowsValue
<1>6. RowsValue(b) \in Seq(Seq(Items)) /\ Len(RowsValue(b)) = b.count
  BY <1>1, <1>5, FunctionIsSeq
<1> QED
  BY <1>1, <1>2, <1>4, <1>5, <1>6 DEF Fits

LEMMA RowsExactFacts ==
  ASSUME NEW v \in Seq(Seq(Items))
  PROVE  LET b == ExactList([i \in DOMAIN v |-> ExactList(v[i])]) IN
         /\ RowsFit(b) /\ RowsValue(b) = v /\ b.count = Len(v) /\ Len(v) \in Nat
         /\ DOMAIN v = 1..Len(v)
         /\ \A i \in 1..Len(v) : b.list[i].count = Len(v[i])
<1>1. Len(v) \in Nat /\ DOMAIN v = 1..Len(v) /\ v \in [1..Len(v) -> Seq(Items)]
  BY LenProperties, SeqDef
<1> DEFINE w == [i \in 1..Len(v) |-> ExactList(v[i])]
           b == [count |-> Len(v), list |-> w]
<1>2. \A i \in 1..Len(v) : /\ v[i] \in Seq(Items)
                           /\ Fits(ExactList(v[i])) /\ ExactList(v[i]) \in Buffer
                           /\ ListValue(ExactList(v[i])) = v[i]
                           /\ ExactList(v[i]).count = Len(v[i])
  <2>1. \A i \in 1..Len(v) : v[i] \in Seq(Items)
    BY <1>1
  <2> QED
    BY <2>1, ExactFacts DEF Fits
<1>3. w \in Seq(Buffer) /\ Len(w) = Len(v)
  <2>1. w \in [1..Len(v) -> Buffer]
    BY <1>2
  <2> HIDE DEF w
  <2> QED
    BY <1>1, <2>1, FunctionIsSeq
<1>4. \A i \in 1..Len(v) : w[i] = ExactList(v[i])
  OBVIOUS
<1>5. ExactList([i \in DOMAIN v |-> ExactList(v[i])]) = b
  <2>1. [i \in DOMAIN v |-> ExactList(v[i])] = w
    BY <1>1
  <2> HIDE DEF w
  <2> QED
    BY <2>1, <1>3 DEF ExactList
<1> HIDE DEF w
<1>6. b.count = Len(v) /\ b.list = w
  OBVIOUS
<1>7. RowsFit(b)
  BY <1>1, <1>2, <1>3, <1>4 DEF RowsFit, NestedBuffer
<1> HIDE DEF b
<1>8. RowsValue(b) = v
  <2>1. RowsValue(b) = [i \in 1..Len(v) |-> ListValue(w[i])]
    BY <1>6 DEF RowsValue
  <2>2. \A i \in 1..Len(v) : ListValue(w[i]) = v[i]
    BY <1>2, <1>4
  <2> QED
    BY <1>1, <2>1, <2>2
<1> QED
  BY <1>1, <1>2, <1>4, <1>5, <1>6, <1>7, <1>8

(* Rows are given the sizes that are asked for, and no row is empty.       *)
LEMMA AllocRowsFacts ==
  ASSUME NEW n \in Nat, NEW sizes \in [1..n -> Nat]
  PROVE  LET b == AllocRows(sizes) IN
         /\ RowsFit(b) /\ b.count = n /\ Len(b.list) = n
         /\ \A i \in 1..n : b.list[i].count = SizeFor(sizes[i])
                            /\ b.list[i].count >= sizes[i]
<1> DEFINE w == [i \in 1..n |-> AllocList(NullList, sizes[i])]
           b == [count |-> n, list |-> w]
<1>1. \A i \in 1..n : /\ Fits(AllocList(NullList, sizes[i]))
                      /\ AllocList(NullList, sizes[i]) \in Buffer
                      /\ AllocList(NullList, sizes[i]).count = SizeFor(sizes[i])
                      /\ SizeFor(sizes[i]) >= sizes[i]
  BY AllocFacts, NullFacts DEF Fits
<1>2. w \in Seq(Buffer) /\ Len(w) = n
  <2>1. w \in [1..n -> Buffer]
    BY <1>1
  <2> HIDE DEF w
  <2> QED
    BY <2>1, FunctionIsSeq
<1>3. \A i \in 1..n : w[i] = AllocList(NullList, sizes[i])
  OBVIOUS
<1>4. AllocRows(sizes) = b
  <2>1. [i \in DOMAIN sizes |-> AllocList(NullList, sizes[i])] = w
    OBVIOUS
  <2> HIDE DEF w
  <2> QED
    BY <2>1, <1>2 DEF AllocRows, ExactList
<1> HIDE DEF w
<1>5. RowsFit(b)
  BY <1>1, <1>2, <1>3 DEF RowsFit, NestedBuffer
<1> QED
  BY <1>1, <1>2, <1>3, <1>4, <1>5

(* A copy of rows that fits is whole; one that does not asks for as many   *)
(* rows as there are, and for the size of the first row too small.         *)
LEMMA CopyRowsFacts ==
  ASSUME NEW in, RowsFit(in), NEW out, RowsFit(out)
  PROVE  LET c == CopyRows(in, out) IN
         /\ c = [fits |-> c.fits, out |-> c.out]
         /\ c.out \in NestedBuffer /\ c.out.count = in.count
         /\ c.fits <=> /\ in.count <= out.count
                       /\ \A i \in 1..in.count : in.list[i].count <= out.list[i].count
         /\ c.fits => RowsFit(c.out) /\ RowsValue(c.out) = RowsValue(in)
         /\ in.count = 1 /\ in.count <= out.count =>
              Len(c.out.list) >= 1 /\ c.out.list[1].count = in.list[1].count
<1> DEFINE Row(i) == CopyList(in.list[i], out.list[i])
           short == {i \in 1..in.count : ~Row(i).fits}
           last == IF short = {} THEN in.count ELSE Min(short)
           rows == [i \in DOMAIN out.list |-> IF i <= last THEN Row(i).out ELSE out.list[i]]
<1>1. /\ in.count \in Nat /\ Len(in.list) \in Nat /\ in.count <= Len(in.list)
      /\ out.count \in Nat /\ Len(out.list) \in Nat /\ out.count <= Len(out.list)
      /\ DOMAIN out.list = 1..Len(out.list)
      /\ \A i \in 1..Len(in.list) : Fits(in.list[i])
      /\ \A i \in 1..Len(out.list) : Fits(out.list[i]) /\ out.list[i] \in Buffer
  BY RowsFacts
<1>2. out.list \in Seq(Buffer) /\ out = [count |-> out.count, list |-> out.list]
  BY DEF RowsFit, NestedBuffer
<1>3. CASE out.count < in.count
  <2>1. CopyRows(in, out) = [fits |-> FALSE, out |-> [out EXCEPT !.count = in.count]]
    BY <1>3 DEF CopyRows
  <2>2. [out EXCEPT !.count = in.count] = [count |-> in.count, list |-> out.list]
    BY <1>2
  <2> QED
    BY <1>1, <1>2, <1>3, <2>1, <2>2 DEF NestedBuffer
<1>4. CASE ~(out.count < in.count)
  <2> DEFINE o == [count |-> in.count, list |-> rows]
  <2>1. CopyRows(in, out) = [fits |-> short = {}, out |-> o]
    BY <1>4 DEF CopyRows
  <2>2. \A i \in 1..in.count :
          /\ i \in 1..Len(in.list) /\ i \in 1..Len(out.list)
          /\ Row(i).fits <=> in.list[i].count <= out.list[i].count
          /\ Row(i).out \in Buffer /\ Row(i).out.count = in.list[i].count
          /\ Row(i).fits => Fits(Row(i).out) /\ ListValue(Row(i).out) = ListValue(in.list[i])
    <3> SUFFICES ASSUME NEW i \in 1..in.count
                 PROVE  /\ i \in 1..Len(in.list) /\ i \in 1..Len(out.list)
                        /\ Row(i).fits <=> in.list[i].count <= out.list[i].count
                        /\ Row(i).out \in Buffer /\ Row(i).out.count = in.list[i].count
                        /\ Row(i).fits => /\ Fits(Row(i).out)
                                          /\ ListValue(Row(i).out) = ListValue(in.list[i])
      OBVIOUS
    <3>1. i \in 1..Len(in.list) /\ i \in 1..Len(out.list)
      BY <1>1, <1>4
    <3> QED
      BY <1>1, <3>1, CopyFacts
  <2>3. short # {} => last \in short
    BY <1>1, FirstPosition
  <2>4. last \in Nat /\ last <= in.count
    BY <1>1, <2>3
  <2> HIDE DEF Row, short, last
  <2>5. rows \in Seq(Buffer) /\ Len(rows) = Len(out.list)
    <3>1. rows \in [1..Len(out.list) -> Buffer]
      <4>1. \A i \in 1..Len(out.list) : i <= last => Row(i).out \in Buffer
        BY <1>1, <2>2, <2>4
      <4> QED
        BY <1>1, <4>1
    <3> HIDE DEF rows
    <3> QED
      BY <1>1, <3>1, FunctionIsSeq
  <2>6. \A i \in 1..in.count : i <= last => rows[i] = Row(i).out
    BY <1>1, <2>2
  <2>7. \A i \in 1..Len(out.list) : i > last => rows[i] = out.list[i]
    BY <1>1, <2>4
  <2> HIDE DEF rows
  <2>8. o.count = in.count /\ o.list = rows /\ o \in NestedBuffer
    BY <1>1, <2>5 DEF NestedBuffer
  <2> HIDE DEF o
  <2>9. short = {} <=> \A i \in 1..in.count : in.list[i].count <= out.list[i].count
    BY <2>2 DEF short
  <2>10. ASSUME short = {} PROVE RowsFit(o) /\ RowsValue(o) = RowsValue(in)
    <3>1. last = in.count /\ \A i \in 1..in.count : Row(i).fits
      BY <2>10 DEF short, last
    <3>2. \A i \in 1..Len(rows) : Fits(rows[i])
      <4> SUFFICES ASSUME NEW i \in 1..Len(rows) PROVE Fits(rows[i])
        OBVIOUS
      <4>1. CASE i <= in.count
        BY <1>1, <2>2, <2>5, <2>6, <3>1, <4>1
      <4>2. CASE ~(i <= in.count)
        BY <1>1, <2>5, <2>7, <3>1, <4>2
      <4> QED
        BY <4>1, <4>2
    <3>3. \A i \in 1..in.count : ListValue(rows[i]) = ListValue(in.list[i])
      BY <1>1, <2>2, <2>6, <3>1
    <3>4. RowsFit(o)
      BY <1>1, <1>4, <2>5, <2>8, <3>2 DEF RowsFit
    <3> QED
      BY <2>8, <3>3, <3>4 DEF RowsValue
  <2>11. in.count = 1 => Len(o.list) >= 1 /\ o.list[1].count = in.list[1].count
    <3>1. in.count = 1 => last >= 1
      BY <2>3 DEF short, last
    <3> QED
      BY <1>1, <1>4, <2>2, <2>5, <2>6, <2>8, <3>1
  <2>12. \A i \in 1..in.count : /\ in.list[i].count \in Nat
                                /\ out.list[i].count \in Nat
    BY <1>1, <2>2 DEF Fits, Buffer
  <2> DEFINE c == CopyRows(in, out)
  <2>13. c = [fits |-> c.fits, out |-> c.out] /\ c.fits = (short = {}) /\ c.out = o
    BY <2>1
  <2> HIDE DEF c, short
  <2>14. c.out \in NestedBuffer /\ c.out.count = in.count
    BY <2>8, <2>13
  <2>15. c.fits <=> /\ in.count <= out.count
                    /\ \A i \in 1..in.count : in.list[i].count <= out.list[i].count
    <3>1. in.count <= out.count
      BY <1>1, <1>4
    <3> QED
      BY <2>9, <2>13, <3>1
  <2>16. c.fits => RowsFit(c.out) /\ RowsValue(c.out) = RowsValue(in)
    BY <2>10, <2>13
  <2>17. in.count = 1 => Len(c.out.list) >= 1 /\ c.out.list[1].count = in.list[1].count
    BY <2>11, <2>13
  <2> QED
    BY <2>13, <2>14, <2>15, <2>16, <2>17 DEF c
<1> QED
  BY <1>1, <1>3, <1>4

-----------------------------------------------------------------------------
(***************************************************************************)
(* Values of every kind.                                                   *)
(***************************************************************************)
MemoryOf(k) == IF k \in Nested THEN NestedBuffer ELSE Buffer

WholeOf(k, b) == IF k \in Nested THEN RowsFit(b) ELSE Fits(b)

(* b has room for in, in every row too.                                    *)
RoomFor(k, in, b) ==
  /\ in.count <= b.count
  /\ k \in Nested => \A i \in 1..in.count : in.list[i].count <= b.list[i].count

LEMMA WholeFacts ==
  ASSUME NEW k \in Kind, NEW b, WholeOf(k, b)
  PROVE  /\ b \in MemoryOf(k) /\ b # None /\ b # NO_MEMORY
         /\ b.count \in Nat /\ Len(b.list) \in Nat /\ b.count <= Len(b.list)
         /\ Len(ValueOf(k, b)) = b.count /\ DOMAIN ValueOf(k, b) = 1..b.count
         /\ b.count = 0 => ValueOf(k, b) = <<>>
         /\ k \in Nested => \A i \in 1..b.count : /\ Len(ValueOf(k, b)[i]) = b.list[i].count
                                                /\ b.list[i].count \in Nat
<1>1. CASE k \notin Nested
  <2>1. /\ b \in Buffer /\ b.count \in Nat /\ b.list \in Seq(Items) /\ b.count <= Len(b.list)
        /\ ValueOf(k, b) = ListValue(b) /\ MemoryOf(k) = Buffer
    BY <1>1 DEF WholeOf, Fits, Buffer, ValueOf, MemoryOf, Items
  <2>2. ListValue(b) \in Seq(Items) /\ Len(ListValue(b)) = b.count
    BY <1>1, ListValueFacts DEF WholeOf
  <2>3. DOMAIN ListValue(b) = 1..b.count /\ (b.count = 0 => ListValue(b) = <<>>)
    BY <2>2, LenProperties, EmptySeq
  <2> QED
    BY <1>1, <2>1, <2>2, <2>3, LenProperties, CallsAssumption, SizeAssumption
<1>2. CASE k \in Nested
  <2>1. RowsFit(b) /\ b \in NestedBuffer /\ MemoryOf(k) = NestedBuffer
    BY <1>2 DEF WholeOf, RowsFit, MemoryOf
  <2>2. ValueOf(k, b) = RowsValue(b)
    BY <1>2 DEF ValueOf, RowsValue
  <2>3. RowsValue(b) \in Seq(Seq(Items)) /\ (Len(RowsValue(b)) = 0 => RowsValue(b) = <<>>)
    BY <2>1, RowsFacts, EmptySeq
  <2>4. \A i \in 1..b.count : /\ Len(RowsValue(b)[i]) = b.list[i].count
                              /\ b.list[i].count \in Nat
    <3> SUFFICES ASSUME NEW i \in 1..b.count
                 PROVE  Len(RowsValue(b)[i]) = b.list[i].count /\ b.list[i].count \in Nat
      OBVIOUS
    <3>1. RowsValue(b)[i] = ListValue(b.list[i])
      BY DEF RowsValue
    <3>2. i \in 1..Len(b.list)
      BY <2>1, RowsFacts
    <3> QED
      BY <2>1, <3>1, <3>2, RowsFacts DEF Buffer
  <2> QED
    BY <2>1, <2>2, <2>3, <2>4, RowsFacts, CallsAssumption, SizeAssumption
<1> QED
  BY <1>1, <1>2

LEMMA NullWhole ==
  ASSUME NEW k \in Kind
  PROVE  WholeOf(k, NullList) /\ NullList \in MemoryOf(k) /\ NullList.count = 0
<1>1. CASE k \notin Nested
  BY <1>1, NullFacts DEF WholeOf, MemoryOf, Fits
<1>2. CASE k \in Nested
  <2>1. NullList.count = 0 /\ NullList.list = <<>> /\ NullList \in NestedBuffer
    BY EmptySeq DEF NullList, NestedBuffer
  <2>2. RowsFit(NullList)
    BY <2>1, EmptySeq DEF RowsFit
  <2> QED
    BY <1>2, <2>1, <2>2 DEF WholeOf, MemoryOf
<1> QED
  BY <1>1, <1>2

LEMMA ExactWhole ==
  ASSUME NEW k \in Kind, NEW v \in ValueType(k)
  PROVE  /\ WholeOf(k, Exact(k, v)) /\ ValueOf(k, Exact(k, v)) = v
         /\ Exact(k, v).count = Len(v) /\ Len(v) \in Nat /\ DOMAIN v = 1..Len(v)
         /\ k \in Nested => \A i \in 1..Len(v) : Exact(k, v).list[i].count = Len(v[i])
<1>1. CASE k \notin Nested
  <2>1. v \in Seq(Items) /\ Exact(k, v) = ExactList(v)
    BY <1>1 DEF ValueType, Exact, Items
  <2> QED
    BY <1>1, <2>1, ExactFacts, LenProperties DEF WholeOf, ValueOf
<1>2. CASE k \in Nested
  <2>1. v \in Seq(Seq(Items)) /\ Exact(k, v) = ExactList([i \in DOMAIN v |-> ExactList(v[i])])
    BY <1>2 DEF ValueType, Exact, Items
  <2> DEFINE b == ExactList([i \in DOMAIN v |-> ExactList(v[i])])
  <2>2. /\ RowsFit(b) /\ RowsValue(b) = v /\ b.count = Len(v) /\ Len(v) \in Nat
        /\ DOMAIN v = 1..Len(v)
        /\ \A i \in 1..Len(v) : b.list[i].count = Len(v[i])
    BY <2>1, RowsExactFacts
  <2>3. Exact(k, v) = b
    BY <2>1
  <2> HIDE DEF b
  <2>4. ValueOf(k, b) = RowsValue(b)
    BY <1>2 DEF ValueOf, RowsValue
  <2> QED
    BY <1>2, <2>2, <2>3, <2>4 DEF WholeOf
<1> QED
  BY <1>1, <1>2

(* A copy that fits is whole; one that does not asks for the count, and    *)
(* where there is one row, for its size.                                   *)
LEMMA CopyWhole ==
  ASSUME NEW k \in Kind, NEW in, WholeOf(k, in), NEW out, WholeOf(k, out)
  PROVE  LET c == Copy(k, in, out) IN
         /\ k \in Nested => c = [fits |-> c.fits, out |-> c.out]
         /\ c.out \in MemoryOf(k) /\ c.out.count = in.count
         /\ c.fits <=> RoomFor(k, in, out)
         /\ c.fits => WholeOf(k, c.out) /\ ValueOf(k, c.out) = ValueOf(k, in)
         /\ k \in Nested /\ in.count = 1 /\ in.count <= out.count =>
              Len(c.out.list) >= 1 /\ c.out.list[1].count = in.list[1].count
<1>1. CASE k \notin Nested
  <2> DEFINE c == CopyList(in, out)
  <2>1. Fits(in) /\ Fits(out) /\ Copy(k, in, out) = c
    BY <1>1 DEF WholeOf, Copy
  <2>2. /\ c.fits <=> in.count <= out.count
        /\ c.out \in Buffer /\ c.out.count = in.count
        /\ c.fits => Fits(c.out) /\ ListValue(c.out) = ListValue(in)
    BY <2>1, CopyFacts
  <2> HIDE DEF c
  <2> QED
    BY <1>1, <2>1, <2>2 DEF WholeOf, MemoryOf, ValueOf, RoomFor
<1>2. CASE k \in Nested
  <2> DEFINE c == CopyRows(in, out)
  <2>1. RowsFit(in) /\ RowsFit(out) /\ Copy(k, in, out) = c
    BY <1>2 DEF WholeOf, Copy
  <2>2. /\ c = [fits |-> c.fits, out |-> c.out]
        /\ c.out \in NestedBuffer /\ c.out.count = in.count
        /\ c.fits <=> /\ in.count <= out.count
                      /\ \A i \in 1..in.count : in.list[i].count <= out.list[i].count
        /\ c.fits => RowsFit(c.out) /\ RowsValue(c.out) = RowsValue(in)
        /\ in.count = 1 /\ in.count <= out.count =>
             Len(c.out.list) >= 1 /\ c.out.list[1].count = in.list[1].count
    BY <2>1, CopyRowsFacts
  <2> HIDE DEF c
  <2>3. \A b : ValueOf(k, b) = RowsValue(b)
    BY <1>2 DEF ValueOf, RowsValue
  <2> QED
    BY <1>2, <2>1, <2>2, <2>3 DEF WholeOf, MemoryOf, RoomFor
<1> QED
  BY <1>1, <1>2

(* What a text is taken for is a value.                                    *)
LEMMA UnreadFacts ==
  ASSUME NEW u \in Seq(Item \cup {BAD})
  PROVE  Unread(u) \in Seq(Items) /\ Len(Unread(u)) = Len(u)
<1>1. Len(u) \in Nat /\ DOMAIN u = 1..Len(u) /\ \A i \in 1..Len(u) : u[i] \in Item \cup {BAD}
  BY LenProperties, ElementOfSeq
<1> DEFINE f == [i \in 1..Len(u) |-> IF u[i] = BAD THEN JUNK ELSE u[i]]
<1>2. f \in [1..Len(u) -> Items]
  BY <1>1 DEF Items
<1>3. Unread(u) = f
  BY <1>1 DEF Unread
<1> HIDE DEF f
<1> QED
  BY <1>1, <1>2, <1>3, FunctionIsSeq

LEMMA CutFacts ==
  ASSUME NEW u \in Seq(Item)
  PROVE  Cut(u) \in Seq(Item \cup {BAD})
<1>1. u \in Seq(Item \cup {BAD}) /\ Len(u) \in Nat
  BY SeqMonotonic, LenProperties
<1>2. CASE Len(u) <= TAI_CHARDATA_LENGTH
  BY <1>1, <1>2 DEF Cut
<1>3. CASE ~(Len(u) <= TAI_CHARDATA_LENGTH)
  <2>1. TAI_CHARDATA_LENGTH \in Nat /\ TAI_CHARDATA_LENGTH <= Len(u)
    BY <1>1, <1>3, SizeAssumption
  <2>2. \A i \in 1..TAI_CHARDATA_LENGTH : u[i] \in Item \cup {BAD}
    <3>1. \A i \in 1..TAI_CHARDATA_LENGTH : i \in 1..Len(u)
      BY <1>1, <2>1
    <3> QED
      BY <1>1, <3>1, ElementOfSeq
  <2>3. SubSeq(u, 1, TAI_CHARDATA_LENGTH) \in Seq(Item \cup {BAD})
    BY <1>1, <2>1, <2>2, SubSeqProperties
  <2> QED
    BY <1>3, <2>3 DEF Cut
<1> QED
  BY <1>2, <1>3

LEMMA MeantFacts ==
  ASSUME NEW k \in Kind, NEW v \in Text(k) \ {BAD}
  PROVE  Meant(k, v) \in ValueType(k)
<1>1. CASE k \in Nested
  <2>1. v \in Seq(Seq(Item \cup {BAD})) /\ Meant(k, v) = [i \in DOMAIN v |-> Unread(v[i])]
    BY <1>1 DEF Text, Meant, Nested
  <2>2. Len(v) \in Nat /\ DOMAIN v = 1..Len(v)
    BY <2>1, LenProperties
  <2> DEFINE f == [i \in 1..Len(v) |-> Unread(v[i])]
  <2>3. f \in [1..Len(v) -> Seq(Items)]
    <3>1. \A i \in 1..Len(v) : v[i] \in Seq(Item \cup {BAD})
      BY <2>1, ElementOfSeq
    <3>2. \A i \in 1..Len(v) : Unread(v[i]) \in Seq(Items)
      BY <3>1, UnreadFacts
    <3> QED
      BY <3>2
  <2>4. Meant(k, v) = f
    BY <2>1, <2>2
  <2> HIDE DEF f
  <2> QED
    BY <1>1, <2>2, <2>3, <2>4, FunctionIsSeq DEF ValueType, Items
<1>2. CASE k = "charlist"
  <2>1. v \in Seq(Item) /\ Meant(k, v) = Unread(Cut(v))
    BY <1>2 DEF Text, Meant, Nested
  <2> QED
    BY <1>2, <2>1, CutFacts, UnreadFacts DEF ValueType, Items, Nested
<1>3. CASE k \notin Nested /\ k # "charlist"
  <2>1. v \in Seq(Item \cup {BAD}) /\ Meant(k, v) = Unread(v)
    BY <1>3 DEF Text, Meant
  <2> QED
    BY <1>3, <2>1, UnreadFacts DEF ValueType, Items
<1> QED
  BY <1>1, <1>2, <1>3

(* Parsing does the same as a copy but for the count of what does not fit. *)
LEMMA ParseWhole ==
  ASSUME NEW k \in Kind, NEW v \in Text(k) \ {BAD}, NEW out, WholeOf(k, out)
  PROVE  LET p == Parse(k, v, out)
             m == Meant(k, v) IN
         /\ p.ret \in {"success", "overflow"}
         /\ p.ret = "success" <=> RoomFor(k, Exact(k, m), out)
         /\ p.out \in MemoryOf(k) /\ p.out.count >= Len(m)
         /\ p.ret = "success" => /\ WholeOf(k, p.out) /\ ValueOf(k, p.out) = m
                                 /\ p.out.count = Len(m)
         /\ k \in Nested /\ Len(m) = 1 /\ 1 <= out.count =>
              Len(p.out.list) >= 1 /\ p.out.list[1].count = Len(m[1])
<1> DEFINE m == Meant(k, v)
           e == Exact(k, m)
           c == Copy(k, e, out)
<1>1. m \in ValueType(k)
  BY MeantFacts
<1>2. Parse(k, v, out) =
        CASE c.fits -> [ret |-> "success", out |-> c.out]
          [] ~c.fits /\ Len(m) > out.count -> [ret |-> "overflow", out |-> c.out]
          [] OTHER -> [ret |-> "overflow", out |-> [c.out EXCEPT !.count = out.count]]
  BY DEF Parse
<1> HIDE DEF m
<1>3. /\ WholeOf(k, e) /\ ValueOf(k, e) = m /\ e.count = Len(m) /\ Len(m) \in Nat
      /\ k \in Nested => \A i \in 1..Len(m) : e.list[i].count = Len(m[i])
  BY <1>1, ExactWhole
<1> HIDE DEF e
<1>4. /\ c.out \in MemoryOf(k) /\ c.out.count = Len(m)
      /\ c.fits <=> RoomFor(k, e, out)
      /\ c.fits => WholeOf(k, c.out) /\ ValueOf(k, c.out) = m
      /\ k \in Nested /\ Len(m) = 1 /\ 1 <= out.count =>
           Len(c.out.list) >= 1 /\ c.out.list[1].count = Len(m[1])
  <2>1. Len(m) = 1 => 1 \in 1..Len(m)
    OBVIOUS
  <2> QED
    BY <1>3, <2>1, CopyWhole
<1> HIDE DEF c
<1>5. out.count \in Nat
  BY WholeFacts
<1> DEFINE p == Parse(k, v, out)
<1>6. CASE c.fits
  <2>1. p.ret = "success" /\ p.out = c.out
    BY <1>2, <1>6
  <2> HIDE DEF p
  <2> QED
    BY <1>3, <1>4, <1>6, <2>1 DEF p, e, m
<1>7. CASE ~c.fits /\ Len(m) > out.count
  <2>1. p.ret = "overflow" /\ p.out = c.out
    BY <1>2, <1>7
  <2> HIDE DEF p
  <2> QED
    BY <1>3, <1>4, <1>7, <2>1 DEF p, e, m
<1>8. CASE ~c.fits /\ ~(Len(m) > out.count)
  <2>1. k \in Nested
    BY <1>3, <1>4, <1>5, <1>8 DEF RoomFor
  <2>2. c.out \in NestedBuffer
    BY <1>4, <2>1 DEF MemoryOf
  <2> DEFINE o == [count |-> out.count, list |-> c.out.list]
  <2>3. [c.out EXCEPT !.count = out.count] = o
    BY <2>2 DEF NestedBuffer
  <2>4. o \in NestedBuffer /\ o.count = out.count /\ o.list = c.out.list
    BY <1>5, <2>2 DEF NestedBuffer
  <2>5. p.ret = "overflow" /\ p.out = o
    BY <1>2, <1>8, <2>3
  <2> HIDE DEF o, p
  <2>6. p.out.count >= Len(m)
    BY <1>3, <1>5, <1>8, <2>4, <2>5
  <2> QED
    BY <1>4, <1>8, <2>1, <2>4, <2>5, <2>6 DEF MemoryOf, p, e, m
<1> QED
  BY <1>6, <1>7, <1>8

(* A text is parsed whole, or asks for the room it takes; if it does not,  *)
(* it is in error or an enum list that is not JSON.                        *)
LEMMA DeserializeWhole ==
  ASSUME NEW k \in Kind, NEW js \in BOOLEAN, NEW v \in Text(k), NEW out, WholeOf(k, out)
  PROVE  LET d == Deserialize(k, js, v, out)
             m == Meant(k, v) IN
         /\ d.ret \in {"success", "overflow", "error", "undefined"}
         /\ d.out \in MemoryOf(k)
         /\ d.ret = "error" => Faulty(k, v)
         /\ d.ret = "undefined" => k = "enumlist" /\ ~js
         /\ d.ret = "success" => /\ v # BAD /\ WholeOf(k, d.out) /\ ValueOf(k, d.out) = m
                                 /\ d.out.count = Len(m)
         /\ d.ret = "overflow" =>
              /\ v # BAD
              /\ \/ k = "enumlist" /\ ~js /\ HasBad(v)
                 \/ /\ ~RoomFor(k, Exact(k, m), out)
                    /\ d.out.count >= Len(m)
                    /\ k \in Nested /\ Len(m) = 1 /\ 1 <= out.count =>
                         Len(d.out.list) >= 1 /\ d.out.list[1].count = Len(m[1])
<1> DEFINE d == Deserialize(k, js, v, out)
<1>1. out \in MemoryOf(k) /\ out.count \in Nat
  BY WholeFacts
<1>2. CASE Refused(k, js, v, out)
  <2>1. d.ret = "error" /\ d.out = out
    <3>1. ~(k = "enumlist" /\ ~js)
      BY <1>2 DEF Refused
    <3> QED
      BY <1>2, <3>1 DEF Deserialize
  <2>2. Faulty(k, v)
    BY <1>2 DEF Refused, Faulty, Nested
  <2> HIDE DEF d
  <2> QED
    BY <1>1, <2>1, <2>2 DEF d
<1>3. CASE ~Refused(k, js, v, out) /\ k = "enumlist" /\ ~js /\ RunsOver(v, out)
  <2>1. d.ret = "undefined" /\ d.out = out
    BY <1>3 DEF Deserialize
  <2> HIDE DEF d
  <2> QED
    BY <1>1, <1>3, <2>1 DEF d
<1>4. v = BAD => Refused(k, js, v, out) \/ (k = "enumlist" /\ ~js /\ RunsOver(v, out))
  BY DEF Refused, RunsOver, Readable
<1>5. CASE ~Refused(k, js, v, out) /\ k = "enumlist" /\ ~js /\ ~RunsOver(v, out) /\ HasBad(v)
  <2>1. d.ret = "overflow" /\ d.out = [out EXCEPT !.count = 2 * (@ + 1)]
    BY <1>5 DEF Deserialize
  <2>2. k \notin Nested
    BY <1>5 DEF Nested
  <2>3. d.out \in MemoryOf(k)
    BY <1>1, <2>1, <2>2 DEF MemoryOf, Buffer
  <2> HIDE DEF d
  <2> QED
    BY <1>4, <1>5, <2>1, <2>3 DEF d
<1>6. CASE /\ ~Refused(k, js, v, out)
           /\ ~(k = "enumlist" /\ ~js /\ RunsOver(v, out))
           /\ ~(k = "enumlist" /\ ~js /\ ~RunsOver(v, out) /\ HasBad(v))
  <2>1. d = Parse(k, v, out)
    BY <1>6 DEF Deserialize
  <2>2. v # BAD
    BY <1>4, <1>6
  <2> HIDE DEF d
  <2> QED
    BY <2>1, <2>2, ParseWhole DEF d
<1> QED
  BY <1>2, <1>3, <1>5, <1>6

(* Memory allocated for another try is no less than there was or was asked *)
(* for, and can be had but for the rows of an objmap.                      *)
LEMMA AllocAgainWhole ==
  ASSUME NEW k \in Kind, NEW b \in MemoryOf(k), NEW a \in AllocAgain(k, b)
  PROVE  \/ a = NO_MEMORY /\ k = "objmap"
         \/ /\ WholeOf(k, a) /\ a.count >= b.count /\ a.count >= 1
            /\ k = "attrlist" =>
                 \A i \in 1..Len(a.list) : a.list[i].count = DEFAULT_LIST_SIZE
            /\ k = "objmap" /\ Len(b.list) >= 1 => a.list[1].count >= b.list[1].count
<1> USE DEF Nested
<1> DEFINE n == SizeFor(b.count)
<1>1. b.count \in Nat /\ n \in Nat /\ n >= b.count /\ n >= 1
  BY SizeAssumption DEF MemoryOf, Buffer, NestedBuffer, SizeFor
<1>2. CASE k \notin Nested
  <2>1. a = AllocList(b, b.count) /\ b \in Buffer
    BY <1>2 DEF AllocAgain, MemoryOf, Nested
  <2>2. Fits(a) /\ a.count = n
    BY <1>1, <2>1, AllocFacts
  <2> QED
    BY <1>1, <1>2, <2>2 DEF WholeOf
<1>3. CASE k = "attrlist"
  <2> DEFINE sizes == [i \in 1..n |-> 0]
  <2>1. a = AllocRows(sizes)
    BY <1>3 DEF AllocAgain, Nested
  <2>2. sizes \in [1..n -> Nat] /\ \A i \in 1..n : sizes[i] = 0
    OBVIOUS
  <2> HIDE DEF sizes
  <2>3. /\ RowsFit(a) /\ a.count = n /\ Len(a.list) = n
        /\ \A i \in 1..n : a.list[i].count = SizeFor(sizes[i])
    BY <1>1, <2>1, <2>2, AllocRowsFacts
  <2>4. SizeFor(0) = DEFAULT_LIST_SIZE
    BY DEF SizeFor
  <2> HIDE DEF n
  <2> QED
    BY <1>1, <1>3, <2>2, <2>3, <2>4 DEF WholeOf
<1>4. CASE k = "objmap" /\ a # NO_MEMORY
  <2>1. b \in NestedBuffer /\ b.list \in Seq(Buffer) /\ Len(b.list) \in Nat
    BY <1>4, LenProperties DEF MemoryOf, NestedBuffer
  <2> DEFINE sizes(g) == [i \in 1..n |-> IF i <= Room(b) THEN b.list[i].count ELSE g[i]]
  <2>2. PICK g \in [1..n -> Garbage] : a = AllocRows(sizes(g))
    BY <1>4 DEF AllocAgain, Nested
  <2>3. sizes(g) \in [1..n -> Nat] /\ (Len(b.list) >= 1 => sizes(g)[1] = b.list[1].count)
    <3>1. \A i \in 1..Len(b.list) : b.list[i].count \in Nat
      <4>1. \A i \in 1..Len(b.list) : b.list[i] \in Buffer
        BY <2>1, ElementOfSeq
      <4> QED
        BY <4>1 DEF Buffer
    <3>2. \A i \in 1..n : g[i] \in Nat
      BY SizeAssumption
    <3>3. \A i \in 1..n : i <= Room(b) => i \in 1..Len(b.list)
      BY <1>1, <2>1 DEF Room
    <3> HIDE DEF n
    <3> QED
      BY <1>1, <2>1, <3>1, <3>2, <3>3 DEF Room
  <2> HIDE DEF sizes
  <2>4. /\ RowsFit(a) /\ a.count = n /\ Len(a.list) = n
        /\ \A i \in 1..n : a.list[i].count >= sizes(g)[i]
    BY <1>1, <2>2, <2>3, AllocRowsFacts
  <2> HIDE DEF n
  <2>5. 1 \in 1..n
    BY <1>1
  <2> QED
    BY <1>1, <1>4, <2>3, <2>4, <2>5 DEF WholeOf
<1>5. k = "objmap" => Len(b.list) \in Nat
  BY LenProperties DEF MemoryOf, NestedBuffer
<1> QED
  BY <1>2, <1>3, <1>4 DEF Kind

(* A text that is set is parsed whole, or not at all.                      *)
LEMMA FromTextWhole ==
  ASSUME NEW k \in Kind, NEW js \in BOOLEAN, NEW v \in Text(k), NEW p \in FromText(k, js, v)
  PROVE  /\ p.ret = "success" => /\ v # BAD
                                 /\ WholeOf(k, p.out) /\ ValueOf(k, p.out) = Meant(k, v)
         /\ p.ret = "undefined" => k = "enumlist" /\ ~js
<1> DEFINE first == Deserialize(k, js, v, NullList)
<1>1. first.out \in MemoryOf(k)
  BY NullWhole, DeserializeWhole
<1>2. CASE first.ret # "overflow"
  <2>1. p = first
    BY <1>2 DEF FromText
  <2> QED
    BY <1>2, <2>1, NullWhole, DeserializeWhole
<1>3. CASE first.ret = "overflow"
  <2>1. PICK a \in AllocAgain(k, first.out) :
          p = IF a = NO_MEMORY THEN [ret |-> "error", out |-> NullList]
              ELSE Deserialize(k, js, v, a)
    BY <1>3 DEF FromText
  <2> HIDE DEF first
  <2>2. CASE a = NO_MEMORY
    BY <2>1, <2>2
  <2>3. CASE a # NO_MEMORY
    <3>1. WholeOf(k, a)
      BY <1>1, <2>1, <2>3, AllocAgainWhole
    <3> QED
      BY <2>1, <2>3, <3>1, DeserializeWhole
  <2> QED
    BY <2>2, <2>3
<1> QED
  BY <1>2, <1>3

(* What Config keeps is the value, unless it is an empty attrlist.         *)
LEMMA StoreWhole ==
  ASSUME kind \in Kind, NEW in, WholeOf(kind, in), Store(in)
  PROVE  \/ /\ UNCHANGED status
            /\ WholeOf(kind, store') /\ ValueOf(kind, store') = ValueOf(kind, in)
         \/ /\ status' = "undefined" /\ UNCHANGED store
            /\ kind = "attrlist" /\ ValueOf(kind, in) = <<>>
<1> USE DEF Nested
<1> DEFINE n == SizeFor(in.count)
           a == AllocLike(kind, in)
<1>1. /\ in.count \in Nat /\ n \in Nat /\ n >= in.count /\ n >= 1
      /\ Len(in.list) \in Nat /\ in.count <= Len(in.list)
  BY SizeAssumption, WholeFacts DEF SizeFor
<1>2. CASE ~RowsAreThere(kind, in)
  <2>1. kind = "attrlist" /\ ~(n <= Room(in))
    BY <1>2 DEF RowsAreThere
  <2>2. in.count = 0
    BY <1>1, <2>1 DEF SizeFor, Room
  <2> QED
    BY <1>2, <2>1, <2>2, WholeFacts DEF Store
<1>3. CASE RowsAreThere(kind, in)
  <2>1. WholeOf(kind, a) /\ RoomFor(kind, in, a)
    <3>1. CASE kind \notin Nested
      <4>1. a = AllocList(NullList, in.count)
        BY <3>1 DEF AllocLike, Nested
      <4>2. Fits(a) /\ a.count = n
        BY <1>1, <4>1, AllocFacts, NullFacts DEF Fits
      <4> HIDE DEF a, n
      <4> QED
        BY <1>1, <3>1, <4>2 DEF WholeOf, RoomFor
    <3>2. CASE kind \in Nested
      <4> DEFINE sizes ==
            [i \in 1..n |-> IF kind = "attrlist" \/ i <= in.count THEN in.list[i].count ELSE 0]
      <4>1. a = AllocRows(sizes)
        <5>1. CASE kind = "attrlist"
          <6>1. sizes = [i \in 1..n |-> in.list[i].count]
            BY <5>1
          <6> HIDE DEF sizes
          <6> QED
            BY <5>1, <6>1 DEF AllocLike, Nested
        <5>2. CASE kind = "objmap"
          <6>1. sizes = [i \in 1..n |-> IF i <= in.count THEN in.list[i].count ELSE 0]
            BY <5>2
          <6> HIDE DEF sizes
          <6> QED
            BY <5>2, <6>1 DEF AllocLike, Nested
        <5> QED
          BY <3>2, <5>1, <5>2 DEF Kind
      <4>2. RowsFit(in) /\ \A i \in 1..Len(in.list) : in.list[i].count \in Nat
        BY <3>2, RowsFacts DEF WholeOf, Buffer
      <4>3. kind = "attrlist" => n <= Len(in.list)
        BY <1>3 DEF RowsAreThere, Room
      <4> HIDE DEF a, n
      <4>4. sizes \in [1..n -> Nat]
        <5>1. \A i \in 1..n : kind = "attrlist" \/ i <= in.count => i \in 1..Len(in.list)
          BY <1>1, <4>3
        <5>2. \A i \in 1..n : kind = "attrlist" \/ i <= in.count => in.list[i].count \in Nat
          BY <4>2, <5>1
        <5> QED
          BY <5>2
      <4>5. \A i \in 1..in.count : i \in 1..n /\ sizes[i] = in.list[i].count
        BY <1>1
      <4> HIDE DEF sizes
      <4>6. /\ RowsFit(a) /\ a.count = n
            /\ \A i \in 1..n : a.list[i].count >= sizes[i] /\ a.list[i].count = SizeFor(sizes[i])
        BY <1>1, <4>1, <4>4, AllocRowsFacts
      <4>7. \A i \in 1..in.count : in.list[i].count <= a.list[i].count
        <5> SUFFICES ASSUME NEW i \in 1..in.count
                     PROVE  in.list[i].count <= a.list[i].count
          OBVIOUS
        <5>1. i \in 1..n /\ sizes[i] = in.list[i].count /\ sizes[i] \in Nat
          BY <4>4, <4>5
        <5>2. a.list[i].count >= sizes[i] /\ a.list[i].count \in Nat
          <6>1. SizeFor(sizes[i]) \in Nat
            BY <5>1, SizeAssumption DEF SizeFor
          <6> QED
            BY <4>6, <5>1, <6>1
        <5> QED
          BY <5>1, <5>2
      <4> QED
        BY <1>1, <3>2, <4>6, <4>7 DEF WholeOf, RoomFor
    <3> QED
      BY <3>1, <3>2
  <2>2. store' = Copy(kind, in, a).out /\ UNCHANGED status
    BY <1>3 DEF Store
  <2> HIDE DEF a
  <2>3. Copy(kind, in, a).fits
    BY <2>1, CopyWhole
  <2> QED
    BY <2>1, <2>2, <2>3, CopyWhole
<1> QED
  BY <1>2, <1>3

-----------------------------------------------------------------------------
(***************************************************************************)
(* The invariant.                                                          *)
(***************************************************************************)
Current == IF store = None THEN None ELSE ValueOf(kind, store)

(* What Config keeps is whole, and among what the reader may see.          *)
Stored ==
  /\ kind \in Kinds /\ listed \in Listed /\ status \in {"running", "undefined"}
  /\ store # None => WholeOf(kind, store) /\ ValueOf(kind, store) \in Settable(kind)
  /\ status = "running" => Current \in seen
  /\ sets \in 0..MaxSets /\ since \in 0..sets
  /\ seen \subseteq Settable(kind) \cup {None}

(* What the process touches that it must not.                              *)
Undefined ==
  status = "undefined" =>
    \/ kind = "attrlist" /\ <<>> \in seen
    \/ kind = "enumlist" /\ FALSE \in Json
    \/ pc = "copy" /\ listed /\ None \in seen /\ since >= 2

(* What the reader has in its buffer, by its place.                        *)
Reading ==
  /\ pc \in {"idle", "alloc", "get", "direct", "copy", "done", "failed"}
  /\ tries \in 0..Tries
  /\ input \in Inputs[kind] \cup {None}
  /\ json \in Json \cup {TRUE}
  /\ ret \in Failure \cup {None}
  /\ attr \in MemoryOf(kind)
  /\ pc = "idle" => since = 0
  /\ pc \in {"idle", "alloc", "get"} => tries # 0
  /\ pc \in {"get", "direct", "copy"} => WholeOf(kind, attr)
  /\ pc = "done" => WholeOf(kind, attr) /\ ValueOf(kind, attr) \in seen \ {None}

(* What is listed is read without the mutex only if it was not set when    *)
(* Config looked, and only the adapter sets it meanwhile.                  *)
Looking ==
  /\ freed \in BOOLEAN
  /\ freed => pc = "copy" /\ listed /\ since >= 2
  /\ pc \in {"direct", "copy"} /\ listed => None \in seen
  /\ pc = "direct" /\ listed /\ store # None => since >= 1
  /\ pc = "copy" => store # None /\ (listed => since >= 1)

FirstRow(b, n) == Len(b.list) >= 1 /\ n <= b.list[1].count

(* The buffer has, or will be given, the room for the value as it was at   *)
(* the try before, or for the text the client passed along.  Of an objmap  *)
(* with more than one row nothing is known.                                *)
Enough ==
  store # None =>
    IF kind = "objmap"
    THEN store.count = 1 => FirstRow(attr, store.list[1].count)
    ELSE store.count <= attr.count

EnoughForInput ==
  LET w == Meant(kind, input) IN
  IF kind = "objmap"
  THEN Len(w) = 1 => FirstRow(attr, Len(w[1]))
  ELSE Len(w) <= attr.count

FreshRows ==
  /\ attr.count >= 1
  /\ kind = "attrlist" => \A i \in 1..Len(attr.list) : attr.list[i].count = DEFAULT_LIST_SIZE

FailedForReason ==
  pc = "failed" =>
    \/ ret = "overflow" /\ (since >= 2 \/ Excused)
    \/ ret = "error" /\ input # None /\ Faulty(kind, input)
    \/ ret = "no_memory" /\ kind = "objmap"
    \/ ret = "uninitialized" /\ None \in seen
    \/ ret = "unsupported" /\ ~listed

(* Every try that failed for a value that is too long has either left the  *)
(* room it takes or was overtaken by a change.                             *)
WithoutInput ==
  pc \in {"alloc", "get"} /\ input = None =>
    \/ Excused
    \/ tries = Tries
    \/ tries = 2 /\ (since >= 1 \/ Enough)
    \/ tries = 1 /\ (since >= 2 \/ (since >= 1 /\ Enough))

WithInput ==
  /\ pc = "alloc" /\ input # None /\ status = "running" =>
       Excused \/ tries = Tries \/ (tries = 2 /\ input # BAD /\ EnoughForInput)
  /\ pc = "get" /\ input # None => input # BAD /\ ValueOf(kind, attr) = Meant(kind, input)

Trying ==
  /\ pc = "idle" => tries = Tries
  /\ pc = "get" /\ input = None => FreshRows
  /\ WithoutInput /\ WithInput /\ FailedForReason

IInv == Stored /\ Undefined /\ Reading /\ Looking /\ Trying

LEMMA ValueFacts ==
  ASSUME Stored
  PROVE  /\ kind \in Kind
         /\ \A v \in Settable(kind) : v \in ValueType(kind) /\ v # None
         /\ \A v \in Texts[kind] \cup Inputs[kind] : v \in Text(kind) /\ v # None
         /\ \A v \in ValueType(kind) : Len(v) \in Nat /\ DOMAIN v = 1..Len(v)
         /\ kind \in Nested => \A v \in ValueType(kind) : \A i \in 1..Len(v) : Len(v[i]) \in Nat
<1>1. kind \in Kinds /\ kind \in Kind
  BY CallsAssumption DEF Stored
<1>2. \A v \in Texts[kind] \cup Inputs[kind] : v \in Text(kind) /\ v # None
  BY <1>1, CallsAssumption
<1>3. \A v \in Settable(kind) : v \in ValueType(kind) /\ v # None
  <2>1. \A v \in Texts[kind] \ {BAD} : Meant(kind, v) \in ValueType(kind)
    BY <1>1, <1>2, MeantFacts
  <2>2. Values[kind] \subseteq ValueType(kind) /\ None \notin ValueType(kind)
    BY <1>1, CallsAssumption
  <2> QED
    BY <2>1, <2>2 DEF Settable
<1>4. \A v \in ValueType(kind) : Len(v) \in Nat /\ DOMAIN v = 1..Len(v)
  BY LenProperties DEF ValueType
<1>5. ASSUME kind \in Nested, NEW v \in ValueType(kind), NEW i \in 1..Len(v)
      PROVE  Len(v[i]) \in Nat
  <2>1. v \in Seq(Seq(Items))
    BY <1>5 DEF ValueType, Items
  <2>2. v[i] \in Seq(Items)
    BY <2>1, ElementOfSeq
  <2> QED
    BY <2>2, LenProperties
<1> QED
  BY <1>1, <1>2, <1>3, <1>4, <1>5

(* A reason stays one while the read goes on.                              *)
LEMMA ExcusedStays ==
  ASSUME kind' = kind, input' = input, json' = json, seen \subseteq seen', Excused
  PROVE  Excused'
<1>1. Passed' = Passed
  BY DEF Passed
<1> QED
  BY <1>1 DEF Excused, Longer

(* A change puts a value into the store and into what was seen.            *)
LEMMA ChangeFacts ==
  ASSUME IInv, NEW v \in Settable(kind) \cup {None}, Changed(v),
         status = "running", sets < MaxSets, UNCHANGED <<attribute, reader>>,
         pc \in {"direct", "copy"} => listed /\ v # None,
         \/ v = None /\ store' = None /\ UNCHANGED status
         \/ v # None /\ WholeOf(kind, store') /\ ValueOf(kind, store') = v /\ UNCHANGED status
         \/ v = <<>> /\ UNCHANGED store /\ status' = "undefined" /\ kind = "attrlist"
  PROVE  IInv'
<1> USE DEF IInv, attribute, reader
<1>1. seen' = (IF pc = "idle" THEN {v} ELSE seen \cup {v}) /\ freed' = (pc = "copy")
  BY DEF Changed
<1>2. /\ sets' \in 0..MaxSets /\ since' \in 0..sets'
      /\ pc # "idle" => since' = since + 1 /\ since' >= 1 /\ since \in Nat
      /\ pc = "idle" => since' = 0
  BY CallsAssumption DEF Changed, Stored
<1>3. Stored' /\ Undefined'
  <2>1. kind \in Kind
    BY ValueFacts
  <2>2. store' # None => WholeOf(kind, store') /\ ValueOf(kind, store') \in Settable(kind)
    BY DEF Stored
  <2>3. status' = "running" => Current' = v
    BY <2>1, WholeFacts DEF Current
  <2>4. status' \in {"running", "undefined"}
        /\ (status' = "undefined" => kind = "attrlist" /\ <<>> \in seen')
    BY <1>1
  <2>5. Settable(kind)' = Settable(kind)
    BY DEF Settable
  <2> QED
    BY <1>1, <1>2, <2>2, <2>3, <2>4, <2>5 DEF Stored, Undefined
<1>4. Reading'
  BY <1>1, <1>2 DEF Reading
<1>5. pc # "idle" /\ Excused => Excused'
  BY <1>1, ExcusedStays
<1>6. FailedForReason'
  BY <1>1, <1>2, <1>5 DEF FailedForReason, Trying
<1>7. WithoutInput'
  <2>1. pc \in {"alloc", "get"} => pc # "idle"
    OBVIOUS
  <2> QED
    BY <1>2, <1>5, <2>1 DEF WithoutInput, Trying
<1>8. WithInput'
  BY <1>5 DEF WithInput, Trying, EnoughForInput
<1>9. Trying'
  BY <1>6, <1>7, <1>8 DEF Trying, FreshRows
<1>10. Looking'
  <2>1. pc \in {"direct", "copy"} => pc # "idle" /\ seen \subseteq seen'
    BY <1>1
  <2>2. pc = "copy" => store' # None
    <3>1. kind \in Kind
      BY ValueFacts
    <3> QED
      BY <3>1, WholeFacts DEF Looking
  <2>3. pc = "copy" => since' >= 2
    BY <1>2, <2>1 DEF Looking
  <2> QED
    BY <1>1, <1>2, <2>1, <2>2, <2>3 DEF Looking
<1> QED
  BY <1>3, <1>4, <1>9, <1>10

(* A text that is an enum list but not JSON may end the process.           *)
LEMMA UndefinedKeeps ==
  ASSUME IInv, status' = "undefined", kind = "enumlist", FALSE \in Json,
         UNCHANGED <<attribute, store, reader, freed, history>>
  PROVE  IInv'
<1> USE DEF IInv, attribute, reader, history
<1>1. Stored' /\ Undefined'
  BY DEF Stored, Undefined, Current, Settable
<1>2. Reading' /\ Looking'
  BY DEF Reading, Looking
<1>3. Excused' = Excused
  BY DEF Excused, Longer, Passed
<1>4. FailedForReason' /\ WithoutInput' /\ WithInput'
  BY <1>3 DEF Trying, FailedForReason, WithoutInput, WithInput, Enough
<1> QED
  BY <1>1, <1>2, <1>4 DEF Trying, FreshRows

LEMMA SetAttributeKeeps ==
  ASSUME IInv, NEW js \in Json, NEW v \in Texts[kind], SetAttribute(js, v)
  PROVE  IInv'
<1>1. v \in Text(kind) /\ v # None /\ kind \in Kind /\ js \in BOOLEAN
  BY ValueFacts, CallsAssumption DEF IInv
<1>2. /\ status = "running" /\ sets < MaxSets
      /\ UNCHANGED <<attribute, reader>>
  BY DEF SetAttribute
<1>3. PICK parsed \in FromText(kind, js, v) :
        \/ /\ parsed.ret = "undefined"
           /\ status' = "undefined" /\ UNCHANGED <<store, freed, history>>
        \/ /\ parsed.ret = "success"
           /\ ~Locked
           /\ IF Same(parsed.out) THEN UNCHANGED <<store, status>> ELSE Store(parsed.out)
           /\ Changed(Meant(kind, v))
  BY DEF SetAttribute
<1>4. CASE parsed.ret = "undefined"
  <2>1. kind = "enumlist" /\ ~js
    BY <1>1, <1>4, FromTextWhole
  <2>2. FALSE \in Json
    BY <1>1, <2>1
  <2>3. status' = "undefined" /\ UNCHANGED <<store, freed, history>>
    BY <1>3, <1>4
  <2> QED
    BY <1>2, <2>1, <2>2, <2>3, UndefinedKeeps
<1>5. CASE parsed.ret = "success"
  <2> DEFINE m == Meant(kind, v)
  <2>1. v # BAD /\ WholeOf(kind, parsed.out) /\ ValueOf(kind, parsed.out) = m
    BY <1>1, <1>5, FromTextWhole
  <2>2. m \in Settable(kind) /\ m # None
    <3>1. m \in Settable(kind)
      BY <2>1 DEF Settable
    <3> QED
      BY <3>1, ValueFacts DEF IInv
  <2>3. /\ ~(pc \in {"direct", "copy"}) /\ Changed(m)
        /\ IF Same(parsed.out) THEN UNCHANGED <<store, status>> ELSE Store(parsed.out)
    BY <1>3, <1>5 DEF Locked
  <2> HIDE DEF m
  <2>4. CASE Same(parsed.out)
    <3>1. /\ UNCHANGED <<store, status>> /\ kind' = kind
          /\ WholeOf(kind, store) /\ ValueOf(kind, store) = m
      BY <1>2, <2>1, <2>3, <2>4 DEF Same, DeepEqual, IInv, Stored, attribute
    <3>2. WholeOf(kind, store') /\ ValueOf(kind, store') = m
      BY <3>1
    <3> QED
      BY <1>1, <1>2, <2>2, <2>3, <3>1, <3>2, ChangeFacts
  <2>5. CASE ~Same(parsed.out)
    BY <1>1, <1>2, <2>1, <2>2, <2>3, <2>5, StoreWhole, ChangeFacts
  <2> QED
    BY <2>4, <2>5
<1> QED
  BY <1>3, <1>4, <1>5

LEMMA AdapterSetsKeeps ==
  ASSUME IInv, NEW v \in Values[kind], AdapterSets(v)
  PROVE  IInv'
<1>1. v \in Settable(kind) /\ v \in ValueType(kind) /\ v # None /\ kind \in Kind
  <2>1. v \in Settable(kind)
    BY DEF Settable
  <2> QED
    BY <2>1, ValueFacts DEF IInv
<1>2. /\ status = "running" /\ sets < MaxSets /\ listed /\ Changed(v)
      /\ UNCHANGED <<attribute, reader>> /\ Store(Exact(kind, v))
  BY DEF AdapterSets
<1>3. WholeOf(kind, Exact(kind, v)) /\ ValueOf(kind, Exact(kind, v)) = v
  BY <1>1, ExactWhole
<1> QED
  BY <1>1, <1>2, <1>3, StoreWhole, ChangeFacts

LEMMA BeginGetKeeps ==
  ASSUME IInv, NEW js \in Json \cup {TRUE}, NEW v \in Inputs[kind] \cup {None},
         BeginGet(js, v)
  PROVE  IInv'
<1> USE DEF IInv
<1>1. /\ status = "running" /\ pc = "idle" /\ pc' = "alloc"
      /\ attr' = NullList /\ tries' = Tries /\ input' = v /\ json' = js
      /\ UNCHANGED <<kind, listed, status, store, ret, freed, sets, seen, since>>
  BY DEF BeginGet, attribute, history
<1>2. NullList \in MemoryOf(kind)
  BY ValueFacts, NullWhole
<1>3. Stored' /\ Undefined'
  BY <1>1 DEF Stored, Undefined, Current, Settable
<1>4. Reading'
  <2>1. json' \in Json \cup {TRUE} /\ input' \in Inputs[kind] \cup {None} /\ kind' = kind
    BY <1>1, Zenon
  <2>2. tries' \in 0..Tries /\ tries' # 0 /\ ret' = ret
    BY <1>1 DEF Tries
  <2>3. ret \in Failure \cup {None} /\ pc' = "alloc" /\ attr' \in MemoryOf(kind)
    BY <1>1, <1>2 DEF Reading
  <2> QED
    BY <2>1, <2>2, <2>3, ZenonT(30) DEF Reading
<1>6. Looking'
  BY <1>1 DEF Looking
<1>5. Trying'
  BY <1>1 DEF Trying, WithoutInput, WithInput, FailedForReason
<1> QED
  BY <1>3, <1>4, <1>5, <1>6

LEMMA ReturnKeeps ==
  ASSUME IInv, Return
  PROVE  IInv'
<1> USE DEF IInv
<1>1. /\ status = "running" /\ pc \in {"done", "failed"}
      /\ pc' = "idle" /\ attr' = NullList /\ tries' = Tries
      /\ input' = None /\ json' = TRUE /\ ret' = None /\ seen' = {Current} /\ since' = 0
      /\ UNCHANGED <<kind, listed, status, store, freed, sets>>
  BY DEF Return, attribute, Current
<1>2. NullList \in MemoryOf(kind)
  BY ValueFacts, NullWhole
<1>3. Stored' /\ Undefined'
  BY <1>1 DEF Stored, Undefined, Current, Settable
<1>4. Reading'
  BY <1>1, <1>2 DEF Reading, Tries
<1>6. Looking'
  BY <1>1 DEF Looking
<1>5. Trying'
  BY <1>1 DEF Trying, WithoutInput, WithInput, FailedForReason
<1> QED
  BY <1>3, <1>4, <1>5, <1>6

(* What follows a value that is too long.                                  *)
LEMMA TryAgainKeeps ==
  ASSUME IInv, TryAgain, pc \in {"alloc", "get"}, attr' \in MemoryOf(kind),
         UNCHANGED <<attribute, status, store, input, json, freed, history>>,
         \/ Excused
         \/ input # None /\ tries = Tries /\ input # BAD /\ EnoughForInput'
         \/ /\ input = None /\ Enough'
            /\ tries = Tries \/ (tries = 2 /\ since >= 1) \/ (tries = 1 /\ since >= 2)
  PROVE  IInv'
<1> USE DEF IInv, attribute, history
<1>1. /\ IF tries = 1 THEN pc' = "failed" /\ ret' = "overflow" ELSE pc' = "alloc" /\ UNCHANGED ret
      /\ tries' = tries - 1
  BY DEF TryAgain, Fail
<1>2. Stored' /\ Undefined' /\ Looking'
  BY <1>1 DEF Stored, Undefined, Looking, Current, Settable
<1>5. tries \in 1..3 /\ Tries = 3 /\ since \in Nat /\ since' = since
  BY DEF Reading, Tries, Stored
<1>3. Reading'
  <2>1. tries' \in 0..Tries /\ (tries # 1 => tries' # 0)
    BY <1>1, <1>5
  <2>2. pc' \in {"failed", "alloc"} /\ ret' \in Failure \cup {None} /\ (tries = 1 => pc' = "failed")
    BY <1>1 DEF Failure, Reading
  <2> QED
    BY <2>1, <2>2 DEF Reading
<1>4. Excused => Excused'
  BY ExcusedStays
<1>6. CASE tries = 1
  BY <1>1, <1>2, <1>3, <1>4, <1>5, <1>6 DEF Trying, WithoutInput, WithInput, FailedForReason
<1>7. CASE tries # 1
  <2>1. pc' = "alloc" /\ UNCHANGED ret
    BY <1>1, <1>7
  <2>2. WithoutInput'
    BY <1>1, <1>4, <1>5, <1>7, <2>1 DEF WithoutInput
  <2>3. WithInput'
    BY <1>1, <1>4, <1>5, <1>7, <2>1 DEF WithInput
  <2> QED
    BY <1>2, <1>3, <2>1, <2>2, <2>3 DEF Trying, FailedForReason
<1> QED
  BY <1>6, <1>7

LEMMA MemoryFacts ==
  ASSUME NEW k \in Kind, NEW b \in MemoryOf(k)
  PROVE  /\ b.count \in Nat /\ Len(b.list) \in Nat
         /\ k \in Nested => \A i \in 1..Len(b.list) : b.list[i].count \in Nat
<1>1. CASE k \notin Nested
  BY <1>1, LenProperties DEF MemoryOf, Buffer
<1>2. CASE k \in Nested
  <2>1. b.count \in Nat /\ b.list \in Seq(Buffer)
    BY <1>2 DEF MemoryOf, NestedBuffer
  <2>2. Len(b.list) \in Nat /\ \A i \in 1..Len(b.list) : b.list[i] \in Buffer
    BY <2>1, LenProperties, ElementOfSeq
  <2> QED
    BY <2>1, <2>2 DEF Buffer
<1> QED
  BY <1>1, <1>2

(* The next try has no less room than the one before.                      *)
LEMMA RoomStays ==
  ASSUME NEW k \in Kind, NEW a \in MemoryOf(k), NEW b, WholeOf(k, b),
         b.count >= a.count, b.count >= 1,
         k = "objmap" /\ Len(a.list) >= 1 => b.list[1].count >= a.list[1].count,
         NEW n \in Nat
  PROVE  /\ n <= a.count => n <= b.count
         /\ k = "objmap" /\ FirstRow(a, n) => FirstRow(b, n)
<1>1. /\ a.count \in Nat /\ Len(a.list) \in Nat
      /\ b.count \in Nat /\ Len(b.list) \in Nat /\ Len(b.list) >= 1
  BY MemoryFacts, WholeFacts
<1>2. ASSUME k = "objmap", FirstRow(a, n) PROVE FirstRow(b, n)
  <2>1. 1 \in 1..Len(a.list) /\ 1 \in 1..Len(b.list)
    BY <1>1, <1>2 DEF FirstRow
  <2>2. b \in MemoryOf(k)
    BY WholeFacts
  <2>3. a.list[1].count \in Nat /\ b.list[1].count \in Nat
    BY <1>2, <2>1, <2>2, MemoryFacts DEF Nested
  <2> QED
    BY <1>1, <1>2, <2>1, <2>3 DEF FirstRow
<1> QED
  BY <1>1, <1>2

LEMMA AllocateKeeps ==
  ASSUME IInv, Allocate
  PROVE  IInv'
<1> USE DEF IInv
<1>1. /\ status = "running" /\ pc = "alloc" /\ kind \in Kind
      /\ UNCHANGED <<attribute, store, input, json, freed, history>>
      /\ UNCHANGED <<kind, listed, sets, seen, since>>
      /\ attr \in MemoryOf(kind) /\ tries # 0
  BY ValueFacts DEF Allocate, attribute, history, Reading
<1>2. PICK b \in AllocAgain(kind, attr) :
        IF b = NO_MEMORY
        THEN Fail("no_memory") /\ UNCHANGED <<status, attr, tries>>
        ELSE /\ attr' = Filled(b).out
             /\ \/ Filled(b).ret = "success" /\ pc' = "get" /\ UNCHANGED <<status, tries, ret>>
                \/ Filled(b).ret = "overflow" /\ TryAgain /\ UNCHANGED status
                \/ Filled(b).ret = "error" /\ Fail("error") /\ UNCHANGED <<status, tries>>
                \/ Filled(b).ret = "undefined" /\ status' = "undefined"
                     /\ UNCHANGED <<pc, tries, ret>>
  BY DEF Allocate
<1>3. \/ b = NO_MEMORY /\ kind = "objmap"
      \/ /\ WholeOf(kind, b) /\ b.count >= attr.count /\ b.count >= 1
         /\ kind = "attrlist" =>
              \A i \in 1..Len(b.list) : b.list[i].count = DEFAULT_LIST_SIZE
         /\ kind = "objmap" /\ Len(attr.list) >= 1 => b.list[1].count >= attr.list[1].count
  BY <1>1, AllocAgainWhole
<1>4. ASSUME status' = status, pc' # "copy", pc' # "direct" PROVE Stored' /\ Undefined' /\ Looking'
  BY <1>1, <1>4 DEF Stored, Undefined, Looking, Current, Settable
<1>5. Excused => Excused'
  BY <1>1, ExcusedStays
<1>6. CASE b = NO_MEMORY
  <2>1. pc' = "failed" /\ ret' = "no_memory" /\ UNCHANGED <<status, attr, tries>>
    BY <1>2, <1>6 DEF Fail
  <2>2. kind = "objmap"
    BY <1>1, <1>3, <1>6, WholeFacts
  <2>3. Reading'
    BY <1>1, <2>1 DEF Reading, Failure
  <2>4. Trying'
    BY <1>1, <2>1, <2>2 DEF Trying, WithoutInput, WithInput, FailedForReason
  <2> QED
    BY <1>4, <2>1, <2>3, <2>4
<1>7. CASE b # NO_MEMORY /\ input = None
  <2>1. pc' = "get" /\ attr' = b /\ UNCHANGED <<status, tries, ret>>
    BY <1>2, <1>7 DEF Filled
  <2>2. WholeOf(kind, b) /\ b \in MemoryOf(kind)
    BY <1>1, <1>3, <1>7, WholeFacts
  <2>3. Reading'
    BY <1>1, <2>1, <2>2 DEF Reading
  <2>4. Enough => Enough'
    <3>1. CASE store # None /\ kind = "objmap" /\ Enough
      <4>1. ASSUME store.count = 1 PROVE FirstRow(b, store.list[1].count)
        <5>1. FirstRow(attr, store.list[1].count)
          BY <3>1, <4>1 DEF Enough
        <5>2. store.list[1].count \in Nat
          BY <1>1, <3>1, <4>1, WholeFacts DEF Stored, Nested
        <5> QED
          BY <1>1, <1>3, <1>7, <3>1, <5>1, <5>2, RoomStays
      <4> QED
        BY <1>1, <2>1, <3>1, <4>1 DEF Enough
    <3>2. CASE store # None /\ kind # "objmap" /\ Enough
      <4>1. store.count \in Nat
        BY <1>1, <3>2, WholeFacts DEF Stored
      <4>2. store.count <= b.count
        BY <1>1, <1>3, <1>7, <3>2, <4>1, RoomStays DEF Enough
      <4> QED
        BY <1>1, <2>1, <3>2, <4>2 DEF Enough
    <3> QED
      BY <1>1, <3>1, <3>2 DEF Enough
  <2>5. WithoutInput'
    BY <1>1, <1>5, <1>7, <2>1, <2>4 DEF Trying, WithoutInput
  <2>6. Trying'
    BY <1>1, <1>3, <1>7, <2>1, <2>5 DEF Trying, WithInput, FailedForReason, FreshRows
  <2> QED
    BY <1>4, <2>1, <2>3, <2>6
<1>8. CASE b # NO_MEMORY /\ input # None
  <2> DEFINE d == Deserialize(kind, json, input, b)
             w == Meant(kind, input)
             e == Exact(kind, w)
  <2>1. /\ attr' = d.out
        /\ \/ d.ret = "success" /\ pc' = "get" /\ UNCHANGED <<status, tries, ret>>
           \/ d.ret = "overflow" /\ TryAgain /\ UNCHANGED status
           \/ d.ret = "error" /\ Fail("error") /\ UNCHANGED <<status, tries>>
           \/ d.ret = "undefined" /\ status' = "undefined" /\ UNCHANGED <<pc, tries, ret>>
    BY <1>2, <1>8 DEF Filled
  <2>2. /\ input \in Inputs[kind] /\ input \in Text(kind)
        /\ json \in Json \cup {TRUE} /\ json \in BOOLEAN
    BY <1>8, ValueFacts, CallsAssumption DEF Reading
  <2>3. /\ WholeOf(kind, b) /\ b.count >= attr.count /\ b.count >= 1 /\ b.count \in Nat
        /\ kind = "objmap" /\ Len(attr.list) >= 1 => b.list[1].count >= attr.list[1].count
    BY <1>1, <1>3, <1>8, WholeFacts
  <2>4. /\ d.ret \in {"success", "overflow", "error", "undefined"}
        /\ d.out \in MemoryOf(kind)
        /\ d.ret = "error" => Faulty(kind, input)
        /\ d.ret = "undefined" => kind = "enumlist" /\ ~json
        /\ d.ret = "success" => /\ input # BAD /\ WholeOf(kind, d.out)
                                /\ ValueOf(kind, d.out) = w /\ d.out.count = Len(w)
        /\ d.ret = "overflow" =>
             /\ input # BAD
             /\ \/ kind = "enumlist" /\ ~json /\ HasBad(input)
                \/ /\ ~RoomFor(kind, e, b)
                   /\ d.out.count >= Len(w)
                   /\ kind \in Nested /\ Len(w) = 1 /\ 1 <= b.count =>
                        Len(d.out.list) >= 1 /\ d.out.list[1].count = Len(w[1])
    BY <1>1, <2>2, <2>3, DeserializeWhole
  <2>5. input # BAD =>
          /\ w \in ValueType(kind) /\ Len(w) \in Nat /\ DOMAIN w = 1..Len(w)
          /\ e.count = Len(w)
          /\ kind \in Nested => \A i \in 1..Len(w) : /\ e.list[i].count = Len(w[i])
                                                     /\ Len(w[i]) \in Nat
    <3> SUFFICES ASSUME input # BAD
                 PROVE  /\ w \in ValueType(kind) /\ Len(w) \in Nat /\ DOMAIN w = 1..Len(w)
                        /\ e.count = Len(w)
                        /\ kind \in Nested => \A i \in 1..Len(w) : /\ e.list[i].count = Len(w[i])
                                                                   /\ Len(w[i]) \in Nat
      OBVIOUS
    <3>1. w \in ValueType(kind)
      BY <1>1, <2>2, MeantFacts
    <3> HIDE DEF w
    <3> QED
      BY <1>1, <3>1, ExactWhole, ValueFacts
  <2> HIDE DEF d, e, w
  <2>6. CASE d.ret = "success"
    <3>1. pc' = "get" /\ UNCHANGED <<status, tries, ret>>
      BY <2>1, <2>6
    <3>2. Reading'
      BY <1>1, <2>1, <2>4, <2>6, <3>1 DEF Reading
    <3>3. Trying'
      BY <1>1, <1>8, <2>1, <2>4, <2>6, <3>1
         DEF Trying, WithoutInput, WithInput, FailedForReason, w
    <3> QED
      BY <1>4, <3>1, <3>2, <3>3
  <2>7. CASE d.ret = "error"
    <3>1. pc' = "failed" /\ ret' = "error" /\ UNCHANGED <<status, tries>>
      BY <2>1, <2>7 DEF Fail
    <3>2. Reading'
      BY <1>1, <2>1, <2>4, <3>1 DEF Reading, Failure
    <3>3. FailedForReason'
      BY <1>1, <1>8, <2>4, <2>7, <3>1 DEF FailedForReason, Faulty
    <3>4. Trying'
      BY <1>1, <3>1, <3>3 DEF Trying, WithoutInput, WithInput
    <3> QED
      BY <1>4, <3>1, <3>2, <3>4
  <2>8. CASE d.ret = "undefined"
    <3>1. status' = "undefined" /\ UNCHANGED <<pc, tries, ret>>
      BY <2>1, <2>8
    <3>2. kind = "enumlist" /\ FALSE \in Json
      BY <2>2, <2>4, <2>8
    <3>3. Stored' /\ Undefined' /\ Looking'
      BY <1>1, <3>1, <3>2 DEF Stored, Undefined, Looking, Current, Settable
    <3>4. Reading'
      BY <1>1, <2>1, <2>4, <3>1 DEF Reading
    <3>5. Trying'
      BY <1>1, <1>8, <3>1 DEF Trying, WithoutInput, WithInput, FailedForReason
    <3> QED
      BY <3>3, <3>4, <3>5
  <2>9. CASE d.ret = "overflow"
    <3>1. /\ input # BAD /\ w \in Passed /\ w \in ((seen \ {None}) \cup Passed)
          /\ DOMAIN w = 1..Len(w) /\ Len(w) \in Nat
      BY <1>8, <2>4, <2>5, <2>9 DEF Passed, w
    <3>2. kind = "objmap" /\ Len(w) >= 2 => Excused
      BY <3>1 DEF Excused
    <3>3. TryAgain /\ UNCHANGED status
      BY <2>1, <2>9
    <3>4. CASE kind = "enumlist" /\ ~json /\ HasBad(input)
      <4>1. Excused
        BY <3>1, <3>4 DEF Excused
      <4> QED
        BY <1>1, <2>1, <2>4, <3>3, <4>1, TryAgainKeeps
    <3>5. CASE ~(kind = "enumlist" /\ ~json /\ HasBad(input))
      <4>1. /\ ~RoomFor(kind, e, b)
            /\ d.out.count >= Len(w)
            /\ kind \in Nested /\ Len(w) = 1 =>
                 Len(d.out.list) >= 1 /\ d.out.list[1].count = Len(w[1])
        BY <2>3, <2>4, <2>9, <3>5
      <4>2. Excused \/ tries = Tries
        <5> SUFFICES ASSUME ~Excused, EnoughForInput PROVE FALSE
          BY <1>1, <1>8 DEF Trying, WithInput
        <5>1. CASE kind \notin Nested
          <6>1. Len(w) <= attr.count
            BY <5>1 DEF EnoughForInput, w, Nested
          <6>2. Len(w) <= b.count
            BY <1>1, <2>3, <3>1, <6>1, RoomStays
          <6> QED
            BY <2>5, <3>1, <4>1, <5>1, <6>2 DEF RoomFor
        <5>2. CASE kind = "attrlist"
          <6>1. Len(w) <= b.count
            <7>1. Len(w) <= attr.count
              BY <5>2 DEF EnoughForInput, w
            <7> QED
              BY <1>1, <2>3, <3>1, <7>1, RoomStays
          <6>2. PICK i \in 1..Len(w) : ~(e.list[i].count <= b.list[i].count)
            BY <2>5, <3>1, <4>1, <6>1 DEF RoomFor
          <6>3. b.list[i].count = DEFAULT_LIST_SIZE
            BY <1>1, <1>3, <1>8, <2>3, <3>1, <5>2, <6>1, WholeFacts
          <6>4. Len(w[i]) > DEFAULT_LIST_SIZE
            <7>1. e.list[i].count = Len(w[i]) /\ Len(w[i]) \in Nat
              BY <2>5, <3>1, <5>2 DEF Nested
            <7> QED
              BY <6>2, <6>3, <7>1, SizeAssumption
          <6> QED
            BY <3>1, <5>2, <6>4 DEF Excused
        <5>3. CASE kind = "objmap"
          <6>1. Len(w) = 1
            <7>1. Len(w) = 0 => RoomFor(kind, e, b)
              BY <2>3, <2>5, <3>1 DEF RoomFor
            <7>2. Len(w) # 0
              BY <4>1, <7>1
            <7>3. ~(Len(w) >= 2)
              BY <3>2, <5>3
            <7>4. \A n \in Nat : n # 0 /\ ~(n >= 2) => n = 1
              OBVIOUS
            <7> QED
              BY <3>1, <7>2, <7>3, <7>4
          <6>2. Len(w[1]) \in Nat /\ e.list[1].count = Len(w[1]) /\ e.count = 1
            BY <2>5, <3>1, <5>3, <6>1 DEF Nested
          <6>3. FirstRow(b, Len(w[1]))
            <7>1. FirstRow(attr, Len(w[1]))
              BY <5>3, <6>1 DEF EnoughForInput, w
            <7> QED
              BY <1>1, <2>3, <5>3, <6>2, <7>1, RoomStays
          <6>4. RoomFor(kind, e, b)
            BY <2>3, <6>2, <6>3 DEF RoomFor, FirstRow
          <6> QED
            BY <4>1, <6>4
        <5> QED
          BY <1>1, <5>1, <5>2, <5>3 DEF Nested
      <4>3. EnoughForInput'
        BY <1>1, <2>1, <4>1 DEF EnoughForInput, FirstRow, Nested, w
      <4> QED
        BY <1>1, <1>8, <2>1, <2>4, <3>1, <3>3, <4>2, <4>3, TryAgainKeeps
    <3> QED
      BY <3>4, <3>5
  <2> QED
    BY <2>4, <2>6, <2>7, <2>8, <2>9
<1> QED
  BY <1>6, <1>7, <1>8

LEMMA GetAttributeKeeps ==
  ASSUME IInv, GetAttribute
  PROVE  IInv'
<1> USE DEF IInv
<1>1. /\ status = "running" /\ pc = "get" /\ kind \in Kind
      /\ UNCHANGED <<attribute, status, store, input, json, freed, history>>
      /\ UNCHANGED <<kind, listed, sets, seen, since>>
      /\ attr \in MemoryOf(kind) /\ WholeOf(kind, attr) /\ tries # 0 /\ attr.count \in Nat
  BY ValueFacts, WholeFacts DEF GetAttribute, attribute, history, Reading
<1>2. Stored'
  BY <1>1 DEF Stored, Current, Settable
<1>3. CASE ~(listed /\ store # None)
  <2>1. pc' = "direct" /\ UNCHANGED <<attr, tries, ret>>
    BY <1>3 DEF GetAttribute
  <2>2. Undefined'
    BY <1>1 DEF Undefined
  <2>3. Reading'
    BY <1>1, <2>1 DEF Reading
  <2>4. Looking'
    BY <1>1, <1>3, <2>1 DEF Looking, Stored, Current
  <2>5. Trying'
    BY <1>1, <2>1 DEF Trying, WithoutInput, WithInput, FailedForReason
  <2> QED
    BY <1>2, <2>2, <2>3, <2>4, <2>5
<1>4. CASE listed /\ store # None
  <2> DEFINE copied == Copy(kind, store, attr)
             v == ValueOf(kind, store)
  <2>1. /\ attr' = copied.out
        /\ IF copied.fits THEN pc' = "done" /\ UNCHANGED <<tries, ret>> ELSE TryAgain
    BY <1>4 DEF GetAttribute
  <2>2. WholeOf(kind, store) /\ v \in Settable(kind) /\ v \in seen \ {None}
    BY <1>1, <1>4, ValueFacts DEF Stored, Current
  <2>3. /\ store.count \in Nat /\ Len(v) = store.count /\ DOMAIN v = 1..store.count
        /\ kind \in Nested => \A i \in 1..store.count : /\ Len(v[i]) = store.list[i].count
                                                      /\ store.list[i].count \in Nat
    BY <1>1, <2>2, WholeFacts
  <2>4. /\ copied.fits <=> RoomFor(kind, store, attr)
        /\ copied.out \in MemoryOf(kind) /\ copied.out.count = store.count
        /\ copied.fits => WholeOf(kind, copied.out) /\ ValueOf(kind, copied.out) = v
        /\ kind \in Nested /\ store.count = 1 /\ store.count <= attr.count =>
             Len(copied.out.list) >= 1 /\ copied.out.list[1].count = store.list[1].count
    BY <1>1, <2>2, CopyWhole
  <2> HIDE DEF copied, v
  <2>5. CASE copied.fits
    <3>1. pc' = "done" /\ UNCHANGED <<tries, ret>>
      BY <2>1, <2>5
    <3>2. Reading'
      BY <1>1, <2>1, <2>2, <2>4, <2>5, <3>1 DEF Reading
    <3>3. Trying'
      BY <1>1, <3>1 DEF Trying, WithoutInput, WithInput, FailedForReason
    <3>4. Undefined' /\ Looking'
      BY <1>1, <3>1 DEF Undefined, Looking
    <3> QED
      BY <1>2, <3>2, <3>3, <3>4
  <2>7. CASE ~copied.fits
    <3>1. TryAgain
      BY <2>1, <2>7
    <3>2. input # None => Excused
      <4> SUFFICES ASSUME input # None PROVE Excused
        OBVIOUS
      <4> DEFINE w == Meant(kind, input)
      <4>1. /\ w \in Passed /\ attr.count = Len(w)
            /\ kind \in Nested => \A i \in 1..attr.count : attr.list[i].count = Len(w[i])
        <5>1. input # BAD /\ ValueOf(kind, attr) = w
          BY <1>1 DEF Trying, WithInput
        <5>2. w \in Passed
          BY <5>1 DEF Passed
        <5> HIDE DEF w
        <5> QED
          BY <1>1, <5>1, <5>2, WholeFacts
      <4> HIDE DEF w
      <4>2. Longer(v, w)
        <5>1. CASE store.count > attr.count
          BY <2>3, <4>1, <5>1 DEF Longer
        <5>2. CASE ~(store.count > attr.count)
          <6>1. store.count <= attr.count
            BY <1>1, <2>3, <5>2
          <6>2. kind \in Nested
            BY <2>4, <2>7, <6>1 DEF RoomFor
          <6>3. PICK i \in 1..store.count : ~(store.list[i].count <= attr.list[i].count)
            BY <2>4, <2>7, <6>1 DEF RoomFor
          <6>4. i \in 1..attr.count /\ attr.list[i].count \in Nat
            <7>1. i \in 1..attr.count
              BY <1>1, <2>3, <6>1
            <7> QED
              BY <1>1, <6>2, <7>1, WholeFacts
          <6>5. Len(v[i]) > Len(w[i])
            BY <2>3, <4>1, <6>2, <6>3, <6>4
          <6> QED
            BY <2>3, <6>2, <6>5 DEF Longer
        <5> QED
          BY <5>1, <5>2
      <4> QED
        BY <2>2, <4>1, <4>2 DEF Excused
    <3>3. ASSUME input = None, ~Excused
          PROVE  /\ Enough'
                 /\ tries = Tries \/ (tries = 2 /\ since >= 1) \/ (tries = 1 /\ since >= 2)
      <4>1. FreshRows /\ WithoutInput
        BY <1>1, <3>3 DEF Trying
      <4>2. v \in (seen \ {None}) \cup Passed
        BY <2>2
      <4>3. CASE kind # "objmap"
        <5>1. store.count > attr.count
          <6>1. CASE kind \notin Nested
            BY <1>1, <2>3, <2>4, <2>7, <6>1 DEF RoomFor
          <6>2. CASE kind = "attrlist"
            <7> SUFFICES ASSUME store.count <= attr.count PROVE FALSE
              BY <1>1, <2>3
            <7>1. PICK i \in 1..store.count : ~(store.list[i].count <= attr.list[i].count)
              BY <2>4, <2>7, <6>2 DEF RoomFor, Nested
            <7>2. attr.list[i].count = DEFAULT_LIST_SIZE
              BY <1>1, <2>3, <4>1, <6>2, WholeFacts DEF FreshRows
            <7>3. Len(v[i]) > DEFAULT_LIST_SIZE
              BY <2>3, <6>2, <7>1, <7>2, SizeAssumption DEF Nested
            <7> QED
              BY <2>3, <3>3, <4>2, <6>2, <7>3 DEF Excused
          <6> QED
            BY <1>1, <4>3, <6>1, <6>2 DEF Nested
        <5>2. ~Enough
          BY <1>1, <1>4, <2>3, <4>3, <5>1 DEF Enough
        <5>3. Enough'
          BY <1>1, <2>1, <2>3, <2>4, <4>3 DEF Enough
        <5> QED
          BY <1>1, <3>3, <4>1, <5>2, <5>3 DEF WithoutInput
      <4>4. CASE kind = "objmap"
        <5>1. store.count = 1
          <6>1. ~(store.count >= 2)
            BY <2>3, <3>3, <4>2, <4>4 DEF Excused
          <6>2. store.count # 0
            BY <1>1, <2>4, <2>7 DEF RoomFor
          <6> QED
            BY <2>3, <6>1, <6>2
        <5>2. store.count <= attr.count
          BY <1>1, <4>1, <5>1 DEF FreshRows
        <5>3. ~Enough
          BY <1>4, <2>4, <2>7, <4>4, <5>1, <5>2 DEF Enough, FirstRow, RoomFor
        <5>4. Enough'
          <6>1. Len(copied.out.list) >= 1 /\ copied.out.list[1].count = store.list[1].count
            BY <2>4, <4>4, <5>1, <5>2 DEF Nested
          <6>2. 1 \in 1..store.count /\ store.list[1].count \in Nat
            BY <2>3, <4>4, <5>1 DEF Nested
          <6> QED
            BY <1>1, <2>1, <4>4, <5>1, <6>1, <6>2 DEF Enough, FirstRow
        <5> QED
          BY <1>1, <3>3, <4>1, <5>3, <5>4 DEF WithoutInput
      <4> QED
        BY <4>3, <4>4
    <3> QED
      BY <1>1, <2>1, <2>4, <3>1, <3>2, <3>3, TryAgainKeeps
  <2> QED
    BY <2>5, <2>7
<1> QED
  BY <1>3, <1>4

LEMMA DirectGetKeeps ==
  ASSUME IInv, DirectGet
  PROVE  IInv'
<1> USE DEF IInv
<1>1. /\ status = "running" /\ pc = "direct"
      /\ UNCHANGED <<status, store, attr, tries, input, json, freed>>
      /\ UNCHANGED <<kind, listed, sets, seen, since>>
  BY DEF DirectGet, attribute, history
<1>2. \/ store # None /\ pc' = "copy" /\ UNCHANGED ret
      \/ /\ store = None /\ pc' = "failed" /\ ret' \in {Reason, "uninitialized"}
  BY DEF DirectGet, Fail
<1>3. Stored' /\ Undefined'
  BY <1>1 DEF Stored, Undefined, Current, Settable
<1>4. Reading'
  BY <1>1, <1>2 DEF Reading, Reason, Failure
<1>5. Looking'
  BY <1>1, <1>2 DEF Looking
<1>6. FailedForReason'
  <2>1. CASE store # None
    BY <1>2, <2>1 DEF FailedForReason
  <2>2. CASE store = None
    <3>1. None \in seen
      BY <1>1, <2>2 DEF Stored, Current
    <3> QED
      BY <1>1, <1>2, <2>2, <3>1 DEF FailedForReason, Reason
  <2> QED
    BY <2>1, <2>2
<1>7. Trying'
  BY <1>1, <1>2, <1>6 DEF Trying, WithoutInput, WithInput
<1> QED
  BY <1>3, <1>4, <1>5, <1>7

LEMMA DirectCopyKeeps ==
  ASSUME IInv, DirectCopy
  PROVE  IInv'
<1> USE DEF IInv
<1>1. /\ status = "running" /\ pc = "copy" /\ kind \in Kind
      /\ UNCHANGED <<store, tries, input, json, freed>>
      /\ UNCHANGED <<kind, listed, sets, seen, since>>
      /\ WholeOf(kind, attr) /\ store # None
  BY ValueFacts DEF DirectCopy, attribute, history, Reading, Looking
<1>2. CASE freed
  <2>1. status' = "undefined" /\ UNCHANGED <<pc, attr, ret>>
    BY <1>2 DEF DirectCopy
  <2>2. listed /\ None \in seen /\ since >= 2
    BY <1>1, <1>2 DEF Looking
  <2>3. Stored' /\ Undefined'
    BY <1>1, <2>1, <2>2 DEF Stored, Undefined, Current, Settable
  <2>4. Reading' /\ Looking'
    BY <1>1, <2>1 DEF Reading, Looking
  <2>5. Trying'
    BY <1>1, <2>1 DEF Trying, WithoutInput, WithInput, FailedForReason
  <2> QED
    BY <2>3, <2>4, <2>5
<1>3. CASE ~freed
  <2> DEFINE copied == Copy(kind, store, attr)
             v == ValueOf(kind, store)
  <2>1. /\ UNCHANGED status /\ attr' = copied.out
        /\ IF copied.fits THEN pc' = "done" /\ UNCHANGED ret ELSE Fail(Reason)
    BY <1>3 DEF DirectCopy
  <2>2. WholeOf(kind, store) /\ v \in seen \ {None}
    <3>1. WholeOf(kind, store) /\ v \in Settable(kind) /\ v \in seen
      BY <1>1 DEF Stored, Current
    <3> QED
      BY <3>1, ValueFacts
  <2>3. /\ copied.out \in MemoryOf(kind)
        /\ copied.fits => WholeOf(kind, copied.out) /\ ValueOf(kind, copied.out) = v
    BY <1>1, <2>2, CopyWhole
  <2> HIDE DEF copied, v
  <2>4. \/ copied.fits /\ pc' = "done" /\ UNCHANGED ret
        \/ pc' = "failed" /\ ret' = Reason
    BY <2>1 DEF Fail
  <2>5. Stored' /\ Undefined'
    BY <1>1, <2>1 DEF Stored, Undefined, Current, Settable
  <2>6. Reading'
    BY <1>1, <2>1, <2>2, <2>3, <2>4 DEF Reading, Reason, Failure
  <2>7. Looking'
    BY <1>1, <1>3, <2>4 DEF Looking
  <2>8. FailedForReason'
    BY <1>1, <2>4 DEF FailedForReason, Reason, Looking
  <2>9. Trying'
    BY <1>1, <2>4, <2>8 DEF Trying, WithoutInput, WithInput
  <2> QED
    BY <2>5, <2>6, <2>7, <2>9
<1> QED
  BY <1>2, <1>3

LEMMA Invariant == Spec => []IInv
<1>1. Init => IInv
  <2> SUFFICES ASSUME Init PROVE IInv
    OBVIOUS
  <2>1. Stored /\ Undefined
    BY CallsAssumption DEF Init, Stored, Undefined, Current
  <2>5. Looking
    <3>1. freed = FALSE /\ pc = "idle"
      BY DEF Init
    <3> QED
      BY <3>1, Zenon DEF Looking
  <2>2. NullList \in MemoryOf(kind)
    BY <2>1, ValueFacts, NullWhole
  <2>3. Reading
    BY <2>2 DEF Init, Reading, Tries
  <2>4. Trying
    BY DEF Init, Trying, WithoutInput, WithInput, FailedForReason
  <2> QED
    BY <2>1, <2>3, <2>4, <2>5 DEF IInv
<1>2. IInv /\ [Next]_vars => IInv'
  <2> SUFFICES ASSUME IInv, [Next]_vars PROVE IInv'
    OBVIOUS
  <2>1. ASSUME NEW js \in Json, NEW v \in Texts[kind], SetAttribute(js, v) PROVE IInv'
    BY <2>1, SetAttributeKeeps
  <2>2. ASSUME NEW v \in Values[kind], AdapterSets(v) PROVE IInv'
    BY <2>2, AdapterSetsKeeps
  <2>3. CASE ClearAttribute
    BY <2>3, ChangeFacts DEF ClearAttribute, Locked
  <2>4. ASSUME NEW js \in Json \cup {TRUE}, NEW v \in Inputs[kind] \cup {None},
               BeginGet(js, v)
        PROVE  IInv'
    BY <2>4, BeginGetKeeps
  <2>5. CASE Allocate
    BY <2>5, AllocateKeeps
  <2>6. CASE GetAttribute
    BY <2>6, GetAttributeKeeps
  <2>7. CASE Return
    BY <2>7, ReturnKeeps
  <2>8. CASE DirectGet
    BY <2>8, DirectGetKeeps
  <2>9. CASE DirectCopy
    BY <2>9, DirectCopyKeeps
  <2>10. CASE UNCHANGED vars
    <3> USE <2>10 DEF vars, attribute, reader, history
    <3>1. Stored' /\ Undefined'
      BY DEF IInv, Stored, Undefined, Current, Settable
    <3>2. Reading' /\ Looking'
      BY DEF IInv, Reading, Looking
    <3>3. Excused' = Excused
      BY DEF Excused, Longer, Passed
    <3>4. FailedForReason' /\ WithoutInput' /\ WithInput'
      BY <3>3 DEF IInv, Trying, FailedForReason, WithoutInput, WithInput, Enough, EnoughForInput
    <3> QED
      BY <3>1, <3>2, <3>4 DEF IInv, Trying, FreshRows
  <2> QED
    BY <2>1, <2>2, <2>3, <2>4, <2>5, <2>6, <2>7, <2>8, <2>9, <2>10 DEF Next
<1> QED
  BY <1>1, <1>2, PTL DEF Spec

(***************************************************************************)
(* Types.                                                                  *)
(***************************************************************************)
THEOREM TypeCorrect == Spec => []TypeOK
<1>1. IInv => TypeOK
  <2> SUFFICES ASSUME IInv PROVE TypeOK
    OBVIOUS
  <2>1. json \in BOOLEAN /\ freed \in BOOLEAN
    BY CallsAssumption, Zenon DEF IInv, Reading, Looking
  <2> QED
    BY <2>1, CallsAssumption DEF IInv, Stored, Reading, TypeOK
<1> QED
  BY <1>1, Invariant, PTL

(***************************************************************************)
(* No copy of a value runs over its buffer, and only an empty attrlist     *)
(* that was set fails the process (taimetadatautils.c:335-345, 698).       *)
(***************************************************************************)
THEOREM MemoryCorrect == Spec => []MemoryIsSafe
<1>1. IInv => MemoryIsSafe
  <2> SUFFICES ASSUME IInv PROVE MemoryIsSafe
    OBVIOUS
  <2>1. \A b : WholeOf(kind, b) => Covered(b)
    <3> SUFFICES ASSUME NEW b, WholeOf(kind, b) PROVE Covered(b)
      OBVIOUS
    <3>1. CASE kind \notin Nested
      BY <3>1 DEF WholeOf, Covered, Room, Fits
    <3>2. CASE kind \in Nested
      BY <3>2 DEF WholeOf, Covered, Room, RowsFit, Fits
    <3> QED
      BY <3>1, <3>2
  <2> QED
    BY <2>1 DEF IInv, Stored, Undefined, Reading, MemoryIsSafe
<1> QED
  BY <1>1, Invariant, PTL

(***************************************************************************)
(* A value that is read is one that was set, as a whole, whatever others   *)
(* set between the tries (attribute.hpp:34-52).                            *)
(***************************************************************************)
THEOREM ReaderCorrect == Spec => []ReaderSeesWhatWasSet
<1>1. IInv => ReaderSeesWhatWasSet
  BY DEF IInv, Reading, ReaderSeesWhatWasSet
<1> QED
  BY <1>1, Invariant, PTL

(***************************************************************************)
(* A read runs out of its three tries only after two changes, or for one   *)
(* of the reasons Excused names (attribute.hpp:34-52).                     *)
(***************************************************************************)
THEOREM RetryCorrect == Spec => []RetryIsEnough
<1>1. IInv => RetryIsEnough
  <2> SUFFICES ASSUME IInv, pc = "failed" PROVE RetryIsEnough
    BY DEF RetryIsEnough
  <2>1. FailedForReason
    BY DEF IInv, Trying
  <2> QED
    BY <2>1 DEF FailedForReason, RetryIsEnough
<1> QED
  BY <1>1, Invariant, PTL
=============================================================================
