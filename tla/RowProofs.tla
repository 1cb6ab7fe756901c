------------------------------ MODULE RowProofs ------------------------------
(***************************************************************************)
(* The rows that are built.  For every number of rows, days and attributes *)
(* of a dimension with history: what other builders compute about it, and  *)
(* that its builder agrees.                                                *)
(* The primary keys of the fact tables are keys for any number of items,   *)
(* warehouses and weeks, any lengths of orders and any permutation; the    *)
(* amounts of a fact and of its return add up whatever was drawn; a        *)
(* refresh set of facts is spread over its dates, however many sales and   *)
(* items there are; and what its copies of dimensions name exists.  What   *)
(* facts refer to fits together on its day, at every scale and whatever    *)
(* ids, days and pages are drawn.  The rows of date_dim are the days they  *)
(* should be, to the last, and so are the days a refresh set draws, from   *)
(* whatever years.                                                         *)
(***************************************************************************)
EXTENDS FactKeys, Revisions, Pricing, UpdateSet, DimensionCopies, Joins, Calendar,
  TLAPS, FiniteSetTheorems, WellFoundedInduction

-----------------------------------------------------------------------------
\* Revisions

(* The number of ids, by groups of six rows and three ids.                 *)
LEMMA IdCountParts ==
  ASSUME NEW q \in Nat, NEW r \in 0 .. 5, NEW n \in Nat, n = 6 * q + r
  PROVE  /\ r = 0 => IdCount(n) = 3 * q
         /\ r = 1 => IdCount(n) = 3 * q + 1
         /\ r \in {2, 3} => IdCount(n) = 3 * q + 2
         /\ r \in {4, 5} => IdCount(n) = 3 * q + 3
<1>1. n \div 6 = q /\ n % 6 = r
  OBVIOUS
<1>2. QED  BY <1>1 DEF IdCount

LEMMA IdCountNat == ASSUME NEW n \in Nat PROVE IdCount(n) \in Nat
<1>1. n \div 6 \in Nat /\ n % 6 \in 0 .. 5
  OBVIOUS
<1>2. QED  BY <1>1 DEF IdCount

LEMMA FirstSKParts ==
  ASSUME NEW a \in Nat, NEW b \in 1 .. 3
  PROVE  FirstSK(3 * a + b) = 6 * a + (CASE b = 1 -> 1 [] b = 2 -> 2 [] b = 3 -> 4)
<1>1. CASE b = 1
  <2>1. (3 * a + b) \div 3 = a /\ (3 * a + b) % 3 = 1  BY <1>1
  <2>2. QED  BY <1>1, <2>1 DEF FirstSK
<1>2. CASE b = 2
  <2>1. (3 * a + b) \div 3 = a /\ (3 * a + b) % 3 = 2  BY <1>2
  <2>2. QED  BY <1>2, <2>1 DEF FirstSK
<1>3. CASE b = 3
  <2>1. (3 * a + b) \div 3 = a + 1 /\ (3 * a + b) % 3 = 0  BY <1>3
  <2>2. QED  BY <1>3, <2>1 DEF FirstSK
<1>4. QED  BY <1>1, <1>2, <1>3

(* Ids go in threes.                                                       *)
LEMMA IdParts ==
  ASSUME NEW id \in Nat \ {0}
  PROVE  \E a \in Nat, b \in 1 .. 3 : id = 3 * a + b
<1>1. (id - 1) \div 3 \in Nat /\ (id - 1) % 3 \in 0 .. 2
      /\ id - 1 = 3 * ((id - 1) \div 3) + ((id - 1) % 3)
  OBVIOUS
<1>2. id = 3 * ((id - 1) \div 3) + (((id - 1) % 3) + 1)  BY <1>1
<1>3. ((id - 1) % 3) + 1 \in 1 .. 3  BY <1>1
<1>4. QED  BY <1>1, <1>2, <1>3

(* The first row of an id: it is a row, and the rows of the ids follow     *)
(* each other.                                                             *)
LEMMA FirstSKNat == ASSUME NEW id \in Nat \ {0} PROVE FirstSK(id) \in Nat \ {0}
<1>1. PICK a \in Nat, b \in 1 .. 3 : id = 3 * a + b  BY IdParts
<1>2. QED  BY <1>1, FirstSKParts

LEMMA FirstSKExists ==
  ASSUME NEW n \in Nat, NEW id \in 1 .. IdCount(n)
  PROVE  FirstSK(id) \in 1 .. n
<1>1. n \div 6 \in Nat /\ n % 6 \in 0 .. 5 /\ n = 6 * (n \div 6) + (n % 6)
  OBVIOUS
<1>2. PICK q \in Nat, r \in 0 .. 5 : n = 6 * q + r  BY <1>1
<1>3. id \in Nat \ {0}  BY IdCountNat
<1>4. PICK a \in Nat, b \in 1 .. 3 : id = 3 * a + b  BY <1>3, IdParts
<1>5. FirstSK(id) = 6 * a + (CASE b = 1 -> 1 [] b = 2 -> 2 [] b = 3 -> 4)
  BY <1>4, FirstSKParts
<1>6. CASE a < q  BY <1>2, <1>5, <1>6
<1>7. CASE a >= q
  <2>1. /\ r = 0 => IdCount(n) = 3 * q
        /\ r = 1 => IdCount(n) = 3 * q + 1
        /\ r \in {2, 3} => IdCount(n) = 3 * q + 2
        /\ r \in {4, 5} => IdCount(n) = 3 * q + 3
    BY <1>2, IdCountParts
  <2>2. 3 * a + b <= IdCount(n) /\ IdCount(n) <= 3 * q + 3  BY <1>4, <2>1, IdCountNat
  <2>3. a = q  BY <1>7, <2>2, IdCountNat
  <2>4. QED  BY <1>2, <1>5, <2>1, <2>2, <2>3
<1>8. QED  BY <1>6, <1>7

(* How many rows an id has, if there are enough.                           *)
Span(id) == IF id % 3 = 0 THEN 3 ELSE id % 3

LEMMA NextFirstSK ==
  ASSUME NEW id \in Nat \ {0}
  PROVE  FirstSK(id + 1) = FirstSK(id) + Span(id)
<1>1. PICK a \in Nat, b \in 1 .. 3 : id = 3 * a + b  BY IdParts
<1>2. FirstSK(id) = 6 * a + (CASE b = 1 -> 1 [] b = 2 -> 2 [] b = 3 -> 4)
  BY <1>1, FirstSKParts
<1>3. Span(id) = b  BY <1>1 DEF Span
<1>4. CASE b < 3
  <2>1. id + 1 = 3 * a + (b + 1) /\ b + 1 \in 1 .. 3  BY <1>1, <1>4
  <2>2. FirstSK(id + 1) = 6 * a + (CASE b + 1 = 1 -> 1 [] b + 1 = 2 -> 2 [] b + 1 = 3 -> 4)
    BY <2>1, FirstSKParts
  <2>3. QED  BY <1>2, <1>3, <1>4, <2>2
<1>5. CASE b = 3
  <2>1. id + 1 = 3 * (a + 1) + 1  BY <1>1, <1>5
  <2>2. FirstSK(id + 1) = 6 * (a + 1) + 1  BY <2>1, FirstSKParts
  <2>3. QED  BY <1>2, <1>3, <1>5, <2>2
<1>6. QED  BY <1>4, <1>5

LEMMA FirstSKIncreases ==
  ASSUME NEW i \in Nat \ {0}, NEW j \in Nat \ {0}, i <= j
  PROVE  FirstSK(i) <= FirstSK(j)
<1>1. PICK a \in Nat, b \in 1 .. 3 : i = 3 * a + b  BY IdParts
<1>2. PICK c \in Nat, d \in 1 .. 3 : j = 3 * c + d  BY IdParts
<1>3. FirstSK(i) = 6 * a + (CASE b = 1 -> 1 [] b = 2 -> 2 [] b = 3 -> 4)
  BY <1>1, FirstSKParts
<1>4. FirstSK(j) = 6 * c + (CASE d = 1 -> 1 [] d = 2 -> 2 [] d = 3 -> 4)
  BY <1>2, FirstSKParts
<1>5. a < c \/ (a = c /\ b <= d)  BY <1>1, <1>2
<1>6. QED  BY <1>3, <1>4, <1>5

(* The revision of a day is one of the rows of the id, and there is one.   *)
THEOREM MatchIsOwn ==
  ASSUME NEW n \in Nat, NEW id \in 1 .. IdCount(n), NEW day
  PROVE  /\ MatchSK(id, day, n) \in 1 .. n
         /\ MatchSK(id, day, n) \in AnySK(id)
         /\ FirstSK(id) <= MatchSK(id, day, n)
         /\ MatchSK(id, day, n) < FirstSK(id + 1)
<1>1. id \in Nat \ {0} /\ id % 3 \in 0 .. 2  BY IdCountNat
<1>2. FirstSK(id) \in 1 .. n  BY FirstSKExists
<1>3. FirstSK(id + 1) = FirstSK(id) + Span(id)  BY <1>1, NextFirstSK
<1>4. Revision(id, day) \in 0 .. Span(id) - 1  BY <1>1 DEF Revision, Span
<1>5. Span(id) \in 1 .. 3  BY <1>1 DEF Span
<1>6. /\ FirstSK(id) <= MatchSK(id, day, n)
      /\ MatchSK(id, day, n) <= FirstSK(id) + Revision(id, day)
      /\ MatchSK(id, day, n) \in 1 .. n
  BY <1>2, <1>4, <1>5 DEF MatchSK
<1>7. AnySK(id) = FirstSK(id) .. FirstSK(id) + Span(id) - 1
  BY <1>1, <1>2 DEF AnySK, Span
<1>8. QED  BY <1>2, <1>3, <1>4, <1>5, <1>6, <1>7

(* Two ids never have the same row, on whatever day.                       *)
THEOREM MatchDistinct ==
  ASSUME NEW n \in Nat, NEW i \in 1 .. IdCount(n), NEW j \in 1 .. IdCount(n), NEW day,
         MatchSK(i, day, n) = MatchSK(j, day, n)
  PROVE  i = j
<1>1. \A k, l \in 1 .. IdCount(n) : k < l => MatchSK(k, day, n) < MatchSK(l, day, n)
  <2>1. SUFFICES ASSUME NEW k \in 1 .. IdCount(n), NEW l \in 1 .. IdCount(n), k < l
                 PROVE  MatchSK(k, day, n) < MatchSK(l, day, n)
    OBVIOUS
  <2>2. k + 1 \in Nat \ {0} /\ l \in Nat \ {0} /\ k + 1 <= l  BY <2>1, IdCountNat
  <2>3. FirstSK(k + 1) <= FirstSK(l)  BY <2>2, FirstSKIncreases
  <2>4. FirstSK(k + 1) \in Nat /\ FirstSK(l) \in Nat  BY <2>2, FirstSKNat
  <2>5. MatchSK(k, day, n) < FirstSK(k + 1) /\ MatchSK(k, day, n) \in 1 .. n  BY MatchIsOwn
  <2>6. FirstSK(l) <= MatchSK(l, day, n) /\ MatchSK(l, day, n) \in 1 .. n  BY MatchIsOwn
  <2>7. QED  BY <2>3, <2>4, <2>5, <2>6
<1>2. i \in Nat /\ j \in Nat /\ MatchSK(i, day, n) \in Nat /\ MatchSK(j, day, n) \in Nat
  BY IdCountNat, MatchIsOwn
<1>3. QED  BY <1>1, <1>2

-----------------------------------------------------------------------------
(* The rows of the builder.                                                *)

(* Every row is one of an id's.                                            *)
LEMMA MemberOfRow ==
  ASSUME NEW n \in Nat, NEW k \in 1 .. n
  PROVE  \E id \in 1 .. IdCount(n), e \in 0 .. 2 : e < Span(id) /\ k = FirstSK(id) + e
<1>1. \A x \in Nat : x \div 6 \in Nat /\ x % 6 \in 0 .. 5 /\ x = 6 * (x \div 6) + (x % 6)
  OBVIOUS
<1>2. PICK q \in Nat, r \in 0 .. 5 : n = 6 * q + r  BY <1>1
<1>3. k - 1 \in Nat  OBVIOUS
<1>4. PICK a \in Nat, f \in 0 .. 5 : k - 1 = 6 * a + f  BY <1>1, <1>3
<1>5. \E b \in 1 .. 3, e \in 0 .. 2 :
        /\ e < b
        /\ f = (CASE b = 1 -> 0 [] b = 2 -> 1 [] b = 3 -> 3) + e
  <2>1. CASE f = 0  BY <2>1
  <2>2. CASE f \in {1, 2}  BY <2>2
  <2>3. CASE f \in {3, 4, 5}  BY <2>3
  <2>4. QED  BY <2>1, <2>2, <2>3
<1>6. PICK b \in 1 .. 3, e \in 0 .. 2 :
        /\ e < b
        /\ f = (CASE b = 1 -> 0 [] b = 2 -> 1 [] b = 3 -> 3) + e
  BY <1>5
<1>7. FirstSK(3 * a + b) = 6 * a + (CASE b = 1 -> 1 [] b = 2 -> 2 [] b = 3 -> 4)
  BY FirstSKParts
<1>8. k = FirstSK(3 * a + b) + e  BY <1>4, <1>6, <1>7
<1>9. Span(3 * a + b) = b  BY DEF Span
<1>10. 3 * a + b \in 1 .. IdCount(n)
  <2>1. /\ r = 0 => IdCount(n) = 3 * q
        /\ r = 1 => IdCount(n) = 3 * q + 1
        /\ r \in {2, 3} => IdCount(n) = 3 * q + 2
        /\ r \in {4, 5} => IdCount(n) = 3 * q + 3
    BY <1>2, IdCountParts
  <2>2. CASE a < q  BY <1>2, <2>1, <2>2
  <2>3. CASE a >= q
    <3>1. a = q /\ f < r  BY <1>2, <1>4, <2>3
    <3>2. QED  BY <1>6, <2>1, <3>1
  <2>4. QED  BY <2>2, <2>3
<1>11. QED  BY <1>6, <1>8, <1>9, <1>10

(* How setSCDKeys() dates the rows of an id.                               *)
LEMMA RowsOfMember ==
  ASSUME NEW id \in Nat \ {0}, NEW e \in 0 .. 2, NEW k, e < Span(id), k = FirstSK(id) + e
  PROVE  /\ Earlier(k) = e
         /\ e = 0 => BeginDay(k) = Shifted(MinDay)
         /\ e = 1 /\ Span(id) = 2 => BeginDay(k) = Shifted(H1Day) + 1
         /\ e = 1 /\ Span(id) = 3 => BeginDay(k) = Shifted(T1Day) + 1
         /\ e = 2 => BeginDay(k) = Shifted(T2Day) + 1
         /\ e = Span(id) - 1 => EndDay(k) = Open
         /\ e = 0 /\ Span(id) = 2 => EndDay(k) = Shifted(H1Day)
         /\ e = 0 /\ Span(id) = 3 => EndDay(k) = Shifted(T1Day)
         /\ e = 1 /\ Span(id) = 3 => EndDay(k) = Shifted(T2Day)
<1>1. PICK a \in Nat, b \in 1 .. 3 : id = 3 * a + b  BY IdParts
<1>2. FirstSK(id) = 6 * a + (CASE b = 1 -> 1 [] b = 2 -> 2 [] b = 3 -> 4)
  BY <1>1, FirstSKParts
<1>3. Span(id) = b  BY <1>1 DEF Span
<1>4. /\ b = 1 => e = 0 /\ k % 6 = 1
      /\ b = 2 => (e = 0 /\ k % 6 = 2) \/ (e = 1 /\ k % 6 = 3)
      /\ b = 3 => (e = 0 /\ k % 6 = 4) \/ (e = 1 /\ k % 6 = 5) \/ (e = 2 /\ k % 6 = 0)
  BY <1>2, <1>3
<1>5. QED  BY <1>3, <1>4 DEF Earlier, BeginDay, EndDay

(* A row and the one before it, if they are of the same id.                *)
LEMMA EarlierRow ==
  ASSUME NEW k \in Nat \ {0}
  PROVE  /\ Earlier(k) \in 0 .. k - 1
         /\ Earlier(k) > 0 => Earlier(k - 1) = Earlier(k) - 1
<1>1. PICK a \in Nat, f \in 0 .. 5 : k = 6 * a + f  
  <2>1. k \div 6 \in Nat /\ k % 6 \in 0 .. 5 /\ k = 6 * (k \div 6) + (k % 6)
    OBVIOUS
  <2>2. QED  BY <2>1
<1>2. k % 6 = f  BY <1>1
<1>3. f > 0 => (k - 1) % 6 = f - 1  BY <1>1
<1>4. f = 0 => (k - 1) % 6 = 5 /\ k >= 6  BY <1>1
<1>5. Earlier(k) \in 0 .. 2 /\ Earlier(k) <= k - 1  BY <1>1, <1>2, <1>4 DEF Earlier
<1>6. QED  BY <1>2, <1>3, <1>4, <1>5 DEF Earlier

-----------------------------------------------------------------------------
Row == [key : Int, begin : Int, end : Int, value : [Attributes -> Int]]

(* The state of the builder, and what every row is made of.                *)
RevInv ==
  /\ dim \in Dimensions
  /\ built \in Seq(Row) /\ Len(built) <= dim.rows
  /\ old = IF built = <<>> THEN [a \in Attributes |-> 0] ELSE built[Len(built)].value
  /\ \A k \in 1 .. Len(built) :
       /\ built[k].key = k - Earlier(k)
       /\ built[k].begin = BeginDay(k) /\ built[k].end = EndDay(k)
  /\ ValuesStay

LEMMA DaysType ==
  ASSUME dim \in Dimensions
  PROVE  /\ 6 * dim.table \in Nat /\ 6 * dim.table < MinDay
         /\ dim.rows \in Nat \ {0}
         /\ MinDay \in Nat /\ MaxDay \in Nat /\ H1Day \in Nat /\ T1Day \in Nat /\ T2Day \in Nat
         /\ MinDay <= H1Day /\ MinDay <= T1Day /\ T1Day <= T2Day
<1>1. dim.table \in TableNumbers /\ dim.rows \in 1 .. MaxRows  BY DEF Dimensions
<1>2. MinDay \in Nat /\ MaxDay \in Nat /\ MinDay < MaxDay  BY RevisionsAssumption
<1>3. (MaxDay - MinDay) \div 2 \in Nat /\ (MaxDay - MinDay) \div 3 \in Nat  BY <1>2
<1>4. \A t \in TableNumbers : t \in Nat /\ 6 * t < MinDay  BY RevisionsAssumption
<1>5. 6 * dim.table \in Nat /\ 6 * dim.table < MinDay  BY <1>1, <1>4
<1>6. dim.rows \in Nat \ {0}  BY <1>1, RevisionsAssumption
<1>7. QED  BY <1>2, <1>3, <1>5, <1>6 DEF H1Day, T1Day, T2Day

LEMMA RevInvInit == RevInit => RevInv
  BY DEF RevInit, RevInv, ValuesStay, Row, Dimensions

LEMMA DaysOfRow ==
  ASSUME dim \in Dimensions, NEW k \in Nat \ {0}
  PROVE  BeginDay(k) \in Int /\ EndDay(k) \in Int
<1>1. k % 6 \in 0 .. 5  OBVIOUS
<1>2. QED  BY <1>1, DaysType DEF BeginDay, EndDay, Shifted, Open

LEMMA RevInvBuild == RevInv /\ BuildRow => RevInv'
<1> SUFFICES ASSUME RevInv, BuildRow PROVE RevInv'
  OBVIOUS
<1> DEFINE k == Len(built) + 1
<1>1. PICK odd \in SUBSET Attributes :
        /\ old' = [a \in Attributes |-> IF KeepsOld(k, a \in odd) THEN old[a] ELSE k]
        /\ built' = Append(built, [key |-> k - Earlier(k), begin |-> BeginDay(k), end |-> EndDay(k),
                                   value |-> old'])
        /\ k <= dim.rows /\ dim' = dim
  BY DEF BuildRow
<1>2. k \in Nat \ {0} /\ dim.rows \in Nat  BY DaysType DEF RevInv
<1>3. Earlier(k) \in 0 .. k - 1 /\ BeginDay(k) \in Int /\ EndDay(k) \in Int
  BY <1>2, EarlierRow, DaysOfRow DEF RevInv
<1>4. old \in [Attributes -> Int]
  <2>1. CASE built = <<>>
    <3>1. old = [a \in Attributes |-> 0]  BY <2>1 DEF RevInv
    <3>2. QED  BY <3>1
  <2>2. CASE built # <<>>
    <3>1. Len(built) \in 1 .. Len(built) /\ built \in Seq(Row)  BY <2>2 DEF RevInv
    <3>2. built[Len(built)] \in Row  BY <3>1
    <3>3. QED  BY <2>2, <3>2 DEF RevInv, Row
  <2>3. QED  BY <2>1, <2>2
<1>5. old' \in [Attributes -> Int]  BY <1>1, <1>2, <1>4
<1>6. built' \in Seq(Row) /\ Len(built') = k
  BY <1>1, <1>2, <1>3, <1>5 DEF RevInv, Row
<1>7. \A j \in 1 .. Len(built) : built'[j] = built[j]
  BY <1>1, <1>6 DEF RevInv
<1>8. built'[k] = [key |-> k - Earlier(k), begin |-> BeginDay(k), end |-> EndDay(k), value |-> old']
  BY <1>1, <1>2 DEF RevInv
<1>9. \A j \in 1 .. k : BeginDay(j)' = BeginDay(j) /\ EndDay(j)' = EndDay(j)
  BY <1>1 DEF BeginDay, EndDay, Shifted
<1>10. \A j \in 1 .. k :
         built'[j].key = j - Earlier(j) /\ built'[j].begin = BeginDay(j)' /\ built'[j].end = EndDay(j)'
  <2>1. \A j \in 1 .. k : j = k \/ j \in 1 .. Len(built)  BY <1>2 DEF RevInv
  <2>2. QED  BY <1>7, <1>8, <1>9, <2>1 DEF RevInv
<1>11. ValuesStay'
  <2>1. SUFFICES ASSUME NEW j \in 1 .. k, NEW a \in Attributes
                 PROVE  LET v == built'[j].value[a] IN
                        /\ v \in built'[j].key .. j
                        /\ \A i \in v .. j : built'[i].value[a] = v /\ built'[i].key = built'[j].key
    BY <1>6 DEF ValuesStay
  <2>2. CASE j \in 1 .. Len(built)
    <3>1. built'[j] = built[j]  BY <1>7, <2>2
    <3>2. built[j].value[a] \in built[j].key .. j
          /\ \A i \in built[j].value[a] .. j :
               built[i].value[a] = built[j].value[a] /\ built[i].key = built[j].key
      BY <2>2 DEF RevInv, ValuesStay
    <3>3. built[j].key \in 1 .. j
      <4>1. j \in Nat \ {0} /\ built[j].key = j - Earlier(j)  BY <2>2 DEF RevInv
      <4>2. Earlier(j) \in 0 .. j - 1  BY <4>1, EarlierRow
      <4>3. QED  BY <4>1, <4>2
    <3>4. \A i \in built[j].value[a] .. j : i \in 1 .. Len(built)
      <4>1. built[j].value[a] \in Int /\ built[j].value[a] >= 1
        BY <3>2, <3>3
      <4> QED  BY <2>2, <4>1
    <3>5. QED  BY <1>7, <3>1, <3>2, <3>4
  <2>3. CASE j = k /\ ~KeepsOld(k, a \in odd)
    <3>1. built'[k].value[a] = k  BY <1>1, <1>8, <2>3
    <3>2. built'[k].key <= k /\ built'[k].key \in Int  BY <1>3, <1>8
    <3>3. QED  BY <1>2, <2>3, <3>1, <3>2
  <2>4. CASE j = k /\ KeepsOld(k, a \in odd)
    <3>1. Earlier(k) > 0 /\ built'[k].value[a] = old[a]  BY <1>1, <1>8, <2>4 DEF KeepsOld
    <3>2. k - 1 \in 1 .. Len(built) /\ built # <<>>  BY <1>2, <1>3, <3>1 DEF RevInv
    <3>3. old[a] = built[k - 1].value[a]  BY <3>2 DEF RevInv
    <3>4. built[k - 1].key = k - Earlier(k)
      <4>1. Earlier(k - 1) = Earlier(k) - 1  BY <1>2, <3>1, EarlierRow
      <4>2. built[k - 1].key = (k - 1) - Earlier(k - 1)  BY <3>2 DEF RevInv
      <4>3. k \in Nat /\ Earlier(k) \in Nat  BY <1>2, <1>3, <3>2, EarlierRow
      <4>4. QED  BY <4>1, <4>2, <4>3
    <3>5. built[k - 1].value[a] \in built[k - 1].key .. k - 1
          /\ \A i \in built[k - 1].value[a] .. k - 1 :
               built[i].value[a] = built[k - 1].value[a] /\ built[i].key = built[k - 1].key
      BY <3>2 DEF RevInv, ValuesStay
    <3>6. built'[k].key = k - Earlier(k)  BY <1>8
    <3>7. \A i \in built[k - 1].value[a] .. k - 1 : built'[i] = built[i]
      <4>1. \A i \in built[k - 1].value[a] .. k - 1 : i \in 1 .. Len(built)
        BY <1>2, <1>3, <3>2, <3>4, <3>5 DEF RevInv
      <4>2. QED  BY <1>7, <4>1
    <3>8. \A i \in built[k - 1].value[a] .. k : i = k \/ i \in built[k - 1].value[a] .. k - 1
      BY <1>2, <1>3, <3>4, <3>5
    <3>9. QED  BY <1>2, <1>3, <2>4, <3>1, <3>3, <3>4, <3>5, <3>6, <3>7, <3>8
  <2>5. QED  BY <1>2, <2>2, <2>3, <2>4 DEF RevInv
<1>12. old' = built'[Len(built')].value /\ built' # <<>>  BY <1>6, <1>8, <1>2
<1>13. QED  BY <1>1, <1>6, <1>10, <1>11, <1>12 DEF RevInv

LEMMA RevInvNext == RevInv /\ [RevNext]_revVars => RevInv'
<1> SUFFICES ASSUME RevInv, [RevNext]_revVars PROVE RevInv'
  OBVIOUS
<1>1. CASE BuildRow  BY <1>1, RevInvBuild
<1>2. CASE NextDimension
  <2>1. dim' \in Dimensions /\ built' = <<>> /\ old' = [a \in Attributes |-> 0]
    BY <1>2 DEF NextDimension
  <2>2. dim'.rows \in Nat  BY <2>1, RevisionsAssumption DEF Dimensions
  <2>3. QED  BY <2>1, <2>2 DEF RevInv, ValuesStay
<1>3. CASE UNCHANGED revVars
  BY <1>3 DEF revVars, RevInv, ValuesStay, BeginDay, EndDay, Shifted
<1>4. QED  BY <1>1, <1>2, <1>3 DEF RevNext

(* The rows built so far are those the code's arithmetic says, and the     *)
(* value each attribute had in each of them is remembered: for any number  *)
(* of rows, any days and any attributes.                                   *)
THEOREM RevInvariant == RevSpec => []RevInv
<1>1. RevInit => RevInv  BY RevInvInit
<1>2. RevInv /\ [RevNext]_revVars => RevInv'  BY RevInvNext
<1>3. QED  BY <1>1, <1>2, PTL DEF RevSpec

(* No value of a member is ever another's, or one it had before.           *)
THEOREM ValuesAlwaysStay == RevSpec => []ValuesStay
<1>1. RevInv => ValuesStay  BY DEF RevInv
<1>2. QED  BY <1>1, RevInvariant, PTL

(* The rows of a complete dimension.                                       *)
LEMMA CompleteRows ==
  ASSUME RevInv, Complete, NEW id \in 1 .. IdCount(dim.rows), NEW e \in 0 .. 2, e < Span(id),
         FirstSK(id) + e <= dim.rows
  PROVE  /\ FirstSK(id) + e \in 1 .. dim.rows
         /\ built[FirstSK(id) + e].key = FirstSK(id)
         /\ e = 0 => built[FirstSK(id) + e].begin = MinDay - 6 * dim.table
         /\ e = 1 /\ Span(id) = 2 => built[FirstSK(id) + e].begin = H1Day - 6 * dim.table + 1
         /\ e = 1 /\ Span(id) = 3 => built[FirstSK(id) + e].begin = T1Day - 6 * dim.table + 1
         /\ e = 2 => built[FirstSK(id) + e].begin = T2Day - 6 * dim.table + 1
         /\ e = Span(id) - 1 => built[FirstSK(id) + e].end = Open
         /\ e = 0 /\ Span(id) = 2 => built[FirstSK(id) + e].end = H1Day - 6 * dim.table
         /\ e = 0 /\ Span(id) = 3 => built[FirstSK(id) + e].end = T1Day - 6 * dim.table
         /\ e = 1 /\ Span(id) = 3 => built[FirstSK(id) + e].end = T2Day - 6 * dim.table
<1> DEFINE k == FirstSK(id) + e
<1>1. dim.rows \in Nat /\ id \in Nat \ {0}
  <2>1. dim.rows \in Nat  BY DaysType DEF RevInv
  <2>2. IdCount(dim.rows) \in Nat  BY <2>1, IdCountNat
  <2>3. QED  BY <2>1, <2>2
<1>2. FirstSK(id) \in Nat \ {0}  BY <1>1, FirstSKNat
<1>3. k \in 1 .. dim.rows  BY <1>1, <1>2
<1>4. built[k].key = k - Earlier(k) /\ built[k].begin = BeginDay(k) /\ built[k].end = EndDay(k)
  BY <1>3 DEF RevInv, Complete
<1>5. /\ Earlier(k) = e
      /\ e = 0 => BeginDay(k) = Shifted(MinDay)
      /\ e = 1 /\ Span(id) = 2 => BeginDay(k) = Shifted(H1Day) + 1
      /\ e = 1 /\ Span(id) = 3 => BeginDay(k) = Shifted(T1Day) + 1
      /\ e = 2 => BeginDay(k) = Shifted(T2Day) + 1
      /\ e = Span(id) - 1 => EndDay(k) = Open
      /\ e = 0 /\ Span(id) = 2 => EndDay(k) = Shifted(H1Day)
      /\ e = 0 /\ Span(id) = 3 => EndDay(k) = Shifted(T1Day)
      /\ e = 1 /\ Span(id) = 3 => EndDay(k) = Shifted(T2Day)
  BY <1>1, RowsOfMember
<1>6. k - Earlier(k) = FirstSK(id)  BY <1>2, <1>5
<1> HIDE DEF k
<1>7. /\ k \in 1 .. dim.rows
      /\ built[k].key = FirstSK(id)
      /\ e = 0 => built[k].begin = MinDay - 6 * dim.table
      /\ e = 1 /\ Span(id) = 2 => built[k].begin = H1Day - 6 * dim.table + 1
      /\ e = 1 /\ Span(id) = 3 => built[k].begin = T1Day - 6 * dim.table + 1
      /\ e = 2 => built[k].begin = T2Day - 6 * dim.table + 1
      /\ e = Span(id) - 1 => built[k].end = Open
      /\ e = 0 /\ Span(id) = 2 => built[k].end = H1Day - 6 * dim.table
      /\ e = 0 /\ Span(id) = 3 => built[k].end = T1Day - 6 * dim.table
      /\ e = 1 /\ Span(id) = 3 => built[k].end = T2Day - 6 * dim.table
  BY <1>3, <1>4, <1>5, <1>6 DEF Shifted
<1>8. QED  BY <1>7 DEF k

(* A row has the key of an id only if it is one of that id's rows.         *)
LEMMA RowsWithKey ==
  ASSUME RevInv, Complete, NEW id \in 1 .. IdCount(dim.rows), NEW k \in 1 .. dim.rows,
         built[k].key = FirstSK(id)
  PROVE  \E e \in 0 .. 2 : e < Span(id) /\ k = FirstSK(id) + e
<1>1. dim.rows \in Nat  BY DaysType DEF RevInv
<1>2. PICK i \in 1 .. IdCount(dim.rows), e \in 0 .. 2 : e < Span(i) /\ k = FirstSK(i) + e
  BY <1>1, MemberOfRow
<1>3. i \in Nat \ {0} /\ id \in Nat \ {0}  BY <1>1, IdCountNat
<1>4. FirstSK(i) = FirstSK(id)
  <2>1. built[k].key = FirstSK(i)  BY <1>2, CompleteRows
  <2>2. QED  BY <2>1
<1>5. i = id
  <2>1. \A j \in Nat \ {0} : FirstSK(j) < FirstSK(j + 1) /\ FirstSK(j) \in Nat /\ FirstSK(j + 1) \in Nat
    <3>1. SUFFICES ASSUME NEW j \in Nat \ {0}
                   PROVE  FirstSK(j) < FirstSK(j + 1) /\ FirstSK(j) \in Nat /\ FirstSK(j + 1) \in Nat
      OBVIOUS
    <3>2. FirstSK(j + 1) = FirstSK(j) + Span(j)  BY NextFirstSK
    <3>3. Span(j) \in 1 .. 3
      <4>1. j % 3 \in 0 .. 2  OBVIOUS
      <4>2. QED  BY <4>1 DEF Span
    <3>4. QED  BY <3>2, <3>3, FirstSKNat
  <2>2. CASE i < id
    <3>1. FirstSK(i + 1) <= FirstSK(id)  BY <1>3, <2>2, FirstSKIncreases
    <3>2. FirstSK(i) < FirstSK(i + 1) /\ FirstSK(i) \in Nat /\ FirstSK(i + 1) \in Nat
      BY <1>3, <2>1
    <3>3. QED  BY <1>4, <3>1, <3>2
  <2>3. CASE id < i
    <3>1. FirstSK(id + 1) <= FirstSK(i)  BY <1>3, <2>3, FirstSKIncreases
    <3>2. FirstSK(id) < FirstSK(id + 1) /\ FirstSK(id) \in Nat /\ FirstSK(id + 1) \in Nat
      BY <1>3, <2>1
    <3>3. QED  BY <1>4, <3>1, <3>2
  <2>4. QED  BY <1>3, <2>2, <2>3
<1>6. QED  BY <1>2, <1>5

(* An id that is whole has all its rows.                                   *)
LEMMA WholeRows ==
  ASSUME RevInv, NEW id \in 1 .. IdCount(dim.rows), Whole(id)
  PROVE  FirstSK(id) + Span(id) - 1 <= dim.rows
<1>1. dim.rows \in Nat \ {0}  BY DaysType DEF RevInv
<1>2. IdCount(dim.rows) \in Nat  BY <1>1, IdCountNat
<1>3. id \in Nat \ {0} /\ FirstSK(id) \in Nat  BY <1>2, FirstSKNat
<1>4. Span(id) \in 1 .. 3
  <2>1. id % 3 \in 0 .. 2  BY <1>3
  <2>2. QED  BY <2>1 DEF Span
<1>5. CASE id < IdCount(dim.rows)
  <2>1. FirstSK(id + 1) = FirstSK(id) + Span(id)  BY <1>3, NextFirstSK
  <2>2. FirstSK(id + 1) \in 1 .. dim.rows
    <3>1. id + 1 \in 1 .. IdCount(dim.rows)  BY <1>2, <1>3, <1>5
    <3>2. QED  BY <1>1, <3>1, FirstSKExists
  <2>3. QED  BY <1>1, <1>3, <1>4, <2>1, <2>2
<1>6. CASE id = IdCount(dim.rows) /\ dim.rows % 6 \in {0, 1, 3}
  <2>1. \E q \in Nat, r \in 0 .. 5 : dim.rows = 6 * q + r
    <3>1. \A x \in Nat : x \div 6 \in Nat /\ x % 6 \in 0 .. 5 /\ x = 6 * (x \div 6) + (x % 6)
      OBVIOUS
    <3>2. QED  BY <1>1, <3>1
  <2>2. PICK q \in Nat, r \in 0 .. 5 : dim.rows = 6 * q + r  BY <2>1
  <2>3. r \in {0, 1, 3}
    <3>1. dim.rows % 6 = r  BY <2>2
    <3>2. QED  BY <1>6, <3>1
  <2>4. /\ r = 0 => IdCount(dim.rows) = 3 * q
        /\ r = 1 => IdCount(dim.rows) = 3 * q + 1
        /\ r \in {2, 3} => IdCount(dim.rows) = 3 * q + 2
        /\ r \in {4, 5} => IdCount(dim.rows) = 3 * q + 3
    BY <1>1, <2>2, IdCountParts
  <2>5. PICK a \in Nat, b \in 1 .. 3 : id = 3 * a + b  BY <1>3, IdParts
  <2>6. FirstSK(id) = 6 * a + (CASE b = 1 -> 1 [] b = 2 -> 2 [] b = 3 -> 4)
    BY <2>5, FirstSKParts
  <2>7. Span(id) = b  BY <2>5 DEF Span
  <2>8. /\ r = 0 => b = 3 /\ a = q - 1
        /\ r = 1 => b = 1 /\ a = q
        /\ r = 3 => b = 2 /\ a = q
    BY <1>6, <2>4, <2>5
  <2>9. QED  BY <2>2, <2>3, <2>6, <2>7, <2>8
<1>7. QED  BY <1>2, <1>3, <1>5, <1>6 DEF Whole

LEMMA SpanType == ASSUME NEW id \in Nat \ {0} PROVE Span(id) \in 1 .. 3
<1>1. id % 3 \in 0 .. 2  OBVIOUS
<1>2. QED  BY <1>1 DEF Span

(* The revisions of a member cover the days one by one.                    *)
LEMMA OneRowValid ==
  ASSUME RevInv, Complete, NEW id \in 1 .. IdCount(dim.rows), NEW day \in MinDay .. MaxDay,
         Whole(id)
  PROVE  \E k \in 1 .. dim.rows :
           /\ built[k].key = FirstSK(id) /\ ValidOn(k, day)
           /\ \A j \in 1 .. dim.rows : built[j].key = FirstSK(id) /\ ValidOn(j, day) => j = k
<1> DEFINE f == FirstSK(id)
           s == 6 * dim.table
<1>1. /\ s \in Nat /\ s < MinDay
      /\ MinDay \in Nat /\ MaxDay \in Nat /\ H1Day \in Nat /\ T1Day \in Nat /\ T2Day \in Nat
      /\ MinDay <= H1Day /\ MinDay <= T1Day /\ T1Day <= T2Day
  BY DaysType DEF RevInv
<1>2. dim.rows \in Nat /\ id \in Nat \ {0}
  <2>1. dim.rows \in Nat  BY DaysType DEF RevInv
  <2>2. IdCount(dim.rows) \in Nat  BY <2>1, IdCountNat
  <2>3. QED  BY <2>1, <2>2
<1>3. f \in Nat \ {0} /\ Span(id) \in 1 .. 3 /\ f + Span(id) - 1 <= dim.rows
  BY <1>2, FirstSKNat, SpanType, WholeRows
<1>4. \A j \in 1 .. dim.rows : built[j].key = f => j \in f .. f + Span(id) - 1
  <2>1. SUFFICES ASSUME NEW j \in 1 .. dim.rows, built[j].key = f
                 PROVE  j \in f .. f + Span(id) - 1
    OBVIOUS
  <2>2. PICK e \in 0 .. 2 : e < Span(id) /\ j = f + e  BY <2>1, RowsWithKey
  <2>3. QED  BY <1>3, <2>2
<1>5. \A e \in 0 .. 2 : e < Span(id) =>
         /\ f + e \in 1 .. dim.rows
         /\ built[f + e].key = f
         /\ e = 0 => built[f + e].begin = MinDay - s
         /\ e = 1 /\ Span(id) = 2 => built[f + e].begin = H1Day - s + 1
         /\ e = 1 /\ Span(id) = 3 => built[f + e].begin = T1Day - s + 1
         /\ e = 2 => built[f + e].begin = T2Day - s + 1
         /\ e = Span(id) - 1 => built[f + e].end = Open
         /\ e = 0 /\ Span(id) = 2 => built[f + e].end = H1Day - s
         /\ e = 0 /\ Span(id) = 3 => built[f + e].end = T1Day - s
         /\ e = 1 /\ Span(id) = 3 => built[f + e].end = T2Day - s
  <2>1. SUFFICES ASSUME NEW e \in 0 .. 2, e < Span(id)
                 PROVE  /\ f + e \in 1 .. dim.rows
                        /\ built[f + e].key = f
                        /\ e = 0 => built[f + e].begin = MinDay - s
                        /\ e = 1 /\ Span(id) = 2 => built[f + e].begin = H1Day - s + 1
                        /\ e = 1 /\ Span(id) = 3 => built[f + e].begin = T1Day - s + 1
                        /\ e = 2 => built[f + e].begin = T2Day - s + 1
                        /\ e = Span(id) - 1 => built[f + e].end = Open
                        /\ e = 0 /\ Span(id) = 2 => built[f + e].end = H1Day - s
                        /\ e = 0 /\ Span(id) = 3 => built[f + e].end = T1Day - s
                        /\ e = 1 /\ Span(id) = 3 => built[f + e].end = T2Day - s
    OBVIOUS
  <2>2. f + e <= dim.rows  BY <1>2, <1>3, <2>1
  <2>3. QED  BY <2>1, <2>2, CompleteRows
<1>6. f + 0 = f  BY <1>3
<1> HIDE DEF f, s
<1>7. CASE Span(id) = 1
  <2>1. f \in 1 .. dim.rows /\ built[f].key = f /\ built[f].begin = MinDay - s /\ built[f].end = Open
    BY <1>5, <1>6, <1>7
  <2>2. ValidOn(f, day)  BY <1>1, <2>1 DEF ValidOn
  <2>3. \A j \in 1 .. dim.rows : built[j].key = f => j = f  BY <1>3, <1>4, <1>7
  <2>4. QED  BY <2>1, <2>2, <2>3 DEF f
<1>8. CASE Span(id) = 2
  <2>1. /\ f \in 1 .. dim.rows /\ built[f].key = f
        /\ built[f].begin = MinDay - s /\ built[f].end = H1Day - s
    BY <1>5, <1>6, <1>8
  <2>2. /\ f + 1 \in 1 .. dim.rows /\ built[f + 1].key = f
        /\ built[f + 1].begin = H1Day - s + 1 /\ built[f + 1].end = Open
    BY <1>5, <1>8
  <2>3. \A j \in 1 .. dim.rows : built[j].key = f => j = f \/ j = f + 1  BY <1>3, <1>4, <1>8
  <2>4. ValidOn(f, day) <=> day <= H1Day - s  BY <1>1, <2>1 DEF ValidOn, Open
  <2>5. ValidOn(f + 1, day) <=> day > H1Day - s  BY <1>1, <2>2 DEF ValidOn
  <2>6. CASE day <= H1Day - s
    <3>1. ValidOn(f, day) /\ ~ValidOn(f + 1, day)  BY <1>1, <2>4, <2>5, <2>6
    <3>2. QED  BY <2>1, <2>3, <3>1 DEF f
  <2>7. CASE day > H1Day - s
    <3>1. ValidOn(f + 1, day) /\ ~ValidOn(f, day)  BY <1>1, <2>4, <2>5, <2>7
    <3>2. QED  BY <2>2, <2>3, <3>1 DEF f
  <2>8. QED  BY <1>1, <2>6, <2>7
<1>9. CASE Span(id) = 3
  <2>1. /\ f \in 1 .. dim.rows /\ built[f].key = f
        /\ built[f].begin = MinDay - s /\ built[f].end = T1Day - s
    BY <1>5, <1>6, <1>9
  <2>2. /\ f + 1 \in 1 .. dim.rows /\ built[f + 1].key = f
        /\ built[f + 1].begin = T1Day - s + 1 /\ built[f + 1].end = T2Day - s
    BY <1>5, <1>9
  <2>3. /\ f + 2 \in 1 .. dim.rows /\ built[f + 2].key = f
        /\ built[f + 2].begin = T2Day - s + 1 /\ built[f + 2].end = Open
    BY <1>5, <1>9
  <2>4. \A j \in 1 .. dim.rows : built[j].key = f => j = f \/ j = f + 1 \/ j = f + 2
    BY <1>3, <1>4, <1>9
  <2>5. ValidOn(f, day) <=> day <= T1Day - s  BY <1>1, <2>1 DEF ValidOn, Open
  <2>6. ValidOn(f + 1, day) <=> day > T1Day - s /\ day <= T2Day - s
    BY <1>1, <2>2 DEF ValidOn, Open
  <2>7. ValidOn(f + 2, day) <=> day > T2Day - s  BY <1>1, <2>3 DEF ValidOn
  <2>8. CASE day <= T1Day - s
    <3>1. ValidOn(f, day) /\ ~ValidOn(f + 1, day) /\ ~ValidOn(f + 2, day)
      BY <1>1, <2>5, <2>6, <2>7, <2>8
    <3>2. QED  BY <2>1, <2>4, <3>1 DEF f
  <2>9. CASE day > T1Day - s /\ day <= T2Day - s
    <3>1. ValidOn(f + 1, day) /\ ~ValidOn(f, day) /\ ~ValidOn(f + 2, day)
      BY <1>1, <2>5, <2>6, <2>7, <2>9
    <3>2. QED  BY <2>2, <2>4, <3>1 DEF f
  <2>10. CASE day > T2Day - s
    <3>1. ValidOn(f + 2, day) /\ ~ValidOn(f, day) /\ ~ValidOn(f + 1, day)
      BY <1>1, <2>5, <2>6, <2>7, <2>10
    <3>2. QED  BY <2>3, <2>4, <3>1 DEF f
  <2>11. QED  BY <1>1, <2>8, <2>9, <2>10
<1>10. QED  BY <1>3, <1>7, <1>8, <1>9

(* For any number of rows, any days and any table number: on any day a     *)
(* member of the dimension has exactly one valid row.                      *)
THEOREM AlwaysOneRevisionPerDay == RevSpec => []OneRevisionPerDay
<1>1. RevInv => OneRevisionPerDay  BY OneRowValid DEF OneRevisionPerDay
<1>2. QED  BY <1>1, RevInvariant, PTL

(* The revision that other builders compute for a day is a row of that     *)
(* member, valid on the day the shift makes of it, and on the day itself   *)
(* where no revision begins in between.                                    *)
LEMMA MatchValid ==
  ASSUME RevInv, Complete, NEW id \in 1 .. IdCount(dim.rows), NEW day \in MinDay .. MaxDay
  PROVE  LET sk == MatchSK(id, day, dim.rows) IN
         /\ sk \in AnySK(id) /\ sk \in 1 .. dim.rows
         /\ built[sk].key = FirstSK(id)
         /\ Whole(id) =>
              /\ ValidOn(sk, Shifted(day))
              /\ ValidOn(sk, day) <=> Revision(id, day) = Revision(id, day + 6 * dim.table)
<1> DEFINE f == FirstSK(id)
           s == 6 * dim.table
           sk == MatchSK(id, day, dim.rows)
<1>1. /\ s \in Nat /\ s < MinDay
      /\ MinDay \in Nat /\ MaxDay \in Nat /\ H1Day \in Nat /\ T1Day \in Nat /\ T2Day \in Nat
      /\ MinDay <= H1Day /\ MinDay <= T1Day /\ T1Day <= T2Day
  BY DaysType DEF RevInv
<1>2. dim.rows \in Nat /\ id \in Nat \ {0}
  <2>1. dim.rows \in Nat  BY DaysType DEF RevInv
  <2>2. IdCount(dim.rows) \in Nat  BY <2>1, IdCountNat
  <2>3. QED  BY <2>1, <2>2
<1>3. f \in Nat \ {0} /\ Span(id) \in 1 .. 3 /\ FirstSK(id + 1) = f + Span(id)
  BY <1>2, FirstSKNat, SpanType, NextFirstSK
<1>4. sk \in 1 .. dim.rows /\ sk \in AnySK(id) /\ f <= sk /\ sk < f + Span(id)
  BY <1>2, <1>3, MatchIsOwn
<1>5. sk - f \in 0 .. 2 /\ sk - f < Span(id) /\ f + (sk - f) = sk /\ f + (sk - f) <= dim.rows
  BY <1>2, <1>3, <1>4
<1>6. built[sk].key = f
  <2>1. built[f + (sk - f)].key = f  BY <1>5, CompleteRows
  <2>2. QED  BY <1>5, <2>1
<1>7. ASSUME Whole(id)
      PROVE  /\ ValidOn(sk, Shifted(day))
             /\ ValidOn(sk, day) <=> Revision(id, day) = Revision(id, day + s)
  <2>1. f + Span(id) - 1 <= dim.rows  BY <1>7, WholeRows
  <2>2. Revision(id, day) \in 0 .. Span(id) - 1
    <3>1. id % 3 \in 0 .. 2  BY <1>2
    <3>2. QED  BY <3>1 DEF Revision, Span
  <2>3. sk = f + Revision(id, day)  BY <1>2, <1>3, <2>1, <2>2 DEF MatchSK
  <2> DEFINE e == sk - f
  <2>4. e = Revision(id, day)  BY <1>3, <2>2, <2>3
  <2>5. /\ e = 0 => built[f + e].begin = MinDay - s
        /\ e = 1 /\ Span(id) = 2 => built[f + e].begin = H1Day - s + 1
        /\ e = 1 /\ Span(id) = 3 => built[f + e].begin = T1Day - s + 1
        /\ e = 2 => built[f + e].begin = T2Day - s + 1
        /\ e = Span(id) - 1 => built[f + e].end = Open
        /\ e = 0 /\ Span(id) = 2 => built[f + e].end = H1Day - s
        /\ e = 0 /\ Span(id) = 3 => built[f + e].end = T1Day - s
        /\ e = 1 /\ Span(id) = 3 => built[f + e].end = T2Day - s
    BY <1>5, CompleteRows
  <2>6. f + e = sk  BY <1>5
  <2>7. /\ Span(id) = 1 => e = 0
        /\ Span(id) = 2 => e = IF day > H1Day THEN 1 ELSE 0
        /\ Span(id) = 3 => e = IF day > T2Day THEN 2 ELSE IF day > T1Day THEN 1 ELSE 0
    <3>1. id % 3 \in 0 .. 2  BY <1>2
    <3>2. QED  BY <2>4, <3>1 DEF Revision, Span
  <2>8. Shifted(day) = day - s  BY DEF Shifted
  <2> DEFINE later == Revision(id, day + s)
  <2>9. /\ Span(id) = 1 => later = 0
        /\ Span(id) = 2 => later = IF day + s > H1Day THEN 1 ELSE 0
        /\ Span(id) = 3 => later = IF day + s > T2Day THEN 2 ELSE IF day + s > T1Day THEN 1 ELSE 0
    <3>1. id % 3 \in 0 .. 2  BY <1>2
    <3>2. QED  BY <3>1 DEF Revision, Span
  <2> HIDE DEF f, s, sk, e, later
  <2>10. built[sk].begin <= day - s /\ (built[sk].end = Open \/ day - s <= built[sk].end)
    <3>1. CASE Span(id) = 1  BY <1>1, <2>5, <2>6, <2>7, <3>1
    <3>2. CASE Span(id) = 2  BY <1>1, <2>5, <2>6, <2>7, <3>2
    <3>3. CASE Span(id) = 3  BY <1>1, <2>5, <2>6, <2>7, <3>3
    <3>4. QED  BY <1>3, <3>1, <3>2, <3>3
  <2>11. built[sk].begin <= day /\ (built[sk].end = Open \/ day <= built[sk].end) <=> e = later
    <3>1. CASE Span(id) = 1  BY <1>1, <2>5, <2>6, <2>7, <2>9, <3>1
    <3>2. CASE Span(id) = 2  BY <1>1, <2>5, <2>6, <2>7, <2>9, <3>2 DEF Open
    <3>3. CASE Span(id) = 3  BY <1>1, <2>5, <2>6, <2>7, <2>9, <3>3 DEF Open
    <3>4. QED  BY <1>3, <3>1, <3>2, <3>3
  <2>12. QED  BY <2>4, <2>8, <2>10, <2>11 DEF ValidOn, sk, e, later, f
<1>8. QED  BY <1>4, <1>6, <1>7

(* For any number of rows, any days and any table number: what is computed *)
(* without the rows of the dimension is one of them, the revision of as    *)
(* many days before as the table's dates are shifted, and valid on the day *)
(* exactly where no revision begins in between.                            *)
THEOREM MatchAlwaysAgrees == RevSpec => []MatchAgrees
<1>1. RevInv /\ Complete => {built[k].key : k \in 1 .. dim.rows} = {FirstSK(id) : id \in 1 .. IdCount(dim.rows)}
  <2>1. SUFFICES ASSUME RevInv, Complete
                 PROVE  {built[k].key : k \in 1 .. dim.rows} = {FirstSK(id) : id \in 1 .. IdCount(dim.rows)}
    OBVIOUS
  <2>2. dim.rows \in Nat  BY <2>1, DaysType DEF RevInv
  <2>3. \A k \in 1 .. dim.rows : \E id \in 1 .. IdCount(dim.rows) : built[k].key = FirstSK(id)
    <3>1. SUFFICES ASSUME NEW k \in 1 .. dim.rows
                   PROVE  \E id \in 1 .. IdCount(dim.rows) : built[k].key = FirstSK(id)
      OBVIOUS
    <3>2. PICK id \in 1 .. IdCount(dim.rows), e \in 0 .. 2 : e < Span(id) /\ k = FirstSK(id) + e
      BY <2>2, MemberOfRow
    <3>3. built[k].key = FirstSK(id)  BY <2>1, <3>2, CompleteRows
    <3>4. QED  BY <3>3
  <2>4. \A id \in 1 .. IdCount(dim.rows) : FirstSK(id) \in 1 .. dim.rows /\ built[FirstSK(id)].key = FirstSK(id)
    <3>1. SUFFICES ASSUME NEW id \in 1 .. IdCount(dim.rows)
                   PROVE  FirstSK(id) \in 1 .. dim.rows /\ built[FirstSK(id)].key = FirstSK(id)
      OBVIOUS
    <3>2. FirstSK(id) \in 1 .. dim.rows  BY <2>2, FirstSKExists
    <3>3. IdCount(dim.rows) \in Nat  BY <2>2, IdCountNat
    <3>4. Span(id) \in 1 .. 3  BY <3>3, SpanType
    <3>5. FirstSK(id) + 0 = FirstSK(id) /\ 0 < Span(id) /\ FirstSK(id) + 0 <= dim.rows
      BY <2>2, <3>2, <3>4
    <3>6. built[FirstSK(id) + 0].key = FirstSK(id)  BY <2>1, <3>5, CompleteRows
    <3>7. QED  BY <3>2, <3>5, <3>6
  <2>5. QED  BY <2>3, <2>4
<1>2. RevInv => MatchAgrees  BY <1>1, MatchValid DEF MatchAgrees
<1>3. QED  BY <1>2, RevInvariant, PTL

(* There is one revision of every day, and other builders name the one of  *)
(* the shifted day, however many rows.                                     *)
THEOREM RevisionsAlwaysMatch == RevSpec => []RevisionsMatch
<1>1. OneRevisionPerDay /\ MatchAgrees => RevisionsMatch  BY DEF RevisionsMatch
<1>2. QED  BY <1>1, AlwaysOneRevisionPerDay, MatchAlwaysAgrees, PTL

-----------------------------------------------------------------------------
\* FactKeys

ItemCount == IdCount(ItemRows)

LEMMA ItemCountType == ItemRows \in Nat /\ ItemCount \in Nat /\ MaxLines <= ItemCount
                         /\ MinLines \in Nat /\ MaxLines \in Nat
  BY FactsAssumption, IdCountNat DEF ItemCount

(* The place k entries on from a place.                                    *)
On(p, k) == IF p + k > ItemCount THEN p + k - ItemCount ELSE p + k

(* The permutation is one at every time; an order's lines are of the       *)
(* entries from its start on; the inventories are numbered in order.       *)
KeyInv ==
  /\ perm \in [Ids -> Ids]
  /\ \A i, j \in Ids : perm[i] = perm[j] => i = j
  /\ swapped \in 0 .. ItemCount
  /\ lines \in 0 .. MaxLines
  /\ sold \in Seq(1 .. ItemRows) /\ Len(sold) <= lines
  /\ lines > 0 => start \in Ids /\ place = On(start, Len(sold))
  /\ \A i \in 1 .. Len(sold) : sold[i] = MatchSK(perm[On(start, i)], sday, ItemRows)
  /\ swapped < ItemCount => lines = 0
  /\ counted \in Seq(Int \X Int \X Int) /\ (ItemCount = 0 => counted = <<>>)
  /\ \A k \in 1 .. Len(counted) : counted[k] = InventoryKey(k)

LEMMA ElementOf ==
  ASSUME NEW S, NEW s \in Seq(S), NEW i \in 1 .. Len(s)
  PROVE  s[i] \in S
  OBVIOUS

LEMMA OnType ==
  ASSUME NEW p \in Ids, NEW k \in 0 .. ItemCount
  PROVE  k > 0 => On(p, k) \in Ids
  BY ItemCountType DEF On, Ids, ItemCount

LEMMA OnDistinct ==
  ASSUME NEW p \in Ids, NEW i \in 1 .. ItemCount, NEW j \in 1 .. ItemCount, On(p, i) = On(p, j)
  PROVE  i = j
  BY ItemCountType DEF On, Ids, ItemCount

LEMMA OnNext ==
  ASSUME NEW p \in Ids, NEW k \in 0 .. ItemCount - 1
  PROVE  NextPlace(On(p, k)) = On(p, k + 1)
  BY ItemCountType DEF On, Ids, NextPlace, ItemCount

LEMMA KeyInvInit == KeyInit => KeyInv
<1> SUFFICES ASSUME KeyInit PROVE KeyInv
  OBVIOUS
<1>1. perm = [i \in Ids |-> i]  BY DEF KeyInit
<1>2. perm \in [Ids -> Ids] /\ \A i, j \in Ids : perm[i] = perm[j] => i = j  BY <1>1
<1>3. QED  BY <1>2, ItemCountType DEF KeyInit, KeyInv

LEMMA KeyInvSwap == KeyInv /\ Swap => KeyInv'
<1> SUFFICES ASSUME KeyInv, Swap PROVE KeyInv'
  OBVIOUS
<1>1. PICK j \in Ids :
        perm' = [perm EXCEPT ![swapped + 1] = perm[j], ![j] = perm[swapped + 1]]
  BY DEF Swap
<1>2. swapped + 1 \in Ids /\ swapped < ItemCount /\ swapped' = swapped + 1
  BY ItemCountType DEF KeyInv, Swap, Ids, ItemCount
<1>3. perm' \in [Ids -> Ids]  BY <1>1, <1>2 DEF KeyInv
<1>4. \A i \in Ids : perm'[i] = IF i = j THEN perm[swapped + 1]
                                ELSE IF i = swapped + 1 THEN perm[j] ELSE perm[i]
  BY <1>1, <1>2 DEF KeyInv
<1>5. \A i, k \in Ids : perm'[i] = perm'[k] => i = k
  BY <1>1, <1>2, <1>4 DEF KeyInv
<1>6. lines = 0 /\ Len(sold) = 0  BY <1>2, ItemCountType DEF KeyInv
<1>7. UNCHANGED <<fact, place, start, sold, lines, sday, counted>>  BY DEF Swap
<1>8. swapped' \in 0 .. ItemCount  BY <1>2, ItemCountType DEF KeyInv
<1>9. QED  BY <1>3, <1>5, <1>6, <1>7, <1>8 DEF KeyInv, InventoryKey

LEMMA KeyInvStart == KeyInv /\ StartOrder => KeyInv'
<1> SUFFICES ASSUME KeyInv, StartOrder PROVE KeyInv'
  OBVIOUS
<1>1. PICK p \in Ids : place' = p /\ start' = p  BY DEF StartOrder
<1>2. lines' \in 0 .. MaxLines /\ sold' = <<>> /\ swapped = ItemCount
      /\ UNCHANGED <<fact, perm, swapped, counted>>
  BY ItemCountType DEF StartOrder, ItemCount
<1>3. On(p, 0) = p  BY ItemCountType DEF On, Ids, ItemCount
<1>4. QED  BY <1>1, <1>2, <1>3, ItemCountType DEF KeyInv, InventoryKey

LEMMA KeyInvSell == KeyInv /\ SellItem => KeyInv'
<1> SUFFICES ASSUME KeyInv, SellItem PROVE KeyInv'
  OBVIOUS
<1> DEFINE k == Len(sold)
<1>1. k \in 0 .. ItemCount - 1 /\ lines > 0 /\ start \in Ids /\ place = On(start, k) /\ k < lines
  BY ItemCountType DEF KeyInv, SellItem
<1>2. place' = On(start, k + 1)  BY <1>1, OnNext DEF SellItem
<1>3. place' \in Ids  BY <1>1, <1>2, OnType, ItemCountType
<1>4. perm[place'] \in 1 .. IdCount(ItemRows)  BY <1>3 DEF KeyInv, Ids
<1> DEFINE x == MatchSK(perm[place'], sday, ItemRows)
<1>5. x \in 1 .. ItemRows  BY <1>4, ItemCountType, MatchIsOwn
<1>6. sold' = Append(sold, x) /\ UNCHANGED <<fact, perm, swapped, start, lines, sday, counted>>
  BY DEF SellItem
<1> HIDE DEF x
<1>7. sold' \in Seq(1 .. ItemRows) /\ Len(sold') = k + 1 /\ sold'[k + 1] = x
      /\ \A i \in 1 .. k : sold'[i] = sold[i]
  BY <1>5, <1>6 DEF KeyInv
<1>8. \A i \in 1 .. k + 1 : sold'[i] = MatchSK(perm[On(start, i)], sday, ItemRows)
  <2>1. \A i \in 1 .. k + 1 : i = k + 1 \/ i \in 1 .. k  BY <1>1, ItemCountType
  <2>2. sold'[k + 1] = MatchSK(perm[On(start, k + 1)], sday, ItemRows)  BY <1>2, <1>7 DEF x
  <2>3. QED  BY <1>7, <2>1, <2>2 DEF KeyInv
<1>9. k + 1 <= lines  BY <1>1, ItemCountType DEF KeyInv
<1>10. QED
  <2>1. place' = On(start, Len(sold'))  BY <1>2, <1>7
  <2>2. QED  BY <1>1, <1>6, <1>7, <1>8, <1>9, <2>1 DEF KeyInv, On, InventoryKey

LEMMA Division ==
  ASSUME NEW n \in Nat, NEW p \in Nat \ {0}
  PROVE  /\ n % p \in 0 .. p - 1
         /\ n \div p \in Nat
         /\ n = p * (n \div p) + (n % p)
  OBVIOUS

(* A row of inventory: which item, how many times round the items, and     *)
(* from that the warehouse and the week.                                   *)
Item(k) == ((k - 1) % ItemCount) + 1
Round(k) == (k - 1) \div ItemCount
House(k) == (Round(k) % Warehouses) + 1
Week(k) == Round(k) \div Warehouses

LEMMA InventoryParts ==
  ASSUME NEW k \in Nat \ {0}, ItemCount > 0
  PROVE  /\ InventoryKey(k) = <<MinDay + 7 * Week(k), House(k),
                               MatchSK(Item(k), MinDay + 7 * Week(k), ItemRows)>>
         /\ Item(k) \in 1 .. IdCount(ItemRows) /\ Round(k) \in Nat
         /\ House(k) \in Nat /\ Week(k) \in Nat
         /\ k - 1 = ItemCount * Round(k) + (Item(k) - 1)
         /\ Round(k) = Warehouses * Week(k) + (House(k) - 1)
<1>1. k - 1 \in Nat /\ ItemCount \in Nat \ {0} /\ Warehouses \in Nat \ {0}
  BY ItemCountType, FactsAssumption
<1>2. /\ (k - 1) % ItemCount \in 0 .. ItemCount - 1
      /\ (k - 1) \div ItemCount \in Nat
      /\ k - 1 = ItemCount * ((k - 1) \div ItemCount) + ((k - 1) % ItemCount)
  BY <1>1, Division
<1>3. Round(k) \in Nat  BY <1>2 DEF Round
<1>4. /\ Round(k) % Warehouses \in 0 .. Warehouses - 1
      /\ Round(k) \div Warehouses \in Nat
      /\ Round(k) = Warehouses * (Round(k) \div Warehouses) + (Round(k) % Warehouses)
  BY <1>1, <1>3, Division
<1>5. Item(k) \in 1 .. IdCount(ItemRows) /\ Item(k) - 1 = (k - 1) % ItemCount
  <2> DEFINE r == (k - 1) % ItemCount
  <2>1. Item(k) = r + 1 /\ r \in 0 .. ItemCount - 1
    BY <1>2 DEF Item
  <2> HIDE DEF r
  <2>2. Item(k) \in 1 .. ItemCount /\ Item(k) - 1 = r
    BY <1>1, <2>1
  <2> QED
    BY <2>2 DEF r, ItemCount
<1>6. House(k) \in Nat /\ House(k) - 1 = Round(k) % Warehouses /\ Week(k) \in Nat
  BY <1>1, <1>4 DEF House, Week
<1>7. InventoryKey(k) = <<MinDay + 7 * Week(k), House(k),
                          MatchSK(Item(k), MinDay + 7 * Week(k), ItemRows)>>
  BY DEF InventoryKey, Item, Round, House, Week, ItemCount
<1>8. k - 1 = ItemCount * Round(k) + (Item(k) - 1)  BY <1>2, <1>5 DEF Round
<1>9. Round(k) = Warehouses * Week(k) + (House(k) - 1)  BY <1>4, <1>6 DEF Week
<1>10. QED  BY <1>3, <1>5, <1>6, <1>7, <1>8, <1>9

LEMMA InventoryKeyType ==
  ASSUME NEW k \in Nat \ {0}, ItemCount > 0
  PROVE  InventoryKey(k) \in Int \X Int \X Int
<1>1. Item(k) \in 1 .. IdCount(ItemRows) /\ House(k) \in Nat /\ Week(k) \in Nat
  BY InventoryParts
<1>2. MatchSK(Item(k), MinDay + 7 * Week(k), ItemRows) \in 1 .. ItemRows
  BY <1>1, MatchIsOwn, ItemCountType
<1>3. MinDay + 7 * Week(k) \in Int  BY <1>1, RevisionsAssumption
<1>4. MatchSK(Item(k), MinDay + 7 * Week(k), ItemRows) \in Int  BY <1>2, ItemCountType
<1>5. QED  BY <1>1, <1>3, <1>4, InventoryParts

LEMMA KeyInvCount == KeyInv /\ CountStock => KeyInv'
<1> SUFFICES ASSUME KeyInv, CountStock PROVE KeyInv'
  OBVIOUS
<1> DEFINE k == Len(counted) + 1
<1>1. k \in Nat \ {0} /\ Len(counted) < InventoryRows /\ counted \in Seq(Int \X Int \X Int)
      /\ UNCHANGED <<fact, perm, swapped, place, start, sold, lines, sday>>
      /\ counted' = Append(counted, InventoryKey(k))
  BY DEF KeyInv, CountStock
<1>2. ItemCount > 0
  <2>1. CASE ItemCount = 0
    <3>1. Warehouses \in Nat /\ Weeks \in Nat  BY FactsAssumption
    <3>2. ItemCount * Warehouses = 0  BY <2>1, <3>1
    <3>3. (ItemCount * Warehouses) * Weeks = 0  BY <3>1, <3>2
    <3>4. InventoryRows = 0  BY <3>3 DEF InventoryRows, ItemCount
    <3>5. QED  BY <1>1, <3>4
  <2>2. QED  BY <2>1, ItemCountType
<1>3. InventoryKey(k) \in Int \X Int \X Int  BY <1>1, <1>2, InventoryKeyType
<1> DEFINE key == InventoryKey(k)
<1> HIDE DEF key
<1>4. counted' = Append(counted, key) /\ key \in Int \X Int \X Int  BY <1>1, <1>3 DEF key
<1>5. /\ counted' \in Seq(Int \X Int \X Int) /\ Len(counted') = k
      /\ counted'[k] = key /\ \A i \in 1 .. Len(counted) : counted'[i] = counted[i]
  BY <1>1, <1>4
<1>6. \A i \in 1 .. k : counted'[i] = InventoryKey(i)
  <2>1. \A i \in 1 .. k : i = k \/ i \in 1 .. Len(counted)  BY <1>1
  <2>2. QED  BY <1>5, <2>1 DEF KeyInv, key
<1>7. counted' \in Seq(Int \X Int \X Int) /\ (ItemCount = 0 => counted' = <<>>)
  BY <1>2, <1>5
<1>8. \A i \in 1 .. Len(counted') : counted'[i] = InventoryKey(i)  BY <1>5, <1>6
<1>9. UNCHANGED <<perm, swapped, place, start, sold, lines, sday>>  BY <1>1
<1> HIDE DEF k
<1>10. QED  BY <1>7, <1>8, <1>9 DEF KeyInv, On, InventoryKey

LEMMA KeyInvNext == KeyInv /\ [KeyNext]_keyVars => KeyInv'
<1> SUFFICES ASSUME KeyInv, [KeyNext]_keyVars PROVE KeyInv'
  OBVIOUS
<1>1. CASE Swap  BY <1>1, KeyInvSwap
<1>2. CASE StartOrder  BY <1>2, KeyInvStart
<1>3. CASE SellItem  BY <1>3, KeyInvSell
<1>4. CASE CountStock  BY <1>4, KeyInvCount
<1>5. CASE StockCounted  BY <1>5 DEF KeyInv, StockCounted, On, InventoryKey
<1>6. CASE UNCHANGED keyVars  BY <1>6 DEF KeyInv, keyVars, On, InventoryKey
<1>7. QED  BY <1>1, <1>2, <1>3, <1>4, <1>5, <1>6 DEF KeyNext

(* The items sold so far are those of consecutive places in the            *)
(* permutation, and the inventories counted so far are a prefix of all.    *)
THEOREM KeyInvariant == KeySpec => []KeyInv
<1>1. KeyInit => KeyInv  BY KeyInvInit
<1>2. KeyInv /\ [KeyNext]_keyVars => KeyInv'  BY KeyInvNext
<1>3. QED  BY <1>1, <1>2, PTL DEF KeySpec

(* Order and item identify a sale, for every permutation, every start in   *)
(* it, every number of lines and every day.                                *)
THEOREM ItemsAlwaysUnique == KeySpec => []ItemsUnique
<1>1. KeyInv => ItemsUnique
  <2>1. SUFFICES ASSUME KeyInv, NEW i \in 1 .. Len(sold), NEW j \in 1 .. Len(sold), sold[i] = sold[j]
                 PROVE  i = j
    BY DEF ItemsUnique
  <2>2. Len(sold) \in Nat /\ Len(sold) <= ItemCount /\ lines > 0
    BY <2>1, ItemCountType DEF KeyInv
  <2>3. i \in 1 .. ItemCount /\ j \in 1 .. ItemCount /\ start \in Ids
    <3>1. start \in Ids
      BY <2>1, <2>2 DEF KeyInv
    <3> QED
      BY <2>1, <2>2, <3>1, ItemCountType
  <2>4. On(start, i) \in Ids /\ On(start, j) \in Ids  BY <2>3, OnType, ItemCountType
  <2>5. perm[On(start, i)] \in 1 .. IdCount(ItemRows) /\ perm[On(start, j)] \in 1 .. IdCount(ItemRows)
    BY <2>1, <2>4 DEF KeyInv, Ids
  <2>6. MatchSK(perm[On(start, i)], sday, ItemRows) = MatchSK(perm[On(start, j)], sday, ItemRows)
    BY <2>1 DEF KeyInv
  <2>7. perm[On(start, i)] = perm[On(start, j)]  BY <2>5, <2>6, MatchDistinct, ItemCountType
  <2>8. On(start, i) = On(start, j)  BY <2>1, <2>4, <2>7 DEF KeyInv
  <2>9. QED  BY <2>3, <2>8, OnDistinct
<1>2. QED  BY <1>1, KeyInvariant, PTL

(* Whatever is sold is a row of item.                                      *)
THEOREM ItemsAlwaysSold == KeySpec => []ItemsSold
<1>1. KeyInv => ItemsSold
  <2>1. SUFFICES ASSUME KeyInv, NEW i \in 1 .. Len(sold) PROVE sold[i] \in 1 .. ItemRows
    BY DEF ItemsSold
  <2>2. sold \in Seq(1 .. ItemRows)  BY <2>1 DEF KeyInv
  <2>3. QED  BY <2>1, <2>2, ElementOf
<1>2. QED  BY <1>1, KeyInvariant, PTL

(* Week, warehouse and item identify an inventory, for every number of     *)
(* each.                                                                   *)
THEOREM InventoryAlwaysUnique == KeySpec => []InventoryUnique
<1>1. KeyInv => InventoryUnique
  <2>1. SUFFICES ASSUME KeyInv, NEW i \in 1 .. Len(counted), NEW j \in 1 .. Len(counted),
                        counted[i] = counted[j]
                 PROVE  i = j
    BY DEF InventoryUnique
  <2>2. i \in Nat \ {0} /\ j \in Nat \ {0} /\ InventoryKey(i) = InventoryKey(j)
    <3>1. counted \in Seq(Int \X Int \X Int)  BY <2>1 DEF KeyInv
    <3>2. Len(counted) \in Nat  BY <3>1
    <3>3. i \in Nat \ {0} /\ j \in Nat \ {0}  BY <2>1, <3>2
    <3>4. counted[i] = InventoryKey(i) /\ counted[j] = InventoryKey(j)  BY <2>1 DEF KeyInv
    <3>5. QED  BY <2>1, <3>3, <3>4
  <2>3. CASE ItemCount > 0
    <3>1. /\ Item(i) \in 1 .. IdCount(ItemRows) /\ Round(i) \in Nat
          /\ House(i) \in Nat /\ Week(i) \in Nat
          /\ i - 1 = ItemCount * Round(i) + (Item(i) - 1)
          /\ Round(i) = Warehouses * Week(i) + (House(i) - 1)
      BY <2>2, <2>3, InventoryParts
    <3>2. /\ Item(j) \in 1 .. IdCount(ItemRows) /\ Round(j) \in Nat
          /\ House(j) \in Nat /\ Week(j) \in Nat
          /\ j - 1 = ItemCount * Round(j) + (Item(j) - 1)
          /\ Round(j) = Warehouses * Week(j) + (House(j) - 1)
      BY <2>2, <2>3, InventoryParts
    <3>3. <<MinDay + 7 * Week(i), House(i), MatchSK(Item(i), MinDay + 7 * Week(i), ItemRows)>>
            = <<MinDay + 7 * Week(j), House(j), MatchSK(Item(j), MinDay + 7 * Week(j), ItemRows)>>
      BY <2>2, <2>3, InventoryParts
    <3>4. Week(i) = Week(j) /\ House(i) = House(j)
      <4>1. House(i) = House(j) /\ MinDay + 7 * Week(i) = MinDay + 7 * Week(j)
        BY <3>3
      <4>2. MinDay \in Nat
        BY RevisionsAssumption
      <4>3. Week(i) \in Nat /\ Week(j) \in Nat
        BY <3>1, <3>2
      <4> HIDE DEF Week, House
      <4> QED
        BY <4>1, <4>2, <4>3
    <3>5. Round(i) = Round(j)  BY <3>1, <3>2, <3>4
    <3>6. MatchSK(Item(i), MinDay + 7 * Week(i), ItemRows) = MatchSK(Item(j), MinDay + 7 * Week(i), ItemRows)
      BY <3>3, <3>4
    <3>7. Item(i) = Item(j)  BY <3>1, <3>2, <3>6, MatchDistinct, ItemCountType
    <3>8. i - 1 = j - 1  BY <3>1, <3>2, <3>5, <3>7
    <3>9. QED  BY <2>2, <3>8
  <2>4. CASE ItemCount = 0
    <3>1. counted = <<>>  BY <2>1, <2>4 DEF KeyInv
    <3>2. QED  BY <3>1
  <2>5. QED  BY <2>3, <2>4, ItemCountType
<1>2. QED  BY <1>1, KeyInvariant, PTL

(* For any number of items, warehouses, weeks and lines of an order the    *)
(* keys of the fact tables are unique.                                     *)
THEOREM KeysAlwaysUnique == KeySpec => []KeysUnique
<1>1. ItemsUnique /\ InventoryUnique => KeysUnique  BY DEF KeysUnique
<1>2. QED  BY <1>1, ItemsAlwaysUnique, InventoryAlwaysUnique, PTL

-----------------------------------------------------------------------------
\* Pricing

(* A part of an amount, cut off at the cent: no more than the amount if it *)
(* is a part of it, and no less if it is a multiple.                       *)
LEMMA CutOff ==
  ASSUME NEW x \in Nat, NEW p \in Nat
  PROVE  /\ (x * p) \div 100 \in Nat
         /\ 100 * ((x * p) \div 100) <= x * p
         /\ p <= 100 => (x * p) \div 100 <= x
         /\ p >= 100 => (x * p) \div 100 >= x
<1>1. x * p \in Nat
  OBVIOUS
<1>2. (x * p) \div 100 \in Nat /\ 100 * ((x * p) \div 100) <= x * p /\ x * p < 100 * ((x * p) \div 100) + 100
  BY <1>1
<1>3. p <= 100 => x * p <= x * 100
  OBVIOUS
<1>4. p >= 100 => x * p >= x * 100
  OBVIOUS
<1> QED
  BY <1>1, <1>2, <1>3, <1>4

(* As many of a lower price cost no more.                                  *)
LEMMA ScaleUp ==
  ASSUME NEW a \in Nat, NEW b \in Nat, NEW n \in Nat, a <= b
  PROVE  a * n \in Nat /\ b * n \in Nat /\ a * n <= b * n
  OBVIOUS

(* Amounts have two digits behind the point, counts have none.             *)
LEMMA Precisions ==
  \A a, b \in Int : /\ Longer(strtodec(a), strtodec(b)) = 2
                    /\ Longer(strtodec(a), itodec(b)) = 2
                    /\ Longer(itodec(a), strtodec(b)) = 2
  BY SMT DEF Max, Longer, strtodec, itodec, Decimal

(* decimal_t_op() by its operators.                                        *)
LEMMA Operations ==
  ASSUME NEW d1, NEW d2
  PROVE  /\ Added(d1, d2) = Decimal(d1.number + d2.number, Longer(d1, d2))
         /\ Less(d1, d2) = Decimal(d1.number - d2.number, Longer(d1, d2))
         /\ Product(d1, d2) =
              Decimal(DropDigits(d1.number * d2.number, d1.precision + d2.precision - Longer(d1, d2)),
                      Longer(d1, d2))
         /\ Ratio(d1, d2) =
              Decimal(AtPoint(d1, 2 * Longer(d1, d2)) \div AtPoint(d2, Longer(d1, d2)), Longer(d1, d2))
<1>1. /\ Added(d1, d2) = decimal_t_op("+", d1, d2) /\ Less(d1, d2) = decimal_t_op("-", d1, d2)
      /\ Product(d1, d2) = decimal_t_op("*", d1, d2) /\ Ratio(d1, d2) = decimal_t_op("/", d1, d2)
  BY DEF Added, Less, Product, Ratio
<1> QED
  BY <1>1 DEF decimal_t_op

(* Sums and differences of amounts are exact,                              *)
LEMMA SumOfMoney ==
  ASSUME NEW a \in Int, NEW b \in Int
  PROVE  /\ Added(strtodec(a), strtodec(b)) = strtodec(a + b)
         /\ Less(strtodec(a), strtodec(b)) = strtodec(a - b)
<1> DEFINE d1 == strtodec(a)
           d2 == strtodec(b)
<1>1. Longer(d1, d2) = 2
  BY Precisions
<1>2. d1.number = a /\ d2.number = b
  BY DEF strtodec, Decimal
<1> HIDE DEF d1, d2
<1>3. Added(d1, d2) = Decimal(a + b, 2) /\ Less(d1, d2) = Decimal(a - b, 2)
  BY <1>1, <1>2, Operations
<1> QED
  BY <1>3 DEF strtodec, d1, d2

(* products lose the digits behind the longer factor's last:               *)
LEMMA ProductOf ==
  ASSUME NEW d1, NEW d2, Longer(d1, d2) = 2, d1.number \in Nat, d2.number \in Nat,
         d1.precision \in Nat, d2.precision \in Nat
  PROVE  Product(d1, d2) =
           Decimal((d1.number * d2.number) \div 10 ^ (d1.precision + d2.precision - 2), 2)
<1>1. ~(d1.number * d2.number < 0)
  OBVIOUS
<1> QED
  BY <1>1, Operations, Zenon DEF DropDigits

(* those of an amount and hundredths are cut off,                          *)
LEMMA PartOfMoney ==
  ASSUME NEW a \in Nat, NEW b \in Nat
  PROVE  Product(strtodec(a), strtodec(b)) = strtodec((a * b) \div 100)
<1> DEFINE d1 == strtodec(a)
           d2 == strtodec(b)
<1>1. Longer(d1, d2) = 2
  BY Precisions
<1>2. d1.number = a /\ d2.number = b /\ d1.precision = 2 /\ d2.precision = 2
  BY DEF strtodec, Decimal
<1>3. 10 ^ (d1.precision + d2.precision - 2) = 100 /\ 2 \in Nat
  BY <1>2
<1> HIDE DEF d1, d2
<1>4. Product(d1, d2) = Decimal((d1.number * d2.number) \div 10 ^ (d1.precision + d2.precision - 2), 2)
  BY <1>1, <1>2, <1>3, ProductOf, Zenon
<1>5. Product(d1, d2) = Decimal((a * b) \div 100, 2)
  BY <1>2, <1>3, <1>4, Zenon
<1> QED
  BY <1>5 DEF strtodec, d1, d2

(* those of an amount and a count are exact,                               *)
LEMMA TimesMoney ==
  ASSUME NEW a \in Nat, NEW n \in Nat
  PROVE  /\ Product(strtodec(a), itodec(n)) = strtodec(a * n)
         /\ Product(itodec(n), strtodec(a)) = strtodec(n * a)
<1> DEFINE d1 == strtodec(a)
           d2 == itodec(n)
<1>1. Longer(d1, d2) = 2 /\ Longer(d2, d1) = 2
  BY Precisions
<1>2. d1.number = a /\ d2.number = n /\ d1.precision = 2 /\ d2.precision = 0
  BY DEF strtodec, itodec, Decimal
<1>3. /\ 10 ^ (d1.precision + d2.precision - 2) = 1 /\ 10 ^ (d2.precision + d1.precision - 2) = 1
      /\ 2 \in Nat /\ 0 \in Nat
  BY <1>2
<1>4. (a * n) \div 1 = a * n /\ (n * a) \div 1 = n * a
  OBVIOUS
<1> HIDE DEF d1, d2
<1>5. /\ Product(d1, d2) = Decimal((d1.number * d2.number) \div 10 ^ (d1.precision + d2.precision - 2), 2)
      /\ Product(d2, d1) = Decimal((d2.number * d1.number) \div 10 ^ (d2.precision + d1.precision - 2), 2)
  BY <1>1, <1>2, <1>3, ProductOf, Zenon
<1>6. Product(d1, d2) = Decimal(a * n, 2) /\ Product(d2, d1) = Decimal(n * a, 2)
  BY <1>2, <1>3, <1>4, <1>5, Zenon
<1> QED
  BY <1>6 DEF strtodec, d1, d2

(* (where the point of a percentage is moved to)                           *)
LEMMA TenPowers ==
  /\ \A n : n = 0 => 10 ^ n = 1
  /\ \A n : n = 4 => 10 ^ n = 100 * 100
<1>1. \A n : n = 0 => 10 ^ n = 1
  OBVIOUS
<1>2. \A n : n = 4 => 10 ^ n = 100 * 100
  OBVIOUS
<1> QED
  BY <1>1, <1>2, Zenon

(* and a percentage by 100.00 is as many hundredths.                       *)
LEMMA Hundredths ==
  ASSUME NEW pct \in Nat
  PROVE  Percent(pct) = strtodec(pct)
<1> DEFINE d1 == itodec(pct)
           d2 == strtodec(10000)
<1>1. Longer(d1, d2) = 2
  BY Precisions
<1>2. d1.number = pct /\ d2.number = 10000 /\ d1.precision = 0 /\ d2.precision = 2
  BY DEF strtodec, itodec, Decimal
<1> HIDE DEF d1, d2
<1>3. 2 * 2 - d1.precision = 4 /\ 2 - d2.precision = 0
  BY <1>2
<1>4. AtPoint(d1, 2 * 2) = d1.number * (100 * 100) /\ AtPoint(d2, 2) = d2.number * 1
  BY <1>3, TenPowers, Zenon DEF AtPoint
<1>5. Ratio(d1, d2) = Decimal((d1.number * (100 * 100)) \div (d2.number * 1), 2)
  BY <1>1, <1>4, Operations, Zenon
<1>6. (d1.number * (100 * 100)) \div (d2.number * 1) = pct
  BY <1>2
<1> QED
  BY <1>5, <1>6 DEF Percent, strtodec, d1, d2

\* The figures of a line item: what its return is made of, and what holds of it.
SaleFigures(r, quantity, list, price, wholesale, tax) ==
  /\ r.quantity = quantity /\ r.tax_pct = strtodec(tax)
  /\ r.wholesale_cost = strtodec(wholesale) /\ r.list_price = strtodec(list)
  /\ r.sales_price = strtodec(price) /\ r.ext_sales_price = strtodec(price * quantity)

(* Shipping is at most half of the list price, for one or for many.        *)
LEMMA Shipping ==
  ASSUME NEW a \in Nat, NEW b \in 0 .. 50, NEW n \in Nat
  PROVE  /\ (a * b) \div 100 \in Nat
         /\ ((a * b) \div 100) * n \in Nat
         /\ 2 * (((a * b) \div 100) * n) <= a * n
         /\ Product(Product(strtodec(a), strtodec(b)), itodec(n)) =
              strtodec(((a * b) \div 100) * n)
<1> DEFINE each == (a * b) \div 100
<1>1. each \in Nat /\ 100 * each <= a * b
  BY CutOff
<1>2. a * b <= 50 * a
  OBVIOUS
<1>3. 2 * each \in Nat /\ 2 * each <= a
  BY <1>1, <1>2
<1>4. Product(strtodec(a), strtodec(b)) = strtodec(each)
  BY PartOfMoney
<1> HIDE DEF each
<1>5. (2 * each) * n <= a * n
  BY <1>3, ScaleUp
<1>6. 2 * (each * n) = (2 * each) * n /\ each * n \in Nat
  BY <1>1
<1>7. Product(strtodec(each), itodec(n)) = strtodec(each * n)
  BY <1>1, TimesMoney
<1> QED
  BY <1>1, <1>4, <1>5, <1>6, <1>7 DEF each

(* A line item adds up, whatever was drawn.                                *)
LEMMA SaleAmountsAddUp ==
  ASSUME NEW r, NEW quantity \in Nat, NEW wholesale \in Nat, NEW markup \in Nat,
         NEW discount \in 0 .. 100, NEW coupon \in 0 .. 100, NEW shipping \in 0 .. 50,
         NEW tax \in 0 .. 9,
         r = SalesAmounts(quantity, strtodec(wholesale), strtodec(markup), strtodec(discount),
                             strtodec(coupon), strtodec(shipping), strtodec(tax))
  PROVE  /\ SaleAddsUp(r)
         /\ \E list, price \in Nat : SaleFigures(r, quantity, list, price, wholesale, tax)
<1> DEFINE n == itodec(quantity)
           list == (wholesale * (markup + 100)) \div 100
           price == (list * (100 - discount)) \div 100
           ext_list == list * quantity
           ext_sales == price * quantity
           coupon_amt == (ext_sales * coupon) \div 100
           paid == ext_sales - coupon_amt
           each == (list * shipping) \div 100
           ext_ship == each * quantity
           ext_tax == (paid * tax) \div 100
           ext_wholesale == quantity * wholesale
<1>0. /\ markup + 100 \in Nat /\ markup + 100 >= 100 /\ 100 - discount \in Nat
      /\ 100 - discount <= 100 /\ coupon \in Nat /\ coupon <= 100 /\ tax \in Nat /\ 100 \in Int
      /\ discount \in Int /\ Nat \subseteq Int
  OBVIOUS
<1>1. list \in Nat /\ wholesale <= list
  BY <1>0, CutOff
<1>2. Product(strtodec(wholesale), Added(strtodec(markup), strtodec(100))) = strtodec(list)
  <2>1. Added(strtodec(markup), strtodec(100)) = strtodec(markup + 100)
    BY SumOfMoney
  <2>2. Product(strtodec(wholesale), strtodec(markup + 100)) = strtodec(list)
    BY <1>0, PartOfMoney, Zenon
  <2> QED
    BY <2>1, <2>2, Zenon
<1> HIDE DEF list
<1>3. price \in Nat /\ price <= list
  BY <1>0, <1>1, CutOff
<1>4. Product(strtodec(list), Less(strtodec(100), strtodec(discount))) = strtodec(price)
  <2>1. Less(strtodec(100), strtodec(discount)) = strtodec(100 - discount)
    BY SumOfMoney
  <2>2. Product(strtodec(list), strtodec(100 - discount)) = strtodec(price)
    BY <1>0, <1>1, PartOfMoney, Zenon
  <2> QED
    BY <2>1, <2>2, Zenon
<1> HIDE DEF price
<1>5. ext_list \in Nat /\ ext_sales \in Nat /\ ext_sales <= ext_list
  BY <1>1, <1>3, ScaleUp
<1>6. /\ Product(strtodec(list), n) = strtodec(ext_list)
      /\ Product(strtodec(price), n) = strtodec(ext_sales)
  BY <1>1, <1>3, TimesMoney, Zenon
<1> HIDE DEF ext_list, ext_sales
<1>7. coupon_amt \in Nat /\ coupon_amt <= ext_sales
  BY <1>0, <1>5, CutOff
<1>8. Product(strtodec(ext_sales), strtodec(coupon)) = strtodec(coupon_amt)
  BY <1>0, <1>5, PartOfMoney, Zenon
<1> HIDE DEF coupon_amt
<1>9. paid \in Nat /\ ext_list - ext_sales \in Nat
  BY <1>5, <1>7
<1>10. /\ Less(strtodec(ext_sales), strtodec(coupon_amt)) = strtodec(paid)
       /\ Less(strtodec(ext_list), strtodec(ext_sales)) = strtodec(ext_list - ext_sales)
  BY <1>0, <1>5, <1>7, SumOfMoney, Zenon
<1> HIDE DEF paid
<1>11. ext_tax \in Nat /\ 100 * ext_tax <= 9 * paid
  <2>1. ext_tax \in Nat /\ 100 * ext_tax <= paid * tax
    BY <1>0, <1>9, CutOff
  <2>2. paid * tax \in Nat /\ paid * tax <= 9 * paid
    BY <1>9
  <2> HIDE DEF ext_tax
  <2> QED
    BY <1>9, <2>1, <2>2
<1>12. Product(strtodec(paid), strtodec(tax)) = strtodec(ext_tax)
  BY <1>0, <1>9, PartOfMoney, Zenon
<1> HIDE DEF ext_tax
<1>13. /\ ext_ship \in Nat /\ 2 * ext_ship <= ext_list
       /\ Product(Product(strtodec(list), strtodec(shipping)), n) = strtodec(ext_ship)
  <2>1. ext_ship \in Nat /\ 2 * ext_ship <= list * quantity
    BY <1>1, Shipping
  <2>2. Product(Product(strtodec(list), strtodec(shipping)), n) = strtodec(ext_ship)
    <3>1. each \in Nat
      BY <1>1, Shipping
    <3>4. shipping \in Nat
      OBVIOUS
    <3>2. Product(strtodec(list), strtodec(shipping)) = strtodec(each)
      BY <1>1, <3>4, PartOfMoney, Zenon
    <3>3. Product(strtodec(each), n) = strtodec(ext_ship)
      BY <3>1, TimesMoney, Zenon
    <3> QED
      BY <3>2, <3>3, Zenon
  <2> QED
    BY <2>1, <2>2, Zenon DEF ext_list
<1> HIDE DEF ext_ship
<1>14. Product(n, strtodec(wholesale)) = strtodec(ext_wholesale) /\ ext_wholesale \in Nat
  <2>1. Product(n, strtodec(wholesale)) = strtodec(ext_wholesale)
    BY TimesMoney, Zenon
  <2>2. ext_wholesale \in Nat
    OBVIOUS
  <2> QED
    BY <2>1, <2>2
<1> HIDE DEF ext_wholesale, n
<1> DEFINE totals ==
      [net_paid |-> strtodec(paid), ext_ship_cost |-> strtodec(ext_ship),
       ext_tax |-> strtodec(ext_tax), ext_wholesale_cost |-> strtodec(ext_wholesale),
       net_paid_inc_ship |-> strtodec(paid + ext_ship),
       net_paid_inc_tax |-> strtodec(paid + ext_tax),
       net_paid_inc_ship_tax |-> strtodec(paid + ext_ship + ext_tax),
       net_profit |-> strtodec(paid - ext_wholesale)]
<1>15. Totals(strtodec(paid), strtodec(ext_ship), strtodec(ext_tax), strtodec(ext_wholesale)) = totals
  <2>1. paid \in Int /\ ext_ship \in Int /\ paid + ext_ship \in Int /\ ext_tax \in Int /\ ext_wholesale \in Int
    BY <1>9, <1>11, <1>13, <1>14
  <2> QED
      <3>1. /\ Added(strtodec(paid), strtodec(ext_ship)) = strtodec(paid + ext_ship)
          /\ Added(strtodec(paid), strtodec(ext_tax)) = strtodec(paid + ext_tax)
          /\ Added(strtodec(paid + ext_ship), strtodec(ext_tax)) = strtodec(paid + ext_ship + ext_tax)
          /\ Less(strtodec(paid), strtodec(ext_wholesale)) = strtodec(paid - ext_wholesale)
      BY <2>1, SumOfMoney, Zenon
    <3> QED
      BY <3>1, Zenon DEF Totals
<1> HIDE DEF totals
<1>16. r = [quantity |-> quantity, wholesale_cost |-> strtodec(wholesale),
               list_price |-> strtodec(list), sales_price |-> strtodec(price),
               ext_list_price |-> strtodec(ext_list), ext_sales_price |-> strtodec(ext_sales),
               ext_discount_amt |-> strtodec(ext_list - ext_sales),
               coupon_amt |-> strtodec(coupon_amt), tax_pct |-> strtodec(tax), totals |-> totals]
  BY <1>2, <1>4, <1>6, <1>8, <1>10, <1>12, <1>13, <1>14, <1>15, ZenonT(40) DEF SalesAmounts, n
<1>17. SaleFigures(r, quantity, list, price, wholesale, tax)
  BY <1>16 DEF SaleFigures, ext_sales
<1>18. /\ r.sales_price.number = price /\ r.list_price.number = list
       /\ r.wholesale_cost.number = wholesale
       /\ r.ext_list_price.number = ext_list /\ r.ext_sales_price.number = ext_sales
       /\ r.coupon_amt.number = coupon_amt
  BY <1>16 DEF strtodec, Decimal
<1>19. /\ r.totals.net_paid.number = paid
       /\ r.totals.net_paid_inc_ship_tax.number = paid + ext_ship + ext_tax
       /\ r.totals.net_paid_inc_tax.number = paid + ext_tax
       /\ r.totals.ext_tax.number = ext_tax /\ r.totals.ext_ship_cost.number = ext_ship
       /\ r.totals.ext_wholesale_cost.number = ext_wholesale
       /\ r.totals.net_profit.number = paid - ext_wholesale
  BY <1>16 DEF totals, strtodec, Decimal
<1>20. \A a \in Nat : IsMoney(strtodec(a))
  BY DEF IsMoney, strtodec, Decimal
<1>21. /\ IsMoney(r.sales_price) /\ IsMoney(r.ext_discount_amt) /\ IsMoney(r.coupon_amt)
       /\ IsMoney(r.totals.net_paid) /\ IsMoney(r.totals.ext_tax)
       /\ IsMoney(r.totals.ext_ship_cost)
  BY <1>3, <1>7, <1>9, <1>11, <1>13, <1>16, <1>20 DEF totals
<1>22. paid + ext_wholesale - ext_wholesale + coupon_amt = ext_sales
  BY <1>5, <1>7, <1>9, <1>14 DEF paid
<1>23. SaleAddsUp(r)
  BY <1>1, <1>3, <1>5, <1>7, <1>9, <1>11, <1>13, <1>14, <1>18, <1>19, <1>21, <1>22 DEF SaleAddsUp
<1> QED
  BY <1>1, <1>3, <1>17, <1>23

(* So does a return of no more than was sold: its three parts are cut off  *)
(* one after the other from what the others leave.                         *)
LEMMA ReturnsAmountsAddUp ==
  ASSUME NEW r, NEW s, NEW bought \in Nat, NEW list \in Nat, NEW price \in Nat, NEW wholesale \in Nat,
         NEW tax \in 0 .. 9, SaleFigures(s, bought, list, price, wholesale, tax),
         NEW quantity \in Nat, quantity <= bought, NEW shipping \in 0 .. 50,
         NEW cashPct \in 0 .. 100, NEW creditPct \in 0 .. 100, NEW fee \in Nat,
         r = ReturnsAmounts(s, quantity, strtodec(shipping), cashPct, creditPct, strtodec(fee))
  PROVE  RefundAddsUp(r, s)
<1> DEFINE n == itodec(quantity)
           paid == price * quantity
           cash == (cashPct * paid) \div 100
           charge == ((paid - cash) * creditPct) \div 100
           credit == paid - charge - cash
           each == (list * shipping) \div 100
           ext_ship == each * quantity
           ext_tax == (paid * tax) \div 100
           ext_wholesale == quantity * wholesale
           inc_ship_tax == paid + ext_ship + ext_tax
<1>0. /\ shipping \in Nat /\ cashPct \in Nat /\ cashPct <= 100 /\ creditPct \in Nat
      /\ creditPct <= 100 /\ tax \in Nat
  OBVIOUS
<1>1. /\ s.sales_price = strtodec(price) /\ s.list_price = strtodec(list)
      /\ s.tax_pct = strtodec(tax) /\ s.wholesale_cost = strtodec(wholesale)
      /\ s.ext_sales_price = strtodec(price * bought)
  BY DEF SaleFigures
<1>2. Product(strtodec(price), n) = strtodec(paid) /\ Product(strtodec(list), n) = strtodec(list * quantity)
  BY TimesMoney, Zenon
<1>3. paid \in Nat /\ paid = quantity * price /\ price * bought \in Nat /\ paid <= price * bought
  <2>1. quantity * price <= bought * price
    BY ScaleUp
  <2> QED
    BY <2>1
<1> HIDE DEF paid
<1>4. cash \in Nat /\ cash <= paid
  <2>1. (paid * cashPct) \div 100 \in Nat /\ (paid * cashPct) \div 100 <= paid
    BY <1>0, <1>3, CutOff
  <2>2. paid * cashPct = cashPct * paid
    BY <1>0, <1>3
  <2> QED
    BY <2>1, <2>2, Zenon
<1>5. Product(Percent(cashPct), strtodec(paid)) = strtodec(cash)
  <2>1. Percent(cashPct) = strtodec(cashPct)
    BY <1>0, Hundredths, Zenon
  <2>2. Product(strtodec(cashPct), strtodec(paid)) = strtodec(cash)
    BY <1>0, <1>3, PartOfMoney, Zenon
  <2> QED
    BY <2>1, <2>2, Zenon
<1> HIDE DEF cash
<1>6. paid - cash \in Nat /\ paid \in Int /\ cash \in Int
  BY <1>3, <1>4
<1>7. charge \in Nat /\ charge <= paid - cash
  BY <1>0, <1>6, CutOff
<1>8. Product(Less(strtodec(paid), strtodec(cash)), Percent(creditPct))
        = strtodec(charge)
  <2>1. Percent(creditPct) = strtodec(creditPct)
    BY <1>0, Hundredths, Zenon
  <2>2. Less(strtodec(paid), strtodec(cash)) = strtodec(paid - cash)
    BY <1>6, SumOfMoney, Zenon
  <2>3. Product(strtodec(paid - cash), strtodec(creditPct)) = strtodec(charge)
    BY <1>0, <1>6, PartOfMoney, Zenon
  <2> QED
    BY <2>1, <2>2, <2>3, Zenon
<1> HIDE DEF charge
<1>9. credit \in Nat /\ paid - charge \in Int /\ charge \in Int
  BY <1>3, <1>4, <1>7
<1>10. Less(Less(strtodec(paid), strtodec(charge)), strtodec(cash)) = strtodec(credit)
  <2>1. Less(strtodec(paid), strtodec(charge)) = strtodec(paid - charge)
    BY <1>6, <1>9, SumOfMoney, Zenon
  <2>2. Less(strtodec(paid - charge), strtodec(cash)) = strtodec(credit)
    BY <1>6, <1>9, SumOfMoney, Zenon
  <2> QED
    BY <2>1, <2>2, Zenon
<1>11. /\ ext_ship \in Nat
       /\ Product(Product(strtodec(list), strtodec(shipping)), n) = strtodec(ext_ship)
  <2>1. ext_ship \in Nat /\ each \in Nat
    BY Shipping
  <2>2. Product(strtodec(list), strtodec(shipping)) = strtodec(each)
    BY <1>0, PartOfMoney, Zenon
  <2>3. Product(strtodec(each), n) = strtodec(ext_ship)
    <3> HIDE DEF ext_ship, each
    <3> QED
      BY <2>1, TimesMoney, ZenonT(40) DEF ext_ship
  <2> QED
    BY <2>1, <2>2, <2>3, Zenon
<1> HIDE DEF ext_ship
<1>12. ext_tax \in Nat
  BY <1>0, <1>3, CutOff
<1>13. Product(strtodec(paid), strtodec(tax)) = strtodec(ext_tax)
  BY <1>0, <1>3, PartOfMoney, Zenon
<1> HIDE DEF ext_tax
<1>14. Product(n, strtodec(wholesale)) = strtodec(ext_wholesale)
  BY TimesMoney, Zenon
<1>15. ext_wholesale \in Nat
  OBVIOUS
<1> HIDE DEF ext_wholesale, n
<1>16. /\ paid + ext_ship \in Int /\ ext_ship \in Int /\ ext_tax \in Int /\ ext_wholesale \in Int
       /\ inc_ship_tax \in Nat /\ inc_ship_tax \in Int
  BY <1>3, <1>11, <1>12, <1>15
<1> DEFINE totals ==
      [net_paid |-> strtodec(paid), ext_ship_cost |-> strtodec(ext_ship),
       ext_tax |-> strtodec(ext_tax), ext_wholesale_cost |-> strtodec(ext_wholesale),
       net_paid_inc_ship |-> strtodec(paid + ext_ship),
       net_paid_inc_tax |-> strtodec(paid + ext_tax),
       net_paid_inc_ship_tax |-> strtodec(inc_ship_tax),
       net_profit |-> strtodec(paid - ext_wholesale)]
<1>17. Totals(strtodec(paid), strtodec(ext_ship), strtodec(ext_tax), strtodec(ext_wholesale)) = totals
  <2>1. /\ Added(strtodec(paid), strtodec(ext_ship)) = strtodec(paid + ext_ship)
        /\ Added(strtodec(paid), strtodec(ext_tax)) = strtodec(paid + ext_tax)
        /\ Added(strtodec(paid + ext_ship), strtodec(ext_tax)) = strtodec(inc_ship_tax)
        /\ Less(strtodec(paid), strtodec(ext_wholesale)) = strtodec(paid - ext_wholesale)
    BY <1>6, <1>16, SumOfMoney, Zenon
  <2> QED
    BY <2>1, Zenon DEF Totals
<1> HIDE DEF credit
<1>18. /\ totals.net_paid_inc_ship_tax = strtodec(inc_ship_tax)
       /\ totals.net_paid_inc_ship_tax.number = inc_ship_tax
       /\ totals.net_paid_inc_tax.number = paid + ext_tax /\ totals.net_paid.number = paid
       /\ totals.ext_ship_cost.number = ext_ship /\ totals.ext_tax = strtodec(ext_tax)
       /\ totals.ext_tax.number = ext_tax
  BY DEF strtodec, Decimal
<1> HIDE DEF totals
<1> DEFINE loss == inc_ship_tax - credit - cash - charge + fee
<1>19. Added(Less(Less(Less(strtodec(inc_ship_tax), strtodec(credit)), strtodec(cash)),
                  strtodec(charge)), strtodec(fee)) = strtodec(loss)
  <2>1. /\ credit \in Int /\ fee \in Int /\ inc_ship_tax - credit \in Int
        /\ inc_ship_tax - credit - cash \in Int /\ inc_ship_tax - credit - cash - charge \in Int
    BY <1>6, <1>9, <1>16
  <2> HIDE DEF inc_ship_tax
  <2>2. Less(strtodec(inc_ship_tax), strtodec(credit)) = strtodec(inc_ship_tax - credit)
    BY <1>16, <2>1, SumOfMoney, Zenon
  <2>3. Less(strtodec(inc_ship_tax - credit), strtodec(cash)) = strtodec(inc_ship_tax - credit - cash)
    BY <1>6, <2>1, SumOfMoney, Zenon
  <2>4. Less(strtodec(inc_ship_tax - credit - cash), strtodec(charge))
          = strtodec(inc_ship_tax - credit - cash - charge)
    BY <1>9, <2>1, SumOfMoney, Zenon
  <2>5. Added(strtodec(inc_ship_tax - credit - cash - charge), strtodec(fee)) = strtodec(loss)
    BY <2>1, SumOfMoney, Zenon
  <2> QED
    BY <2>2, <2>3, <2>4, <2>5, Zenon
<1>20. loss = ext_ship + ext_tax + fee
  BY <1>3, <1>4, <1>7, <1>11, <1>12 DEF credit
<1> HIDE DEF loss
<1>21. r = [quantity |-> quantity, ext_list_price |-> strtodec(list * quantity), totals |-> totals,
                 refunded_cash |-> strtodec(cash), reversed_charge |-> strtodec(charge),
                 store_credit |-> strtodec(credit), fee |-> strtodec(fee), net_loss |-> strtodec(loss)]
  BY <1>1, <1>2, <1>5, <1>8, <1>10, <1>11, <1>13, <1>14, <1>17, <1>18, <1>19, Zenon DEF ReturnsAmounts, n
<1>22. \A a \in Nat : IsMoney(strtodec(a))
  BY DEF IsMoney, strtodec, Decimal
<1>23. /\ IsMoney(r.refunded_cash) /\ IsMoney(r.reversed_charge)
       /\ IsMoney(r.store_credit) /\ IsMoney(r.totals.ext_tax)
  BY <1>4, <1>7, <1>9, <1>12, <1>18, <1>21, <1>22
<1>24. /\ r.refunded_cash.number = cash /\ r.reversed_charge.number = charge
       /\ r.store_credit.number = credit /\ r.quantity = quantity
       /\ r.net_loss.number = loss /\ r.fee.number = fee /\ r.totals = totals
  BY <1>21 DEF strtodec, Decimal
<1>25. s.sales_price.number = price /\ s.ext_sales_price.number = price * bought
  BY <1>1 DEF strtodec, Decimal
<1>26. cash + charge + credit = paid /\ inc_ship_tax = paid + ext_tax + ext_ship
  BY <1>3, <1>4, <1>7, <1>11, <1>12 DEF credit
<1> HIDE DEF inc_ship_tax
<1> QED
  BY <1>3, <1>18, <1>20, <1>23, <1>24, <1>25, <1>26 DEF RefundAddsUp

(* What is drawn for a return.                                             *)
LEMMA ReturnDrawn ==
  /\ Shippings \subseteq 0 .. 50 /\ Fractions \subseteq 0 .. 100 /\ Fees \subseteq 50 .. 10000
  BY PricingAssumption

(* Whatever was drawn, a sale that was made adds up, and a return of it.   *)
PricingInv ==
  /\ sale # <<>> =>
       /\ SaleAddsUp(sale)
       /\ \E bought, list, price, wholesale \in Nat, tax \in 0 .. 9 :
            SaleFigures(sale, bought, list, price, wholesale, tax)
  /\ refund # <<>> => sale # <<>> /\ RefundAddsUp(refund, sale)

(* Only MakeSale and MakeReturn write them, in this order.                 *)
LEMMA PricingStep == PricingInv /\ [PricingNext]_pricingVars => PricingInv'
<1> SUFFICES ASSUME PricingInv, [PricingNext]_pricingVars PROVE PricingInv'
  OBVIOUS
<1>1. CASE MakeSale
  <2>1. /\ sale = <<>> /\ refund' = refund /\ refund = <<>>
    BY <1>1 DEF MakeSale, PricingInv
  <2>2. PICK quantity \in Quantities, wholesale \in genrand_decimal(Costs),
             markup \in genrand_decimal(Markups), discount \in genrand_decimal(Fractions),
             coupon \in genrand_decimal(Fractions), shipping \in genrand_decimal(Shippings),
             tax \in genrand_decimal(TaxRates) :
          sale' = SalesAmounts(quantity, wholesale, markup, discount, coupon, shipping, tax)
    BY <1>1, Zenon DEF MakeSale
  <2>3. \A values : \A x \in genrand_decimal(values) : \E v \in values : x = strtodec(v)
    BY DEF genrand_decimal
  <2>4a. PICK w \in Costs : wholesale = strtodec(w)
    BY <2>2, <2>3
  <2>4b. PICK m \in Markups : markup = strtodec(m)
    BY <2>2, <2>3
  <2>4c. PICK d \in Fractions, c \in Fractions : discount = strtodec(d) /\ coupon = strtodec(c)
    BY <2>2, <2>3
  <2>4d. PICK s \in Shippings : shipping = strtodec(s)
    BY <2>2, <2>3
  <2>4e. PICK t \in TaxRates : tax = strtodec(t)
    BY <2>2, <2>3
  <2>4. /\ quantity \in Nat /\ w \in Nat /\ m \in Nat /\ d \in 0 .. 100 /\ c \in 0 .. 100
        /\ s \in 0 .. 50 /\ t \in 0 .. 9
    <3>1. quantity \in 1 .. 100 /\ w \in 100 .. 10000 /\ m \in 0 .. 200
      BY PricingAssumption
    <3>2. d \in 0 .. 100 /\ c \in 0 .. 100 /\ s \in 0 .. 50 /\ t \in 0 .. 9
      BY PricingAssumption
    <3> QED
      BY <3>1, <3>2
  <2>5. sale' = SalesAmounts(quantity, strtodec(w), strtodec(m), strtodec(d), strtodec(c), strtodec(s),
                             strtodec(t))
    BY <2>2, <2>4a, <2>4b, <2>4c, <2>4d, <2>4e, Zenon
  <2>6. /\ SaleAddsUp(sale')
        /\ \E list, price \in Nat : SaleFigures(sale', quantity, list, price, w, t)
    BY <2>4, <2>5, SaleAmountsAddUp, Zenon
  <2> QED
    BY <2>1, <2>4, <2>6, Zenon DEF PricingInv
<1>2. CASE MakeReturn
  <2>1. sale # <<>> /\ sale' = sale
    BY <1>2 DEF MakeReturn
  <2>2. PICK bought \in Nat, list \in Nat, price \in Nat, wholesale \in Nat, tax \in 0 .. 9 :
          SaleFigures(sale, bought, list, price, wholesale, tax)
    BY <2>1, Zenon DEF PricingInv
  <2>3. sale.quantity = bought
    BY <2>2 DEF SaleFigures
  <2>4. PICK quantity \in Quantities \intersect 1 .. sale.quantity, shipping \in genrand_decimal(Shippings),
             cashPct \in Fractions, creditPct \in Fractions, fee \in genrand_decimal(Fees) :
          refund' = ReturnsAmounts(sale, quantity, shipping, cashPct, creditPct, fee)
    BY <1>2, Zenon DEF MakeReturn
  <2>5. PICK s \in Shippings, f \in Fees : shipping = strtodec(s) /\ fee = strtodec(f)
    BY <2>4, Zenon DEF genrand_decimal
  <2>6. /\ quantity \in Nat /\ quantity <= bought /\ s \in 0 .. 50 /\ cashPct \in 0 .. 100
        /\ creditPct \in 0 .. 100 /\ f \in Nat
    <3>1. quantity \in 1 .. bought
      BY <2>3
    <3>2. s \in 0 .. 50 /\ cashPct \in 0 .. 100 /\ creditPct \in 0 .. 100 /\ f \in 50 .. 10000
      BY ReturnDrawn
    <3> QED
      BY <3>1, <3>2
  <2>7. refund' = ReturnsAmounts(sale, quantity, strtodec(s), cashPct, creditPct, strtodec(f))
    BY <2>4, <2>5, Zenon
  <2>8. RefundAddsUp(refund', sale)
    BY <2>2, <2>6, <2>7, ReturnsAmountsAddUp, Zenon
  <2> QED
    BY <2>1, <2>8, Zenon DEF PricingInv
<1>3. CASE UNCHANGED pricingVars
  BY <1>3 DEF pricingVars, PricingInv
<1> QED
  BY <1>1, <1>2, <1>3 DEF PricingNext

(* The amounts of every sale and return add up, for all that may be drawn. *)
THEOREM AmountsAlwaysAddUp == PricingSpec => []AmountsAddUp
<1>1. PricingInit => PricingInv
  BY DEF PricingInit, PricingInv
<1>2. PricingInv => AmountsAddUp
  BY DEF PricingInv, AmountsAddUp
<1> QED
  BY <1>1, <1>2, PricingStep, PTL DEF PricingSpec

-----------------------------------------------------------------------------
\* UpdateSet

RefreshRows == [date : Dates, id : Int] \union [date : Dates, warehouse : Int, item : Int]

RowBefore(day) == IF day = 1 THEN 0 ELSE kDayRowcount[day - 1]

Refreshed(row) == IF source = "inventory" THEN mk_s_inventory(row) ELSE mk_s_order(row)

(* The rows of a date follow those of the dates before it, and the rows    *)
(* built are the first ones.                                               *)
UpdateInv ==
  /\ source \in {"orders", "inventory"} /\ dayWeights \in [Dates -> 0 .. YearWeight]
  /\ kDayRowcount = <<>> => refreshed = <<>>
  /\ kDayRowcount # <<>> =>
       /\ kDayRowcount \in [Dates -> Nat]
       /\ \A day \in Dates : kDayRowcount[day] = RowBefore(day) + dateScaling(day)
  /\ refreshed \in Seq(RefreshRows)
  /\ \A r \in 1 .. Len(refreshed) : refreshed[r] = Refreshed(r)

(* Rounding to the nearest.                                                *)
LEMMA Rounding ==
  ASSUME NEW a \in Nat, NEW b \in Nat \ {0}
  PROVE  LET n == (a + b \div 2) \div b
         IN  n \in Nat /\ -b < 2 * (n * b - a) /\ 2 * (n * b - a) <= b
<1> DEFINE h == b \div 2
           c == a + h
           n == c \div b
<1>1. h \in Nat /\ 2 * h <= b /\ b < 2 * h + 2
  OBVIOUS
<1>2. c \in Nat
  BY <1>1
<1>3. n \in Nat /\ c % b \in 0 .. b - 1 /\ c = b * n + (c % b)
  BY <1>2, Division
<1> DEFINE r == c % b
           m == b * n
<1>4. m \in Int /\ m = n * b
  BY <1>3
<1>5. c = a + h
  OBVIOUS
<1> HIDE DEF n, c, h, m, r
<1>6. -b < 2 * (m - a) /\ 2 * (m - a) <= b
  BY <1>1, <1>3, <1>4, <1>5 DEF m, r
<1> QED
  BY <1>3, <1>4, <1>6 DEF n, c, h

(* A part of a number, to the nearest, is no more than the number.         *)
LEMMA ScalingType ==
  ASSUME UpdateInv, NEW day \in Dates
  PROVE  /\ dateScaling(day) \in Nat
         /\ source = "inventory" => dateScaling(day) = Warehouses * ItemCount
         /\ source = "orders" => dateScaling(day) \in Share(day)
<1>1. CASE source = "inventory"
  BY <1>1, ItemCountType, FactsAssumption DEF dateScaling, ItemCount
<1>2. CASE source = "orders"
  <2> DEFINE a == SalesRows * dayWeights[day]
             b == 5 * YearWeight
             n == (a + b \div 2) \div b
  <2>1. SalesRows \in Nat /\ YearWeight \in Nat \ {0} /\ dayWeights[day] \in 0 .. YearWeight
    BY UpdateSetAssumption DEF UpdateInv
  <2>2. a \in Nat /\ b \in Nat \ {0}
    BY <2>1
  <2>3. n \in Nat /\ -b < 2 * (n * b - a) /\ 2 * (n * b - a) <= b
    <3> HIDE DEF a, b
    <3> QED  BY <2>2, Rounding
  <2>4. a <= SalesRows * YearWeight
    BY <2>1
  <2>5. n <= SalesRows
    <3>1. SUFFICES ASSUME n >= SalesRows + 1 PROVE FALSE
      BY <2>1, <2>3
    <3>2. n * b >= (SalesRows + 1) * b
      <4> HIDE DEF n, b
      <4> QED  BY <2>1, <2>2, <2>3, <3>1
    <3>3. (SalesRows + 1) * b = 5 * (SalesRows * YearWeight) + b
      BY <2>1
    <3> DEFINE y == SalesRows * YearWeight
               m == n * b
               k == (SalesRows + 1) * b
    <3>4. y \in Nat /\ m \in Int /\ k \in Int /\ m >= k /\ k = 5 * y + b /\ a <= y
      BY <2>1, <2>2, <2>3, <2>4, <3>2, <3>3
    <3>5. 2 * (m - a) <= b
      BY <2>3
    <3> HIDE DEF n, b, a, y, m, k
    <3> QED  BY <2>2, <3>4, <3>5
  <2>6. n * b = 5 * n * YearWeight
    <3> HIDE DEF n
    <3> QED  BY <2>1, <2>3
  <2>7. dateScaling(day) = n
    BY <1>2 DEF dateScaling
  <2>8. n \in Share(day)
    <3> HIDE DEF n
    <3>1. -5 * YearWeight < 2 * (5 * n * YearWeight - SalesRows * dayWeights[day])
          /\ 2 * (5 * n * YearWeight - SalesRows * dayWeights[day]) <= 5 * YearWeight
      BY <2>1, <2>3, <2>6
    <3>2. n \in 0 .. SalesRows
      BY <2>1, <2>3, <2>5
    <3> QED  BY <3>1, <3>2 DEF Share
  <2> QED  BY <1>2, <2>3, <2>7, <2>8
<1> QED
  BY <1>1, <1>2 DEF UpdateInv

(* Each date begins where the one before it ends.                          *)
LEMMA Dates6 ==
  ASSUME NEW day \in Dates
  PROVE  day \in {1, 2, 3, 4, 5, 6}
  BY DEF Dates

LEMMA RowcountsSum ==
  ASSUME UpdateInv, kDayRowcount # <<>>
  PROVE  /\ \A day \in Dates : kDayRowcount[day] \in Nat /\ RowBefore(day) \in Nat
                               /\ RowBefore(day) <= kDayRowcount[day] /\ kDayRowcount[day] <= kDayRowcount[6]
                               /\ kDayRowcount[day] - RowBefore(day) = dateScaling(day)
         /\ \A day, d \in Dates : d < day => kDayRowcount[d] <= RowBefore(day)
<1>1. /\ kDayRowcount \in [Dates -> Nat]
      /\ \A day \in Dates : kDayRowcount[day] = RowBefore(day) + dateScaling(day)
  BY DEF UpdateInv
<1> DEFINE K(n) == kDayRowcount[n]
<1>2. K(1) \in Nat /\ K(2) \in Nat /\ K(3) \in Nat /\ K(4) \in Nat /\ K(5) \in Nat /\ K(6) \in Nat
  BY <1>1 DEF Dates
<1>3. /\ RowBefore(1) = 0 /\ RowBefore(2) = K(1) /\ RowBefore(3) = K(2)
      /\ RowBefore(4) = K(3) /\ RowBefore(5) = K(4) /\ RowBefore(6) = K(5)
  BY DEF RowBefore
<1>4. \A day \in Dates : RowBefore(day) \in Nat /\ K(day) \in Nat /\ dateScaling(day) \in Nat
                           /\ K(day) - RowBefore(day) = dateScaling(day) /\ RowBefore(day) <= K(day)
  <2> TAKE day \in Dates
  <2>1. dateScaling(day) \in Nat
    BY ScalingType
  <2>2. RowBefore(day) \in Nat
    BY <1>2, <1>3, Dates6
  <2>3. K(day) = RowBefore(day) + dateScaling(day)
    BY <1>1
  <2> HIDE DEF K
  <2> QED  BY <2>1, <2>2, <2>3
<1>5. K(1) <= K(2) /\ K(2) <= K(3) /\ K(3) <= K(4) /\ K(4) <= K(5) /\ K(5) <= K(6)
  <2> HIDE DEF K
  <2> QED  BY <1>3, <1>4 DEF Dates
<1>6. \A day \in Dates : K(day) <= K(6)
  <2> HIDE DEF K
  <2> QED  BY <1>2, <1>5, Dates6
<1>7. \A day, d \in Dates : d < day => K(d) <= RowBefore(day)
  <2> TAKE day, d \in Dates
  <2> HIDE DEF K
  <2> QED  BY <1>2, <1>3, <1>5, Dates6
<1> QED
  BY <1>4, <1>6, <1>7

(* getUpdateDate() finds the only date that has the row.                   *)
LEMMA DateOfRow ==
  ASSUME UpdateInv, kDayRowcount # <<>>, NEW row \in 1 .. kDayRowcount[6]
  PROVE  /\ getUpdateDate(row) \in Dates
         /\ \A day \in Dates : getUpdateDate(row) = day <=> row \in RowBefore(day) + 1 .. kDayRowcount[day]
<1> DEFINE K(n) == kDayRowcount[n]
           First(day) == (row <= K(day) \/ day = 6) /\ \A d \in 1 .. day - 1 : row > K(d)
<1>1. /\ \A day \in Dates : K(day) \in Nat /\ RowBefore(day) \in Nat
                            /\ RowBefore(day) <= K(day) /\ K(day) <= K(6)
      /\ \A day, d \in Dates : d < day => K(d) <= RowBefore(day)
  BY RowcountsSum
<1>2. row \in Nat /\ row >= 1 /\ row <= K(6)
  <2>1. 6 \in Dates
    BY DEF Dates
  <2>2. K(6) \in Nat
    BY <1>1, <2>1
  <2> QED  BY <2>2
<1>3. \A day \in Dates : First(day) <=> row <= K(day) /\ row > RowBefore(day)
  <2> TAKE day \in Dates
  <2>1. day = 1 => RowBefore(day) = 0 /\ 1 .. day - 1 = {}
    BY DEF RowBefore
  <2>2. day # 1 => RowBefore(day) = K(day - 1) /\ day - 1 \in 1 .. day - 1
    BY DEF RowBefore, Dates
  <2>3. \A d \in 1 .. day - 1 : d \in Dates /\ d < day
    BY DEF Dates
  <2>4. \A d \in 1 .. day - 1 : K(d) <= RowBefore(day) /\ K(d) \in Nat
    BY <1>1, <2>3
  <2>5. (\A d \in 1 .. day - 1 : row > K(d)) <=> row > RowBefore(day)
    <3> HIDE DEF K
    <3> QED  BY <1>1, <1>2, <2>1, <2>2, <2>4
  <2>6. day = 6 => row <= K(day)
    BY <1>2
  <2> HIDE DEF K
  <2> QED  BY <2>5, <2>6
<1>4. \E day \in Dates : First(day)
  <2>1. /\ RowBefore(1) = 0 /\ RowBefore(2) = K(1) /\ RowBefore(3) = K(2)
        /\ RowBefore(4) = K(3) /\ RowBefore(5) = K(4) /\ RowBefore(6) = K(5)
    BY DEF RowBefore
  <2>2. /\ 1 \in Dates /\ 2 \in Dates /\ 3 \in Dates /\ 4 \in Dates /\ 5 \in Dates /\ 6 \in Dates
    BY DEF Dates
  <2>3. \E day \in Dates : row <= K(day) /\ row > RowBefore(day)
    <3> HIDE DEF K
    <3>1. K(1) \in Nat /\ K(2) \in Nat /\ K(3) \in Nat /\ K(4) \in Nat /\ K(5) \in Nat
      BY <1>1, <2>2
    <3>2. CASE row <= K(1)  BY <1>2, <2>1, <2>2, <3>2
    <3>3. CASE row > K(1) /\ row <= K(2)  BY <1>2, <2>1, <2>2, <3>3
    <3>4. CASE row > K(2) /\ row <= K(3)  BY <1>2, <2>1, <2>2, <3>4
    <3>5. CASE row > K(3) /\ row <= K(4)  BY <1>2, <2>1, <2>2, <3>5
    <3>6. CASE row > K(4) /\ row <= K(5)  BY <1>2, <2>1, <2>2, <3>6
    <3>7. CASE row > K(5)  BY <1>2, <2>1, <2>2, <3>7
    <3> QED  BY <1>2, <3>1, <3>2, <3>3, <3>4, <3>5, <3>6, <3>7
  <2> QED  BY <1>3, <2>3
<1>5. getUpdateDate(row) = CHOOSE day \in Dates : First(day)
  BY DEF getUpdateDate
<1>6. getUpdateDate(row) \in Dates /\ First(getUpdateDate(row))
  <2> HIDE DEF First
  <2> QED  BY <1>4, <1>5
<1>7. \A day, d \in Dates : First(day) /\ First(d) => day = d
  <2> TAKE day, d \in Dates
  <2>1. d < day => K(d) <= RowBefore(day)
    BY <1>1
  <2>2. day < d => K(day) <= RowBefore(d)
    BY <1>1
  <2>3. K(d) \in Nat /\ K(day) \in Nat /\ RowBefore(d) \in Nat /\ RowBefore(day) \in Nat
    BY <1>1
  <2>4. d \in Nat /\ day \in Nat
    BY DEF Dates
  <2> HIDE DEF First, K
  <2> QED  BY <1>2, <1>3, <2>1, <2>2, <2>3, <2>4
<1>8. \A day \in Dates : (row \in RowBefore(day) + 1 .. K(day)) <=> (row <= K(day) /\ row > RowBefore(day))
  <2> HIDE DEF K
  <2> QED  BY <1>1, <1>2
<1> QED
  <2> HIDE DEF First
  <2> QED  BY <1>3, <1>6, <1>7, <1>8

LEMMA SixParts ==
  ASSUME NEW s \in Nat, NEW a \in Nat, NEW b \in Nat, NEW c \in Nat, NEW d \in Nat, NEW e \in Nat, NEW f \in Nat,
         a - 0 = s, b - a = s, c - b = s, d - c = s, e - d = s, f - e = s
  PROVE  a = s /\ b = 2 * s /\ c = 3 * s /\ d = 4 * s /\ e = 5 * s /\ f = 6 * s
  OBVIOUS

(* Every date of an inventory begins with the same item and warehouse.     *)
LEMMA StockDates ==
  ASSUME UpdateInv, kDayRowcount # <<>>, source = "inventory", NEW day \in Dates
  PROVE  /\ kDayRowcount[day] = day * (Warehouses * ItemCount)
         /\ RowBefore(day) = (day - 1) * (Warehouses * ItemCount)
<1> DEFINE K(n) == kDayRowcount[n]
           size == Warehouses * ItemCount
<1>1. size \in Nat
  BY ItemCountType, FactsAssumption
<1>2. \A d \in Dates : K(d) - RowBefore(d) = size /\ K(d) \in Nat /\ RowBefore(d) \in Nat
  <2> HIDE DEF size
  <2>1. \A d \in Dates : dateScaling(d) = size
    BY ScalingType DEF size
  <2> QED  BY <2>1, RowcountsSum
<1>3. /\ RowBefore(1) = 0 /\ RowBefore(2) = K(1) /\ RowBefore(3) = K(2)
      /\ RowBefore(4) = K(3) /\ RowBefore(5) = K(4) /\ RowBefore(6) = K(5)
  BY DEF RowBefore
<1> HIDE DEF K, size
<1>4. /\ 1 \in Dates /\ 2 \in Dates /\ 3 \in Dates /\ 4 \in Dates /\ 5 \in Dates /\ 6 \in Dates
  BY DEF Dates
<1>5. /\ K(1) \in Nat /\ K(2) \in Nat /\ K(3) \in Nat /\ K(4) \in Nat /\ K(5) \in Nat /\ K(6) \in Nat
      /\ K(1) - RowBefore(1) = size /\ K(2) - RowBefore(2) = size /\ K(3) - RowBefore(3) = size
      /\ K(4) - RowBefore(4) = size /\ K(5) - RowBefore(5) = size /\ K(6) - RowBefore(6) = size
  BY <1>2, <1>4, Zenon
<1>6. /\ K(1) - 0 = size /\ K(2) - K(1) = size /\ K(3) - K(2) = size
      /\ K(4) - K(3) = size /\ K(5) - K(4) = size /\ K(6) - K(5) = size
  BY <1>3, <1>5, Zenon
<1>7. /\ K(1) = size /\ K(2) = 2 * size /\ K(3) = 3 * size
      /\ K(4) = 4 * size /\ K(5) = 5 * size /\ K(6) = 6 * size
  <2> DEFINE a == K(1)
             b == K(2)
             c == K(3)
             d == K(4)
             e == K(5)
             f == K(6)
  <2>1. /\ a \in Nat /\ b \in Nat /\ c \in Nat /\ d \in Nat /\ e \in Nat /\ f \in Nat
        /\ a - 0 = size /\ b - a = size /\ c - b = size /\ d - c = size /\ e - d = size /\ f - e = size
    BY <1>5, <1>6
  <2> HIDE DEF a, b, c, d, e, f
  <2>2. a = size /\ b = 2 * size /\ c = 3 * size /\ d = 4 * size /\ e = 5 * size /\ f = 6 * size
    BY <1>1, <2>1, SixParts
  <2> QED  BY <2>2 DEF a, b, c, d, e, f
<1>8. K(day) = day * size /\ RowBefore(day) = (day - 1) * size
  <2>1. CASE day = 1  BY <1>1, <1>3, <1>7, <2>1
  <2>2. CASE day = 2  BY <1>1, <1>3, <1>7, <2>2
  <2>3. CASE day = 3  BY <1>1, <1>3, <1>7, <2>3
  <2>4. CASE day = 4  BY <1>1, <1>3, <1>7, <2>4
  <2>5. CASE day = 5  BY <1>1, <1>3, <1>7, <2>5
  <2>6. CASE day = 6  BY <1>1, <1>3, <1>7, <2>6
  <2> QED  BY <2>1, <2>2, <2>3, <2>4, <2>5, <2>6, Dates6
<1> QED
  BY <1>8 DEF K, size

(* The rows of all dates are those of the table.                           *)
LEMMA RowcountOfSet ==
  ASSUME UpdateInv, kDayRowcount # <<>>
  PROVE  kDayRowcount[6] = get_rowcount
<1>1. CASE source = "inventory"
  <2>1. kDayRowcount[6] = 6 * (Warehouses * ItemCount)
    BY <1>1, StockDates DEF Dates
  <2>2. ItemCount * Warehouses * 6 = 6 * (Warehouses * ItemCount)
    BY ItemCountType, FactsAssumption
  <2> QED  BY <1>1, <2>1, <2>2 DEF get_rowcount, ItemCount
<1>2. CASE source = "orders"
  BY <1>2 DEF get_rowcount
<1> QED
  BY <1>1, <1>2 DEF UpdateInv

(* The recursive sum of setUpdateScaling().                                *)
LEMMA UpToDates ==
  ASSUME \A day \in Dates : dateScaling(day) \in Nat,
         NEW f, f = CHOOSE g : g = [day \in 0 .. 6 |-> IF day = 0 THEN 0 ELSE g[day - 1] + dateScaling(day)]
  PROVE  /\ f[0] = 0
         /\ \A day \in Dates : f[day] \in Nat /\ f[day] = f[day - 1] + dateScaling(day)
<1> DEFINE s(n) == dateScaling(n)
           Sum(g) == [day \in 0 .. 6 |-> IF day = 0 THEN 0 ELSE g[day - 1] + s(day)]
<1>1. \E g : g = Sum(g)
  <2> DEFINE h == [day \in 0 .. 6 |-> CASE day = 0 -> 0 [] day = 1 -> s(1) [] day = 2 -> s(1) + s(2)
                    [] day = 3 -> s(1) + s(2) + s(3) [] day = 4 -> s(1) + s(2) + s(3) + s(4)
                    [] day = 5 -> s(1) + s(2) + s(3) + s(4) + s(5)
                    [] day = 6 -> s(1) + s(2) + s(3) + s(4) + s(5) + s(6)]
  <2>1. /\ 1 \in Dates /\ 2 \in Dates /\ 3 \in Dates /\ 4 \in Dates /\ 5 \in Dates /\ 6 \in Dates
    BY DEF Dates
  <2>2. /\ s(1) \in Nat /\ s(2) \in Nat /\ s(3) \in Nat /\ s(4) \in Nat /\ s(5) \in Nat /\ s(6) \in Nat
    BY <2>1
  <2>3. \A day \in 0 .. 6 : day \in {0, 1, 2, 3, 4, 5, 6}
    OBVIOUS
  <2>4. \A day \in 0 .. 6 : h[day] = IF day = 0 THEN 0 ELSE h[day - 1] + s(day)
    <3> HIDE DEF s
    <3> QED  BY <2>2, <2>3
  <2>5. h = Sum(h)
    <3>1. h = [day \in 0 .. 6 |-> h[day]]
      OBVIOUS
    <3> HIDE DEF h, s
    <3> QED  BY <2>4, <3>1
  <2> HIDE DEF h, Sum
  <2> QED  BY <2>5
<1>2. f = Sum(f)
  <2> HIDE DEF s
  <2>1. f = CHOOSE g : g = Sum(g)
    BY DEF s
  <2> HIDE DEF Sum
  <2> QED  BY <1>1, <2>1
<1>3. f[0] = 0 /\ \A day \in 1 .. 6 : f[day] = f[day - 1] + s(day)
  <2> HIDE DEF s
  <2>1. f = [day \in 0 .. 6 |-> IF day = 0 THEN 0 ELSE f[day - 1] + s(day)]
    BY <1>2
  <2>2. \A day \in 0 .. 6 : f[day] = IF day = 0 THEN 0 ELSE f[day - 1] + s(day)
    BY <2>1, Zenon
  <2>3. \A day \in 1 .. 6 : day \in 0 .. 6 /\ day # 0
    OBVIOUS
  <2>4. 0 \in 0 .. 6
    OBVIOUS
  <2> QED  BY <2>2, <2>3, <2>4, Zenon
<1>4. \A day \in 1 .. 6 : s(day) \in Nat
  BY DEF Dates
<1>5. \A day \in 1 .. 6 : f[day] \in Nat
  <2> HIDE DEF s
  <2>1. f[1] \in Nat
    <3>1. f[1] = f[0] + s(1) /\ s(1) \in Nat  BY <1>3, <1>4
    <3> QED  BY <1>3, <3>1
  <2>2. f[2] \in Nat  BY <1>3, <1>4, <2>1
  <2>3. f[3] \in Nat  BY <1>3, <1>4, <2>2
  <2>4. f[4] \in Nat  BY <1>3, <1>4, <2>3
  <2>5. f[5] \in Nat  BY <1>3, <1>4, <2>4
  <2>6. f[6] \in Nat  BY <1>3, <1>4, <2>5
  <2> QED  BY <2>1, <2>2, <2>3, <2>4, <2>5, <2>6
<1> QED
  BY <1>3, <1>5 DEF Dates

LEMMA UpdateInvInit == UpdateInit => UpdateInv
<1> SUFFICES ASSUME UpdateInit PROVE UpdateInv
  OBVIOUS
<1>1. /\ source \in {"orders", "inventory"} /\ kDayRowcount = <<>> /\ refreshed = <<>>
      /\ dayWeights \in [Dates -> 0 .. YearWeight]
  BY UpdateSetAssumption DEF UpdateInit
<1>2. refreshed \in Seq(RefreshRows) /\ \A r \in 1 .. Len(refreshed) : refreshed[r] = Refreshed(r)
  BY <1>1
<1> QED
  BY <1>1, <1>2 DEF UpdateInv

LEMMA UpdateInvScaling == UpdateInv /\ setUpdateScaling => UpdateInv'
<1> SUFFICES ASSUME UpdateInv, setUpdateScaling PROVE UpdateInv'
  OBVIOUS
<1>1. UNCHANGED <<source, dayWeights, refreshed>> /\ refreshed = <<>>
  BY DEF setUpdateScaling, UpdateInv
<1>2. \A day \in Dates : dateScaling(day)' = dateScaling(day) /\ dateScaling(day) \in Nat
  BY <1>1, ScalingType DEF dateScaling
<1>3. PICK f : f = (CHOOSE g : g = [day \in 0 .. 6 |-> IF day = 0 THEN 0 ELSE g[day - 1] + dateScaling(day)])
  OBVIOUS
<1>4. kDayRowcount' = [day \in Dates |-> f[day]]
  BY <1>3 DEF setUpdateScaling
<1>5. f[0] = 0 /\ \A day \in Dates : f[day] \in Nat /\ f[day] = f[day - 1] + dateScaling(day)
  BY <1>2, <1>3, UpToDates
<1>6. kDayRowcount' \in [Dates -> Nat]
  BY <1>4, <1>5
<1>7. \A day \in Dates : (kDayRowcount[day])' = RowBefore(day)' + dateScaling(day)'
  <2> TAKE day \in Dates
  <2>1. kDayRowcount'[day] = f[day] /\ f[day] = f[day - 1] + dateScaling(day)
    BY <1>4, <1>5
  <2>2. RowBefore(day)' = f[day - 1]
    <3>1. CASE day = 1
      BY <1>5, <3>1 DEF RowBefore
    <3>2. CASE day # 1
      <4>1. day - 1 \in Dates
        BY <3>2 DEF Dates
      <4> QED  BY <1>4, <3>2, <4>1 DEF RowBefore
    <3> QED  BY <3>1, <3>2
  <2> QED  BY <1>2, <2>1, <2>2
<1>8. refreshed' = <<>> /\ refreshed' \in Seq(RefreshRows) /\ \A r \in 1 .. Len(refreshed') : (refreshed[r])' = Refreshed(r)'
  BY <1>1
<1> QED
  BY <1>1, <1>6, <1>7, <1>8 DEF UpdateInv

(* Which rows a row number of an inventory stands for.                     *)
LEMMA StockParts ==
  ASSUME NEW row \in Nat \ {0}, ItemCount > 0
  PROVE  /\ mk_s_inventory(row) = [date |-> getUpdateDate(row), warehouse |-> House(row), item |-> FirstSK(Item(row))]
         /\ Item(row) \in 1 .. ItemCount /\ House(row) \in 1 .. Warehouses /\ Week(row) \in Nat /\ Round(row) \in Nat
         /\ row - 1 = ItemCount * Round(row) + (Item(row) - 1)
         /\ Round(row) = Warehouses * Week(row) + (House(row) - 1)
         /\ FirstSK(Item(row)) \in Int
<1>1. /\ Item(row) \in 1 .. ItemCount /\ Round(row) \in Nat /\ House(row) \in Nat /\ Week(row) \in Nat
      /\ row - 1 = ItemCount * Round(row) + (Item(row) - 1)
      /\ Round(row) = Warehouses * Week(row) + (House(row) - 1)
  BY InventoryParts DEF ItemCount
<1>2. House(row) \in 1 .. Warehouses
  <2>1. Round(row) \in Nat /\ Warehouses \in Nat \ {0}
    BY <1>1, FactsAssumption
  <2>2. Round(row) % Warehouses \in 0 .. Warehouses - 1
    BY <2>1, Division
  <2> QED  BY <2>1, <2>2 DEF House
<1>3. mk_s_inventory(row) = [date |-> getUpdateDate(row), warehouse |-> House(row), item |-> FirstSK(Item(row))]
  BY DEF mk_s_inventory, House, Round, Item, ItemCount
<1>4. FirstSK(Item(row)) \in Int
  BY <1>1, ItemCountType, FirstSKNat
<1> QED
  BY <1>1, <1>2, <1>3, <1>4

(* An inventory has no rows if there are no items.                         *)
LEMMA StockHasItems ==
  ASSUME UpdateInv, kDayRowcount # <<>>, source = "inventory", NEW row \in 1 .. kDayRowcount[6]
  PROVE  ItemCount > 0
<1>1. kDayRowcount[6] = ItemCount * Warehouses * 6
  BY RowcountOfSet DEF get_rowcount, ItemCount
<1>2. ItemCount = 0 => ItemCount * Warehouses * 6 = 0
  <2>1. Warehouses \in Nat
    BY FactsAssumption
  <2> QED  BY <2>1
<1> QED
  BY <1>1, <1>2, ItemCountType

LEMMA RefreshedType ==
  ASSUME UpdateInv, kDayRowcount # <<>>, NEW row \in 1 .. kDayRowcount[6]
  PROVE  Refreshed(row) \in RefreshRows /\ Refreshed(row).date = getUpdateDate(row)
<1>1. getUpdateDate(row) \in Dates
  BY DateOfRow
<1>2. row \in Nat \ {0}
  <2>1. kDayRowcount[6] \in Nat
    BY RowcountsSum DEF Dates
  <2> QED  BY <2>1
<1>3. CASE source = "inventory"
  <2>1. ItemCount > 0
    BY <1>3, StockHasItems
  <2>2. Refreshed(row) = [date |-> getUpdateDate(row), warehouse |-> House(row), item |-> FirstSK(Item(row))]
    BY <1>2, <1>3, <2>1, StockParts DEF Refreshed
  <2>3. House(row) \in Int /\ FirstSK(Item(row)) \in Int
    BY <1>2, <2>1, StockParts, FactsAssumption
  <2> QED  BY <1>1, <2>2, <2>3 DEF RefreshRows
<1>4. CASE source # "inventory"
  BY <1>1, <1>2, <1>4 DEF Refreshed, mk_s_order, RefreshRows
<1> QED
  BY <1>3, <1>4

LEMMA UpdateInvRefresh == UpdateInv /\ RefreshRow => UpdateInv'
<1> SUFFICES ASSUME UpdateInv, RefreshRow PROVE UpdateInv'
  OBVIOUS
<1> DEFINE row == Len(refreshed) + 1
           new == Refreshed(row)
<1>1. /\ kDayRowcount # <<>> /\ Len(refreshed) < get_rowcount /\ refreshed' = Append(refreshed, new)
      /\ UNCHANGED <<source, dayWeights, kDayRowcount>>
  BY DEF RefreshRow, Refreshed
<1>2. row \in 1 .. kDayRowcount[6]
  <2>1. kDayRowcount[6] \in Nat /\ get_rowcount = kDayRowcount[6]
    BY <1>1, RowcountsSum, RowcountOfSet DEF Dates
  <2>2. Len(refreshed) \in Nat
    BY DEF UpdateInv
  <2> QED  BY <1>1, <2>1, <2>2
<1>3. new \in RefreshRows
  BY <1>1, <1>2, RefreshedType
<1> HIDE DEF new
<1>4. /\ refreshed' \in Seq(RefreshRows) /\ Len(refreshed') = row
      /\ refreshed'[row] = new /\ \A r \in 1 .. Len(refreshed) : refreshed'[r] = refreshed[r]
  BY <1>1, <1>3 DEF UpdateInv
<1>5. \A r \in 1 .. row : refreshed'[r] = Refreshed(r)
  <2>1. \A r \in 1 .. row : r = row \/ r \in 1 .. Len(refreshed)
    BY <1>4 DEF UpdateInv
  <2> QED  BY <1>4, <2>1 DEF UpdateInv, new
<1>6. \A r \in 1 .. Len(refreshed') : (refreshed[r])' = Refreshed(r)'
  BY <1>1, <1>4, <1>5 DEF Refreshed, mk_s_inventory, mk_s_order, getUpdateDate
<1>7. \A day \in Dates : RowBefore(day)' = RowBefore(day) /\ dateScaling(day)' = dateScaling(day)
  BY <1>1 DEF RowBefore, dateScaling
<1> QED
  BY <1>1, <1>4, <1>6, <1>7 DEF UpdateInv

LEMMA UpdateInvStep == UpdateInv /\ [UpdateNext]_updateVars => UpdateInv'
<1> SUFFICES ASSUME UpdateInv, [UpdateNext]_updateVars PROVE UpdateInv'
  OBVIOUS
<1>1. CASE setUpdateScaling  BY <1>1, UpdateInvScaling
<1>2. CASE RefreshRow  BY <1>2, UpdateInvRefresh
<1>3. CASE UNCHANGED updateVars
  BY <1>3 DEF UpdateInv, updateVars, RowBefore, dateScaling, Refreshed, mk_s_inventory, mk_s_order, getUpdateDate
<1> QED
  BY <1>1, <1>2, <1>3 DEF UpdateNext

(* The rows of the dates are as numerous as the dates' parts, and those    *)
(* built are the first ones.                                               *)
THEOREM UpdateInvariant == UpdateSpec => []UpdateInv
<1>1. UpdateInit => UpdateInv  BY UpdateInvInit
<1>2. UpdateInv /\ [UpdateNext]_updateVars => UpdateInv'  BY UpdateInvStep
<1> QED  BY <1>1, <1>2, PTL DEF UpdateSpec

(* The rows of a date are consecutive.                                     *)
RowsDated(day) == {row \in DOMAIN refreshed : refreshed[row].date = day}

LEMMA RowsOfDate ==
  ASSUME UpdateInv, Built, NEW day \in Dates
  PROVE  /\ RowsDated(day) = RowBefore(day) + 1 .. kDayRowcount[day]
         /\ Cardinality(RowsDated(day)) = dateScaling(day)
<1>1. /\ kDayRowcount # <<>> /\ Len(refreshed) = kDayRowcount[6] /\ DOMAIN refreshed = 1 .. kDayRowcount[6]
      /\ kDayRowcount[6] \in Nat
  BY RowcountOfSet DEF Built, UpdateInv
<1>2. /\ kDayRowcount[day] \in Nat /\ RowBefore(day) \in Nat /\ dateScaling(day) \in Nat
      /\ RowBefore(day) <= kDayRowcount[day] /\ kDayRowcount[day] <= kDayRowcount[6]
      /\ kDayRowcount[day] - RowBefore(day) = dateScaling(day)
  BY <1>1, RowcountsSum, ScalingType
<1>3. \A row \in 1 .. kDayRowcount[6] :
        refreshed[row].date = day <=> row \in RowBefore(day) + 1 .. kDayRowcount[day]
  BY <1>1, RefreshedType, DateOfRow DEF UpdateInv
<1>4. RowBefore(day) + 1 .. kDayRowcount[day] \subseteq 1 .. kDayRowcount[6]
  BY <1>1, <1>2
<1>5. RowsDated(day) = RowBefore(day) + 1 .. kDayRowcount[day]
  BY <1>1, <1>3, <1>4 DEF RowsDated
<1>6. Cardinality(RowBefore(day) + 1 .. kDayRowcount[day]) = dateScaling(day)
  <2> DEFINE a == RowBefore(day) + 1
             b == kDayRowcount[day]
  <2>1. a \in Int /\ b \in Int /\ b - a + 1 = dateScaling(day) /\ (a > b => dateScaling(day) = 0)
    BY <1>2
  <2>2. Cardinality(a .. b) = IF a > b THEN 0 ELSE b - a + 1
    <3> HIDE DEF a, b
    <3> QED  BY <2>1, FS_Interval
  <2> HIDE DEF a, b
  <2> QED  BY <2>1, <2>2 DEF a, b
<1> QED
  BY <1>5, <1>6

(* Dates do not go back.                                                   *)
LEMMA DatesInOrder ==
  ASSUME UpdateInv, Built, NEW r \in DOMAIN refreshed, r > 1
  PROVE  refreshed[r].date >= refreshed[r - 1].date
<1>1. /\ kDayRowcount # <<>> /\ Len(refreshed) = kDayRowcount[6] /\ DOMAIN refreshed = 1 .. kDayRowcount[6]
      /\ kDayRowcount[6] \in Nat
  BY RowcountOfSet DEF Built, UpdateInv
<1>2. r \in 1 .. kDayRowcount[6] /\ r - 1 \in 1 .. kDayRowcount[6] /\ r \in Nat
  BY <1>1
<1> DEFINE day == getUpdateDate(r)
           d == getUpdateDate(r - 1)
<1>3. /\ refreshed[r].date = day /\ refreshed[r - 1].date = d /\ day \in Dates /\ d \in Dates
      /\ r \in RowBefore(day) + 1 .. kDayRowcount[day] /\ r - 1 \in RowBefore(d) + 1 .. kDayRowcount[d]
  BY <1>1, <1>2, RefreshedType, DateOfRow DEF UpdateInv
<1> HIDE DEF day, d
<1>4. SUFFICES ASSUME d > day PROVE FALSE
  BY <1>3 DEF Dates
<1>5. kDayRowcount[day] <= RowBefore(d) /\ kDayRowcount[day] \in Nat /\ RowBefore(d) \in Nat
  <2>1. day < d
    BY <1>3, <1>4 DEF Dates
  <2> QED  BY <1>1, <1>3, <2>1, RowcountsSum
<1>6. RowBefore(day) \in Nat /\ kDayRowcount[d] \in Nat
  BY <1>1, <1>3, RowcountsSum
<1> QED
  BY <1>2, <1>3, <1>5, <1>6

LEMMA DivisionUnique ==
  ASSUME NEW p \in Nat \ {0}, NEW q \in Nat, NEW r \in 0 .. p - 1, NEW n \in Nat, n = p * q + r
  PROVE  n \div p = q /\ n % p = r
<1> DEFINE a == n \div p
           b == n % p
<1>1. b \in 0 .. p - 1 /\ a \in Nat /\ n = p * a + b
  BY Division
<1> HIDE DEF a, b
<1>2. p * a + b = p * q + r
  BY <1>1
<1>3. ~(a > q)
  <2>1. SUFFICES ASSUME a >= q + 1 PROVE FALSE
    BY <1>1
  <2>2. p * a >= p * (q + 1)
    BY <1>1, <2>1
  <2>3. p * (q + 1) = p * q + p
    OBVIOUS
  <2>4. p * a \in Int /\ p * q \in Int
    BY <1>1
  <2> QED  BY <1>1, <1>2, <2>2, <2>3, <2>4
<1>4. ~(a < q)
  <2>1. SUFFICES ASSUME q >= a + 1 PROVE FALSE
    BY <1>1
  <2>2. p * q >= p * (a + 1)
    BY <1>1, <2>1
  <2>3. p * (a + 1) = p * a + p
    BY <1>1
  <2>4. p * a \in Int /\ p * q \in Int
    BY <1>1
  <2> QED  BY <1>1, <1>2, <2>2, <2>3, <2>4
<1>5. a = q
  BY <1>1, <1>3, <1>4
<1>6. p * a \in Int
  BY <1>1
<1> QED
  BY <1>1, <1>2, <1>5, <1>6 DEF a, b

(* An inventory date has every item in every warehouse.                    *)
LEMMA EveryItem ==
  ASSUME UpdateInv, Built, source = "inventory", NEW day \in Dates
  PROVE  {<<refreshed[r].warehouse, refreshed[r].item>> : r \in RowsDated(day)}
           = (1 .. Warehouses) \X {FirstSK(id) : id \in Ids}
<1> DEFINE size == Warehouses * ItemCount
<1>1. kDayRowcount # <<>>
  BY DEF Built
<1>2. RowsDated(day) = (day - 1) * size + 1 .. day * size
  BY <1>1, RowsOfDate, StockDates
<1>3. Warehouses \in Nat \ {0} /\ ItemCount \in Nat /\ size \in Nat
  BY FactsAssumption, ItemCountType
<1>4. \A r \in RowsDated(day) : r \in Nat \ {0} /\ refreshed[r] = mk_s_inventory(r) /\ ItemCount > 0
  <2> TAKE r \in RowsDated(day)
  <2>1. r \in 1 .. Len(refreshed) /\ Len(refreshed) = kDayRowcount[6] /\ Len(refreshed) \in Nat
    BY <1>1, RowcountOfSet DEF RowsDated, Built, UpdateInv
  <2> QED  BY <1>1, <2>1, StockHasItems DEF UpdateInv, Refreshed
<1>5. \A r \in RowsDated(day) : /\ refreshed[r].warehouse \in 1 .. Warehouses
                             /\ refreshed[r].item \in {FirstSK(id) : id \in Ids}
  BY <1>4, StockParts DEF Ids, ItemCount
<1>6. ASSUME NEW w \in 1 .. Warehouses, NEW id \in Ids
      PROVE  \E r \in RowsDated(day) : refreshed[r].warehouse = w /\ refreshed[r].item = FirstSK(id)
  <2> DEFINE round == (day - 1) * Warehouses + (w - 1)
             r == ItemCount * round + id
  <2>1. /\ id \in Nat \ {0} /\ id <= ItemCount /\ ItemCount \in Nat \ {0} /\ w \in Nat \ {0} /\ w <= Warehouses
        /\ day \in Nat \ {0}
    BY <1>3 DEF Ids, ItemCount, Dates
  <2>2. round \in Nat /\ r \in Nat \ {0} /\ r - 1 = ItemCount * round + (id - 1) /\ r - 1 \in Nat
    <3>1. round \in Nat
      <4>1. (day - 1) \in Nat /\ w - 1 \in Nat
        BY <2>1
      <4> QED  BY <1>3, <4>1
    <3>2. ItemCount * round \in Nat
      <4> HIDE DEF round
      <4> QED  BY <2>1, <3>1
    <3> HIDE DEF round
    <3> QED  BY <2>1, <3>1, <3>2
  <2>3. (r - 1) \div ItemCount = round /\ (r - 1) % ItemCount = id - 1
    <3>1. id - 1 \in 0 .. ItemCount - 1
      BY <2>1
    <3> DEFINE n == r - 1
               m == id - 1
    <3>2. n \in Nat /\ m \in 0 .. ItemCount - 1 /\ n = ItemCount * round + m
          /\ round \in Nat /\ ItemCount \in Nat \ {0}
      <4> HIDE DEF r, round
      <4> QED  BY <2>1, <2>2, <3>1
    <3> HIDE DEF n, m, round
    <3>3. n \div ItemCount = round /\ n % ItemCount = m
      BY <3>2, DivisionUnique, Zenon
    <3> QED  BY <3>3 DEF n, m
  <2>4. round % Warehouses = w - 1
    <3>1. w - 1 \in 0 .. Warehouses - 1 /\ day - 1 \in Nat
      BY <1>3, <2>1
    <3>2. round = Warehouses * (day - 1) + (w - 1)
      BY <2>1, <1>3
    <3> DEFINE m == w - 1
               p == day - 1
    <3>3. round \in Nat /\ m \in 0 .. Warehouses - 1 /\ p \in Nat /\ round = Warehouses * p + m
          /\ Warehouses \in Nat \ {0}
      <4> HIDE DEF round
      <4> QED  BY <1>3, <2>2, <3>1, <3>2
    <3> HIDE DEF m, p, round
    <3>4. round % Warehouses = m
      BY <3>3, DivisionUnique, Zenon
    <3> QED  BY <3>4 DEF m
  <2>5. Item(r) = id /\ House(r) = w
    <3>1. Item(r) = (id - 1) + 1 /\ House(r) = (w - 1) + 1
      BY <2>3, <2>4 DEF Item, House, Round
    <3> QED  BY <2>1, <3>1
  <2>6. r \in RowsDated(day)
    <3>1. ItemCount * round = (day - 1) * size + ItemCount * (w - 1)
      BY <1>3, <2>1
    <3>2. ItemCount * (w - 1) + id <= size /\ ItemCount * (w - 1) \in Nat
      <4>1. ItemCount * (w - 1) <= ItemCount * (Warehouses - 1)
        BY <1>3, <2>1
      <4>2. ItemCount * (Warehouses - 1) = size - ItemCount
        BY <1>3
      <4>3. ItemCount * (w - 1) \in Nat
        BY <2>1
      <4> HIDE DEF size
      <4> QED  BY <1>3, <2>1, <4>1, <4>2, <4>3
    <3>3. day * size = (day - 1) * size + size /\ (day - 1) * size \in Nat
      <4> HIDE DEF size
      <4> QED  BY <1>3, <2>1
    <3> DEFINE x == ItemCount * (w - 1)
               y == (day - 1) * size
               z == ItemCount * round
               e == day * size
    <3>4. z = y + x /\ x + id <= size /\ x \in Nat /\ e = y + size /\ y \in Nat
      BY <3>1, <3>2, <3>3
    <3>5. r = z + id
      OBVIOUS
    <3>6. r \in y + 1 .. e
      <4> HIDE DEF x, y, z, e, size, r
      <4> QED  BY <1>3, <2>1, <3>4, <3>5
    <3> QED  BY <1>2, <3>6
  <2>7. refreshed[r].warehouse = w /\ refreshed[r].item = FirstSK(id)
    <3>1. refreshed[r] = mk_s_inventory(r) /\ ItemCount > 0
      BY <1>4, <2>6
    <3> HIDE DEF r
    <3> QED  BY <2>2, <2>5, <3>1, StockParts
  <2> HIDE DEF r
  <2> QED  BY <2>6, <2>7
<1> QED
  BY <1>5, <1>6

(* For any numbers of sales, items and warehouses, and any weights of the  *)
(* days, a refresh set is spread over its dates.                           *)
THEOREM AlwaysSpreadOverDates == UpdateSpec => []SpreadOverDates
<1>1. UpdateInv => SpreadOverDates
  <2> SUFFICES ASSUME UpdateInv, Built
               PROVE  /\ \A r \in DOMAIN refreshed : r > 1 => refreshed[r].date >= refreshed[r - 1].date
                      /\ source = "orders" => \A day \in Dates : Cardinality(RowsDated(day)) \in Share(day)
                      /\ source = "inventory" => \A day \in Dates :
                           /\ Cardinality(RowsDated(day)) = Warehouses * IdCount(ItemRows)
                           /\ {<<refreshed[r].warehouse, refreshed[r].item>> : r \in RowsDated(day)}
                                = (1 .. Warehouses) \X {FirstSK(id) : id \in Ids}
    BY DEF SpreadOverDates, RowsDated
  <2>1. \A r \in DOMAIN refreshed : r > 1 => refreshed[r].date >= refreshed[r - 1].date
    BY DatesInOrder
  <2>2. source = "orders" => \A day \in Dates : Cardinality(RowsDated(day)) \in Share(day)
    BY RowsOfDate, ScalingType
  <2>3. source = "inventory" => \A day \in Dates : Cardinality(RowsDated(day)) = Warehouses * IdCount(ItemRows)
    BY RowsOfDate, ScalingType DEF ItemCount
  <2>4. source = "inventory" => \A day \in Dates :
           {<<refreshed[r].warehouse, refreshed[r].item>> : r \in RowsDated(day)}
             = (1 .. Warehouses) \X {FirstSK(id) : id \in Ids}
    BY EveryItem
  <2> QED  BY <2>1, <2>2, <2>3, <2>4
<1> QED  BY <1>1, UpdateInvariant, PTL

-----------------------------------------------------------------------------
\* DimensionCopies

(* How many combinations there are of the attributes before each.          *)
LEMMA Combinations ==
  /\ Below[1] = 1 /\ \A i \in 1 .. 8 : Below[i + 1] = Below[i] * DemoSizes[i]
  /\ \A i \in 1 .. 9 : Below[i] \in Nat \ {0}
  /\ \A i \in 1 .. 8 : DemoSizes[i] \in Nat \ {0}
<1> DEFINE s(i) == DemoSizes[i]
           Bases(g) == [i \in 1 .. 9 |-> IF i = 1 THEN 1 ELSE g[i - 1] * s(i - 1)]
<1>1. \E g : g = Bases(g)
  <2> DEFINE h2 == 1 * s(1)
             h3 == h2 * s(2)
             h4 == h3 * s(3)
             h5 == h4 * s(4)
             h6 == h5 * s(5)
             h7 == h6 * s(6)
             h8 == h7 * s(7)
             h == [i \in 1 .. 9 |-> CASE i = 1 -> 1 [] i = 2 -> h2 [] i = 3 -> h3 [] i = 4 -> h4 [] i = 5 -> h5
                    [] i = 6 -> h6 [] i = 7 -> h7 [] i = 8 -> h8 [] i = 9 -> h8 * s(8)]
  <2> HIDE DEF s
  <2>1. \A i \in 1 .. 9 : i \in {1, 2, 3, 4, 5, 6, 7, 8, 9}
    OBVIOUS
  <2>2. \A i \in 1 .. 9 : h[i] = IF i = 1 THEN 1 ELSE h[i - 1] * s(i - 1)
    <3> SUFFICES ASSUME NEW i \in 1 .. 9 PROVE h[i] = IF i = 1 THEN 1 ELSE h[i - 1] * s(i - 1)
      OBVIOUS
    <3>1. h[2] = h[1] * s(1) /\ h[3] = h[2] * s(2) /\ h[4] = h[3] * s(3) /\ h[5] = h[4] * s(4)
      OBVIOUS
    <3>2. h[6] = h[5] * s(5) /\ h[7] = h[6] * s(6) /\ h[8] = h[7] * s(7) /\ h[9] = h[8] * s(8)
      OBVIOUS
    <3>3. h[1] = 1
      OBVIOUS
    <3> HIDE DEF h
    <3> QED  BY <2>1, <3>1, <3>2, <3>3
  <2>3. h = Bases(h)
    <3>1. h = [i \in 1 .. 9 |-> h[i]]
      OBVIOUS
    <3> HIDE DEF h
    <3> QED  BY <2>2, <3>1
  <2> HIDE DEF h, Bases
  <2> QED  BY <2>3
<1>2. Below = Bases(Below)
  <2>1. Below = CHOOSE g : g = Bases(g)
    BY DEF Below
  <2> HIDE DEF Bases
  <2> QED  BY <1>1, <2>1
<1>3. \A i \in 1 .. 9 : Below[i] = IF i = 1 THEN 1 ELSE Below[i - 1] * s(i - 1)
  <2> DEFINE f == Below
  <2>1. f = [i \in 1 .. 9 |-> IF i = 1 THEN 1 ELSE f[i - 1] * s(i - 1)]
    BY <1>2
  <2> HIDE DEF f, s
  <2>2. \A i \in 1 .. 9 : f[i] = IF i = 1 THEN 1 ELSE f[i - 1] * s(i - 1)
    BY <2>1, Zenon
  <2> QED  BY <2>2 DEF f
<1>4. \A i \in 1 .. 8 : Below[i + 1] = Below[i] * s(i)
  <2> TAKE i \in 1 .. 8
  <2>1. i + 1 \in 1 .. 9 /\ i + 1 # 1 /\ (i + 1) - 1 = i
    OBVIOUS
  <2> HIDE DEF s
  <2> QED  BY <1>3, <2>1
<1>5. Below[1] = 1
  BY <1>3
<1>6. \A i \in 1 .. 8 : s(i) \in Nat \ {0}
  BY DEF DemoSizes
<1> HIDE DEF s
<1>7. ASSUME NEW i \in 1 .. 8, Below[i] \in Nat \ {0}
      PROVE  Below[i + 1] \in Nat \ {0}
  <2>1. \A a, b \in Nat \ {0} : a * b \in Nat \ {0}
    OBVIOUS
  <2> QED  BY <1>4, <1>6, <1>7, <2>1
<1>8. Below[2] \in Nat \ {0} /\ Below[3] \in Nat \ {0}
  <2>1. Below[1 + 1] \in Nat \ {0}  BY <1>5, <1>7
  <2>2. Below[2 + 1] \in Nat \ {0}  BY <1>7, <2>1
  <2> QED  BY <2>1, <2>2
<1>9. Below[4] \in Nat \ {0} /\ Below[5] \in Nat \ {0}
  <2>1. Below[3 + 1] \in Nat \ {0}  BY <1>7, <1>8
  <2>2. Below[4 + 1] \in Nat \ {0}  BY <1>7, <2>1
  <2> QED  BY <2>1, <2>2
<1>10. Below[6] \in Nat \ {0} /\ Below[7] \in Nat \ {0}
  <2>1. Below[5 + 1] \in Nat \ {0}  BY <1>7, <1>9
  <2>2. Below[6 + 1] \in Nat \ {0}  BY <1>7, <2>1
  <2> QED  BY <2>1, <2>2
<1>11. Below[8] \in Nat \ {0} /\ Below[9] \in Nat \ {0}
  <2>1. Below[7 + 1] \in Nat \ {0}  BY <1>7, <1>10
  <2>2. Below[8 + 1] \in Nat \ {0}  BY <1>7, <2>1
  <2> QED  BY <2>1, <2>2
<1>12. \A i \in 1 .. 9 : i \in {1, 2, 3, 4, 5, 6, 7, 8, 9}
  OBVIOUS
<1>13. \A i \in 1 .. 9 : Below[i] \in Nat \ {0}
  BY <1>5, <1>8, <1>9, <1>10, <1>11, <1>12
<1> QED
  BY <1>4, <1>5, <1>6, <1>13 DEF s

(* A quotient is that of the product, with a digit.                        *)
LEMMA NestedDivision ==
  ASSUME NEW x \in Nat, NEW a \in Nat \ {0}, NEW b \in Nat \ {0}
  PROVE  x \div a = b * (x \div (a * b)) + ((x \div a) % b)
<1> DEFINE q == x \div a
           r == x % a
           t == q \div b
           d == q % b
<1>1. q \in Nat /\ r \in 0 .. a - 1 /\ x = a * q + r
  BY Division
<1> HIDE DEF q, r
<1>2. t \in Nat /\ d \in 0 .. b - 1 /\ q = b * t + d
  BY <1>1, Division
<1> HIDE DEF t, d
<1> DEFINE ab == a * b
           s == a * d + r
<1>3. ab \in Nat \ {0} /\ x = ab * t + s
  <2>1. a * (b * t + d) = (a * b) * t + a * d
    BY <1>2
  <2>2. (a * b) * t \in Nat /\ a * d \in Nat
    BY <1>2
  <2>3. a * b > 0
    OBVIOUS
  <2> QED  BY <1>1, <1>2, <2>1, <2>2, <2>3
<1>4. s \in 0 .. ab - 1
  <2>1. a * d \in Nat /\ a * (d + 1) <= a * b /\ a * (d + 1) = a * d + a
    BY <1>2
  <2> QED  BY <1>1, <2>1
<1> HIDE DEF ab, s
<1>5. x \div ab = t
  BY <1>2, <1>3, <1>4, DivisionUnique
<1> QED
  BY <1>2, <1>5 DEF ab, q, t, d

(* No two keys of customer_demographics stand for the same attributes.     *)
LEMMA AttributesOfOneKey ==
  ASSUME NEW k \in 1 .. DemoRows, NEW l \in 1 .. DemoRows, Demographics(k) = Demographics(l)
  PROVE  k = l
<1> DEFINE x == k - 1
           y == l - 1
           Q(n, i) == n \div Below[i]
<1>1. DemoRows \in Nat \ {0}
  BY Combinations DEF DemoRows
<1>2. \A i \in 1 .. 9 : Below[i] \in Nat \ {0}
  BY Combinations
<1>3. x \in 0 .. DemoRows - 1 /\ y \in 0 .. DemoRows - 1 /\ x \in Nat /\ y \in Nat
  BY <1>1
<1>4. \A i \in 1 .. 8 : Demographics(k)[i] = Q(x, i) % DemoSizes[i] /\ Demographics(l)[i] = Q(y, i) % DemoSizes[i]
  BY DEF Demographics
<1> HIDE DEF x, y
<1>5. ASSUME NEW i \in 1 .. 8, Q(x, i + 1) = Q(y, i + 1)
      PROVE  Q(x, i) = Q(y, i)
  <2> DEFINE a == Below[i]
             b == DemoSizes[i]
             c == Below[i + 1]
  <2>1. a \in Nat \ {0} /\ b \in Nat \ {0} /\ c = a * b
    <3>1. i \in 1 .. 9
      OBVIOUS
    <3> QED  BY <1>2, <3>1, Combinations
  <2>2. (x \div a) % b = (y \div a) % b
    BY <1>4
  <2>3. x \div c = y \div c
    BY <1>5
  <2> HIDE DEF a, b, c
  <2>4. x \div a = b * (x \div (a * b)) + ((x \div a) % b) /\ y \div a = b * (y \div (a * b)) + ((y \div a) % b)
    BY <1>3, <2>1, NestedDivision
  <2>5. x \div a = y \div a
    BY <2>1, <2>2, <2>3, <2>4
  <2> QED  BY <2>5 DEF a
<1>6. Q(x, 9) = 0 /\ Q(y, 9) = 0
  <2>1. x = DemoRows * 0 + x /\ y = DemoRows * 0 + y
    BY <1>1, <1>3
  <2>2. x \div DemoRows = 0 /\ y \div DemoRows = 0
    BY <1>1, <1>3, <2>1, DivisionUnique
  <2> QED  BY <2>2 DEF DemoRows
<1>7. Q(x, 1) = x /\ Q(y, 1) = y
  <2>1. Below[1] = 1 /\ x \div 1 = x /\ y \div 1 = y
    BY <1>3, Combinations
  <2> QED  BY <2>1
<1> DEFINE Same(i) == Q(x, i) = Q(y, i)
<1>8. \A i \in 1 .. 8 : Same(i + 1) => Same(i)
  BY <1>5
<1>9. Same(9)
  BY <1>6
<1> HIDE DEF Same
<1>10. /\ Same(8 + 1) => Same(8)
       /\ Same(7 + 1) => Same(7)
       /\ Same(6 + 1) => Same(6)
       /\ Same(5 + 1) => Same(5)
       /\ Same(4 + 1) => Same(4)
       /\ Same(3 + 1) => Same(3)
       /\ Same(2 + 1) => Same(2)
       /\ Same(1 + 1) => Same(1)
  <2>1. 8 \in 1 .. 8 /\ 7 \in 1 .. 8 /\ 6 \in 1 .. 8 /\ 5 \in 1 .. 8 /\ 4 \in 1 .. 8 /\ 3 \in 1 .. 8
        /\ 2 \in 1 .. 8 /\ 1 \in 1 .. 8
    OBVIOUS
  <2> QED  BY <1>8, <2>1, Zenon
<1>11. /\ 8 + 1 = 9 /\ 7 + 1 = 8 /\ 6 + 1 = 7 /\ 5 + 1 = 6 /\ 4 + 1 = 5 /\ 3 + 1 = 4 /\ 2 + 1 = 3 /\ 1 + 1 = 2
  OBVIOUS
<1>12. Same(1)
  BY <1>9, <1>10, <1>11
<1> QED
  BY <1>1, <1>7, <1>12 DEF Same, x, y

(* A set of numbers has a least one, if it has one at all.                 *)
LEMMA LeastOf ==
  ASSUME NEW S, S \subseteq Nat, S # {}
  PROVE  \E m \in S : \A i \in S : m <= i
<1> DEFINE R == OpToRel(<, Nat)
<1>1. IsWellFoundedOn(R, Nat)
  BY NatLessThanWellFounded
<1> HIDE DEF R
<1>2. PICK m \in S : \A i \in S : ~(<<i, m>> \in R)
  BY <1>1, WFMin
<1>3. \A i \in Nat : i < m => <<i, m>> \in R
  BY m \in Nat DEF R, OpToRel
<1>4. \A i \in S : ~(i < m)
  BY <1>2, <1>3, Zenon
<1> QED
  BY <1>4

LEMMA Zips ==
  /\ DOMAIN ZipMax = 1 .. 63 /\ ZipMax[63] = LastZip /\ LastZip \in Nat
  /\ \A zip \in Nat : zip >= 600 => ~(zip <= ZipMax[1])
<1>1. DOMAIN ZipMax = 1 .. 63
  BY SMT DEF ZipMax
<1>2. ZipMax[63] = LastZip /\ LastZip \in Nat
  BY SMT DEF ZipMax, LastZip
<1>3. ZipMax[1] = 599
  BY SMT DEF ZipMax
<1>4. \A zip \in Nat : zip >= 600 => ~(zip <= ZipMax[1])
  BY <1>3, SMT
<1> QED
  BY <1>1, <1>2, <1>4

(* The search for a zip ends, at a range that goes up to it.               *)
LEMMA ZipFound ==
  ASSUME NEW zip \in 0 .. LastZip
  PROVE  ZipEntry(zip) \in DOMAIN ZipMax /\ zip <= ZipMax[ZipEntry(zip)]
<1> DEFINE reached == {i \in DOMAIN ZipMax : zip <= ZipMax[i]}
<1>1. 63 \in reached
  <2>1. 63 \in DOMAIN ZipMax /\ zip <= ZipMax[63]
    BY Zips
  <2> QED  BY <2>1
<1>2. reached \subseteq Nat /\ reached # {}
  <2>1. DOMAIN ZipMax \subseteq Nat
    BY Zips
  <2> QED  BY <1>1, <2>1
<1>3. ZipEntry(zip) = CHOOSE i \in reached : \A j \in reached : i <= j
  BY DEF ZipEntry
<1> HIDE DEF reached
<1>4. \E i \in reached : \A j \in reached : i <= j
  BY <1>2, LeastOf
<1>5. ZipEntry(zip) \in reached
  BY <1>3, <1>4
<1> QED
  BY <1>5 DEF reached

(* The zips of addresses are beyond those not in use.                      *)
LEMMA ZipInUse ==
  ASSUME NEW zip \in AddressZips
  PROVE  zip \in 600 .. LastZip
<1>1. PICK prefix \in 0 .. 9, hash \in CityHashes : zip = AddressZip(prefix, hash)
  BY SMT DEF AddressZips
<1>2. hash \in Nat \ {0} /\ hash < 10000
  BY CopiesAssumption, SMT
<1>3. zip = 10000 * prefix + (IF prefix = 0 /\ hash < 9400 THEN hash + 600 ELSE hash)
  BY <1>1, SMT DEF AddressZip
<1>4. zip \in Nat /\ zip >= 600 /\ zip <= 99999
  BY <1>2, <1>3, SMT
<1>5. zip <= LastZip /\ LastZip \in Nat
  BY <1>4, SMT DEF LastZip
<1> QED
  BY <1>4, <1>5

LEMMA ZipHasRow ==
  ASSUME NEW zip \in AddressZips
  PROVE  ZipEntry(zip) > 1
<1>1. zip \in Nat /\ zip >= 600 /\ zip \in 0 .. LastZip
  BY ZipInUse, Zips
<1>2. ZipEntry(zip) \in DOMAIN ZipMax /\ zip <= ZipMax[ZipEntry(zip)]
  BY <1>1, ZipFound
<1>3. ZipEntry(zip) # 1
  BY <1>1, <1>2, Zips
<1> QED
  BY <1>2, <1>3, Zips

-----------------------------------------------------------------------------
(* Any row of an id bears the id: the key of its first row.                *)
LEMMA KeyOfAnyRow ==
  ASSUME NEW id \in Nat \ {0}, NEW k \in AnySK(id)
  PROVE  BKey(k) = FirstSK(id) /\ BKey(BKey(k)) = FirstSK(id)
<1>1. FirstSK(id) \in Nat /\ id % 3 \in 0 .. 2 /\ Span(id) \in 1 .. 3
  BY FirstSKNat, SpanType
<1>2. AnySK(id) = FirstSK(id) .. FirstSK(id) + Span(id) - 1
  BY <1>1 DEF AnySK, Span
<1>3. PICK e \in 0 .. 2 : e < Span(id) /\ k = FirstSK(id) + e
  <2> DEFINE e == k - FirstSK(id)
  <2>1. e \in 0 .. 2 /\ e < Span(id) /\ k = FirstSK(id) + e
    BY <1>1, <1>2
  <2> QED  BY <2>1
<1>4. Earlier(k) = e
  BY <1>3, RowsOfMember
<1>5. Earlier(FirstSK(id)) = 0
  <2>1. 0 \in 0 .. 2 /\ 0 < Span(id) /\ FirstSK(id) = FirstSK(id) + 0
    BY <1>1
  <2> QED  BY <2>1, RowsOfMember
<1> QED
  BY <1>1, <1>3, <1>4, <1>5 DEF BKey

LEMMA FirstSKDistinct ==
  ASSUME NEW i \in Nat \ {0}, NEW j \in Nat \ {0}, FirstSK(i) = FirstSK(j)
  PROVE  i = j
<1>1. ASSUME NEW k \in Nat \ {0}, NEW l \in Nat \ {0}, k < l
      PROVE  FirstSK(k) < FirstSK(l)
  <2>1. k + 1 \in Nat \ {0} /\ k + 1 <= l
    BY <1>1
  <2>2. FirstSK(k + 1) <= FirstSK(l) /\ FirstSK(k + 1) = FirstSK(k) + Span(k)
    BY <2>1, FirstSKIncreases, NextFirstSK
  <2>3. Span(k) \in 1 .. 3 /\ FirstSK(k) \in Nat /\ FirstSK(l) \in Nat
    BY SpanType, FirstSKNat
  <2> QED  BY <2>2, <2>3
<1>2. FirstSK(i) \in Nat /\ FirstSK(j) \in Nat
  BY FirstSKNat
<1> QED
  BY <1>1, <1>2

\* The member of the dimension that is to be the n-th row of the copy.
MemberAt(n) ==
  LET id == getPermutationEntry(n) IN IF copyOf \in History THEN FirstSK(id) ELSE id

CopyKinds == History \union Plain \union {"customer", "zip_to_gmt"}

CopiedRows ==
  [row : Int, id : Int] \union [id : Int, key : DemoKeys, demographics : {Demographics(key) : key \in DemoKeys}]
    \union [zip : 0 .. LastZip, entry : Int]

(* The permutation is one at every time, and stays as it is from the first *)
(* row of the copy on: each of them is of the next entry.                  *)
CopyInv ==
  /\ copyOf \in CopyKinds /\ dimRows \in Nat \ {0}
  /\ permuted \in [0 .. IDCount - 1 -> 0 .. IDCount - 1]
  /\ \A i, j \in 0 .. IDCount - 1 : permuted[i] = permuted[j] => i = j
  /\ shuffled \in Nat
  /\ copied \in Seq(CopiedRows) /\ Len(copied) <= CopyRows
  /\ copyOf # "zip_to_gmt" /\ copied # <<>> => shuffled = IDCount
  /\ copyOf # "zip_to_gmt" => \A n \in 1 .. Len(copied) : NameIn(copied[n]) = MemberAt(n)
  /\ copyOf = "customer" => \A n \in 1 .. Len(copied) :
       copied[n].key \in DemoKeys /\ copied[n].demographics = Demographics(copied[n].key)
  /\ copyOf = "zip_to_gmt" => \A n \in 1 .. Len(copied) :
       copied[n].zip \in 0 .. LastZip /\ copied[n].entry = ZipEntry(copied[n].zip)

LEMMA CopyCounts ==
  ASSUME copyOf \in CopyKinds, dimRows \in Nat \ {0}
  PROVE  IDCount \in Nat \ {0} /\ CopyRows \in Nat /\ (copyOf # "zip_to_gmt" => CopyRows <= IDCount)
<1>1. IdCount(dimRows) \in Nat \ {0}
  <2>1. IdCount(dimRows) \in Nat
    BY IdCountNat
  <2>2. 1 \in 1 .. dimRows
    OBVIOUS
  <2>3. PICK id \in 1 .. IdCount(dimRows) : TRUE
    BY <2>2, MemberOfRow
  <2> QED  BY <2>1, <2>3
<1>2. IDCount \in Nat \ {0}
  BY <1>1 DEF IDCount
<1> HIDE DEF IDCount
<1>3. MaxCustomers \in Nat
  BY CopiesAssumption
<1>4. CASE copyOf = "zip_to_gmt"
  BY <1>2, <1>4 DEF CopyRows
<1>5. CASE copyOf # "zip_to_gmt" /\ copyOf = "customer" /\ MaxCustomers < IDCount
  BY <1>2, <1>3, <1>5 DEF CopyRows
<1>6. CASE copyOf # "zip_to_gmt" /\ ~(copyOf = "customer" /\ MaxCustomers < IDCount)
  BY <1>2, <1>6 DEF CopyRows
<1> QED
  BY <1>4, <1>5, <1>6

LEMMA CopyInvInit == CopyInit => CopyInv
<1> SUFFICES ASSUME CopyInit PROVE CopyInv
  OBVIOUS
<1>1. copyOf \in CopyKinds /\ dimRows \in Nat \ {0} /\ copied = <<>> /\ shuffled = 0
  BY CopiesAssumption DEF CopyInit, CopyKinds
<1>2. IDCount \in Nat \ {0} /\ CopyRows \in Nat
  BY <1>1, CopyCounts
<1>3. permuted = [i \in 0 .. IDCount - 1 |-> i]
  BY DEF CopyInit
<1> HIDE DEF IDCount, CopyRows
<1>4. permuted \in [0 .. IDCount - 1 -> 0 .. IDCount - 1] /\ \A i, j \in 0 .. IDCount - 1 : permuted[i] = permuted[j] => i = j
  BY <1>3
<1>5. copied \in Seq(CopiedRows) /\ Len(copied) = 0 /\ 1 .. Len(copied) = {}
  BY <1>1
<1> QED
  BY <1>1, <1>2, <1>4, <1>5 DEF CopyInv

LEMMA CopyInvShuffle == CopyInv /\ ShuffleIds => CopyInv'
<1> SUFFICES ASSUME CopyInv, ShuffleIds PROVE CopyInv'
  OBVIOUS
<1> DEFINE n == IDCount
           Places == 0 .. n - 1
<1>1. n \in Nat \ {0}
  BY CopyCounts DEF CopyInv
<1>2. n' = n /\ CopyRows' = CopyRows /\ copyOf' = copyOf /\ dimRows' = dimRows /\ copied' = copied
  BY DEF ShuffleIds, IDCount, CopyRows
<1>3. PICK j \in Places : permuted' = [permuted EXCEPT ![shuffled] = permuted[j], ![j] = permuted[shuffled]]
  BY DEF ShuffleIds
<1>4. shuffled \in Places /\ shuffled' \in Nat /\ copyOf # "zip_to_gmt"
  BY <1>1 DEF ShuffleIds, CopyInv
<1>5. copied = <<>>
  BY <1>1, <1>4 DEF CopyInv
<1>6. permuted \in [Places -> Places] /\ \A i, k \in Places : permuted[i] = permuted[k] => i = k
  BY DEF CopyInv
<1> HIDE DEF n, Places
<1>7. permuted' \in [Places -> Places]
  BY <1>3, <1>4, <1>6
<1>8. \A i \in Places : permuted'[i] = IF i = j THEN permuted[shuffled]
                                       ELSE IF i = shuffled THEN permuted[j] ELSE permuted[i]
  BY <1>3, <1>4, <1>6
<1>9. \A i, k \in Places : permuted'[i] = permuted'[k] => i = k
  BY <1>3, <1>4, <1>6, <1>8
<1>10. 1 .. Len(copied') = {}
  BY <1>2, <1>5
<1>11. (permuted \in [0 .. IDCount - 1 -> 0 .. IDCount - 1]
        /\ \A i, k \in 0 .. IDCount - 1 : permuted[i] = permuted[k] => i = k)'
  BY <1>2, <1>7, <1>9 DEF Places, n
<1>12. (copied \in Seq(CopiedRows) /\ Len(copied) <= CopyRows)'
  BY <1>2 DEF CopyInv
<1>13. copyOf' \in CopyKinds /\ dimRows' \in Nat \ {0}
  BY <1>2 DEF CopyInv
<1>14. copied' = <<>>
  BY <1>2, <1>5
<1>15. CopiedRows' = CopiedRows
  BY DEF CopiedRows
<1> QED
  BY <1>4, <1>10, <1>11, <1>12, <1>13, <1>14 DEF CopyInv

\* The row that a permutation's next entry comes to.
LEMMA MemberCopied ==
  ASSUME CopyInv, copyOf \in History \union Plain, NEW n \in 1 .. IDCount, NEW k \in RowsOfId(getPermutationEntry(n))
  PROVE  /\ NameIn([row |-> k, id |-> Printed(k)]) = MemberAt(n)
         /\ k \in Int /\ Printed(k) \in Int
<1> DEFINE id == getPermutationEntry(n)
           made == [row |-> k, id |-> Printed(k)]
<1>1. IDCount \in Nat \ {0} /\ n - 1 \in 0 .. IDCount - 1
  BY CopyCounts DEF CopyInv
<1>2. id \in Nat \ {0}
  <2>1. permuted \in [0 .. IDCount - 1 -> 0 .. IDCount - 1]
    BY DEF CopyInv
  <2>2. permuted[n - 1] \in 0 .. IDCount - 1
    <3> HIDE DEF IDCount
    <3> QED  BY <1>1, <2>1
  <2>3. permuted[n - 1] + 1 \in Nat \ {0}
    BY <1>1, <2>2
  <2> QED  BY <2>3 DEF getPermutationEntry
<1>3. made.id = Printed(k)
  OBVIOUS
<1> HIDE DEF id, made
<1>4. CASE copyOf \in History
  <2>1. k \in AnySK(id)
    BY <1>4 DEF RowsOfId, id
  <2>2. BKey(k) = FirstSK(id) /\ BKey(BKey(k)) = FirstSK(id) /\ FirstSK(id) \in Nat
    BY <1>2, <2>1, KeyOfAnyRow, FirstSKNat
  <2>3. k \in Int
    <3>1. FirstSK(id) + (IF id % 3 = 0 THEN 2 ELSE (id % 3) - 1) \in Int
      BY <1>2, <2>2
    <3> QED  BY <2>1, <2>2, <3>1 DEF AnySK
  <2>4. NameIn(made) = FirstSK(id)
    <3>1. CASE copyOf = "call_center"
      BY <1>3, <2>2, <3>1 DEF NameIn, Printed
    <3>2. CASE copyOf # "call_center"
      BY <1>3, <1>4, <2>2, <3>2 DEF NameIn, Printed
    <3> QED  BY <3>1, <3>2
  <2>5. Printed(k) \in Int
    BY <2>2, <2>3 DEF Printed
  <2> QED  BY <1>4, <2>3, <2>4, <2>5 DEF MemberAt, id, made
<1>5. CASE copyOf \notin History
  <2>1. k = id /\ Printed(k) = k /\ copyOf # "call_center"
    BY <1>5 DEF RowsOfId, id, Printed, History
  <2>2. NameIn(made) = id
    BY <1>3, <2>1 DEF NameIn
  <2> QED  BY <1>2, <1>5, <2>1, <2>2 DEF MemberAt, id, made
<1> QED
  BY <1>4, <1>5

(* The next row of a copy that takes members of its dimension.             *)
LEMMA NextCopied ==
  ASSUME CopyInv, copyOf # "zip_to_gmt", shuffled = IDCount, Len(copied) < CopyRows,
         NEW row \in CopiedRows, copied' = Append(copied, row),
         NameIn(row) = MemberAt(Len(copied) + 1),
         copyOf = "customer" => row.key \in DemoKeys /\ row.demographics = Demographics(row.key),
         UNCHANGED <<copyOf, dimRows, permuted, shuffled>>
  PROVE  CopyInv'
<1> DEFINE n == Len(copied)
<1>1. n \in Nat /\ CopyRows \in Nat /\ copied \in Seq(CopiedRows)
  BY CopyCounts DEF CopyInv
<1>2. /\ copied' \in Seq(CopiedRows) /\ Len(copied') = n + 1 /\ copied'[n + 1] = row
      /\ \A i \in 1 .. n : copied'[i] = copied[i]
  BY <1>1
<1>3. \A i \in 1 .. Len(copied') : i \in 1 .. n \/ i = n + 1
  BY <1>1, <1>2
<1>4. \A i \in 1 .. Len(copied') : NameIn(copied'[i]) = MemberAt(i)
  BY <1>2, <1>3 DEF CopyInv
<1>5. copyOf = "customer" => \A i \in 1 .. Len(copied') :
        copied'[i].key \in DemoKeys /\ copied'[i].demographics = Demographics(copied'[i].key)
  BY <1>2, <1>3 DEF CopyInv
<1>6. /\ copyOf' = copyOf /\ dimRows' = dimRows /\ permuted' = permuted /\ shuffled' = shuffled
      /\ IDCount' = IDCount /\ CopyRows' = CopyRows
  BY DEF IDCount, CopyRows
<1>7. \A i \in 1 .. Len(copied') : NameIn(copied[i])' = MemberAt(i)'
  BY <1>4, <1>6 DEF NameIn, MemberAt, getPermutationEntry
<1>8. (copyOf = "customer" => \A i \in 1 .. Len(copied) :
        copied[i].key \in DemoKeys /\ copied[i].demographics = Demographics(copied[i].key))'
  BY <1>5, <1>6 DEF Demographics
<1>9. (copied \in Seq(CopiedRows) /\ Len(copied) <= CopyRows)'
  <2>1. CopiedRows' = CopiedRows
    BY DEF CopiedRows
  <2> HIDE DEF CopyRows
  <2> QED  BY <1>1, <1>2, <1>6, <2>1
<1>10. (permuted \in [0 .. IDCount - 1 -> 0 .. IDCount - 1]
        /\ \A i, k \in 0 .. IDCount - 1 : permuted[i] = permuted[k] => i = k)'
  BY <1>6 DEF CopyInv
<1>11. copyOf' \in CopyKinds /\ dimRows' \in Nat \ {0} /\ shuffled' \in Nat /\ copyOf' # "zip_to_gmt" /\ shuffled' = IDCount'
  BY <1>6 DEF CopyInv
<1> QED
  BY <1>7, <1>8, <1>9, <1>10, <1>11 DEF CopyInv

LEMMA CopyInvRow == CopyInv /\ CopyRow => CopyInv'
<1> SUFFICES ASSUME CopyInv, CopyRow PROVE CopyInv'
  OBVIOUS
<1> DEFINE n == Len(copied)
           Made(k) == [row |-> k, id |-> Printed(k)]
<1>1. /\ copyOf \in History \union Plain /\ shuffled = IDCount /\ n < CopyRows
      /\ UNCHANGED <<copyOf, dimRows, permuted, shuffled>>
  BY DEF CopyRow
<1>2. PICK k \in RowsOfId(getPermutationEntry(n + 1)) : copied' = Append(copied, Made(k))
  BY DEF CopyRow
<1>3. copyOf # "zip_to_gmt" /\ copyOf # "customer"
  BY <1>1 DEF History, Plain
<1>4. n + 1 \in 1 .. IDCount
  <2>1. n \in Nat /\ IDCount \in Nat /\ CopyRows \in Nat /\ CopyRows <= IDCount
    BY <1>3, CopyCounts DEF CopyInv
  <2> QED  BY <1>1, <2>1
<1>5. NameIn(Made(k)) = MemberAt(n + 1) /\ k \in Int /\ Printed(k) \in Int
  BY <1>1, <1>2, <1>4, MemberCopied
<1>6. Made(k) \in CopiedRows
  BY <1>5 DEF CopiedRows
<1> HIDE DEF Made
<1> QED
  BY <1>1, <1>2, <1>3, <1>5, <1>6, NextCopied

LEMMA CopyInvCustomer == CopyInv /\ CopyCustomer => CopyInv'
<1> SUFFICES ASSUME CopyInv, CopyCustomer PROVE CopyInv'
  OBVIOUS
<1> DEFINE n == Len(copied)
           Made(key) == [id |-> getPermutationEntry(n + 1), key |-> key, demographics |-> Demographics(key)]
<1>1. /\ copyOf = "customer" /\ shuffled = IDCount /\ n < CopyRows
      /\ UNCHANGED <<copyOf, dimRows, permuted, shuffled>>
  BY DEF CopyCustomer
<1>2. PICK key \in DemoKeys : copied' = Append(copied, Made(key))
  BY DEF CopyCustomer
<1>3. copyOf # "zip_to_gmt" /\ copyOf \notin History /\ copyOf # "call_center"
  BY <1>1 DEF History
<1>4. n \in 0 .. IDCount - 1
  <2>1. n \in Nat /\ IDCount \in Nat /\ CopyRows \in Nat /\ CopyRows <= IDCount
    BY <1>3, CopyCounts DEF CopyInv
  <2> QED  BY <1>1, <2>1
<1>5. getPermutationEntry(n + 1) \in Int
  <2>1. permuted[n] \in 0 .. IDCount - 1 /\ (n + 1) - 1 = n
    BY <1>4 DEF CopyInv
  <2> QED  BY <2>1 DEF getPermutationEntry
<1>6. /\ Made(key) \in CopiedRows /\ Made(key).key = key /\ Made(key).demographics = Demographics(key)
      /\ Made(key).id = getPermutationEntry(n + 1)
  BY <1>5 DEF CopiedRows
<1>7. NameIn(Made(key)) = MemberAt(n + 1)
  <2> HIDE DEF Made
  <2> QED  BY <1>3, <1>6 DEF NameIn, MemberAt
<1> HIDE DEF Made
<1> QED
  BY <1>1, <1>2, <1>3, <1>6, <1>7, NextCopied

LEMMA CopyInvZip == CopyInv /\ CopyZip => CopyInv'
<1> SUFFICES ASSUME CopyInv, CopyZip PROVE CopyInv'
  OBVIOUS
<1>1. copyOf = "zip_to_gmt" /\ Len(copied) < CopyRows /\ UNCHANGED <<copyOf, dimRows, permuted, shuffled>>
  BY DEF CopyZip
<1>2. PICK k \in ZipRows : copied' = <<[zip |-> k - 1, entry |-> ZipEntry(k - 1)]>>
  BY DEF CopyZip
<1> DEFINE zip == k - 1
           row == [zip |-> zip, entry |-> ZipEntry(zip)]
<1>3. zip \in 0 .. LastZip
  <2>1. k \in Nat \ {0} /\ k - 1 <= LastZip /\ LastZip \in Nat
    BY CopiesAssumption, Zips
  <2> QED  BY <2>1
<1> HIDE DEF zip
<1>4. ZipEntry(zip) \in Int
  BY <1>3, ZipFound, Zips
<1>5. row \in CopiedRows /\ row.zip = zip /\ row.entry = ZipEntry(zip)
  BY <1>3, <1>4 DEF CopiedRows
<1>6. copied' = <<row>>
  BY <1>2 DEF zip
<1> HIDE DEF row
<1>7. copied' \in Seq(CopiedRows) /\ Len(copied') = 1 /\ copied'[1] = row /\ \A n \in 1 .. Len(copied') : n = 1
  BY <1>5, <1>6
<1>8. /\ copyOf' = copyOf /\ dimRows' = dimRows /\ permuted' = permuted /\ shuffled' = shuffled
      /\ IDCount' = IDCount /\ CopyRows' = CopyRows /\ CopyRows = 1
  BY <1>1 DEF IDCount, CopyRows
<1>9. (\A n \in 1 .. Len(copied) : copied[n].zip \in 0 .. LastZip /\ copied[n].entry = ZipEntry(copied[n].zip))'
  <2>1. \A n \in 1 .. Len(copied') : copied'[n].zip \in 0 .. LastZip /\ copied'[n].entry = ZipEntry(copied'[n].zip)
    BY <1>3, <1>5, <1>7
  <2> QED  BY <2>1 DEF ZipEntry
<1>10. (copied \in Seq(CopiedRows) /\ Len(copied) <= CopyRows)'
  <2>1. CopiedRows' = CopiedRows
    BY DEF CopiedRows
  <2> HIDE DEF CopyRows
  <2> QED  BY <1>7, <1>8, <2>1
<1>11. (permuted \in [0 .. IDCount - 1 -> 0 .. IDCount - 1]
        /\ \A i, j \in 0 .. IDCount - 1 : permuted[i] = permuted[j] => i = j)'
  BY <1>8 DEF CopyInv
<1>12. copyOf' = "zip_to_gmt" /\ copyOf' \in CopyKinds /\ dimRows' \in Nat \ {0} /\ shuffled' \in Nat
  BY <1>1, <1>8 DEF CopyInv
<1> QED
  BY <1>9, <1>10, <1>11, <1>12 DEF CopyInv

(* Each row of a copy is of the next entry of a permutation that no longer *)
(* changes.                                                                *)
THEOREM CopyInvariant == CopySpec => []CopyInv
<1>1. CopyInv /\ [CopyNext]_copyVars => CopyInv'
  <2> SUFFICES ASSUME CopyInv, [CopyNext]_copyVars PROVE CopyInv'
    OBVIOUS
  <2>1. CASE ShuffleIds
    BY <2>1, CopyInvShuffle
  <2>2. CASE CopyRow
    BY <2>2, CopyInvRow
  <2>3. CASE CopyCustomer
    BY <2>3, CopyInvCustomer
  <2>4. CASE CopyZip
    BY <2>4, CopyInvZip
  <2>5. CASE UNCHANGED copyVars
    <3>1. /\ copyOf' = copyOf /\ dimRows' = dimRows /\ permuted' = permuted /\ shuffled' = shuffled /\ copied' = copied
          /\ IDCount' = IDCount /\ CopyRows' = CopyRows
      BY <2>5 DEF copyVars, IDCount, CopyRows
    <3> QED  BY <3>1 DEF CopyInv, CopiedRows, NameIn, MemberAt, getPermutationEntry, Demographics, ZipEntry
  <2> QED  BY <2>1, <2>2, <2>3, <2>4, <2>5 DEF CopyNext
<1> QED
  BY <1>1, CopyInvInit, PTL DEF CopySpec

(* What a copy names is in the warehouse, for any number of rows of the    *)
(* dimension, whatever the permutation and the revisions drawn; no two     *)
(* keys of customer_demographics have the same attributes; and any zip of  *)
(* an address has a row that is printed.                                   *)
THEOREM CopiesAlwaysFit == CopySpec => []CopiesFit
<1>1. CopyInv => CopiesFit
  <2> SUFFICES ASSUME CopyInv PROVE CopiesFit
    OBVIOUS
  <2> DEFINE n == Len(copied)
  <2>1. n \in Nat /\ DOMAIN copied = 1 .. n /\ IDCount \in Nat \ {0} /\ (copyOf # "zip_to_gmt" => n <= IDCount)
    BY CopyCounts DEF CopyInv
  <2>2. ASSUME copyOf # "zip_to_gmt"
        PROVE  /\ \A i \in DOMAIN copied : NameIn(copied[i]) \in Members
               /\ \A i, j \in DOMAIN copied : NameIn(copied[i]) = NameIn(copied[j]) => i = j
    <3>1. \A i \in 1 .. n : NameIn(copied[i]) = MemberAt(i) /\ i - 1 \in 0 .. IDCount - 1 /\ i \in Nat
      BY <2>1, <2>2 DEF CopyInv
    <3>2. \A i \in 1 .. n : getPermutationEntry(i) \in 1 .. IDCount /\ getPermutationEntry(i) \in Nat \ {0}
      <4> TAKE i \in 1 .. n
      <4>0. permuted \in [0 .. IDCount - 1 -> 0 .. IDCount - 1]
        BY Zenon DEF CopyInv
      <4>1. permuted[i - 1] \in 0 .. IDCount - 1
        BY <3>1, <4>0
      <4> QED
        BY <2>1, <4>1 DEF getPermutationEntry
    <3>3. \A i, j \in 1 .. n : getPermutationEntry(i) = getPermutationEntry(j) => i = j
      <4> SUFFICES ASSUME NEW i \in 1 .. n, NEW j \in 1 .. n, getPermutationEntry(i) = getPermutationEntry(j)
                   PROVE  i = j
        OBVIOUS
      <4>1. permuted[i - 1] \in Int /\ permuted[j - 1] \in Int
        BY <2>1, <3>1 DEF CopyInv
      <4>2. permuted[i - 1] = permuted[j - 1]
        BY <4>1 DEF getPermutationEntry
      <4>3. i - 1 = j - 1
        BY <3>1, <4>2 DEF CopyInv
      <4> QED  BY <4>3
    <3>4. CASE copyOf \in History
      <4>1. \A i \in 1 .. n : MemberAt(i) = FirstSK(getPermutationEntry(i))
        BY <3>4 DEF MemberAt
      <4>2. \A i \in 1 .. n : FirstSK(getPermutationEntry(i)) \in Members
        <5> TAKE i \in 1 .. n
        <5> DEFINE id == getPermutationEntry(i)
        <5>1. id \in 1 .. IdCount(dimRows) /\ id \in Nat \ {0} /\ dimRows \in Nat
          BY <3>2, <3>4 DEF IDCount, CopyInv
        <5> HIDE DEF id
        <5>2. FirstSK(id) \in 1 .. dimRows
          BY <5>1, FirstSKExists
        <5>3. FirstSK(id) \in AnySK(id)
          <6>1. FirstSK(id) \in Nat /\ id % 3 \in 0 .. 2
            BY <5>1, FirstSKNat
          <6>2. Span(id) \in 1 .. 3 /\ AnySK(id) = FirstSK(id) .. FirstSK(id) + Span(id) - 1
            BY <5>1, <6>1, SpanType DEF AnySK, Span
          <6> QED  BY <6>1, <6>2
        <5>4. BKey(FirstSK(id)) = FirstSK(id)
          BY <5>1, <5>3, KeyOfAnyRow
        <5> QED  BY <3>4, <5>2, <5>4 DEF Members, id
      <4>3. \A i, j \in 1 .. n : FirstSK(getPermutationEntry(i)) = FirstSK(getPermutationEntry(j)) => i = j
        BY <3>2, <3>3, FirstSKDistinct
      <4> QED  BY <2>1, <3>1, <4>1, <4>2, <4>3
    <3>5. CASE copyOf \notin History
      <4>1. \A i \in 1 .. n : MemberAt(i) = getPermutationEntry(i)
        BY <3>5 DEF MemberAt
      <4>2. Members = 1 .. IDCount
        BY <3>5 DEF Members, IDCount
      <4> QED  BY <2>1, <3>1, <3>2, <3>3, <4>1, <4>2
    <3> QED  BY <3>4, <3>5
  <2>3. ASSUME copyOf = "customer", NEW i \in DOMAIN copied
        PROVE  {key \in DemoKeys : Demographics(key) = copied[i].demographics} = {copied[i].key}
    <3>1. copied[i].key \in DemoKeys /\ copied[i].demographics = Demographics(copied[i].key)
      BY <2>1, <2>3 DEF CopyInv
    <3>2. \A k, l \in DemoKeys : Demographics(k) = Demographics(l) => k = l
      <4>1. DemoKeys \subseteq 1 .. DemoRows
        BY CopiesAssumption
      <4> QED  BY <4>1, AttributesOfOneKey
    <3> QED  BY <3>1, <3>2
  <2>4. ASSUME copyOf = "zip_to_gmt"
        PROVE  /\ AddressZips \subseteq 0 .. LastZip
               /\ \A i \in DOMAIN copied : copied[i].zip \in AddressZips => copied[i].entry > 1
    <3>1. AddressZips \subseteq 0 .. LastZip
      BY ZipInUse, Zips
    <3>2. \A i \in DOMAIN copied : copied[i].entry = ZipEntry(copied[i].zip)
      BY <2>1, <2>4 DEF CopyInv
    <3> QED  BY <3>1, <3>2, ZipHasRow
  <2> QED  BY <2>2, <2>3, <2>4 DEF CopiesFit
<1> QED
  BY <1>1, CopyInvariant, PTL

-----------------------------------------------------------------------------
\* Joins

Histories == {"call_center", "item", "store", "web_page", "web_site"}

(* Ids and rows of a dimension are those of the lemmas above, and its days *)
(* numbers.                                                                *)
LEMMA DimIs ==
  ASSUME NEW t, NEW id, NEW n
  PROVE  Dim(t)!FirstSK(id) = FirstSK(id) /\ Dim(t)!IdCount(n) = IdCount(n)
  BY DEF Dim!FirstSK, Dim!IdCount, FirstSK, IdCount

LEMMA DimDays ==
  ASSUME NEW t
  PROVE  Dim(t)!H1Day = 2451910 /\ Dim(t)!T1Day = 2451545 /\ Dim(t)!T2Day = 2452275
<1>1. 2190 \div 2 = 1095 /\ 2190 \div 3 = 730
  OBVIOUS
<1> QED  BY <1>1 DEF Dim!H1Day, Dim!T1Day, Dim!T2Day, DATA_START_DATE, DATA_END_DATE

LEMMA DrawnId ==
  ASSUME NEW t \in Histories, NEW id \in IdsOf[t]
  PROVE  /\ RowsOf[t] \in Nat \ {0} /\ NumberOf[t] \in Nat /\ id \in Nat \ {0}
         /\ id \in 1 .. IdCount(RowsOf[t]) /\ FirstSK(id) \in 1 .. RowsOf[t]
<1>1. RowsOf[t] \in Nat /\ NumberOf[t] \in Nat /\ IdsOf[t] \subseteq 1 .. Dim(t)!IdCount(RowsOf[t])
  BY JoinsAssumption DEF Histories
<1>2. id \in 1 .. IdCount(RowsOf[t]) /\ IdCount(RowsOf[t]) \in Nat
  BY <1>1, DimIs, IdCountNat
<1>3. FirstSK(id) \in 1 .. RowsOf[t]
  BY <1>1, <1>2, FirstSKExists
<1> QED  BY <1>1, <1>2, <1>3

(* The days of the row of a dimension.                                     *)
LEMMA DaysOfRevision ==
  ASSUME NEW t, NumberOf[t] \in Nat, NEW a \in Nat, NEW c \in 1 .. 6, NEW k, k = 6 * a + c
  PROVE  /\ c \in {1, 2, 4} => Dim(t)!BeginDay(k) = DATA_START_DATE - 6 * NumberOf[t]
         /\ c = 3 => Dim(t)!BeginDay(k) = 2451911 - 6 * NumberOf[t]
         /\ c = 5 => Dim(t)!BeginDay(k) = 2451546 - 6 * NumberOf[t]
         /\ c = 6 => Dim(t)!BeginDay(k) = 2452276 - 6 * NumberOf[t]
         /\ c \in {1, 3, 6} => Dim(t)!EndDay(k) = Nil
         /\ c = 2 => Dim(t)!EndDay(k) = 2451910 - 6 * NumberOf[t]
         /\ c = 4 => Dim(t)!EndDay(k) = 2451545 - 6 * NumberOf[t]
         /\ c = 5 => Dim(t)!EndDay(k) = 2452275 - 6 * NumberOf[t]
<1>1. k % 6 = IF c = 6 THEN 0 ELSE c
  OBVIOUS
<1>2. \A day \in Nat : Dim(t)!Shifted(day) = day - 6 * NumberOf[t]
  BY DEF Dim!Shifted
<1> QED  BY <1>1, <1>2, DimDays DEF Dim!BeginDay, Dim!EndDay, Dim!Open, Nil, DATA_START_DATE

(* The row that is found is that of the day.                               *)
LEMMA MatchFits ==
  ASSUME NEW t \in Histories, NEW id \in IdsOf[t], NEW day \in DATA_START_DATE .. TODAYS_DATE
  PROVE  ValidFor(t, Dim(t)!MatchSK(id, day, RowsOf[t]), day)
<1> DEFINE n == RowsOf[t]
           N == NumberOf[t]
           sk == Dim(t)!MatchSK(id, day, n)
           then == day - 6 * N
<1>1. n \in Nat \ {0} /\ N \in Nat /\ id \in Nat \ {0} /\ FirstSK(id) \in 1 .. n
  BY DrawnId
<1>2. PICK a \in Nat, b \in 1 .. 3 : id = 3 * a + b
  BY <1>1, IdParts
<1>3. FirstSK(id) = 6 * a + (CASE b = 1 -> 1 [] b = 2 -> 2 [] b = 3 -> 4)
  BY <1>2, FirstSKParts
<1>4. id % 3 = IF b = 3 THEN 0 ELSE b
  BY <1>2
<1>5. Dim(t)!Revision(id, day) =
        CASE b = 1 -> 0
          [] b = 2 -> IF day > 2451910 THEN 1 ELSE 0
          [] b = 3 -> IF day > 2452275 THEN 2 ELSE IF day > 2451545 THEN 1 ELSE 0
  BY <1>4, DimDays DEF Dim!Revision
<1>6. day \in Nat /\ DATA_START_DATE <= day /\ then \in Int
  BY <1>1 DEF DATA_START_DATE, TODAYS_DATE
<1> DEFINE r == Dim(t)!Revision(id, day)
<1>7. r \in 0 .. 2 /\ r < b
  BY <1>5
<1>8. sk = IF FirstSK(id) + r > n THEN n ELSE FirstSK(id) + r
  BY DimIs DEF Dim!MatchSK
<1> HIDE DEF r, sk
<1>9. sk \in 1 .. n /\ FirstSK(id) <= sk /\ sk <= FirstSK(id) + r
      /\ (sk < FirstSK(id) + r => sk = n)
  BY <1>1, <1>7, <1>8
<1>10. \E e \in 0 .. r : sk = FirstSK(id) + e /\ (e < r => sk = n)
  <2>1. sk - FirstSK(id) \in 0 .. r /\ sk = FirstSK(id) + (sk - FirstSK(id))
        /\ (sk - FirstSK(id) < r => sk = n)
    BY <1>1, <1>7, <1>9
  <2> QED  BY <2>1
<1>11. PICK e \in 0 .. r : sk = FirstSK(id) + e /\ (e < r => sk = n)
  BY <1>10
<1>12. \E c \in 1 .. 6 : /\ sk = 6 * a + c
                         /\ c = (CASE b = 1 -> 1 [] b = 2 -> 2 [] b = 3 -> 4) + e
  <2>1. CASE b = 1  BY <1>3, <1>7, <1>11, <2>1
  <2>2. CASE b = 2  BY <1>3, <1>7, <1>11, <2>2
  <2>3. CASE b = 3  BY <1>3, <1>7, <1>11, <2>3
  <2> QED  BY <2>1, <2>2, <2>3
<1>13. PICK c \in 1 .. 6 : /\ sk = 6 * a + c
                           /\ c = (CASE b = 1 -> 1 [] b = 2 -> 2 [] b = 3 -> 4) + e
  BY <1>12
<1>14. sk % 6 = IF c = 6 THEN 0 ELSE c
  BY <1>13
<1>15. /\ c \in {1, 2, 4} => Dim(t)!BeginDay(sk) = DATA_START_DATE - 6 * N
       /\ c = 3 => Dim(t)!BeginDay(sk) = 2451911 - 6 * N
       /\ c = 5 => Dim(t)!BeginDay(sk) = 2451546 - 6 * N
       /\ c = 6 => Dim(t)!BeginDay(sk) = 2452276 - 6 * N
       /\ c \in {1, 3, 6} => Dim(t)!EndDay(sk) = Nil
       /\ c = 2 => Dim(t)!EndDay(sk) = 2451910 - 6 * N
       /\ c = 4 => Dim(t)!EndDay(sk) = 2451545 - 6 * N
       /\ c = 5 => Dim(t)!EndDay(sk) = 2452275 - 6 * N
  BY <1>1, <1>13, DaysOfRevision
<1> DEFINE B == Dim(t)!BeginDay(sk)
           E == Dim(t)!EndDay(sk)
<1> HIDE DEF B, E, n, N, then
<1>16. B <= then /\ (E = Nil \/ then <= E \/ (sk = n /\ sk % 6 \in {2, 4, 5}))
  <2>1. then = day - 6 * N
    BY DEF then
  <2>2. r = CASE b = 1 -> 0
              [] b = 2 -> IF day > 2451910 THEN 1 ELSE 0
              [] b = 3 -> IF day > 2452275 THEN 2 ELSE IF day > 2451545 THEN 1 ELSE 0
    BY <1>5 DEF r
  <2>3. N \in Nat /\ day \in Nat
    BY <1>1, <1>6
  <2>4. /\ c \in {1, 2, 4} => B = DATA_START_DATE - 6 * N
        /\ c = 3 => B = 2451911 - 6 * N
        /\ c = 5 => B = 2451546 - 6 * N
        /\ c = 6 => B = 2452276 - 6 * N
        /\ c \in {1, 3, 6} => E = Nil
        /\ c = 2 => E = 2451910 - 6 * N
        /\ c = 4 => E = 2451545 - 6 * N
        /\ c = 5 => E = 2452275 - 6 * N
    BY <1>15 DEF B, E
  <2>5. DATA_START_DATE = 2450815
    BY DEF DATA_START_DATE
  <2>6. CASE b = 1
    BY <1>6, <1>11, <1>13, <2>1, <2>2, <2>3, <2>4, <2>5, <2>6
  <2>7. CASE b = 2
    BY <1>6, <1>11, <1>13, <1>14, <2>1, <2>2, <2>3, <2>4, <2>5, <2>7
  <2>8. CASE b = 3
    BY <1>6, <1>11, <1>13, <1>14, <2>1, <2>2, <2>3, <2>4, <2>5, <2>8
  <2> QED  BY <2>6, <2>7, <2>8
<1>17. sk \in 1 .. n
  BY <1>9
<1> QED  BY <1>16, <1>17 DEF ValidFor, LastCutOff, B, E, n, N, then, sk

LEMMA JoinFits ==
  ASSUME NEW t \in Histories, NEW id \in IdsOf[t], NEW day \in DATA_START_DATE .. TODAYS_DATE
  PROVE  ValidFor(t, scd_join(t, id, day), day)
<1>1. ~(day > DATA_END_DATE)
  BY DEF DATA_START_DATE, TODAYS_DATE, DATA_END_DATE
<1>2. ValidFor(t, Dim(t)!MatchSK(id, day, RowsOf[t]), day)
  BY MatchFits
<1>3. Dim(t)!MatchSK(id, day, RowsOf[t]) \in 1 .. RowsOf[t] /\ RowsOf[t] \in Nat
  BY <1>2, DrawnId DEF ValidFor
<1>4. ~(Dim(t)!MatchSK(id, day, RowsOf[t]) > RowsOf[t])
  BY <1>3
<1> QED  BY <1>1, <1>2, <1>4 DEF scd_join

(* As of day 1, a store is in its first revision.                          *)
LEMMA StoreJoins ==
  ASSUME NEW id \in IdsOf["store"]
  PROVE  scd_join("store", id, 1) = Dim("store")!FirstSK(id)
<1>1. "store" \in Histories
  BY DEF Histories
<1>2. /\ RowsOf["store"] \in Nat /\ id \in Nat \ {0} /\ FirstSK(id) \in 1 .. RowsOf["store"]
  BY <1>1, DrawnId
<1>3. id % 3 \in 0 .. 2
  BY <1>2
<1>4. Dim("store")!Revision(id, 1) = 0
  BY <1>3, DimDays DEF Dim!Revision
<1>5. Dim("store")!MatchSK(id, 1, RowsOf["store"]) = FirstSK(id)
  BY <1>2, <1>4, DimIs DEF Dim!MatchSK
<1> QED  BY <1>2, <1>5, DimIs DEF scd_join, DATA_END_DATE


(* Of so many pages there are those of six years of catalogs.              *)
LEMMA PagesOfCatalogs ==
  ASSUME NEW page \in Pages
  PROVE  /\ PagePerCatalog \in Nat \ {0} /\ page \in 1 .. PagePerCatalog
         /\ 108 * PagePerCatalog <= RowsOf["catalog_page"] /\ RowsOf["catalog_page"] \in Nat
<1> DEFINE n == RowsOf["catalog_page"]
<1>1. n \in Nat /\ page \in 1 .. PagePerCatalog
  BY JoinsAssumption
<1> HIDE DEF n
<1>2. PagePerCatalog = (n \div 18) \div 6
  BY DEF PagePerCatalog, n, CP_CATALOGS_PER_YEAR
<1>3. n \div 18 \in Nat /\ 18 * (n \div 18) <= n
  BY <1>1
<1>4. (n \div 18) \div 6 \in Nat /\ 6 * ((n \div 18) \div 6) <= n \div 18
  BY <1>3
<1> DEFINE q == n \div 18
           p == q \div 6
<1>5. p \in Nat /\ q \in Nat /\ 6 * p <= q /\ 18 * q <= n
  BY <1>3, <1>4
<1> HIDE DEF p, q
<1>6. p \in Nat /\ 108 * p <= n
  BY <1>1, <1>5
<1>7. PagePerCatalog = p
  BY <1>2 DEF p, q
<1>8. p # 0
  BY <1>1, <1>6, <1>7
<1> QED  BY <1>1, <1>6, <1>7, <1>8 DEF n

(* The number of a row that is the p-th page of the catalog after c.       *)
Placed(m, c, p) ==
  /\ (c * m + p - 1) \div m = c
  /\ (c * m + p) \div m = IF p = m THEN c + 1 ELSE c
  /\ (c * m + p) % m = 0 <=> p = m

LEMMA PlaceOfPage ==
  ASSUME NEW m \in Nat \ {0}, NEW c \in Nat, NEW p \in 1 .. m
  PROVE  Placed(m, c, p)
<1>1. c * m \in Nat /\ m * c = c * m /\ m * (c + 1) = c * m + m
  OBVIOUS
<1>2. \A x \in Nat, q \in Nat, r \in 0 .. m - 1 : x = m * q + r => x \div m = q /\ x % m = r
  OBVIOUS
<1>3. (c * m + p - 1) \div m = c
  <2>1. c * m + p - 1 \in Nat /\ p - 1 \in 0 .. m - 1 /\ c * m + p - 1 = m * c + (p - 1)
    BY <1>1
  <2> QED  BY <1>2, <2>1
<1>4. CASE p = m
  <2>1. c * m + p \in Nat /\ 0 \in 0 .. m - 1 /\ c + 1 \in Nat /\ c * m + p = m * (c + 1) + 0
    BY <1>1, <1>4
  <2> QED  BY <1>2, <1>3, <1>4, <2>1 DEF Placed
<1>5. CASE p # m
  <2>1. c * m + p \in Nat /\ p \in 0 .. m - 1 /\ c * m + p = m * c + p
    BY <1>1, <1>5
  <2> QED  BY <1>2, <1>3, <1>5, <2>1 DEF Placed
<1> QED  BY <1>4, <1>5 DEF Placed

(* Days, by their year and the offset in it.                               *)
LEMMA DaysOfYears ==
  ASSUME NEW day \in DATA_START_DATE .. TODAYS_DATE
  PROVE  /\ YearsBefore(day) \in 0 .. 5 /\ YearOffset(day) \in -1 .. 364
         /\ day = DATA_START_DATE + 1 + 365 * YearsBefore(day) + YearOffset(day)
<1>1. DATA_START_DATE = 2450815 /\ TODAYS_DATE = 2452648
  BY DEF DATA_START_DATE, TODAYS_DATE
<1>2. CASE day = DATA_START_DATE
  BY <1>1, <1>2 DEF YearsBefore, YearOffset
<1>3. CASE day # DATA_START_DATE
  <2>1. day - 2450815 - 1 \in 0 .. 1832
    BY <1>1, <1>3
  <2>2. \A x \in 0 .. 1832 : x \div 365 \in 0 .. 5 /\ x % 365 \in 0 .. 364 /\ x = 365 * (x \div 365) + (x % 365)
    OBVIOUS
  <2>3. YearsBefore(day) = (day - 2450815 - 1) \div 365 /\ YearOffset(day) = (day - 2450815 - 1) % 365
    BY <1>1, <1>3 DEF YearsBefore, YearOffset
  <2> QED  BY <1>1, <2>1, <2>2, <2>3
<1> QED  BY <1>2, <1>3

LEMMA CountOfType ==
  ASSUME NEW type \in PageTypes, NEW offset \in -1 .. 364
  PROVE  /\ type = "bi-annual" => CountInYear(type, offset) = IF offset > 183 THEN 1 ELSE 0
         /\ type = "quarterly" => CountInYear(type, offset) \in 0 .. 4
         /\ type = "monthly" => CountInYear(type, offset) \in 0 .. 11
<1>1. \A x \in 0 .. 364 : x \div 91 \in 0 .. 4 /\ x \div 31 \in 0 .. 11
  OBVIOUS
<1>2. offset < 0 \/ offset \in 0 .. 364
  OBVIOUS
<1> QED  BY <1>1, <1>2 DEF PageTypes, CountInYear

(* A page of a catalog, of the year of the sale, and its number.           *)
LEMMA PageJoins ==
  ASSUME NEW type \in PageTypes, NEW page \in Pages, NEW day \in DATA_START_DATE .. TODAYS_DATE
  PROVE  LET sk == cp_join(type, page, day)
         IN  /\ PageFits(type, sk, day) /\ sk \in Nat
             /\ CatalogPage(sk).number - getCatalogNumberFromPage(sk) =
                  IF sk % PagePerCatalog = 0 THEN 0 ELSE 1
<1> DEFINE sk == cp_join(type, page, day)
           m == PagePerCatalog
           y == YearsBefore(day)
           k == CountInYear(type, YearOffset(day))
           c == y * 18 + k
           n == RowsOf["catalog_page"]
<1>1. m \in Nat \ {0} /\ page \in 1 .. m /\ n \in Nat /\ 108 * m <= n
  BY PagesOfCatalogs
<1>2. y \in 0 .. 5 /\ YearOffset(day) \in -1 .. 364
      /\ day = 2450815 + 1 + 365 * y + YearOffset(day)
  BY DaysOfYears DEF DATA_START_DATE
<1>3. /\ type = "bi-annual" => k = IF YearOffset(day) > 183 THEN 1 ELSE 0
      /\ type = "quarterly" => k \in 0 .. 4
      /\ type = "monthly" => k \in 0 .. 11
  BY <1>2, CountOfType
<1>4. sk = c * m + page
  BY DEF cp_join, CP_CATALOGS_PER_YEAR
<1> HIDE DEF sk, m, y, k, n
<1>5. k \in 0 .. 11 /\ c \in 0 .. 101
  BY <1>2, <1>3 DEF PageTypes
<1> HIDE DEF c
<1>6. c * m \in Nat /\ c * m <= 101 * m
  BY <1>1, <1>5
<1>7. sk \in 1 .. n
  BY <1>1, <1>4, <1>6
<1>8. (sk - 1) \div m = c /\ sk \div m = (IF page = m THEN c + 1 ELSE c) /\ (sk % m = 0 <=> page = m)
  <2>1. m \in Nat \ {0} /\ c \in Nat /\ page \in 1 .. m
    BY <1>1, <1>5
  <2> HIDE DEF c
  <2>2. Placed(m, c, page)
    BY <2>1, PlaceOfPage
  <2>3. sk - 1 = c * m + (page - 1)
    BY <1>1, <1>4, <1>6
  <2> QED  BY <1>4, <2>2, <2>3 DEF Placed
<1>9. c \div 18 = y /\ c % 18 = k
  BY <1>2, <1>5 DEF c
<1> DEFINE type2 == CASE k \in 0 .. 1 -> "bi-annual"
                      [] k \in 2 .. 5 -> "quarterly"
                      [] OTHER -> "monthly"
           start2 == 2450815 + (CASE type2 = "bi-annual" -> k * 182
                                  [] type2 = "quarterly" -> (k - 2) * 91
                                  [] type2 = "monthly" -> (k - 6) * 30) + y * 365
<1>10. /\ CatalogPage(sk).number = c + 1
       /\ k \in 0 .. 1 => /\ CatalogPage(sk).type = "bi-annual"
                          /\ CatalogPage(sk).start = 2450815 + k * 182 + y * 365
                          /\ CatalogPage(sk).end = CatalogPage(sk).start + 181
  <2>1. (c + 1) - 1 = c /\ (sk - 1) \div PagePerCatalog = c
    BY <1>5, <1>8 DEF m
  <2>2. CatalogPage(sk).number = c + 1
    BY <2>1 DEF CatalogPage
  <2>3. ASSUME k \in 0 .. 1
        PROVE  /\ CatalogPage(sk).type = "bi-annual"
               /\ CatalogPage(sk).start = 2450815 + k * 182 + y * 365
               /\ CatalogPage(sk).end = CatalogPage(sk).start + 182 - 1
    BY <1>9, <2>1, <2>3 DEF CatalogPage, CP_CATALOGS_PER_YEAR, DATA_START_DATE
  <2>4. k \in 0 .. 1 => CatalogPage(sk).start \in Int
    BY <1>2, <2>3
  <2> QED  BY <2>2, <2>3, <2>4
<1>11. /\ ((c + 1) - 1) \div 18 = y
       /\ type # "bi-annual" => (c + 1) % 18 \in 1 .. (IF type = "monthly" THEN 12 ELSE 5)
  <2>1. (c + 1) % 18 = k + 1
    BY <1>2, <1>5 DEF c
  <2>2. (c + 1) - 1 = c
    BY <1>5
  <2> QED  BY <1>3, <1>5, <1>9, <2>1, <2>2 DEF PageTypes
<1>12. type = "bi-annual" =>
         /\ CatalogPage(sk).type = type /\ CatalogPage(sk).start <= day
         /\ day <= CatalogPage(sk).end + 3
  BY <1>2, <1>3, <1>10
<1>13. PageFits(type, sk, day)
  BY <1>7, <1>10, <1>11, <1>12 DEF PageFits, CP_CATALOGS_PER_YEAR, y, n
<1>14. CatalogPage(sk).number - getCatalogNumberFromPage(sk) = IF sk % m = 0 THEN 0 ELSE 1
  BY <1>5, <1>8, <1>10 DEF getCatalogNumberFromPage, m
<1> QED  BY <1>7, <1>13, <1>14 DEF sk, m

(* A site opens with the data or before, and one that closes has done so   *)
(* before it opened.                                                       *)
LEMMA StaggeredBy ==
  ASSUME NEW x \in Nat
  PROVE  /\ nSiteDuration \in Nat \ {0}
         /\ Staggered(x) \in Int /\ Staggered(x) <= DATA_START_DATE
<1>1. nSiteDuration \in Nat \ {0}
  BY JoinsAssumption DEF nSiteDuration, DATE_MAXIMUM, DATA_START_DATE
<1>2. (x * 17) % nSiteDuration \in Nat
  BY <1>1
<1>3. ((x * 17) % nSiteDuration) \div 2 \in Nat
  BY <1>2
<1> QED  BY <1>1, <1>3 DEF Staggered, DATA_START_DATE

LEMMA SiteOpens ==
  ASSUME NEW site \in Nat
  PROVE  /\ SiteDays(site).open \in Int /\ SiteDays(site).open <= DATA_START_DATE
         /\ SiteDays(site).close # Nil => SiteDays(site).close < SiteDays(site).open
<1>1. /\ nSiteDuration \in Nat \ {0}
      /\ Staggered(site) \in Int /\ Staggered(site) <= DATA_START_DATE
  BY StaggeredBy
<1>2. OpenDay(site) = Staggered(site)
  BY <1>1 DEF OpenDay, nOffset
<1>3. nSiteDuration \div 2 \in Nat /\ nSiteDuration \div 2 < nSiteDuration
  BY <1>1
<1>4. CloseDay(site) < Staggered(site)
  BY <1>1, <1>3 DEF CloseDay, nParam
<1> QED  BY <1>1, <1>2, <1>4 DEF SiteDays

LEMMA PageCreated ==
  ASSUME NEW page \in Nat, NEW day \in Int, DATA_START_DATE < day
  PROVE  \A d \in CreationDays(page) : d < day
<1>1. page \div 123 + 1 \in Nat
  OBVIOUS
<1>2. Staggered(page \div 123 + 1) \in Int
  BY <1>1, StaggeredBy
<1> QED  BY <1>2 DEF CreationDays, DATA_START_DATE

(* The days of sales of stores and of the web.                             *)
LEMMA DrawnDays ==
  ASSUME NEW year \in 1998 .. 2002, NEW entry \in DrawnEntries(year)
  PROVE  /\ date_joinOfSale(year, entry) \in DATA_START_DATE .. TODAYS_DATE
         /\ DATA_START_DATE < date_joinOfSale(year, entry)
<1>1. entry \in Int /\ 1 <= entry /\ entry <= 366
  BY JoinsAssumption DEF DrawnEntries
<1>2. NewYear(year) \in 2450815 .. 2452276
  BY SMT DEF NewYear, DATA_START_DATE
<1> DEFINE ny == NewYear(year)
<1> HIDE DEF ny
<1>3. ny + entry \in 2450816 .. 2452642
  <2>1. ny \in Int /\ 2450815 <= ny /\ ny <= 2452276
    BY <1>2, SMT DEF ny
  <2> QED  BY <1>1, <2>1, SMT
<1>4. date_joinOfSale(year, entry) = NewYear(year) + entry
  BY <1>3, SMT DEF date_joinOfSale, TODAYS_DATE, ny
<1> QED  BY <1>3, <1>4, SMT DEF ny, DATA_START_DATE, TODAYS_DATE

-----------------------------------------------------------------------------
\* Orders, lines and returns

LEMMA ChannelsAre ==
  /\ DOMAIN ShipDelay = {"store", "catalog", "web"}
  /\ DOMAIN LinesOf = {"s_purchase", "s_web_order", "s_catalog_order"}
  BY DEF ShipDelay, LinesOf

LEMMA DelayIs ==
  ASSUME NEW channel \in {"store", "catalog", "web"}, NEW lag \in {1, 2}
  PROVE  ShipDelay[channel][lag] \in Nat \ {0}
  BY DEF ShipDelay

LEMMA DatesAre == DATA_START_DATE \in Nat /\ TODAYS_DATE \in Nat
  BY DEF DATA_START_DATE, TODAYS_DATE

OrderFits(o) ==
  /\ o.day \in DATA_START_DATE .. TODAYS_DATE
  /\ o.channel \in {"store", "web"} => DATA_START_DATE < o.day
  /\ o.channel = "catalog" => ValidFor("call_center", o.row, o.day)
  /\ o.channel = "store" => o.row \in {Dim("store")!FirstSK(id) : id \in IdsOf["store"]}
  /\ o.channel \in DOMAIN LinesOf => o.row \in 1 .. ItemIds

SaleLineFits(o, l) ==
  /\ l.ship > o.day
  /\ ValidFor("item", l.item, o.day)
  /\ o.channel = "catalog" => PageFits(l.type, l.page, o.day)
  /\ o.channel = "web" =>
       /\ ValidFor("web_page", l.page, o.day) /\ ValidFor("web_site", l.site, o.day)
       /\ \A day \in CreationDays(l.page) : day < o.day
       /\ SiteDays(l.site).open < o.day
       /\ SiteDays(l.site).close # Nil => SiteDays(l.site).close < SiteDays(l.site).open

\* An entry is the one that many behind that of the order, as long as the
\* permutation of items has one.
RefreshLineFits(o, l) ==
  /\ l.number \in Nat /\ l.entry \in Nat
  /\ o.channel # "s_web_order" => l.entry \in 1 .. ItemIds
  /\ o.channel = "s_web_order" =>
       o.row + l.number > ItemIds \/ (l.entry = o.row + l.number /\ l.entry \in 1 .. ItemIds)
  /\ l.ship # Nil => l.ship \in o.day .. TODAYS_DATE
  /\ l.page # Nil =>
       /\ l.page \in 1 .. RowsOf["catalog_page"]
       /\ CatalogPage(l.page).number - l.catalog = IF l.page % PagePerCatalog = 0 THEN 0 ELSE 1

LineFits(o, l) ==
  /\ l.ship \in Int
  /\ o.channel \in DOMAIN ShipDelay => SaleLineFits(o, l)
  /\ o.channel \in DOMAIN LinesOf => RefreshLineFits(o, l)

BackFits(o, l, b) ==
  /\ o.channel \in DOMAIN ShipDelay => b.day > (IF o.channel = "store" THEN o.day ELSE l.ship)
  /\ o.channel \in DOMAIN LinesOf => b.day >= (IF o.channel = "s_catalog_order" THEN l.ship ELSE o.day)

JoinInv ==
  /\ jorder # <<>> => OrderFits(jorder)
  /\ jline # <<>> => jorder # <<>> /\ LineFits(jorder, jline)
  /\ jback # <<>> => jline # <<>> /\ BackFits(jorder, jline, jback)

LEMMA InvJoinsFit == JoinInv => JoinsFit
<1> SUFFICES ASSUME JoinInv PROVE JoinsFit
  OBVIOUS
<1>1. SalesFit
  <2> SUFFICES ASSUME Sale PROVE /\ OrderFits(jorder)
                                 /\ jline # <<>> => SaleLineFits(jorder, jline)
                                 /\ jback # <<>> => BackFits(jorder, jline, jback)
    BY DEF SalesFit, OrderFits, SaleLineFits, BackFits, Sale
  <2> QED  BY DEF JoinInv, LineFits, Sale
<1>2. RefreshFits
  <2> SUFFICES ASSUME Refresh, jline # <<>>
               PROVE  /\ OrderFits(jorder) /\ RefreshLineFits(jorder, jline)
                      /\ jback # <<>> => BackFits(jorder, jline, jback)
    BY ChannelsAre DEF RefreshFits, OrderFits, RefreshLineFits, BackFits, Refresh
  <2> QED  BY DEF JoinInv, LineFits, Refresh
<1> QED  BY <1>1, <1>2 DEF JoinsFit

(* Orders.                                                                 *)
LEMMA SaleOrders == SaleOrder => OrderFits(jorder')
<1> SUFFICES ASSUME SaleOrder PROVE OrderFits(jorder')
  OBVIOUS
<1>1. \A c \in {"store", "web", "catalog"} : c \notin DOMAIN LinesOf
  BY ChannelsAre
<1>2. ASSUME NEW day \in WalkedDays, NEW id \in IdsOf["call_center"],
             jorder' = [channel |-> "catalog", day |-> day, row |-> scd_join("call_center", id, day)]
      PROVE  OrderFits(jorder')
  <2>1. day \in DATA_START_DATE .. TODAYS_DATE
    BY JoinsAssumption
  <2>2. ValidFor("call_center", scd_join("call_center", id, day), day)
    BY <2>1, JoinFits DEF Histories
  <2> QED  BY <1>1, <1>2, <2>1, <2>2 DEF OrderFits
<1>3. ASSUME NEW year \in 1998 .. 2002, NEW entry \in DrawnEntries(year), NEW id \in IdsOf["store"],
             jorder' = [channel |-> "store", day |-> date_joinOfSale(year, entry), row |-> scd_join("store", id, 1)]
      PROVE  OrderFits(jorder')
  <2>1. scd_join("store", id, 1) = Dim("store")!FirstSK(id)
    BY StoreJoins
  <2>2. /\ date_joinOfSale(year, entry) \in DATA_START_DATE .. TODAYS_DATE
        /\ DATA_START_DATE < date_joinOfSale(year, entry)
    BY DrawnDays
  <2> QED  BY <1>1, <1>3, <2>1, <2>2 DEF OrderFits
<1>4. ASSUME NEW year \in 1998 .. 2002, NEW entry \in DrawnEntries(year),
             jorder' = [channel |-> "web", day |-> date_joinOfSale(year, entry), row |-> Nil]
      PROVE  OrderFits(jorder')
  <2>1. /\ date_joinOfSale(year, entry) \in DATA_START_DATE .. TODAYS_DATE
        /\ DATA_START_DATE < date_joinOfSale(year, entry)
    BY DrawnDays
  <2> QED  BY <1>1, <1>4, <2>1 DEF OrderFits
<1> QED  BY <1>2, <1>3, <1>4 DEF SaleOrder

LEMMA ItemIdsIs ==
  /\ ItemIds \in Nat /\ IdsOf["item"] \subseteq 1 .. ItemIds
  /\ ItemIds = IdCount(RowsOf["item"])
<1>1. RowsOf["item"] \in Nat /\ IdsOf["item"] \subseteq 1 .. Dim("item")!IdCount(RowsOf["item"])
  BY JoinsAssumption
<1> QED  BY <1>1, DimIs, IdCountNat DEF ItemIds

LEMMA OrdersOfRefresh == RefreshOrder => OrderFits(jorder')
<1> SUFFICES ASSUME RefreshOrder PROVE OrderFits(jorder')
  OBVIOUS
<1>1. PICK channel \in DOMAIN LinesOf, day \in WalkedDays, entry \in IdsOf["item"] :
        jorder' = [channel |-> channel, day |-> day, row |-> entry]
  BY DEF RefreshOrder
<1>2. day \in DATA_START_DATE .. TODAYS_DATE /\ entry \in 1 .. ItemIds
  BY JoinsAssumption, ItemIdsIs
<1>3. channel \notin {"store", "web", "catalog"}
  BY ChannelsAre
<1> QED  BY <1>1, <1>2, <1>3 DEF OrderFits

(* Lines.                                                                  *)
LEMMA ValidRow ==
  ASSUME NEW t \in Histories, NEW sk, NEW day, ValidFor(t, sk, day), NEW id \in IdsOf[t]
  PROVE  sk \in Nat
<1>1. RowsOf[t] \in Nat
  BY DrawnId
<1> QED  BY <1>1 DEF ValidFor

LEMMA SaleLines == OrderFits(jorder) /\ SaleLine => LineFits(jorder, jline')
<1> SUFFICES ASSUME OrderFits(jorder), SaleLine PROVE LineFits(jorder, jline')
  OBVIOUS
<1> DEFINE day == jorder.day
<1>1. PICK id \in IdsOf["item"], lag \in {1, 2} :
        LET Line(type, page, site) ==
              [item |-> Dim("item")!MatchSK(id, day, RowsOf["item"]), type |-> type, page |-> page,
               site |-> site, ship |-> day + ShipDelay[jorder.channel][lag]]
        IN  \/ jorder.channel = "store" /\ jline' = Line("none", Nil, Nil)
            \/ jorder.channel = "catalog" /\ \E type \in PageTypes, page \in Pages :
                 jline' = Line(type, cp_join(type, page, day), Nil)
            \/ jorder.channel = "web" /\ \E page \in IdsOf["web_page"], site \in IdsOf["web_site"] :
                 jline' = Line("none", scd_join("web_page", page, day), scd_join("web_site", site, day))
  BY DEF SaleLine
<1>2. day \in DATA_START_DATE .. TODAYS_DATE /\ day \in Int
  BY DatesAre DEF OrderFits
<1>3. jorder.channel \in {"store", "catalog", "web"}
  BY <1>1
<1> DEFINE item == Dim("item")!MatchSK(id, day, RowsOf["item"])
           ship == day + ShipDelay[jorder.channel][lag]
<1>4. ShipDelay[jorder.channel][lag] \in Nat \ {0}
  BY <1>3, DelayIs
<1>5. ship \in Int /\ ship > day /\ ValidFor("item", item, day)
  BY <1>2, <1>4, MatchFits DEF Histories
<1>6. jorder.channel \notin DOMAIN LinesOf
  BY <1>3, ChannelsAre
<1>7. CASE jorder.channel = "store"
  <2>1. jline' = [item |-> item, type |-> "none", page |-> Nil, site |-> Nil, ship |-> ship]
    BY <1>1, <1>7
  <2> HIDE DEF item, ship
  <2> QED  BY <1>5, <1>6, <1>7, <2>1 DEF LineFits, SaleLineFits
<1>8. CASE jorder.channel = "catalog"
  <2>1. PICK type \in PageTypes, page \in Pages :
          jline' = [item |-> item, type |-> type, page |-> cp_join(type, page, day), site |-> Nil,
                    ship |-> ship]
    BY <1>1, <1>8
  <2>2. PageFits(type, cp_join(type, page, day), day)
    BY <1>2, PageJoins
  <2> HIDE DEF item, ship
  <2>3. /\ jline'.item = item /\ jline'.page = cp_join(type, page, day) /\ jline'.ship = ship
        /\ jline'.type = type
    BY <2>1
  <2> QED  BY <1>5, <1>6, <1>8, <2>2, <2>3 DEF LineFits, SaleLineFits
<1>9. CASE jorder.channel = "web"
  <2>1. PICK page \in IdsOf["web_page"], site \in IdsOf["web_site"] :
          jline' = [item |-> item, type |-> "none", page |-> scd_join("web_page", page, day),
                    site |-> scd_join("web_site", site, day), ship |-> ship]
    BY <1>1, <1>9
  <2> DEFINE p == scd_join("web_page", page, day)
             w == scd_join("web_site", site, day)
  <2>2. ValidFor("web_page", p, day) /\ ValidFor("web_site", w, day)
    BY <1>2, JoinFits DEF Histories
  <2>3. p \in Nat /\ w \in Nat
    BY <2>2, ValidRow DEF Histories
  <2>4. DATA_START_DATE < day /\ DATA_START_DATE \in Int
    BY <1>9, DatesAre DEF OrderFits
  <2> HIDE DEF p, w, item, ship
  <2>5. \A d \in CreationDays(p) : d < day
    BY <1>2, <2>3, <2>4, PageCreated
  <2>6. /\ SiteDays(w).open < day
        /\ SiteDays(w).close # Nil => SiteDays(w).close < SiteDays(w).open
    <3>1. /\ SiteDays(w).open \in Int /\ SiteDays(w).open <= DATA_START_DATE
          /\ SiteDays(w).close # Nil => SiteDays(w).close < SiteDays(w).open
      BY <2>3, SiteOpens
    <3> QED  BY <1>2, <2>4, <3>1
  <2>7. jline' = [item |-> item, type |-> "none", page |-> p, site |-> w, ship |-> ship]
    BY <2>1 DEF p, w
  <2> QED  BY <1>5, <1>6, <1>9, <2>2, <2>5, <2>6, <2>7 DEF LineFits, SaleLineFits
<1> QED  BY <1>3, <1>7, <1>8, <1>9

LEMMA RefreshLines ==
  OrderFits(jorder) /\ (jline # <<>> => LineFits(jorder, jline)) /\ RefreshLine
    => LineFits(jorder, jline')
<1> DEFINE first == jline = <<>>
           n == IF first THEN 0 ELSE jline.number
           last == IF first THEN jorder.row ELSE jline.entry
           entry == NextEntry(jorder.channel, last)
           channel == jorder.channel
           day == jorder.day
<1>0. SUFFICES ASSUME OrderFits(jorder), first \/ LineFits(jorder, jline), RefreshLine
               PROVE  LineFits(jorder, jline')
  OBVIOUS
<1>1. PICK lag \in {0, 60}, type \in PageTypes, page \in Pages :
        LET sk == IF channel = "s_catalog_order" THEN cp_join(type, page, day) ELSE Nil IN
        jline' = [number |-> n + 1, entry |-> entry, page |-> sk,
                  catalog |-> IF sk = Nil THEN Nil ELSE getCatalogNumberFromPage(sk),
                  ship |-> RefreshShipDay(channel, day, lag)]
  BY <1>0 DEF RefreshLine
<1> HIDE DEF first
<1>2. channel \in DOMAIN LinesOf /\ channel \notin DOMAIN ShipDelay
  BY <1>0, ChannelsAre DEF RefreshLine
<1>3. day \in DATA_START_DATE .. TODAYS_DATE /\ day \in Int /\ TODAYS_DATE \in Int
      /\ jorder.row \in 1 .. ItemIds /\ ItemIds \in Nat
  BY <1>0, <1>2, ItemIdsIs, DatesAre DEF OrderFits
<1>4. /\ n \in Nat /\ last \in Nat
      /\ channel # "s_web_order" => last \in 1 .. ItemIds
      /\ channel = "s_web_order" =>
           jorder.row + n > ItemIds \/ (last = jorder.row + n /\ last \in 1 .. ItemIds)
  <2>1. CASE first
    BY <1>3, <2>1
  <2>2. CASE ~first
    <3>1. RefreshLineFits(jorder, jline)
      BY <1>0, <1>2, <2>2 DEF LineFits
    <3> QED  BY <1>3, <2>2, <3>1 DEF RefreshLineFits
  <2> QED  BY <2>1, <2>2
<1> HIDE DEF n, last
<1>5. /\ entry \in Nat
      /\ channel # "s_web_order" => entry \in 1 .. ItemIds
      /\ channel = "s_web_order" =>
           jorder.row + (n + 1) > ItemIds \/ (entry = jorder.row + (n + 1) /\ entry \in 1 .. ItemIds)
  BY <1>3, <1>4 DEF NextEntry
<1>6. RefreshShipDay(channel, day, lag) \in Int
      /\ (RefreshShipDay(channel, day, lag) # Nil => RefreshShipDay(channel, day, lag) \in day .. TODAYS_DATE)
  BY <1>3 DEF RefreshShipDay, Nil
<1> DEFINE sk == IF channel = "s_catalog_order" THEN cp_join(type, page, day) ELSE Nil
           catalog == IF sk = Nil THEN Nil ELSE getCatalogNumberFromPage(sk)
           ship == RefreshShipDay(channel, day, lag)
<1>7. sk # Nil =>
        /\ sk \in 1 .. RowsOf["catalog_page"]
        /\ CatalogPage(sk).number - catalog = IF sk % PagePerCatalog = 0 THEN 0 ELSE 1
  <2>1. LET k == cp_join(type, page, day)
        IN  /\ PageFits(type, k, day) /\ k \in Nat
            /\ CatalogPage(k).number - getCatalogNumberFromPage(k) = IF k % PagePerCatalog = 0 THEN 0 ELSE 1
    BY <1>3, PageJoins
  <2> QED  BY <2>1 DEF PageFits
<1>8. jline' = [number |-> n + 1, entry |-> entry, page |-> sk, catalog |-> catalog, ship |-> ship]
  BY <1>1
<1> HIDE DEF entry, sk, catalog, ship
<1>9. ship \in Int /\ (ship # Nil => ship \in day .. TODAYS_DATE)
  BY <1>6 DEF ship
<1>10. RefreshLineFits(jorder, jline')
  BY <1>4, <1>5, <1>7, <1>8, <1>9 DEF RefreshLineFits
<1> QED  BY <1>2, <1>8, <1>9, <1>10 DEF LineFits

(* Returns.                                                                *)
LEMMA SaleReturns ==
  OrderFits(jorder) /\ LineFits(jorder, jline) /\ SaleReturn => BackFits(jorder, jline, jback')
<1> SUFFICES ASSUME OrderFits(jorder), LineFits(jorder, jline), SaleReturn
             PROVE  BackFits(jorder, jline, jback')
  OBVIOUS
<1> DEFINE from == IF jorder.channel = "store" THEN jorder.day ELSE jline.ship
<1>1. PICK lag \in {1, 2} : jback'.day = date_joinOfReturn(jorder.channel, from, lag)
  BY DEF SaleReturn
<1>2. jorder.channel \in DOMAIN ShipDelay /\ jorder.channel \notin DOMAIN LinesOf
  BY ChannelsAre DEF SaleReturn
<1>3. ShipDelay[jorder.channel][lag] \in Nat \ {0}
  BY <1>2, ChannelsAre, DelayIs
<1>4. from \in Int
  BY DatesAre DEF OrderFits, LineFits
<1> HIDE DEF from
<1>5. jback'.day > from
  BY <1>1, <1>3, <1>4 DEF date_joinOfReturn
<1> QED  BY <1>2, <1>5 DEF BackFits, from

LEMMA RefreshReturns ==
  OrderFits(jorder) /\ LineFits(jorder, jline) /\ RefreshReturn => BackFits(jorder, jline, jback')
<1> SUFFICES ASSUME OrderFits(jorder), LineFits(jorder, jline), RefreshReturn
             PROVE  BackFits(jorder, jline, jback')
  OBVIOUS
<1> DEFINE from == IF jorder.channel = "s_catalog_order" THEN jline.ship ELSE jorder.day
<1>1. PICK lag \in {IF jorder.channel = "s_web_order" THEN 1 ELSE 0, 60} : jback'.day = lag + from
  BY DEF RefreshReturn
<1>2. jorder.channel \notin DOMAIN ShipDelay
  BY ChannelsAre DEF RefreshReturn
<1>3. from \in Int
  BY DatesAre DEF OrderFits, LineFits
<1> HIDE DEF from
<1>4. jback'.day >= from
  <2>1. lag \in Nat
    OBVIOUS
  <2> QED  BY <1>1, <1>3, <2>1
<1> QED  BY <1>2, <1>4 DEF BackFits, from

LEMMA JoinStart == JoinInit => JoinInv
  BY DEF JoinInit, JoinInv

LEMMA JoinSteps == JoinInv /\ [JoinNext]_joinVars => JoinInv'
<1> SUFFICES ASSUME JoinInv, [JoinNext]_joinVars PROVE JoinInv'
  OBVIOUS
<1>1. CASE SaleOrder \/ RefreshOrder
  <2>1. jorder = <<>> /\ jline' = jline /\ jback' = jback
    BY <1>1 DEF SaleOrder, RefreshOrder
  <2>2. jline' = <<>> /\ jback' = <<>>
    BY <2>1 DEF JoinInv
  <2>3. OrderFits(jorder')
    BY <1>1, SaleOrders, OrdersOfRefresh
  <2> QED  BY <2>2, <2>3 DEF JoinInv
<1>2. CASE SaleLine \/ RefreshLine
  <2>1. jorder # <<>> /\ jorder' = jorder /\ jback' = <<>>
    BY <1>2 DEF SaleLine, RefreshLine, JoinInv
  <2>2. OrderFits(jorder) /\ LineFits(jorder, jline')
    BY <1>2, <2>1, SaleLines, RefreshLines DEF JoinInv
  <2> QED  BY <2>1, <2>2 DEF JoinInv
<1>3. CASE SaleReturn \/ RefreshReturn
  <2>1. jline # <<>> /\ jorder' = jorder /\ jline' = jline
    BY <1>3 DEF SaleReturn, RefreshReturn
  <2>2. jorder # <<>> /\ OrderFits(jorder) /\ LineFits(jorder, jline)
    BY <2>1 DEF JoinInv
  <2>3. BackFits(jorder, jline, jback')
    BY <1>3, <2>2, SaleReturns, RefreshReturns
  <2> QED  BY <2>1, <2>2, <2>3 DEF JoinInv
<1>4. CASE UNCHANGED joinVars
  BY <1>4 DEF joinVars, JoinInv
<1> QED  BY <1>1, <1>2, <1>3, <1>4 DEF JoinNext

(* At every scale and whatever is drawn, sales, their returns and the      *)
(* orders of refresh sets refer to rows and days that fit as SalesFit and  *)
(* RefreshFits say: to revisions of the shifted day, to a page of a        *)
(* catalog of the year (of an active one if it is of half a year), to      *)
(* stores in their first revision, to sites opened before the sale.        *)
THEOREM JoinsAlwaysFit == JoinSpec => []JoinsFit
<1>1. JoinSpec => []JoinInv
  BY JoinStart, JoinSteps, PTL DEF JoinSpec
<1> QED  BY <1>1, InvJoinsFit, PTL

-----------------------------------------------------------------------------
\* Calendar: the numbers of days, counted from the first of March

(* The first of March, and how long after it a month begins.               *)
MarchFirst(y) == 365 * y + y \div 4 - y \div 100 + y \div 400 + 1721120

SinceMarch(m) == (153 * (IF m <= 2 THEN m + 12 ELSE m) - 457) \div 5

MarchYear(y, m) == IF m <= 2 THEN y - 1 ELSE y

LongestMonth(m) == IF m = 2 THEN 29 ELSE IF m = 4 \/ m = 6 \/ m = 9 \/ m = 11 THEN 30 ELSE 31

Begins(m, s) ==
  \/ (m = 1 /\ s = 306)  \/ (m = 2 /\ s = 337)   \/ (m = 3 /\ s = 0)    \/ (m = 4 /\ s = 31)
  \/ (m = 5 /\ s = 61)   \/ (m = 6 /\ s = 92)    \/ (m = 7 /\ s = 122)  \/ (m = 8 /\ s = 153)
  \/ (m = 9 /\ s = 184)  \/ (m = 10 /\ s = 214)  \/ (m = 11 /\ s = 245) \/ (m = 12 /\ s = 275)

LEMMA MonthBegins ==
  ASSUME NEW m \in 1 .. 12
  PROVE  SinceMarch(m) \in Int /\ Begins(m, SinceMarch(m))
<1>1. m = 1 \/ m = 2 \/ m = 3 \/ m = 4 \/ m = 5 \/ m = 6 \/ m = 7 \/ m = 8 \/ m = 9 \/ m = 10
        \/ m = 11 \/ m = 12
  OBVIOUS
<1>2. QED  BY <1>1 DEF SinceMarch, Begins

LEMMA MarchFirstInt == ASSUME NEW y \in Int PROVE MarchFirst(y) \in Int
BY DEF MarchFirst

(* dttoj() adds up years, months and days.                                 *)
LEMMA NumberOfDate ==
  ASSUME NEW y \in Int, NEW m \in 1 .. 12, NEW d \in Int
  PROVE  DToJ(Date(y, m, d)) = MarchFirst(MarchYear(y, m)) + SinceMarch(m) + d - 1
<1> DEFINE D == Date(y, m, d)
<1>1. D.year = y /\ D.month = m /\ D.day = d
  BY DEF Date
<1>2. DToJ(D) = d + SinceMarch(m)
                  + 365 * MarchYear(y, m) + MarchYear(y, m) \div 4 - MarchYear(y, m) \div 100
                  + MarchYear(y, m) \div 400 + 1721119
  <2> HIDE DEF D
  <2> QED  BY <1>1 DEF DToJ, MarchYear, SinceMarch
<1>3. MarchYear(y, m) \in Int /\ SinceMarch(m) \in Int
  BY MonthBegins DEF MarchYear
<1>4. QED  BY <1>2, <1>3 DEF MarchFirst

(* jtodt() finds month and day of a day of the year from March.            *)
LEMMA MonthNumbers ==
  ASSUME NEW m \in Int, NEW s \in Int, Begins(m, s), NEW d \in Int, 1 <= d, d <= LongestMonth(m),
         NEW j \in Int, j = IF m <= 2 THEN m + 10 ELSE m - 2
  PROVE  /\ (80 * (s + d + 30)) \div 2447 = j
         /\ j \div 11 = IF m <= 2 THEN 1 ELSE 0
         /\ (j + 2) - 12 * (j \div 11) = m
         /\ (s + d + 30) - (2447 * j) \div 80 = d
<1>1. (80 * (s + d + 30)) \div 2447 = j
  BY DEF Begins, LongestMonth
<1>2. j \div 11 = (IF m <= 2 THEN 1 ELSE 0) /\ (j + 2) - 12 * (j \div 11) = m
  BY DEF Begins
<1>3. (s + d + 30) - (2447 * j) \div 80 = d
  BY DEF Begins
<1>4. QED  BY <1>1, <1>2, <1>3

LEMMA DateOfYearDay ==
  ASSUME NEW y \in Int, NEW m \in 1 .. 12, NEW d \in 1 .. LongestMonth(m)
  PROVE  DateInYear(y, SinceMarch(m) + d + 30) = Date(IF m <= 2 THEN y + 1 ELSE y, m, d)
<1> DEFINE s == SinceMarch(m)
           j == IF m <= 2 THEN m + 10 ELSE m - 2
<1>1. s \in Int /\ Begins(m, s) /\ j \in Int /\ m \in Int
  BY MonthBegins
<1>2. d \in Int /\ 1 <= d /\ d <= LongestMonth(m)
  BY DEF LongestMonth
<1>3. DateInYear(y, s + d + 30)
        = LET k == (80 * (s + d + 30)) \div 2447
          IN  Date(y + k \div 11, k + 2 - 12 * (k \div 11), (s + d + 30) - (2447 * k) \div 80)
  BY DEF DateInYear
<1> HIDE DEF s
<1>4. /\ (80 * (s + d + 30)) \div 2447 = j
      /\ j \div 11 = IF m <= 2 THEN 1 ELSE 0
      /\ (j + 2) - 12 * (j \div 11) = m
      /\ (s + d + 30) - (2447 * j) \div 80 = d
  BY <1>1, <1>2, MonthNumbers
<1> HIDE DEF j
<1>5. y + j \div 11 = (IF m <= 2 THEN y + 1 ELSE y) /\ j + 2 - 12 * (j \div 11) = m
  BY <1>1, <1>4
<1>6. DateInYear(y, s + d + 30)
        = Date(y + j \div 11, j + 2 - 12 * (j \div 11), (s + d + 30) - (2447 * j) \div 80)
  BY <1>3, <1>4
<1>7. DateInYear(y, s + d + 30) = Date(IF m <= 2 THEN y + 1 ELSE y, m, d)
  BY <1>4, <1>5, <1>6
<1>8. QED  BY <1>7 DEF s

CenturyDay(i, e) == 365 * i + i \div 4 + e

(* jtodt() finds the year of a century, whose leap year ends with          *)
(* February.                                                               *)
LEMMA DateOfCenturyDay ==
  ASSUME NEW n \in Int, NEW i \in Int, 0 <= i, i <= 99,
         NEW e \in Int, 0 <= e, e <= 365, e = 365 => (i + 1) % 4 = 0
  PROVE  DateInCentury(n, CenturyDay(i, e)) = DateInYear(100 * (n - 49) + i, e + 31)
<1> DEFINE c == CenturyDay(i, e)
<1>0. c \in Int /\ c = 365 * i + i \div 4 + e
  BY DEF CenturyDay
<1> HIDE DEF c
<1>1. (4000 * (c + 1)) \div 1461001 = i
  <2>1. ASSUME NEW a \in Int, NEW b \in Int, 0 <= b, b <= 3, i = 4 * a + b
        PROVE  (4000 * (c + 1)) \div 1461001 = i
    <3>1. i \div 4 = a /\ (e = 365 => b = 3) /\ 0 <= a /\ a <= 24
      BY <2>1
    <3>2. c = 1461 * a + 365 * b + e
      BY <1>0, <2>1, <3>1
    <3>3. 1461001 * i <= 4000 * (c + 1) /\ 4000 * (c + 1) < 1461001 * i + 1461001
      BY <1>0, <2>1, <3>1, <3>2
    <3>4. QED  BY <1>0, <3>3
  <2>2. i = 4 * (i \div 4) + (i % 4) /\ i \div 4 \in Int /\ i % 4 \in Int /\ 0 <= i % 4 /\ i % 4 <= 3
    OBVIOUS
  <2>3. QED  BY <2>1, <2>2
<1>2. (1461 * i) \div 4 = 365 * i + i \div 4
  OBVIOUS
<1>3. DateInCentury(n, c)
        = LET k == (4000 * (c + 1)) \div 1461001
          IN  DateInYear(100 * (n - 49) + k, c - (1461 * k) \div 4 + 31)
  BY DEF DateInCentury
<1>4. c - (1461 * i) \div 4 + 31 = e + 31
  BY <1>0, <1>2
<1>5. DateInCentury(n, c) = DateInYear(100 * (n - 49) + i, c - (1461 * i) \div 4 + 31)
  BY <1>1, <1>3
<1>6. QED  BY <1>4, <1>5 DEF c

(* And the century itself.                                                 *)
LEMMA MarchOfCentury ==
  ASSUME NEW y \in Int, 1800 <= y, y <= 2199
  PROVE  LET k == y \div 100
             i == y % 100
         IN  /\ k \in Int /\ i \in Int /\ 0 <= i /\ i <= 99 /\ y = 100 * k + i
             /\ MarchFirst(y) + 68569 = (146097 * (k + 49) + 3) \div 4 + 365 * i + i \div 4
<1> DEFINE k == y \div 100
           i == y % 100
<1>1. k \in Int /\ i \in Int /\ 0 <= i /\ i <= 99 /\ y = 100 * k + i
  OBVIOUS
<1>2. k = 18 \/ k = 19 \/ k = 20 \/ k = 21
  OBVIOUS
<1>3. MarchFirst(y) = 365 * y + y \div 4 - k + y \div 400 + 1721120
  BY DEF MarchFirst
<1>4. y \div 4 = 25 * k + i \div 4 /\ y \div 400 = k \div 4
  <2> HIDE DEF k, i
  <2> QED  BY <1>1, <1>2
<1>5. QED
  <2> HIDE DEF k, i
  <2>1. MarchFirst(y) + 68569 = (146097 * (k + 49) + 3) \div 4 + 365 * i + i \div 4
    BY <1>1, <1>2, <1>3, <1>4
  <2>2. QED  BY <1>1, <2>1 DEF k, i

LEMMA DateOfMarchDay ==
  ASSUME NEW y \in Int, 1800 <= y, y <= 2198,
         NEW e \in Int, 0 <= e, e <= 365, MarchFirst(y) + e < MarchFirst(y + 1)
  PROVE  JToD(MarchFirst(y) + e) = DateInYear(y, e + 31)
<1> DEFINE k == y \div 100
           i == y % 100
           K == k + 49
           base == (146097 * K + 3) \div 4
           c == 365 * i + i \div 4 + e
<1>1. k \in Int /\ i \in Int /\ 0 <= i /\ i <= 99 /\ y = 100 * k + i
  BY MarchOfCentury
<1>2. MarchFirst(y) + 68569 = base + 365 * i + i \div 4
  BY MarchOfCentury
<1>3. MarchFirst(y) \in Int /\ MarchFirst(y + 1) \in Int
  BY MarchFirstInt
<1>4. K \in Int /\ base \in Int /\ i \div 4 \in Int /\ c \in Int /\ 0 <= c
  <2> HIDE DEF k, i
  <2> QED  BY <1>1
<1>5. ASSUME NEW z \in Int, z = y + 1
      PROVE  MarchFirst(z) + 68569 = (146097 * (z \div 100 + 49) + 3) \div 4 + 365 * (z % 100) + (z % 100) \div 4
  <2>1. 1800 <= z /\ z <= 2199
    BY <1>5
  <2>2. QED  BY <2>1, MarchOfCentury
<1>6. MarchFirst(y + 1) + 68569
        = (146097 * ((y + 1) \div 100 + 49) + 3) \div 4 + 365 * ((y + 1) % 100) + ((y + 1) % 100) \div 4
  BY <1>5
<1>7. (e = 365 => (i + 1) % 4 = 0) /\ 146097 * K <= 4 * (base + c) /\ 4 * (base + c) < 146097 * (K + 1)
  <2>1. CASE i < 99
    <3>1. (y + 1) \div 100 = k /\ (y + 1) % 100 = i + 1
      <4> HIDE DEF k, i
      <4> QED  BY <1>1, <2>1
    <3>2. MarchFirst(y + 1) + 68569 = base + 365 * (i + 1) + (i + 1) \div 4
      BY <1>6, <3>1
    <3> HIDE DEF k, i, K, base
    <3>3. e = 365 => (i + 1) % 4 = 0
      BY <1>1, <1>2, <1>3, <1>4, <3>2
    <3>4. 146097 * K <= 4 * (base + c) /\ 4 * (base + c) < 146097 * (K + 1)
      BY <1>1, <1>4, <2>1 DEF base
    <3>5. QED  BY <3>3, <3>4
  <2>2. CASE i = 99
    <3>1. (y + 1) \div 100 = k + 1 /\ (y + 1) % 100 = 0
      <4> HIDE DEF k, i
      <4> QED  BY <1>1, <2>2
    <3>2. MarchFirst(y + 1) + 68569 = (146097 * (K + 1) + 3) \div 4
      <4>1. k + 1 + 49 = K + 1 /\ 0 \div 4 = 0
        BY <1>1
      <4> HIDE DEF k, i, K
      <4>2. MarchFirst(y + 1) + 68569 = (146097 * (k + 1 + 49) + 3) \div 4 + 365 * 0 + 0 \div 4
        BY <1>6, <3>1
      <4>3. QED  BY <1>3, <1>4, <4>1, <4>2
    <3> HIDE DEF k, i, K
    <3>3. base + c < (146097 * (K + 1) + 3) \div 4
      <4>1. base + c = MarchFirst(y) + 68569 + e
        <5> HIDE DEF base
        <5> QED  BY <1>1, <1>2, <1>3, <1>4
      <4>2. MarchFirst(y) + 68569 + e < MarchFirst(y + 1) + 68569
        BY <1>3
      <4>3. QED  BY <3>2, <4>1, <4>2
    <3>4. 146097 * K <= 4 * (base + c) /\ 4 * (base + c) < 146097 * (K + 1)
      <4> HIDE DEF c
      <4> QED  BY <1>4, <3>3 DEF base
    <3>5. QED  BY <2>2, <3>4
  <2>3. QED  BY <1>1, <2>1, <2>2
<1> DEFINE l == MarchFirst(y) + e + 68569
<1>8. l = base + c /\ l \in Int
  <2> HIDE DEF k, i, K, base
  <2> QED  BY <1>1, <1>2, <1>3, <1>4
<1>9. (4 * l) \div 146097 = K
  <2> HIDE DEF l, base, c, K
  <2> QED  BY <1>4, <1>7, <1>8
<1>10. JToD(MarchFirst(y) + e)
         = LET n == (4 * l) \div 146097
           IN  DateInCentury(n, l - (146097 * n + 3) \div 4)
  BY DEF JToD
<1>11. JToD(MarchFirst(y) + e) = DateInCentury(K, l - base)
  <2> HIDE DEF l, K
  <2> QED  BY <1>9, <1>10
<1>12. l - base = c
  <2> HIDE DEF l, base, c
  <2> QED  BY <1>4, <1>8
<1>13. 100 * (K - 49) + i = y
  <2> HIDE DEF i
  <2>1. K - 49 = k
    <3> HIDE DEF k
    <3> QED  BY <1>1
  <2> HIDE DEF k, K
  <2> QED  BY <1>1, <2>1
<1>14. QED
  <2> HIDE DEF l, base, k, i, K
  <2>1. DateInCentury(K, c) = DateInYear(100 * (K - 49) + i, e + 31)
    <3>1. c = CenturyDay(i, e) /\ (e = 365 => (i + 1) % 4 = 0)
      BY <1>7 DEF CenturyDay
    <3>2. e \in Int /\ 0 <= e /\ e <= 365
      OBVIOUS
    <3> HIDE DEF c
    <3>3. QED  BY <1>1, <1>4, <3>1, <3>2, DateOfCenturyDay
  <2>2. QED  BY <1>11, <1>12, <1>13, <2>1

LEMMA MarchFirstNext ==
  ASSUME NEW y \in Int
  PROVE  MarchFirst(y + 1) = MarchFirst(y) + (IF TrueLeap(y + 1) THEN 366 ELSE 365)
<1>1. (y + 1) \div 4 = y \div 4 + (IF (y + 1) % 4 = 0 THEN 1 ELSE 0)
  OBVIOUS
<1>2. (y + 1) \div 100 = y \div 100 + (IF (y + 1) % 100 = 0 THEN 1 ELSE 0)
  OBVIOUS
<1>3. (y + 1) \div 400 = y \div 400 + (IF (y + 1) % 400 = 0 THEN 1 ELSE 0)
  OBVIOUS
<1>4. ((y + 1) % 400 = 0 => (y + 1) % 100 = 0) /\ ((y + 1) % 100 = 0 => (y + 1) % 4 = 0)
  OBVIOUS
<1>5. /\ y \div 4 \in Int /\ y \div 100 \in Int /\ y \div 400 \in Int
      /\ MarchFirst(y) = 365 * y + y \div 4 - y \div 100 + y \div 400 + 1721120
      /\ MarchFirst(y + 1)
           = 365 * (y + 1) + (y + 1) \div 4 - (y + 1) \div 100 + (y + 1) \div 400 + 1721120
  BY DEF MarchFirst
<1>6. TrueLeap(y + 1) <=> (y + 1) % 4 = 0 /\ ((y + 1) % 100 # 0 \/ (y + 1) % 400 = 0)
  BY DEF TrueLeap
<1>7. CASE (y + 1) % 400 = 0
  BY <1>1, <1>2, <1>3, <1>4, <1>5, <1>6, <1>7
<1>8. CASE (y + 1) % 400 # 0 /\ (y + 1) % 100 = 0
  BY <1>1, <1>2, <1>3, <1>4, <1>5, <1>6, <1>8
<1>9. CASE (y + 1) % 100 # 0
  BY <1>1, <1>2, <1>3, <1>4, <1>5, <1>6, <1>9
<1>10. QED  BY <1>7, <1>8, <1>9

LEMMA MonthLengthInt ==
  ASSUME NEW y \in Int, NEW m \in 1 .. 12
  PROVE  /\ MonthLength(y, m) \in Int /\ 28 <= MonthLength(y, m) /\ MonthLength(y, m) <= 31
         /\ MonthLength(y, m) <= LongestMonth(m)
         /\ m = 2 => MonthLength(y, m) = IF TrueLeap(y) THEN 29 ELSE 28
         /\ m # 2 => MonthLength(y, m) = LongestMonth(m)
BY DEF MonthLength, LongestMonth

\* The years around those of date_dim.
Gregorian(y) == 1801 <= y /\ y <= 2198

InCalendar(y) == 1900 <= y /\ y <= 2100

LEMMA CalendarYears ==
  ASSUME NEW y \in Int, InCalendar(y)
  PROVE  Gregorian(y) /\ Gregorian(y - 1) /\ Gregorian(y + 1)
BY DEF InCalendar, Gregorian

(* Both ways lead back to the date.                                        *)
LEMMA DateOfNumber ==
  ASSUME NEW y \in Int, Gregorian(y), NEW m \in 1 .. 12, NEW d \in 1 .. MonthLength(y, m)
  PROVE  JToD(DToJ(Date(y, m, d))) = Date(y, m, d)
<1> DEFINE Y == MarchYear(y, m)
           s == SinceMarch(m)
           e == s + d - 1
<1>1. /\ Y \in Int /\ 1800 <= Y /\ Y <= 2198 /\ (m <= 2 => Y + 1 = y) /\ (m > 2 => Y = y)
      /\ s \in Int /\ Begins(m, s) /\ m \in Int
  BY MonthBegins DEF MarchYear, Gregorian
<1>2. d \in Int /\ 1 <= d /\ d <= LongestMonth(m) /\ (m = 2 /\ d = 29 => TrueLeap(y))
  <2>1. /\ MonthLength(y, m) \in Int /\ MonthLength(y, m) <= LongestMonth(m)
        /\ m = 2 => MonthLength(y, m) = IF TrueLeap(y) THEN 29 ELSE 28
    BY MonthLengthInt
  <2>2. d \in Int /\ 1 <= d /\ d <= MonthLength(y, m) /\ LongestMonth(m) \in Int
    BY <2>1 DEF LongestMonth
  <2>3. QED  BY <2>1, <2>2
<1>3. MarchFirst(Y) + e < MarchFirst(Y + 1) /\ MarchFirst(Y) \in Int /\ e \in Int /\ 0 <= e /\ e <= 365
  <2> HIDE DEF s, Y
  <2>1. MarchFirst(Y) \in Int /\ MarchFirst(Y + 1) \in Int
    BY <1>1, MarchFirstInt
  <2>2. (0 <= e /\ e <= 364) \/ (m = 2 /\ d = 29 /\ e = 365)
    BY <1>1, <1>2 DEF Begins, LongestMonth
  <2>3. MarchFirst(Y + 1) = MarchFirst(Y) + (IF TrueLeap(Y + 1) THEN 366 ELSE 365)
    BY <1>1, MarchFirstNext
  <2>4. m = 2 /\ d = 29 => TrueLeap(Y + 1)
    BY <1>1, <1>2
  <2>5. e \in Int
    BY <1>1, <1>2
  <2> HIDE DEF e
  <2>6. QED  BY <2>1, <2>2, <2>3, <2>4, <2>5
<1>4. DToJ(Date(y, m, d)) = MarchFirst(Y) + e
  <2>1. DToJ(Date(y, m, d)) = MarchFirst(Y) + s + d - 1
    BY <1>2, NumberOfDate
  <2> HIDE DEF s, Y
  <2>2. QED  BY <1>1, <1>2, <1>3, <2>1
<1>5. JToD(MarchFirst(Y) + e) = DateInYear(Y, e + 31)
  <2> HIDE DEF Y, e
  <2> QED  BY <1>1, <1>3, DateOfMarchDay
<1>6. DateInYear(Y, s + d + 30) = Date(IF m <= 2 THEN Y + 1 ELSE Y, m, d)
  <2> HIDE DEF Y
  <2> QED  BY <1>1, <1>2, DateOfYearDay
<1>7. e + 31 = s + d + 30 /\ (IF m <= 2 THEN Y + 1 ELSE Y) = y
  <2> HIDE DEF s, Y
  <2> QED  BY <1>1, <1>2
<1>8. QED
  <2> HIDE DEF Y, s, e
  <2> QED  BY <1>4, <1>5, <1>6, <1>7

-----------------------------------------------------------------------------
\* Calendar: the days of a year

YearBegins(m, b) ==
  \/ (m = 1 /\ b = 0)    \/ (m = 2 /\ b = 31)    \/ (m = 3 /\ b = 59)    \/ (m = 4 /\ b = 90)
  \/ (m = 5 /\ b = 120)  \/ (m = 6 /\ b = 151)   \/ (m = 7 /\ b = 181)   \/ (m = 8 /\ b = 212)
  \/ (m = 9 /\ b = 243)  \/ (m = 10 /\ b = 273)  \/ (m = 11 /\ b = 304)  \/ (m = 12 /\ b = 334)

LEMMA MonthsOfYear ==
  ASSUME NEW m \in 1 .. 12
  PROVE  CommonDays[m] \in Int /\ YearBegins(m, CommonDays[m])
<1>1. m = 1 \/ m = 2 \/ m = 3 \/ m = 4 \/ m = 5 \/ m = 6 \/ m = 7 \/ m = 8 \/ m = 9 \/ m = 10
        \/ m = 11 \/ m = 12
  OBVIOUS
<1>2. QED  BY <1>1 DEF CommonDays, YearBegins

NewYearDay(y) == MarchFirst(y - 1) + 306

YearLength(y) == IF TrueLeap(y) THEN 366 ELSE 365

LEMMA NewYearNext ==
  ASSUME NEW y \in Int
  PROVE  NewYearDay(y) \in Int /\ NewYearDay(y + 1) = NewYearDay(y) + YearLength(y)
<1>1. MarchFirst(y - 1) \in Int /\ (y + 1) - 1 = y /\ (y - 1) + 1 = y
  BY MarchFirstInt
<1>2. MarchFirst((y - 1) + 1) = MarchFirst(y - 1) + (IF TrueLeap((y - 1) + 1) THEN 366 ELSE 365)
  BY MarchFirstNext
<1>3. QED  BY <1>1, <1>2 DEF NewYearDay, YearLength

(* The number of a date by the day of its year.                            *)
LEMMA NumberOfYearDay ==
  ASSUME NEW y \in Int, NEW m \in 1 .. 12, NEW d \in Int
  PROVE  DToJ(Date(y, m, d)) = NewYearDay(y) + DaysBefore(TrueLeap(y), m) + d - 1
<1> DEFINE Y == MarchYear(y, m)
           s == SinceMarch(m)
           b == CommonDays[m]
           f == MarchFirst(y - 1)
<1>1. s \in Int /\ Begins(m, s) /\ b \in Int /\ YearBegins(m, b) /\ m \in Int
  BY MonthBegins, MonthsOfYear
<1>2. f \in Int /\ (y - 1) + 1 = y
  BY MarchFirstInt
<1>3. MarchFirst(Y) = f + (IF m <= 2 THEN 0 ELSE IF TrueLeap(y) THEN 366 ELSE 365)
  <2>1. MarchFirst((y - 1) + 1) = f + (IF TrueLeap((y - 1) + 1) THEN 366 ELSE 365)
    BY MarchFirstNext
  <2>2. MarchFirst(y) = f + (IF TrueLeap(y) THEN 366 ELSE 365)
    BY <1>2, <2>1
  <2>3. CASE m <= 2
    <3>1. Y = y - 1  BY <2>3 DEF MarchYear
    <3> HIDE DEF Y
    <3>2. QED  BY <1>2, <2>3, <3>1
  <2>4. CASE m > 2
    <3>1. Y = y  BY <2>4 DEF MarchYear
    <3> HIDE DEF Y
    <3>2. QED  BY <1>2, <2>2, <2>4, <3>1
  <2>5. QED  BY <1>1, <2>3, <2>4
<1>4. DToJ(Date(y, m, d)) = MarchFirst(Y) + s + d - 1
  BY NumberOfDate
<1>5. DaysBefore(TrueLeap(y), m) = b + (IF TrueLeap(y) /\ m > 2 THEN 1 ELSE 0)
  BY DEF DaysBefore
<1>6. NewYearDay(y) = f + 306
  BY DEF NewYearDay
<1>7. /\ m <= 2 => s = 306 + b /\ DaysBefore(TrueLeap(y), m) = b
      /\ m > 2 => s + 365 = 306 + b /\ DaysBefore(TrueLeap(y), m) = b + (IF TrueLeap(y) THEN 1 ELSE 0)
  <2> HIDE DEF s, b
  <2>1. (m <= 2 => s = 306 + b) /\ (m > 2 => s + 365 = 306 + b)
    BY <1>1 DEF Begins, YearBegins
  <2>2. QED  BY <1>1, <1>5, <2>1
<1>8. QED
  <2> HIDE DEF Y, s, b, f
  <2>1. CASE m <= 2
    <3>1. MarchFirst(Y) = f /\ s = 306 + b /\ DaysBefore(TrueLeap(y), m) = b
      BY <1>2, <1>3, <1>7, <2>1
    <3>2. QED  BY <1>1, <1>2, <1>4, <1>6, <3>1
  <2>2. CASE m > 2
    <3>1. s + 365 = 306 + b /\ MarchFirst(Y) = f + (IF TrueLeap(y) THEN 366 ELSE 365)
            /\ DaysBefore(TrueLeap(y), m) = b + (IF TrueLeap(y) THEN 1 ELSE 0)
      BY <1>3, <1>7, <2>2, <1>1
    <3>2. QED  BY <1>1, <1>2, <1>4, <1>6, <3>1
  <2>3. QED  BY <1>1, <2>1, <2>2

(* The date after a date.                                                  *)
LEMMA NumberOfNextDate ==
  ASSUME NEW y \in Int, NEW m \in 1 .. 12
  PROVE  DToJ(Date(IF m = 12 THEN y + 1 ELSE y, (m % 12) + 1, 1))
           = DToJ(Date(y, m, MonthLength(y, m))) + 1
<1> DEFINE L == MonthLength(y, m)
<1>1. L \in Int
  BY MonthLengthInt
<1>2. DToJ(Date(y, m, L)) = NewYearDay(y) + DaysBefore(TrueLeap(y), m) + L - 1
  BY <1>1, NumberOfYearDay
<1>3. NewYearDay(y) \in Int /\ NewYearDay(y + 1) = NewYearDay(y) + YearLength(y)
  BY NewYearNext
<1>4. CASE m = 12
  <2>1. DToJ(Date(y + 1, 1, 1)) = NewYearDay(y + 1) + DaysBefore(TrueLeap(y + 1), 1) + 1 - 1
    BY NumberOfYearDay
  <2>2. L = 31 /\ DaysBefore(TrueLeap(y), 12) = 334 + (IF TrueLeap(y) THEN 1 ELSE 0)
          /\ DaysBefore(TrueLeap(y + 1), 1) = 0
    BY <1>4 DEF MonthLength, DaysBefore, CommonDays
  <2>3. (m % 12) + 1 = 1
    BY <1>4
  <2> HIDE DEF L
  <2>4. DToJ(Date(y + 1, 1, 1)) = DToJ(Date(y, m, L)) + 1
    BY <1>2, <1>3, <1>4, <2>1, <2>2 DEF YearLength
  <2>5. QED  BY <1>4, <2>3, <2>4 DEF L
<1>5. CASE m # 12
  <2>1. (m % 12) + 1 = m + 1 /\ m + 1 \in 1 .. 12
    BY <1>5
  <2>2. DToJ(Date(y, m + 1, 1)) = NewYearDay(y) + DaysBefore(TrueLeap(y), m + 1) + 1 - 1
    BY <2>1, NumberOfYearDay
  <2>3. DaysBefore(TrueLeap(y), m + 1) = DaysBefore(TrueLeap(y), m) + L
    <3>1. m = 1 \/ m = 2 \/ m = 3 \/ m = 4 \/ m = 5 \/ m = 6 \/ m = 7 \/ m = 8 \/ m = 9 \/ m = 10
            \/ m = 11
      BY <1>5
    <3>2. ASSUME NEW k \in {1, 3, 4, 5, 6, 7, 8, 9, 10, 11}, NEW l \in BOOLEAN
          PROVE  DaysBefore(l, k + 1) = DaysBefore(l, k) + (IF k \in {4, 6, 9, 11} THEN 30 ELSE 31)
      BY <3>2 DEF DaysBefore, CommonDays
    <3>3. CASE m = 2
      <4>1. m + 1 = 3  BY <3>3
      <4>2. QED  BY <3>3, <4>1 DEF MonthLength, DaysBefore, CommonDays
    <3>4. CASE m # 2
      <4>1. m \in {1, 3, 4, 5, 6, 7, 8, 9, 10, 11} /\ TrueLeap(y) \in BOOLEAN
        BY <3>1, <3>4 DEF TrueLeap
      <4>2. QED  BY <3>2, <3>4, <4>1 DEF MonthLength
    <3>5. QED  BY <3>3, <3>4
  <2>4. DaysBefore(TrueLeap(y), m) \in Int
    BY MonthsOfYear DEF DaysBefore
  <2> HIDE DEF L
  <2>5. DToJ(Date(y, m + 1, 1)) = DToJ(Date(y, m, L)) + 1
    BY <1>1, <1>2, <1>3, <2>2, <2>3, <2>4
  <2>6. QED  BY <1>5, <2>1, <2>5 DEF L
<1>6. QED  BY <1>4, <1>5

LeapDays(m) == DaysBefore(TRUE, m)

(* "calendar" has an entry for each day of a leap year.                    *)
LEMMA MonthsOfLeapYear ==
  ASSUME NEW m \in 1 .. 12
  PROVE  LeapDays(m) \in Int /\ LeapDays(m) = CommonDays[m] + (IF m > 2 THEN 1 ELSE 0)
         /\ DaysBefore(FALSE, m) \in Int /\ DaysBefore(FALSE, m) = CommonDays[m]
<1>1. CommonDays[m] \in Int
  BY MonthsOfYear
<1>2. QED  BY <1>1 DEF DaysBefore, LeapDays

LEMMA MonthsInOrder ==
  ASSUME NEW m \in 1 .. 12, NEW l \in 1 .. 12, m < l
  PROVE  LeapDays(m) + LongestMonth(m) <= LeapDays(l)
<1> DEFINE b == CommonDays[m]
           c == CommonDays[l]
<1>1. b \in Int /\ c \in Int /\ YearBegins(m, b) /\ YearBegins(l, c) /\ m \in Int /\ l \in Int
  BY MonthsOfYear
<1>2. LeapDays(m) = b + (IF m > 2 THEN 1 ELSE 0) /\ LeapDays(l) = c + (IF l > 2 THEN 1 ELSE 0)
  BY MonthsOfLeapYear
<1> HIDE DEF b, c
<1>3. b + LongestMonth(m) + (IF m > 2 THEN 1 ELSE 0) <= c + (IF l > 2 THEN 1 ELSE 0)
  BY <1>1 DEF YearBegins, LongestMonth
<1>4. LongestMonth(m) \in Int
  BY DEF LongestMonth
<1>5. QED  BY <1>1, <1>2, <1>3, <1>4

LEMMA EntryOfDate ==
  ASSUME NEW m \in 1 .. 12, NEW d \in 1 .. LongestMonth(m)
  PROVE  /\ LeapDays(m) + d \in 1 .. 366
         /\ Entry[LeapDays(m) + d] = [month |-> m, day |-> d]
<1> DEFINE n == LeapDays(m) + d
           P(k) == LeapDays(k) < n /\ \A l \in k + 1 .. 12 : n <= LeapDays(l)
<1>1. d \in Int /\ 1 <= d /\ d <= LongestMonth(m) /\ LongestMonth(m) \in Int
  BY DEF LongestMonth
<1>2. \A k \in 1 .. 12 : LeapDays(k) \in Int
  BY MonthsOfLeapYear
<1>3. n \in 1 .. 366
  <2> DEFINE b == CommonDays[m]
  <2>1. b \in Int /\ YearBegins(m, b) /\ m \in Int
    BY MonthsOfYear
  <2>2. LeapDays(m) = b + (IF m > 2 THEN 1 ELSE 0)
    BY MonthsOfLeapYear
  <2> HIDE DEF b
  <2>3. b + (IF m > 2 THEN 1 ELSE 0) + d >= 1 /\ b + (IF m > 2 THEN 1 ELSE 0) + d <= 366
    BY <1>1, <2>1 DEF YearBegins, LongestMonth
  <2>4. n = b + (IF m > 2 THEN 1 ELSE 0) + d /\ n \in Int
    BY <1>1, <1>2, <2>2
  <2> HIDE DEF n
  <2>5. QED  BY <2>1, <2>3, <2>4
<1>4. n \in Int
  BY <1>1, <1>2
<1>5. P(m)
  <2>1. LeapDays(m) < n
    BY <1>1, <1>2
  <2>2. ASSUME NEW l \in m + 1 .. 12 PROVE n <= LeapDays(l)
    <3>1. l \in 1 .. 12 /\ m < l
      OBVIOUS
    <3>2. LeapDays(m) + LongestMonth(m) <= LeapDays(l)
      BY <3>1, MonthsInOrder
    <3>3. QED  BY <1>1, <1>2, <3>1, <3>2
  <2>3. QED  BY <2>1, <2>2
<1>6. ASSUME NEW k \in 1 .. 12, P(k) PROVE k = m
  <2>1. CASE k < m
    <3>1. m \in k + 1 .. 12
      BY <2>1
    <3>2. n <= LeapDays(m)
      BY <1>6, <3>1
    <3>3. QED  BY <1>1, <1>2, <3>2
  <2>2. CASE m < k
    <3>1. LeapDays(m) + LongestMonth(m) <= LeapDays(k)
      BY <2>2, MonthsInOrder
    <3>2. LeapDays(k) < n
      BY <1>6
    <3>3. QED  BY <1>1, <1>2, <3>1, <3>2
  <2>3. QED  BY <2>1, <2>2
<1>7. (CHOOSE k \in 1 .. 12 : P(k)) = m
  <2> HIDE DEF P
  <2> QED  BY <1>5, <1>6
<1>8. Entry[n] = [month |-> CHOOSE k \in 1 .. 12 : P(k),
                  day |-> n - LeapDays(CHOOSE k \in 1 .. 12 : P(k))]
  BY <1>3, Zenon DEF Entry, LeapDays
<1>9. n - LeapDays(m) = d
  BY <1>1, <1>2
<1>10. QED
  <2> HIDE DEF P
  <2>1. Entry[n] = [month |-> m, day |-> n - LeapDays(m)]
    BY <1>7, <1>8
  <2>2. QED  BY <1>3, <1>9, <2>1

Dated(n) == \E m \in 1 .. 12 : \E d \in 1 .. LongestMonth(m) : n = LeapDays(m) + d

LEMMA DateOfEntry ==
  ASSUME NEW n \in 1 .. 366
  PROVE  Dated(n)
<1>1. ASSUME NEW m \in 1 .. 12, NEW b \in Int, b = LeapDays(m),
             b < n, n <= b + LongestMonth(m)
      PROVE  Dated(n)
  <2>1. LongestMonth(m) \in Int
    BY DEF LongestMonth
  <2>2. n - b \in 1 .. LongestMonth(m) /\ n = LeapDays(m) + (n - b)
    BY <1>1, <2>1
  <2>3. QED  BY <2>2 DEF Dated
<1>2. /\ LeapDays(1) = 0 /\ LeapDays(2) = 31 /\ LeapDays(3) = 60
      /\ LeapDays(4) = 91 /\ LeapDays(5) = 121 /\ LeapDays(6) = 152
      /\ LeapDays(7) = 182 /\ LeapDays(8) = 213 /\ LeapDays(9) = 244
      /\ LeapDays(10) = 274 /\ LeapDays(11) = 305 /\ LeapDays(12) = 335
  BY DEF LeapDays, DaysBefore, CommonDays
<1>3. CASE 0 < n /\ n <= 31
  <2>1. LongestMonth(1) = 31  BY DEF LongestMonth
  <2>2. QED  BY <1>1, <1>2, <1>3, <2>1
<1>4. CASE 31 < n /\ n <= 60
  <2>1. LongestMonth(2) = 29  BY DEF LongestMonth
  <2>2. QED  BY <1>1, <1>2, <1>4, <2>1
<1>5. CASE 60 < n /\ n <= 91
  <2>1. LongestMonth(3) = 31  BY DEF LongestMonth
  <2>2. QED  BY <1>1, <1>2, <1>5, <2>1
<1>6. CASE 91 < n /\ n <= 121
  <2>1. LongestMonth(4) = 30  BY DEF LongestMonth
  <2>2. QED  BY <1>1, <1>2, <1>6, <2>1
<1>7. CASE 121 < n /\ n <= 152
  <2>1. LongestMonth(5) = 31  BY DEF LongestMonth
  <2>2. QED  BY <1>1, <1>2, <1>7, <2>1
<1>8. CASE 152 < n /\ n <= 182
  <2>1. LongestMonth(6) = 30  BY DEF LongestMonth
  <2>2. QED  BY <1>1, <1>2, <1>8, <2>1
<1>9. CASE 182 < n /\ n <= 213
  <2>1. LongestMonth(7) = 31  BY DEF LongestMonth
  <2>2. QED  BY <1>1, <1>2, <1>9, <2>1
<1>10. CASE 213 < n /\ n <= 244
  <2>1. LongestMonth(8) = 31  BY DEF LongestMonth
  <2>2. QED  BY <1>1, <1>2, <1>10, <2>1
<1>11. CASE 244 < n /\ n <= 274
  <2>1. LongestMonth(9) = 30  BY DEF LongestMonth
  <2>2. QED  BY <1>1, <1>2, <1>11, <2>1
<1>12. CASE 274 < n /\ n <= 305
  <2>1. LongestMonth(10) = 31  BY DEF LongestMonth
  <2>2. QED  BY <1>1, <1>2, <1>12, <2>1
<1>13. CASE 305 < n /\ n <= 335
  <2>1. LongestMonth(11) = 30  BY DEF LongestMonth
  <2>2. QED  BY <1>1, <1>2, <1>13, <2>1
<1>14. CASE 335 < n /\ n <= 366
  <2>1. LongestMonth(12) = 31  BY DEF LongestMonth
  <2>2. QED  BY <1>1, <1>2, <1>14, <2>1
<1>15. QED  BY <1>3, <1>4, <1>5, <1>6, <1>7, <1>8, <1>9, <1>10, <1>11, <1>12, <1>13, <1>14

-----------------------------------------------------------------------------
\* Calendar: leap years and days of the week

LEMMA LeapYears ==
  ASSUME NEW y \in Int, Gregorian(y)
  PROVE  /\ IsLeap(y) \in BOOLEAN /\ TrueLeap(y) \in BOOLEAN
         /\ y # 1900 /\ y # 2100 => IsLeap(y) = TrueLeap(y)
         /\ y = 1900 \/ y = 2100 => IsLeap(y) /\ ~TrueLeap(y)
<1>1. IsLeap(y) \in BOOLEAN /\ TrueLeap(y) \in BOOLEAN
  <2>1. CASE y % 100 = 0  BY <2>1 DEF IsLeap, TrueLeap
  <2>2. CASE y % 100 # 0  BY <2>2 DEF IsLeap, TrueLeap
  <2>3. QED  BY <2>1, <2>2
<1>2. y % 100 = 0 => y \in {1900, 2000, 2100}
  BY DEF Gregorian
<1>3. CASE y = 1900 \/ y = 2100
  BY <1>1, <1>3 DEF IsLeap, TrueLeap
<1>4. CASE y = 2000
  BY <1>1, <1>4 DEF IsLeap, TrueLeap
<1>5. CASE y % 100 # 0
  BY <1>1, <1>5 DEF IsLeap, TrueLeap
<1>6. QED  BY <1>2, <1>3, <1>4, <1>5

(* The doomsday of a year is the day of the week of the last of February.  *)
LEMMA DoomsdayLast ==
  ASSUME NEW y \in Int, InCalendar(y)
  PROVE  DoomsdayOf(y) \in 0 .. 6 /\ DoomsdayOf(y) = MarchFirst(y) % 7
<1> DEFINE k == y \div 100
           q == y % 100
           a == q \div 12
           b == q % 12
           D == Doomsday[((k - 15) % 4) + 1]
<1>1. /\ q \in Int /\ y = 100 * k + q /\ 0 <= q /\ q <= 99
      /\ k = 19 \/ k = 20 \/ k = 21
  BY DEF InCalendar
<1>2. \/ (k = 19 /\ D = 3) \/ (k = 20 /\ D = 2) \/ (k = 21 /\ D = 0)
  <2> HIDE DEF k
  <2> QED  BY <1>1 DEF Doomsday
<1>3. MarchFirst(y) = 365 * y + y \div 4 - k + y \div 400 + 1721120
  BY SMT DEF MarchFirst
<1>4. y \div 4 = 25 * k + q \div 4 /\ y \div 400 = k \div 4
  <2> HIDE DEF k, q
  <2> QED  BY <1>1
<1>5. DoomsdayOf(y) = (D + a + b + b \div 4) % 7
  BY DEF DoomsdayOf
<1>6. a \in Int /\ b \in Int /\ q = 12 * a + b /\ 0 <= b /\ b <= 11 /\ q \div 4 = 3 * a + b \div 4
      /\ b \div 4 \in Int
  <2> HIDE DEF q
  <2>1. q = 12 * a + b /\ 0 <= b /\ b <= 11 /\ a \in Int /\ b \in Int
    BY <1>1
  <2> HIDE DEF a, b
  <2>2. QED  BY <1>1, <2>1
<1>7. MarchFirst(y) - (D + a + b + b \div 4) = 7 * (IF k = 19 THEN 345011 + 626 * a + 52 * b
         ELSE IF k = 20 THEN 350229 + 626 * a + 52 * b ELSE 355447 + 626 * a + 52 * b)
  <2> HIDE DEF k, q, a, b, D
  <2>1. MarchFirst(y) = 36525 * k + 365 * q + q \div 4 - k + k \div 4 + 1721120 /\ q \div 4 \in Int
    BY <1>1, <1>3, <1>4, SMT
  <2>2. CASE k = 19  BY <1>1, <1>2, <1>6, <2>1, <2>2, SMT
  <2>3. CASE k = 20  BY <1>1, <1>2, <1>6, <2>1, <2>3, SMT
  <2>4. CASE k = 21  BY <1>1, <1>2, <1>6, <2>1, <2>4, SMT
  <2>5. QED  BY <1>1, <2>2, <2>3, <2>4, SMT
<1>8. D \in Int /\ MarchFirst(y) \in Int
  BY <1>2, MarchFirstInt
<1>9. QED
  <2> DEFINE w == D + a + b + b \div 4
             v == IF k = 19 THEN 345011 + 626 * a + 52 * b
                  ELSE IF k = 20 THEN 350229 + 626 * a + 52 * b ELSE 355447 + 626 * a + 52 * b
  <2>1. w \in Int /\ v \in Int
    <3> HIDE DEF k, q, a, b, D
    <3> QED  BY <1>6, <1>8
  <2>2. MarchFirst(y) - w = 7 * v /\ DoomsdayOf(y) = w % 7
    BY <1>5, <1>7
  <2> HIDE DEF w, v
  <2>3. MarchFirst(y) = w + 7 * v
    BY <1>8, <2>1, <2>2
  <2>4. (w + 7 * v) % 7 = w % 7 /\ w % 7 \in 0 .. 6
    BY <2>1
  <2>5. QED  BY <2>2, <2>3, <2>4

(* What set_dow() keeps of a year, and the day of the week it takes from   *)
(* that: right, but where a common year is taken for a leap year.          *)
KeptOf(y) == Kept(NoneKept, y)

LEMMA KeptFields ==
  ASSUME NEW y \in Int, y # -1
  PROVE  /\ KeptOf(y) = [year |-> y, dday |-> DoomsdayOf(y),
                         known |-> IF IsLeap(y) THEN KnownDates(4, 1) ELSE KnownDates(3, 0)]
         /\ KeptOf(y).year = y /\ KeptOf(y).dday = DoomsdayOf(y)
         /\ KeptOf(y).known = IF IsLeap(y) THEN KnownDates(4, 1) ELSE KnownDates(3, 0)
BY DEF KeptOf, Kept, NoneKept

KnownDay(y, m) == (IF IsLeap(y) THEN KnownDates(4, 1) ELSE KnownDates(3, 0))[m]

LeapShift(y, m) == IF m <= 2 THEN IF IsLeap(y) THEN 2 ELSE 1 ELSE 0

KnownAt(m, january, february, h) ==
  \/ (m = 1 /\ h = january) \/ (m = 2 /\ h = february) \/ (m = 3 /\ h = 0)
  \/ (m = 4 /\ h = 4)  \/ (m = 5 /\ h = 9)   \/ (m = 6 /\ h = 6)  \/ (m = 7 /\ h = 11)
  \/ (m = 8 /\ h = 8)  \/ (m = 9 /\ h = 5)   \/ (m = 10 /\ h = 10)
  \/ (m = 11 /\ h = 7) \/ (m = 12 /\ h = 12)

KnownFits(y, m) == (KnownDay(y, m) + SinceMarch(m) - LeapShift(y, m)) % 7 = 0

LEMMA KnownDays ==
  ASSUME NEW y \in Int, NEW m \in 1 .. 12
  PROVE  KnownDay(y, m) \in Int
         /\ KnownFits(y, m)
<1> DEFINE s == SinceMarch(m)
           h == KnownDay(y, m)
<1>1. s \in Int /\ Begins(m, s) /\ m \in Int
  BY MonthBegins
<1>2. m = 1 \/ m = 2 \/ m = 3 \/ m = 4 \/ m = 5 \/ m = 6 \/ m = 7 \/ m = 8 \/ m = 9 \/ m = 10
        \/ m = 11 \/ m = 12
  OBVIOUS
<1>3. CASE IsLeap(y)
  <2>1. h = KnownDates(4, 1)[m]  BY <1>3 DEF KnownDay
  <2> HIDE DEF s, h
  <2>2. KnownAt(m, 4, 1, h)
    BY <1>2, <2>1 DEF KnownDates, KnownAt
  <2>3. h \in Int
    BY <2>2 DEF KnownAt
  <2>4. (h + s - (IF m <= 2 THEN 2 ELSE 0)) % 7 = 0
    BY <1>1, <2>2, <2>3 DEF Begins, KnownAt
  <2>5. QED  BY <1>3, <2>3, <2>4 DEF s, h, LeapShift, KnownFits
<1>4. CASE ~IsLeap(y)
  <2>1. h = KnownDates(3, 0)[m]  BY <1>4 DEF KnownDay
  <2> HIDE DEF s, h
  <2>2. KnownAt(m, 3, 0, h)
    BY <1>2, <2>1 DEF KnownDates, KnownAt
  <2>3. h \in Int
    BY <2>2 DEF KnownAt
  <2>4. (h + s - (IF m <= 2 THEN 1 ELSE 0)) % 7 = 0
    BY <1>1, <2>2, <2>3 DEF Begins, KnownAt
  <2>5. QED  BY <1>4, <2>3, <2>4 DEF s, h, LeapShift, KnownFits
<1>5. QED  BY <1>3, <1>4

LEMMA DayOfWeek ==
  ASSUME NEW y \in Int, InCalendar(y), NEW m \in 1 .. 12, NEW d \in Int,
         (y = 1900 \/ y = 2100) => m > 2
  PROVE  SetDow(KeptOf(y), Date(y, m, d)) = (DToJ(Date(y, m, d)) + 1) % 7
<1> DEFINE l == IsLeap(y)
           s == SinceMarch(m)
           h == KnownDay(y, m)
           f == MarchFirst(MarchYear(y, m))
           g == MarchFirst(y)
           x == LeapShift(y, m)
<1>1. s \in Int /\ h \in Int /\ x \in Int /\ (h + s - x) % 7 = 0
  <2>0. h \in Int
    BY KnownDays
  <2>1. (h + s - x) % 7 = 0
    <3>1. KnownFits(y, m)
      BY KnownDays
    <3>2. QED  BY <3>1 DEF KnownFits
  <2>2. s \in Int
    BY MonthBegins
  <2>3. x \in Int
    BY DEF LeapShift
  <2>4. QED  BY <2>0, <2>1, <2>2, <2>3
<1>2. SetDow(KeptOf(y), Date(y, m, d)) = (((d - h) % 7) + DoomsdayOf(y)) % 7
  <2>1. KeptOf(y).dday = DoomsdayOf(y)
        /\ KeptOf(y).known = IF IsLeap(y) THEN KnownDates(4, 1) ELSE KnownDates(3, 0)
    BY KeptFields DEF InCalendar
  <2>2. Date(y, m, d).day = d /\ Date(y, m, d).month = m
    BY DEF Date
  <2>3. QED  BY <2>1, <2>2 DEF SetDow, KnownDay
<1>3. DoomsdayOf(y) \in Int /\ DoomsdayOf(y) = g % 7
  BY DoomsdayLast
<1>4. DToJ(Date(y, m, d)) = f + s + d - 1
  BY NumberOfDate
<1>5. f \in Int /\ g \in Int /\ MarchYear(y, m) \in Int
  <2>1. MarchYear(y, m) \in Int
    BY DEF MarchYear
  <2>2. QED  BY <2>1, MarchFirstInt
<1>6. g = f + (IF m <= 2 THEN IF l THEN 366 ELSE 365 ELSE 0)
  <2>1. CASE m <= 2
    <3>1. MarchYear(y, m) = y - 1 /\ (y - 1) + 1 = y
      BY <2>1 DEF MarchYear
    <3>2. MarchFirst((y - 1) + 1) = MarchFirst(y - 1) + (IF TrueLeap((y - 1) + 1) THEN 366 ELSE 365)
      BY MarchFirstNext
    <3>3. IsLeap(y) = TrueLeap(y)
      BY <2>1, LeapYears, CalendarYears
    <3>4. QED  BY <2>1, <3>1, <3>2, <3>3
  <2>2. CASE m > 2
    <3>1. MarchYear(y, m) = y
      BY <2>2 DEF MarchYear
    <3>2. QED  BY <2>2, <3>1, MarchFirstInt
  <2>3. QED  BY <2>1, <2>2
<1>7. g = f + x + (IF m <= 2 THEN 364 ELSE 0)
  <2> HIDE DEF s, h, f, g
  <2>1. QED  BY <1>1, <1>5, <1>6 DEF LeapShift
<1>8. (((d - h) % 7) + (g % 7)) % 7 = (f + s + d) % 7
  <2> DEFINE v == (h + s - x) \div 7
             c == IF m <= 2 THEN 52 ELSE 0
  <2>1. v \in Int /\ h + s - x = 7 * v /\ c \in Int
    <3> HIDE DEF l, s, h, f, g, x
    <3> QED  BY <1>1
  <2>2. g = f + x + 7 * c
    <3> HIDE DEF l, s, h, f, g, x
    <3> QED  BY <1>1, <1>5, <1>7
  <2> HIDE DEF l, s, h, f, g, x, v, c
  <2>3. f + s + d = (d - h) + g + 7 * (v - c)
    BY <1>1, <1>5, <2>1, <2>2
  <2>4. (f + s + d) % 7 = ((d - h) + g) % 7
    BY <1>1, <1>5, <2>1, <2>3
  <2>5. (((d - h) % 7) + (g % 7)) % 7 = ((d - h) + g) % 7
    BY <1>1, <1>5
  <2>6. QED  BY <2>4, <2>5
<1>9. DToJ(Date(y, m, d)) + 1 = f + s + d /\ DToJ(Date(y, m, d)) \in Int
  <2> HIDE DEF s, f
  <2> QED  BY <1>1, <1>4, <1>5
<1>10. QED
  <2> HIDE DEF l, s, h, f, g, x
  <2>1. SetDow(KeptOf(y), Date(y, m, d)) = (((d - h) % 7) + (g % 7)) % 7
    BY <1>2, <1>3, <1>1, <1>5
  <2>2. QED  BY <1>8, <1>9, <2>1

-----------------------------------------------------------------------------
\* Calendar: the entries of "calendar"

LEMMA DayNumberOfDate ==
  ASSUME NEW y \in Int, NEW m \in 1 .. 12, NEW d \in Int
  PROVE  /\ DayNumber(Date(y, m, d)) \in Int
         /\ IsLeap(y) => DayNumber(Date(y, m, d)) = LeapDays(m) + d
         /\ ~IsLeap(y) => DayNumber(Date(y, m, d)) = CommonDays[m] + d
<1>1. DayNumber(Date(y, m, d)) = CommonDays[m] + (IF IsLeap(y) /\ m > 2 THEN 1 ELSE 0) + d
  BY DEF DayNumber, Date, DaysBefore
<1>2. CommonDays[m] \in Int /\ LeapDays(m) = CommonDays[m] + (IF m > 2 THEN 1 ELSE 0)
  BY MonthsOfYear, MonthsOfLeapYear
<1>3. CASE IsLeap(y)  BY <1>1, <1>2, <1>3
<1>4. CASE ~IsLeap(y)  BY <1>1, <1>2, <1>4
<1>5. QED  BY <1>3, <1>4

(* Of a common year, from March on, it is that of the day before.          *)
EntryFor(y, m, d) ==
  IF m <= 2 \/ IsLeap(y) THEN [month |-> m, day |-> d]
  ELSE IF d > 1 THEN [month |-> m, day |-> d - 1]
  ELSE [month |-> m - 1, day |-> LongestMonth(m - 1)]

LEMMA EntryOfDay ==
  ASSUME NEW y \in Int, NEW m \in 1 .. 12, NEW d \in 1 .. LongestMonth(m)
  PROVE  /\ DayNumber(Date(y, m, d)) \in 1 .. 366
         /\ Entry[DayNumber(Date(y, m, d))] = EntryFor(y, m, d)
<1> DEFINE n == DayNumber(Date(y, m, d))
<1>1. /\ d \in Int /\ 1 <= d /\ d <= LongestMonth(m) /\ LongestMonth(m) \in Int /\ m \in Int
      /\ LeapDays(m) \in Int /\ CommonDays[m] \in Int
      /\ LeapDays(m) = CommonDays[m] + (IF m > 2 THEN 1 ELSE 0)
  BY MonthsOfLeapYear, MonthsOfYear DEF LongestMonth
<1>2. n \in Int /\ (IsLeap(y) => n = LeapDays(m) + d) /\ (~IsLeap(y) => n = CommonDays[m] + d)
  BY <1>1, DayNumberOfDate
<1> HIDE DEF n
<1>3. CASE m <= 2 \/ IsLeap(y)
  <2>1. n = LeapDays(m) + d
    BY <1>1, <1>2, <1>3
  <2>2. QED  BY <1>3, <2>1, EntryOfDate DEF EntryFor, n
<1>4. CASE ~(m <= 2 \/ IsLeap(y)) /\ d > 1
  <2>1. n = LeapDays(m) + (d - 1) /\ d - 1 \in 1 .. LongestMonth(m)
    BY <1>1, <1>2, <1>4
  <2>2. n \in 1 .. 366 /\ Entry[n] = [month |-> m, day |-> d - 1]
    BY <2>1, EntryOfDate
  <2>3. EntryFor(y, m, d) = [month |-> m, day |-> d - 1]
    BY <1>4 DEF EntryFor
  <2>4. QED  BY <2>2, <2>3 DEF n
<1>5. CASE ~(m <= 2 \/ IsLeap(y)) /\ d = 1
  <2> DEFINE j == m - 1
             L == LongestMonth(j)
  <2>1. j \in 2 .. 11 /\ j \in 1 .. 12 /\ j + 1 = m /\ j \in Int
    BY <1>1, <1>5
  <2> HIDE DEF j
  <2>2. L \in Int /\ L \in 1 .. L
    BY DEF LongestMonth
  <2>3. LeapDays(j) + L = LeapDays(j + 1) /\ LeapDays(j) \in Int /\ LeapDays(j + 1) \in Int
    <3>1. ASSUME NEW k \in 2 .. 11 PROVE LeapDays(k) + LongestMonth(k) = LeapDays(k + 1)
      <4>1. k = 2 \/ k = 3 \/ k = 4 \/ k = 5 \/ k = 6 \/ k = 7 \/ k = 8 \/ k = 9 \/ k = 10 \/ k = 11
        OBVIOUS
      <4>2. QED  BY <4>1 DEF LeapDays, DaysBefore, CommonDays, LongestMonth
    <3>2. QED  BY <2>1, <3>1, MonthsOfLeapYear
  <2>4. n = LeapDays(j) + L
    <3> HIDE DEF L
    <3>1. n = LeapDays(m)
      BY <1>1, <1>2, <1>5
    <3>2. QED  BY <2>1, <2>3, <3>1
  <2>5. n \in 1 .. 366 /\ Entry[n] = [month |-> j, day |-> L]
    BY <2>1, <2>2, <2>4, EntryOfDate
  <2>6. EntryFor(y, m, d) = [month |-> m - 1, day |-> LongestMonth(m - 1)]
    BY <1>5 DEF EntryFor
  <2>7. QED  BY <2>5, <2>6 DEF n, j
<1>6. QED  BY <1>1, <1>3, <1>4, <1>5

(* The day before a day, and its number in "calendar".                     *)
DayBefore(y, m, d) ==
  IF d > 1 THEN Date(y, m, d - 1)
  ELSE IF m > 1 THEN Date(y, m - 1, MonthLength(y, m - 1))
  ELSE Date(y - 1, 12, 31)

LEMMA DateOfDayBefore ==
  ASSUME NEW y \in Int, InCalendar(y), NEW m \in 1 .. 12, NEW d \in 1 .. MonthLength(y, m)
  PROVE  JToD(DToJ(Date(y, m, d)) - 1) = DayBefore(y, m, d)
<1> DEFINE N == DToJ(Date(y, m, d))
<1>1. Gregorian(y) /\ Gregorian(y - 1)
  BY CalendarYears
<1>2. MonthLength(y, m) \in Int /\ d \in Int /\ 1 <= d /\ d <= MonthLength(y, m)
  BY MonthLengthInt
<1>3. CASE d > 1
  <2>1. d - 1 \in 1 .. MonthLength(y, m) /\ d - 1 \in Int
    BY <1>2, <1>3
  <2>2. /\ N = NewYearDay(y) + DaysBefore(TrueLeap(y), m) + d - 1
        /\ DToJ(Date(y, m, d - 1)) = NewYearDay(y) + DaysBefore(TrueLeap(y), m) + (d - 1) - 1
    BY <1>2, <2>1, NumberOfYearDay
  <2>3. NewYearDay(y) \in Int /\ DaysBefore(TrueLeap(y), m) \in Int
    BY NewYearNext, MonthsOfYear DEF DaysBefore
  <2>4. DToJ(Date(y, m, d - 1)) = N - 1
    <3> HIDE DEF N
    <3> QED  BY <1>2, <2>2, <2>3
  <2>5. JToD(DToJ(Date(y, m, d - 1))) = Date(y, m, d - 1)
    BY <1>1, <2>1, DateOfNumber
  <2>6. QED  BY <1>3, <2>4, <2>5 DEF DayBefore
<1>4. CASE d = 1 /\ m > 1
  <2> DEFINE j == m - 1
             L == MonthLength(y, j)
  <2>1. j \in 1 .. 12 /\ j # 12 /\ (j % 12) + 1 = m
    BY <1>4
  <2>2. L \in 1 .. L /\ L \in Int
    <3> HIDE DEF j
    <3> QED  BY <2>1, MonthLengthInt
  <2>3. DToJ(Date(y, m, 1)) = DToJ(Date(y, j, L)) + 1 /\ DToJ(Date(y, j, L)) \in Int
    <3>1. DToJ(Date(y, j, L)) \in Int
      <4> HIDE DEF j
      <4>1. DToJ(Date(y, j, L)) = NewYearDay(y) + DaysBefore(TrueLeap(y), j) + L - 1
        BY <2>1, <2>2, NumberOfYearDay
      <4>2. QED  BY <2>1, <2>2, <4>1, NewYearNext, MonthsOfYear DEF DaysBefore
    <3> HIDE DEF j
    <3>2. QED  BY <2>1, <3>1, NumberOfNextDate
  <2>4. N - 1 = DToJ(Date(y, j, L))
    BY <1>4, <2>3
  <2>5. JToD(DToJ(Date(y, j, L))) = Date(y, j, L)
    <3> HIDE DEF j
    <3> QED  BY <1>1, <2>1, <2>2, DateOfNumber
  <2>6. DayBefore(y, m, d) = Date(y, j, L)
    BY <1>4 DEF DayBefore
  <2>7. QED  BY <2>4, <2>5, <2>6
<1>5. CASE d = 1 /\ m = 1
  <2>1. MonthLength(y - 1, 12) = 31 /\ (12 % 12) + 1 = 1 /\ (y - 1) + 1 = y
    BY DEF MonthLength
  <2>2. DToJ(Date(y, 1, 1)) = DToJ(Date(y - 1, 12, 31)) + 1
    <3>1. DToJ(Date((y - 1) + 1, (12 % 12) + 1, 1)) = DToJ(Date(y - 1, 12, MonthLength(y - 1, 12))) + 1
      BY NumberOfNextDate
    <3>2. QED  BY <2>1, <3>1
  <2>3. DToJ(Date(y - 1, 12, 31)) \in Int
    <3>1. DToJ(Date(y - 1, 12, 31)) = NewYearDay(y - 1) + DaysBefore(TrueLeap(y - 1), 12) + 31 - 1
      BY NumberOfYearDay
    <3>2. QED  BY <3>1, NewYearNext, MonthsOfYear DEF DaysBefore
  <2>4. N - 1 = DToJ(Date(y - 1, 12, 31))
    BY <1>5, <2>2, <2>3
  <2>5. JToD(DToJ(Date(y - 1, 12, 31))) = Date(y - 1, 12, 31)
    BY <1>1, <2>1, DateOfNumber
  <2>6. QED  BY <1>5, <2>4, <2>5 DEF DayBefore
<1>6. QED  BY <1>2, <1>3, <1>4, <1>5

-----------------------------------------------------------------------------
\* Calendar: the rows of date_dim

LEMMA NumberInt ==
  ASSUME NEW y \in Int, NEW m \in 1 .. 12, NEW d \in Int
  PROVE  DToJ(Date(y, m, d)) \in Int
<1>1. DToJ(Date(y, m, d)) = NewYearDay(y) + DaysBefore(TrueLeap(y), m) + d - 1
  BY NumberOfYearDay
<1>2. QED  BY <1>1, NewYearNext, MonthsOfYear DEF DaysBefore

LEMMA FirstOfYear ==
  ASSUME NEW y \in Int
  PROVE  DToJ(Date(y, 1, 1)) = NewYearDay(y)
<1>1. DToJ(Date(y, 1, 1)) = NewYearDay(y) + DaysBefore(TrueLeap(y), 1) + 1 - 1
  BY NumberOfYearDay
<1>2. DaysBefore(TrueLeap(y), 1) = 0
  BY DEF DaysBefore, CommonDays
<1>3. QED  BY <1>1, <1>2, NewYearNext

(* Row 73,049 is the first of January 2100, and the year 2003 begins far   *)
(* behind the second week.                                                 *)
LEMMA YearsOfRows ==
  /\ Base \in Int /\ Base = NewYearDay(1900)
  /\ NewYearDay(2101) > Base + 73049 /\ NewYearDay(2003) > Base + 100
<1>1. Base = NewYearDay(1900)
  BY FirstOfYear DEF Base
<1>2. /\ NewYearDay(1900) = MarchFirst(1899) + 306 /\ NewYearDay(2101) = MarchFirst(2100) + 306
      /\ NewYearDay(2003) = MarchFirst(2002) + 306
  BY DEF NewYearDay
<1>3. /\ MarchFirst(1899) = 365 * 1899 + 1899 \div 4 - 1899 \div 100 + 1899 \div 400 + 1721120
      /\ MarchFirst(2100) = 365 * 2100 + 2100 \div 4 - 2100 \div 100 + 2100 \div 400 + 1721120
      /\ MarchFirst(2002) = 365 * 2002 + 2002 \div 4 - 2002 \div 100 + 2002 \div 400 + 1721120
  BY SMT DEF MarchFirst
<1>4. QED  BY <1>1, <1>2, <1>3, SMT

DateOf(t) == Date(t.year, t.month, t.day)

IsDay(t, row) ==
  /\ t = [year |-> t.year, month |-> t.month, day |-> t.day, dow |-> (row + 1) % 7]
  /\ t.year \in Int /\ InCalendar(t.year) /\ t.month \in 1 .. 12
  /\ t.day \in 1 .. MonthLength(t.year, t.month)
  /\ DToJ(DateOf(t)) = row + Base

LEMMA IsDayFirst ==
  IsDay([year |-> 1900, month |-> 1, day |-> 1, dow |-> 1], 0)
<1> DEFINE t == [year |-> 1900, month |-> 1, day |-> 1, dow |-> 1]
<1>1. t.year = 1900 /\ t.month = 1 /\ t.day = 1 /\ (0 + 1) % 7 = 1
  OBVIOUS
<1>2. t = [year |-> t.year, month |-> t.month, day |-> t.day, dow |-> (0 + 1) % 7]
  OBVIOUS
<1>3. DateOf(t) = Date(1900, 1, 1)
  BY DEF DateOf
<1>4. DToJ(DateOf(t)) = 0 + Base
  BY <1>3, YearsOfRows DEF Base
<1>5. InCalendar(1900) /\ 1 \in 1 .. MonthLength(1900, 1)
  BY DEF InCalendar, MonthLength
<1> HIDE DEF t
<1>6. QED  BY <1>1, <1>2, <1>4, <1>5 DEF IsDay, t

LEMMA IsDayNext ==
  ASSUME NEW row \in Int, 0 <= row, row < 73049, NEW t, IsDay(t, row)
  PROVE  /\ IsDay(Tomorrow(t), row + 1)
         /\ Tomorrow(t).year = t.year
              \/ (Tomorrow(t).year = t.year + 1 /\ t.month = 12 /\ Tomorrow(t).month = 1)
<1> DEFINE y == t.year
           m == t.month
           d == t.day
           u == Tomorrow(t)
           L == MonthLength(y, m)
           w == (row + 1 + 1) % 7
<1>1. /\ y \in Int /\ InCalendar(y) /\ m \in 1 .. 12 /\ d \in 1 .. L
      /\ DToJ(Date(y, m, d)) = row + Base /\ t.dow = (row + 1) % 7
  BY DEF IsDay, DateOf
<1>2. (t.dow + 1) % 7 = w
  <2> HIDE DEF y, m, d, L
  <2> QED  BY <1>1
<1>3. L \in Int /\ d \in Int /\ 1 <= L /\ 1 <= d /\ d <= L /\ Base \in Int
  <2> HIDE DEF y, m, d
  <2>1. L \in Int /\ 28 <= L
    BY <1>1, MonthLengthInt
  <2> HIDE DEF L
  <2>2. QED  BY <1>1, <2>1, YearsOfRows
<1>4. CASE d < L
  <2>1. u = [year |-> y, month |-> m, day |-> d + 1, dow |-> w]
    BY <1>2, <1>4 DEF Tomorrow
  <2>2. u.year = y /\ u.month = m /\ u.day = d + 1 /\ u.dow = w
    BY <2>1
  <2>3. DToJ(Date(y, m, d + 1)) = row + 1 + Base
    <3> HIDE DEF y, m, d, u, L
    <3>1. /\ DToJ(Date(y, m, d)) = NewYearDay(y) + DaysBefore(TrueLeap(y), m) + d - 1
          /\ DToJ(Date(y, m, d + 1)) = NewYearDay(y) + DaysBefore(TrueLeap(y), m) + (d + 1) - 1
      BY <1>1, <1>3, NumberOfYearDay
    <3>2. NewYearDay(y) \in Int /\ DaysBefore(TrueLeap(y), m) \in Int
      BY <1>1, NewYearNext, MonthsOfYear DEF DaysBefore
    <3>3. QED  BY <1>1, <1>3, <3>1, <3>2
  <2>4. d + 1 \in 1 .. L
    <3> HIDE DEF L, d
    <3> QED  BY <1>3, <1>4
  <2> HIDE DEF y, m, d, u
  <2>5. IsDay(u, row + 1)
    <3>1. DateOf(u) = Date(y, m, d + 1)
      BY <2>2 DEF DateOf
    <3>2. u = [year |-> u.year, month |-> u.month, day |-> u.day, dow |-> w]
      BY <2>1, <2>2
    <3>3. DToJ(DateOf(u)) = row + 1 + Base
      BY <2>3, <3>1
    <3>4. QED  BY <1>1, <2>2, <2>4, <3>2, <3>3 DEF IsDay
  <2>6. QED  BY <2>2, <2>5 DEF u, y
<1>5. CASE d = L
  <2> DEFINE z == IF m = 12 THEN y + 1 ELSE y
             k == (m % 12) + 1
  <2>1. u = [year |-> z, month |-> k, day |-> 1, dow |-> w]
    <3>1. ~(d < L)
      <4> HIDE DEF d, L
      <4> QED  BY <1>3, <1>5
    <3> HIDE DEF w
    <3>2. QED  BY <1>2, <3>1 DEF Tomorrow
  <2>2. u.year = z /\ u.month = k /\ u.day = 1 /\ u.dow = w
    BY <2>1
  <2>3. z \in Int /\ k \in 1 .. 12 /\ (z = y \/ (z = y + 1 /\ m = 12 /\ k = 1))
    <3> HIDE DEF y, m
    <3> QED  BY <1>1
  <2>4. DToJ(Date(z, k, 1)) = row + 1 + Base
    <3> HIDE DEF y, m, d
    <3>1. DToJ(Date(z, k, 1)) = DToJ(Date(y, m, L)) + 1
      BY <1>1, NumberOfNextDate
    <3> HIDE DEF z, k
    <3>2. QED  BY <1>1, <1>3, <1>5, <3>1
  <2>5. 1 \in 1 .. MonthLength(z, k)
    <3> HIDE DEF z, k
    <3> QED  BY <2>3, MonthLengthInt
  <2>6. InCalendar(z)
    <3> HIDE DEF y, m, d, L
    <3>1. CASE z = y  BY <1>1, <3>1
    <3>2. CASE z # y
      <4>1. z = y + 1 /\ k = 1
        BY <2>3, <3>2
      <4>2. z # 2101
        <5>1. SUFFICES ASSUME z = 2101 PROVE FALSE
          OBVIOUS
        <5>2. NewYearDay(2101) = row + 1 + Base
          <6>1. DToJ(Date(z, 1, 1)) = NewYearDay(z)
            BY <2>3, FirstOfYear
          <6> HIDE DEF z, k
          <6>2. QED  BY <2>4, <4>1, <5>1, <6>1
        <5> HIDE DEF z
        <5>3. QED  BY <1>3, <5>2, YearsOfRows, SMT
      <4> HIDE DEF z
      <4>3. QED  BY <1>1, <2>3, <4>1, <4>2, SMT DEF InCalendar
    <3>3. QED  BY <3>1, <3>2
  <2> HIDE DEF y, m, d, u, z, k
  <2>7. IsDay(u, row + 1)
    <3>1. DateOf(u) = Date(z, k, 1)
      BY <2>2 DEF DateOf
    <3>2. u = [year |-> u.year, month |-> u.month, day |-> u.day, dow |-> w]
      BY <2>1, <2>2
    <3>3. DToJ(DateOf(u)) = row + 1 + Base
      BY <2>4, <3>1
    <3>4. QED  BY <2>2, <2>3, <2>5, <2>6, <3>2, <3>3 DEF IsDay
  <2>8. QED  BY <2>2, <2>3, <2>7 DEF u, y, m
<1>6. QED
  <2> HIDE DEF d, L
  <2> QED  BY <1>3, <1>4, <1>5

(* What set_dow() keeps does not matter to the next year.                  *)
LEMMA KeptAgain ==
  ASSUME NEW k, k = NoneKept \/ (\E y \in Int : InCalendar(y) /\ k = KeptOf(y)),
         NEW z \in Int, InCalendar(z)
  PROVE  Kept(k, z) = KeptOf(z)
<1>1. z # -1
  BY DEF InCalendar
<1>2. CASE k = NoneKept
  BY <1>2 DEF KeptOf
<1>3. ASSUME NEW y \in Int, InCalendar(y), k = KeptOf(y)
      PROVE  Kept(k, z) = KeptOf(z)
  <2>1. y # -1
    BY <1>3 DEF InCalendar
  <2>2. k.year = y
    BY <1>3, <2>1, KeptFields
  <2>3. CASE z = y
    BY <1>3, <2>2, <2>3 DEF Kept
  <2>4. CASE z # y
    <3>1. Kept(k, z) = [year |-> z, dday |-> DoomsdayOf(z),
                        known |-> IF IsLeap(z) THEN KnownDates(4, 1) ELSE KnownDates(3, 0)]
      BY <2>2, <2>4 DEF Kept
    <3>2. QED  BY <1>1, <3>1, KeptFields
  <2>5. QED  BY <2>3, <2>4
<1>4. QED  BY <1>2, <1>3

CurrentYear == 2003

(* The flags of a day, which only the days of 2003 change.                 *)
FlagsOf(t) ==
  [month |-> t.year = CurrentYear /\ t.month = 1,
   quarter |-> t.year = CurrentYear /\ (t.month <= 3 \/ (t.month = 4 /\ t.day = 1)), week |-> FALSE]

LEMMA DayOfRow ==
  ASSUME NEW row \in Int, NEW t, IsDay(t, row)
  PROVE  JToD(row + Base) = DateOf(t)
<1>1. t.year \in Int /\ InCalendar(t.year) /\ t.month \in 1 .. 12
        /\ t.day \in 1 .. MonthLength(t.year, t.month) /\ DToJ(DateOf(t)) = row + Base
  BY DEF IsDay
<1>2. Gregorian(t.year)
  BY <1>1, CalendarYears
<1>3. JToD(DToJ(Date(t.year, t.month, t.day))) = Date(t.year, t.month, t.day)
  BY <1>1, <1>2, DateOfNumber
<1>4. QED  BY <1>1, <1>3 DEF DateOf

LEMMA NoSecondWeek ==
  ASSUME NEW row \in Int, NEW t, IsDay(t, row), t.year = CurrentYear
  PROVE  WeekSeq(row) # 2
<1> DEFINE m == t.month
           d == t.day
<1>1. /\ m \in 1 .. 12 /\ d \in 1 .. MonthLength(2003, m) /\ DToJ(Date(2003, m, d)) = row + Base
  BY DEF IsDay, DateOf, CurrentYear
<1> HIDE DEF m, d
<1>2. MonthLength(2003, m) \in Int /\ d \in Int /\ 1 <= d
  BY <1>1, MonthLengthInt
<1>3. DToJ(Date(2003, m, d)) = NewYearDay(2003) + DaysBefore(TrueLeap(2003), m) + d - 1
  BY <1>1, <1>2, NumberOfYearDay
<1>4. DaysBefore(TrueLeap(2003), m) \in Int /\ 0 <= DaysBefore(TrueLeap(2003), m)
  <2>1. CommonDays[m] \in Int /\ YearBegins(m, CommonDays[m])
    BY <1>1, MonthsOfYear
  <2>2. CommonDays[m] >= 0
    BY <2>1 DEF YearBegins
  <2>3. QED  BY <2>1, <2>2 DEF DaysBefore
<1>5. NewYearDay(2003) \in Int
  BY NewYearNext
<1>6. row >= 100
  BY <1>1, <1>2, <1>3, <1>4, <1>5, YearsOfRows
<1>7. QED  BY <1>6 DEF WeekSeq

LEMMA MonthFits ==
  ASSUME NEW y \in Int, NEW m \in 1 .. 12, NEW d \in 1 .. MonthLength(y, m)
  PROVE  d \in 1 .. LongestMonth(m) /\ d \in Int
<1>1. MonthLength(y, m) \in Int /\ MonthLength(y, m) <= LongestMonth(m) /\ LongestMonth(m) \in Int
  BY MonthLengthInt DEF LongestMonth
<1>2. QED  BY <1>1

LEMMA FlagsOfRow ==
  ASSUME NEW row \in Int, NEW t, IsDay(t, row), t.year = CurrentYear
  PROVE  Flags(row, DateOf(t)) = FlagsOf(t)
<1> DEFINE y == t.year
           m == t.month
           d == t.day
<1>1. y \in Int /\ m \in 1 .. 12 /\ d \in 1 .. MonthLength(y, m) /\ InCalendar(y)
  BY DEF IsDay
<1>y. y = CurrentYear
  OBVIOUS
<1>2. DateOf(t).year = y /\ DateOf(t).month = m /\ DateOf(t).day = d /\ DateOf(t) = Date(y, m, d)
  BY DEF DateOf, Date
<1> HIDE DEF y, m, d
<1>3. d \in 1 .. LongestMonth(m) /\ d \in Int /\ 1 <= d /\ m \in Int
  <2>1. d \in 1 .. LongestMonth(m) /\ d \in Int
    BY <1>1, MonthFits
  <2>2. QED  BY <1>1, <2>1 DEF LongestMonth
<1>4. ~IsLeap(y)
  BY <1>y DEF IsLeap, CurrentYear
<1>5. Entry[DayNumber(DateOf(t))] = EntryFor(y, m, d)
  <2>1. Entry[DayNumber(Date(y, m, d))] = EntryFor(y, m, d)
    BY <1>1, <1>3, EntryOfDay
  <2>2. QED  BY <1>2, <2>1
<1>6. EntryFor(y, m, d).month = IF m <= 2 \/ d > 1 THEN m ELSE m - 1
  BY <1>4 DEF EntryFor
<1>7. (EntryFor(y, m, d).month <= 3) <=> (m <= 3 \/ (m = 4 /\ d = 1))
  BY <1>3, <1>6
<1>8. WeekSeq(row) # 2
  BY NoSecondWeek
<1>9. Flags(row, DateOf(t)) = [month |-> m = 1, quarter |-> Entry[DayNumber(DateOf(t))].month <= 3,
                               week |-> WeekSeq(row) = 2]
  BY <1>y, <1>2 DEF Flags, CurrentYear
<1>10. FlagsOf(t) = [month |-> m = 1, quarter |-> m <= 3 \/ (m = 4 /\ d = 1), week |-> FALSE]
  BY <1>y DEF FlagsOf, y, m, d
<1>11. (Entry[DayNumber(DateOf(t))].month <= 3) = (m <= 3 \/ (m = 4 /\ d = 1))
  BY <1>5, <1>7
<1>12. (WeekSeq(row) = 2) = FALSE
  BY <1>8
<1>13. QED
  <2> DEFINE a == Entry[DayNumber(DateOf(t))].month <= 3
             b == m <= 3 \/ (m = 4 /\ d = 1)
             c == WeekSeq(row) = 2
             e == m = 1
  <2>1. /\ Flags(row, DateOf(t)) = [month |-> e, quarter |-> a, week |-> c]
        /\ FlagsOf(t) = [month |-> e, quarter |-> b, week |-> FALSE]
        /\ a = b /\ c = FALSE
    BY <1>9, <1>10, <1>11, <1>12, Zenon
  <2> HIDE DEF a, b, c, e
  <2>2. QED  BY <2>1

(* The entries a date is drawn from are of days that every year has.       *)
IsDate(y, m, d) == y \in Int /\ m \in 1 .. 12 /\ d \in 1 .. MonthLength(y, m)

DrawnFrom(z, first) ==
  \E y \in Years, m \in 1 .. 12, d \in 1 .. 31 :
    /\ IsDate(y, m, d) /\ m \in Months(z) /\ ~(m = 2 /\ d = 29)
    /\ first = DToJ(Date(y, m, d))

LEMMA EntryDay ==
  ASSUME NEW n \in 1 .. 366, n # 60
  PROVE  \E m \in 1 .. 12, d \in 1 .. 31 :
           /\ Entry[n] = [month |-> m, day |-> d] /\ ~(m = 2 /\ d = 29)
           /\ \A y \in Int : IsDate(y, m, d)
<1>0. PICK m \in 1 .. 12 : \E d \in 1 .. LongestMonth(m) : n = LeapDays(m) + d
  BY DateOfEntry DEF Dated
<1>1. PICK d \in 1 .. LongestMonth(m) : n = LeapDays(m) + d
  BY <1>0
<1>2. d \in 1 .. 31
  BY DEF LongestMonth
<1>3. Entry[n] = [month |-> m, day |-> d]
  BY <1>1, EntryOfDate
<1>4. ~(m = 2 /\ d = 29)
  <2>1. LeapDays(2) = 31
    BY DEF LeapDays, DaysBefore, CommonDays
  <2>2. QED  BY <1>1, <2>1
<1>5. ASSUME NEW y \in Int PROVE IsDate(y, m, d)
  <2>1. MonthLength(y, m) \in Int /\ (m = 2 => MonthLength(y, m) = IF TrueLeap(y) THEN 29 ELSE 28)
          /\ (m # 2 => MonthLength(y, m) = LongestMonth(m))
    BY MonthLengthInt
  <2>2. LongestMonth(2) = 29
    BY DEF LongestMonth
  <2>3. CASE m = 2
    <3>1. d \in 1 .. 28
      BY <1>4, <2>2, <2>3
    <3>2. QED  BY <2>1, <2>3, <3>1 DEF IsDate
  <2>4. CASE m # 2
    BY <2>1, <2>4 DEF IsDate
  <2>5. QED  BY <2>3, <2>4
<1>6. QED  BY <1>2, <1>3, <1>4, <1>5

LEMMA YearsInt == \A y \in Years : y \in Int /\ InCalendar(y) /\ y # 1900 /\ y # 2100
BY CalendarAssumption DEF InCalendar

LEMMA SkewedDay ==
  ASSUME NEW z \in Zones, NEW first \in SkewedDates(z)
  PROVE  DrawnFrom(z, first)
<1>1. PICK y \in Years, n \in Entries[z] : first = DToJ(Date(y, Entry[n].month, Entry[n].day))
  BY SMT DEF SkewedDates
<1>2. n \in 1 .. 366 /\ n # 60 /\ Entry[n].month \in Months(z)
  BY Zenon DEF Entries
<1>3. PICK m \in 1 .. 12, d \in 1 .. 31 :
        /\ Entry[n] = [month |-> m, day |-> d] /\ ~(m = 2 /\ d = 29)
        /\ \A x \in Int : IsDate(x, m, d)
  BY <1>2, EntryDay, Zenon
<1>4. Entry[n].month = m /\ Entry[n].day = d
  BY <1>3
<1>5. y \in Int
  BY YearsInt
<1>6. IsDate(y, m, d)
  BY <1>3, <1>5
<1>7. m \in Months(z) /\ first = DToJ(Date(y, m, d))
  BY <1>1, <1>2, <1>4
<1>8. QED  BY <1>3, <1>6, <1>7, Zenon DEF DrawnFrom

LEMMA DateOfDate ==
  ASSUME NEW y, NEW m, NEW d, IsDate(y, m, d), Gregorian(y)
  PROVE  JToD(DToJ(Date(y, m, d))) = Date(y, m, d)
BY DateOfNumber DEF IsDate

(* The inductive invariant of the walk through date_dim.                   *)
WalkInv ==
  /\ crow \in 0 .. LastRow /\ IsDay(today, crow)
  /\ walk = "update" => crow = 0
  /\ kept = NoneKept \/ \E y \in Int : InCalendar(y) /\ kept = KeptOf(y)
  /\ crow > 0 => kept = KeptOf(today.year)
  /\ current = FlagsOf(today)

LEMMA OtherDay ==
  ASSUME NEW t, t.year # CurrentYear \/ t.month = 12
  PROVE  FlagsOf(t) = NoFlags
<1>1. (t.year = CurrentYear /\ t.month = 1) = FALSE
  OBVIOUS
<1>2. (t.year = CurrentYear /\ (t.month <= 3 \/ (t.month = 4 /\ t.day = 1))) = FALSE
  OBVIOUS
<1>3. QED
  <2> DEFINE a == t.year = CurrentYear /\ t.month = 1
             b == t.year = CurrentYear /\ (t.month <= 3 \/ (t.month = 4 /\ t.day = 1))
  <2>1. FlagsOf(t) = [month |-> a, quarter |-> b, week |-> FALSE] /\ a = FALSE /\ b = FALSE
    BY <1>1, <1>2, Zenon DEF FlagsOf
  <2> HIDE DEF a, b
  <2>2. QED  BY <2>1 DEF NoFlags

LEMMA WalkInit == CalendarInit => WalkInv
<1> SUFFICES ASSUME CalendarInit PROVE WalkInv
  OBVIOUS
<1>1. crow = 0 /\ today = [year |-> 1900, month |-> 1, day |-> 1, dow |-> 1] /\ kept = NoneKept
        /\ current = NoFlags
  BY DEF CalendarInit
<1>2. crow \in 0 .. LastRow
  BY <1>1, CalendarAssumption
<1>3. IsDay(today, crow)
  BY <1>1, IsDayFirst
<1>4. current = FlagsOf(today)
  <2>1. today.year # CurrentYear
    BY <1>1 DEF CurrentYear
  <2>2. QED  BY <1>1, <2>1, OtherDay
<1>5. QED  BY <1>1, <1>2, <1>3, <1>4 DEF WalkInv

LEMMA WalkNext == WalkInv /\ [CalendarNext]_calendarVars => WalkInv'
<1> SUFFICES ASSUME WalkInv, [CalendarNext]_calendarVars PROVE WalkInv'
  OBVIOUS
<1>0. /\ crow \in 0 .. LastRow /\ IsDay(today, crow) /\ (walk = "update" => crow = 0)
      /\ kept = NoneKept \/ \E y \in Int : InCalendar(y) /\ kept = KeptOf(y)
      /\ crow > 0 => kept = KeptOf(today.year)
      /\ current = FlagsOf(today)
  BY DEF WalkInv
<1>1. CASE MakeDate
  <2>1. /\ walk = "date_dim" /\ crow < LastRow /\ walk' = walk
        /\ crow' = crow + 1 /\ today' = Tomorrow(today)
        /\ kept' = Kept(kept, JToD(crow' + Base).year)
        /\ current' = Flags(crow', JToD(crow' + Base))
    BY <1>1 DEF MakeDate
  <2>2. /\ crow \in Int /\ 0 <= crow /\ crow < 73049 /\ crow' \in Int /\ crow' \in 0 .. LastRow
        /\ crow' > 0
    BY <1>0, <2>1, CalendarAssumption
  <2>3. /\ IsDay(today', crow')
        /\ today'.year = today.year
             \/ (today'.year = today.year + 1 /\ today.month = 12 /\ today'.month = 1)
    BY <1>0, <2>1, <2>2, IsDayNext
  <2>4. JToD(crow' + Base) = DateOf(today')
    BY <2>2, <2>3, DayOfRow
  <2>5. today'.year \in Int /\ InCalendar(today'.year)
    BY <2>3 DEF IsDay
  <2>6. JToD(crow' + Base).year = today'.year
    BY <2>4 DEF DateOf, Date
  <2>7. kept' = KeptOf(today'.year)
    BY <1>0, <2>1, <2>5, <2>6, KeptAgain
  <2>8. current' = FlagsOf(today')
    <3>1. CASE today'.year = CurrentYear
      BY <2>1, <2>2, <2>3, <2>4, <3>1, FlagsOfRow
    <3>2. CASE today'.year # CurrentYear
      <4>1. current' = current
        BY <2>1, <2>6, <3>2 DEF Flags, CurrentYear
      <4>2. FlagsOf(today') = NoFlags
        BY <3>2, OtherDay
      <4>3. FlagsOf(today) = NoFlags
        BY <2>3, <3>2, OtherDay
      <4>4. QED  BY <1>0, <4>1, <4>2, <4>3
    <3>3. QED  BY <3>1, <3>2
  <2>9. walk' # "update"
    BY <2>1
  <2>10. QED  BY <2>2, <2>3, <2>5, <2>7, <2>8, <2>9 DEF WalkInv
<1>2. CASE PickDates
  <2>1. /\ walk = "update" /\ walk' = walk /\ crow' = crow /\ today' = today /\ current' = current
        /\ zone' = ZoneAfter(zone)
    BY <1>2 DEF PickDates
  <2>2. PICK first \in SkewedDates(zone') : kept' = Kept(kept, JToD(first).year)
    BY <1>2, Zenon DEF PickDates
  <2>3. zone' \in Zones
    BY <2>1 DEF ZoneAfter, Zones
  <2>4. PICK y \in Years, m \in 1 .. 12, d \in 1 .. 31 : IsDate(y, m, d) /\ first = DToJ(Date(y, m, d))
    BY <2>2, <2>3, SkewedDay DEF DrawnFrom
  <2>5. y \in Int /\ InCalendar(y) /\ Gregorian(y)
    BY YearsInt, CalendarYears
  <2>6. JToD(first).year = y
    <3>1. JToD(first) = Date(y, m, d)
      BY <2>4, <2>5, DateOfDate
    <3>2. QED  BY <3>1 DEF Date
  <2>7. kept' = KeptOf(y)
    BY <1>0, <2>2, <2>5, <2>6, KeptAgain
  <2>8. ~(crow' > 0)
    BY <1>0, <2>1
  <2>9. QED  BY <1>0, <2>1, <2>5, <2>7, <2>8 DEF WalkInv
<1>3. CASE UNCHANGED calendarVars
  BY <1>0, <1>3 DEF calendarVars, WalkInv
<1>4. QED  BY <1>1, <1>2, <1>3 DEF CalendarNext

(* The date in a row.                                                      *)
LEMMA MonthEnds ==
  ASSUME NEW y \in Int, NEW m \in 1 .. 12, m < 12
  PROVE  DaysBefore(TrueLeap(y), m + 1) = DaysBefore(TrueLeap(y), m) + MonthLength(y, m)
<1>1. m + 1 \in 1 .. 12 /\ (m % 12) + 1 = m + 1 /\ m # 12
  OBVIOUS
<1>2. MonthLength(y, m) \in Int
  BY MonthLengthInt
<1>3. DToJ(Date(y, m + 1, 1)) = DToJ(Date(y, m, MonthLength(y, m))) + 1
  <2>1. DToJ(Date(IF m = 12 THEN y + 1 ELSE y, (m % 12) + 1, 1))
          = DToJ(Date(y, m, MonthLength(y, m))) + 1
    BY NumberOfNextDate
  <2>2. QED  BY <1>1, <2>1
<1>4. /\ DToJ(Date(y, m + 1, 1)) = NewYearDay(y) + DaysBefore(TrueLeap(y), m + 1) + 1 - 1
      /\ DToJ(Date(y, m, MonthLength(y, m)))
           = NewYearDay(y) + DaysBefore(TrueLeap(y), m) + MonthLength(y, m) - 1
  BY <1>1, <1>2, NumberOfYearDay
<1>5. NewYearDay(y) \in Int /\ DaysBefore(TrueLeap(y), m) \in Int /\ DaysBefore(TrueLeap(y), m + 1) \in Int
  BY <1>1, NewYearNext, MonthsOfYear DEF DaysBefore
<1>6. QED  BY <1>2, <1>3, <1>4, <1>5

LEMMA FirstDate ==
  ASSUME NEW y, NEW m, NEW d, IsDate(y, m, d), Gregorian(y), NEW n, n = DToJ(Date(y, m, d))
  PROVE  JToD(FirstOfMonth(n)) = Date(y, m, 1)
<1>1. y \in Int /\ m \in 1 .. 12 /\ d \in 1 .. MonthLength(y, m) /\ d \in Int /\ IsDate(y, m, 1)
  <2>1. y \in Int /\ m \in 1 .. 12 /\ d \in 1 .. MonthLength(y, m)
    BY DEF IsDate
  <2>2. MonthLength(y, m) \in Int /\ 28 <= MonthLength(y, m)
    BY <2>1, MonthLengthInt
  <2>3. QED  BY <2>1, <2>2 DEF IsDate
<1>2. /\ n = NewYearDay(y) + DaysBefore(TrueLeap(y), m) + d - 1
      /\ DToJ(Date(y, m, 1)) = NewYearDay(y) + DaysBefore(TrueLeap(y), m) + 1 - 1
  BY <1>1, NumberOfYearDay
<1>3. NewYearDay(y) \in Int /\ DaysBefore(TrueLeap(y), m) \in Int
  BY <1>1, NewYearNext, MonthsOfYear DEF DaysBefore
<1>4. JToD(n).day = d
  <2>1. JToD(n) = Date(y, m, d)
    BY DateOfDate
  <2>2. QED  BY <2>1 DEF Date
<1>5. FirstOfMonth(n) = DToJ(Date(y, m, 1))
  <2>1. FirstOfMonth(n) = n - d + 1
    BY <1>4 DEF FirstOfMonth
  <2>2. QED  BY <1>1, <1>2, <1>3, <2>1
<1>6. QED  BY <1>1, <1>5, DateOfDate

LEMMA DateLastYear ==
  ASSUME NEW y, NEW m, NEW d, IsDate(y, m, d), InCalendar(y), NEW n, n = DToJ(Date(y, m, d))
  PROVE  JToD(SameLastYear(n)) = IF m = 2 /\ d = 29 THEN Date(y - 1, 2, 28) ELSE Date(y - 1, m, d)
<1>1. y \in Int /\ y - 1 \in Int /\ m \in 1 .. 12 /\ d \in 1 .. MonthLength(y, m)
  BY DEF IsDate
<1>2. Gregorian(y) /\ Gregorian(y - 1)
  BY <1>1, CalendarYears
<1>3. /\ JToD(n) = Date(y, m, d) /\ JToD(n).year = y /\ JToD(n).month = m /\ JToD(n).day = d
  <2>1. JToD(n) = Date(y, m, d)
    BY <1>2, DateOfDate
  <2>2. QED  BY <2>1 DEF Date
<1>4. MonthLength(y, m) \in Int /\ MonthLength(y - 1, m) \in Int
      /\ (m = 2 => MonthLength(y, m) = (IF TrueLeap(y) THEN 29 ELSE 28) /\ 28 <= MonthLength(y - 1, m))
      /\ (m # 2 => MonthLength(y, m) = MonthLength(y - 1, m))
  BY <1>1, MonthLengthInt
<1>5. m = 2 /\ d = 29 => IsLeap(y)
  <2>1. ASSUME m = 2, d = 29 PROVE IsLeap(y)
    <3>1. TrueLeap(y)
      BY <1>1, <1>4, <2>1
    <3>2. QED  BY <1>1, <1>2, <3>1, LeapYears
  <2>2. QED  BY <2>1
<1>6. CASE m = 2 /\ d = 29
  <2>1. SameLastYear(n) = DToJ(Date(y - 1, 2, 28))
    BY <1>3, <1>5, <1>6 DEF SameLastYear
  <2>2. IsDate(y - 1, 2, 28)
    BY <1>1, <1>4, <1>6 DEF IsDate
  <2>3. QED  BY <1>2, <1>6, <2>1, <2>2, DateOfDate
<1>7. CASE ~(m = 2 /\ d = 29)
  <2>1. SameLastYear(n) = DToJ(Date(y - 1, m, d))
    BY <1>3, <1>7 DEF SameLastYear
  <2>2. d \in 1 .. MonthLength(y - 1, m)
    <3>1. m = 2 => d <= 28
      BY <1>1, <1>4, <1>7
    <3>2. QED  BY <1>1, <1>4, <3>1
  <2>3. IsDate(y - 1, m, d)
    BY <1>1, <2>2 DEF IsDate
  <2>4. QED  BY <1>2, <1>7, <2>1, <2>3, DateOfDate
<1>8. QED  BY <1>6, <1>7

LEMMA WeekOfBase == Base % 7 = 0
<1>1. NewYearDay(1900) = MarchFirst(1899) + 306
  BY DEF NewYearDay
<1>2. MarchFirst(1899) = 365 * 1899 + 1899 \div 4 - 1899 \div 100 + 1899 \div 400 + 1721120
  BY SMT DEF MarchFirst
<1>3. QED  BY <1>1, <1>2, YearsOfRows, SMT

LEMMA DowOfRow ==
  ASSUME NEW row \in Int, NEW t, IsDay(t, row),
         (t.year = 1900 \/ t.year = 2100) => t.month > 2
  PROVE  SetDow(KeptOf(t.year), DateOf(t)) = t.dow
<1>1. /\ t.year \in Int /\ InCalendar(t.year) /\ t.month \in 1 .. 12 /\ t.day \in Int
      /\ DToJ(Date(t.year, t.month, t.day)) = row + Base /\ t.dow = (row + 1) % 7
  <2>1. t.year \in Int /\ InCalendar(t.year) /\ t.month \in 1 .. 12 /\ t.day \in 1 .. MonthLength(t.year, t.month)
    BY DEF IsDay
  <2>2. QED  BY <2>1 DEF IsDay, DateOf
<1>2. SetDow(KeptOf(t.year), DateOf(t)) = (DToJ(Date(t.year, t.month, t.day)) + 1) % 7
  BY <1>1, DayOfWeek DEF DateOf
<1>3. ASSUME NEW b \in Int, b % 7 = 0 PROVE (row + b + 1) % 7 = (row + 1) % 7
  <2>1. PICK c \in Int : b = 7 * c
    <3>1. b = 7 * (b \div 7) /\ b \div 7 \in Int
      BY <1>3
    <3>2. QED  BY <3>1
  <2>2. QED  BY <2>1
<1>4. Base \in Int /\ Base % 7 = 0
  BY WeekOfBase, YearsOfRows
<1>5. QED  BY <1>1, <1>2, <1>3, <1>4

LEMMA WeekOfRow ==
  ASSUME NEW row \in Int
  PROVE  (row + 1) % 7 = (row - 7 * (WeekSeq(row) - 1) + 1) % 7
BY DEF WeekSeq

(* The entry of "calendar" of a day, and of the day before.                *)
LEMMA EntryOfRow ==
  ASSUME NEW y, NEW m, NEW d, IsDate(y, m, d), InCalendar(y), NEW n, n = DToJ(Date(y, m, d))
  PROVE  Entry[DayNumber(Date(y, m, d))]
           = IF m <= 2 \/ TrueLeap(y) \/ (y = 1900 \/ y = 2100)
             THEN [month |-> m, day |-> d]
             ELSE IF m = 3 /\ d = 1 THEN [month |-> 2, day |-> 29]
                  ELSE [month |-> JToD(n - 1).month, day |-> JToD(n - 1).day]
<1>1. y \in Int /\ m \in 1 .. 12 /\ d \in 1 .. MonthLength(y, m)
  BY DEF IsDate
<1>2. d \in 1 .. LongestMonth(m) /\ d \in Int /\ Gregorian(y)
  BY <1>1, MonthFits, CalendarYears
<1>3. Entry[DayNumber(Date(y, m, d))] = EntryFor(y, m, d)
  BY <1>1, <1>2, EntryOfDay
<1>4. (TrueLeap(y) \/ (y = 1900 \/ y = 2100)) <=> IsLeap(y)
  BY <1>1, <1>2, LeapYears
<1>5. CASE m <= 2 \/ IsLeap(y)
  BY <1>3, <1>4, <1>5 DEF EntryFor
<1>6. CASE ~(m <= 2 \/ IsLeap(y)) /\ m = 3 /\ d = 1
  <2>1. EntryFor(y, m, d) = [month |-> 2, day |-> 29]
    BY <1>6 DEF EntryFor, LongestMonth
  <2>2. QED  BY <1>3, <1>4, <1>6, <2>1
<1>7. CASE ~(m <= 2 \/ IsLeap(y)) /\ ~(m = 3 /\ d = 1)
  <2>1. JToD(n - 1) = DayBefore(y, m, d)
    BY <1>1, DateOfDayBefore
  <2>2. CASE d > 1
    <3>1. DayBefore(y, m, d) = Date(y, m, d - 1) /\ EntryFor(y, m, d) = [month |-> m, day |-> d - 1]
      BY <1>7, <2>2 DEF DayBefore, EntryFor
    <3>2. JToD(n - 1).month = m /\ JToD(n - 1).day = d - 1
      BY <2>1, <3>1 DEF Date
    <3>3. QED  BY <1>3, <1>4, <1>7, <3>1, <3>2
  <2>3. CASE ~(d > 1)
    <3>1. m > 3 /\ m - 1 \in 1 .. 12 /\ m - 1 # 2
      BY <1>1, <1>2, <1>7, <2>3
    <3>2. /\ DayBefore(y, m, d) = Date(y, m - 1, MonthLength(y, m - 1))
          /\ EntryFor(y, m, d) = [month |-> m - 1, day |-> LongestMonth(m - 1)]
      BY <1>7, <2>3, <3>1 DEF DayBefore, EntryFor
    <3>3. MonthLength(y, m - 1) = LongestMonth(m - 1)
      BY <1>1, <3>1, MonthLengthInt
    <3>4. JToD(n - 1).month = m - 1 /\ JToD(n - 1).day = LongestMonth(m - 1)
      BY <2>1, <3>2, <3>3 DEF Date
    <3>5. QED  BY <1>3, <1>4, <1>7, <3>2, <3>4
  <2>4. QED  BY <2>2, <2>3
<1>8. QED  BY <1>5, <1>6, <1>7

LEMMA NumberBefore ==
  ASSUME NEW y, NEW m, NEW d, IsDate(y, m, d), InCalendar(y), NEW n, n = DToJ(Date(y, m, d)),
         ~((y = 1900 \/ y = 2100) /\ m = 3 /\ d = 1)
  PROVE  DayNumber(JToD(n - 1))
           = IF DayNumber(Date(y, m, d)) = 1 THEN 365 + (IF IsLeap(y - 1) THEN 1 ELSE 0)
             ELSE DayNumber(Date(y, m, d)) - 1
<1> DEFINE N == DayNumber(Date(y, m, d))
<1>1. y \in Int /\ y - 1 \in Int /\ m \in 1 .. 12 /\ d \in 1 .. MonthLength(y, m)
  BY DEF IsDate
<1>2. /\ d \in 1 .. LongestMonth(m) /\ d \in Int /\ 1 <= d /\ Gregorian(y)
  <2>1. LongestMonth(m) \in Int
    BY DEF LongestMonth
  <2>2. QED  BY <1>1, <2>1, MonthFits, CalendarYears
<1>3. JToD(n - 1) = DayBefore(y, m, d)
  BY <1>1, DateOfDayBefore
<1>4. /\ N \in Int
      /\ IsLeap(y) => N = LeapDays(m) + d
      /\ ~IsLeap(y) => N = CommonDays[m] + d
  BY <1>1, <1>2, DayNumberOfDate
<1>5. /\ CommonDays[m] \in Int /\ YearBegins(m, CommonDays[m]) /\ CommonDays[m] >= 0
      /\ LeapDays(m) = CommonDays[m] + (IF m > 2 THEN 1 ELSE 0)
  <2>1. CommonDays[m] \in Int /\ YearBegins(m, CommonDays[m])
    BY <1>1, MonthsOfYear
  <2>2. CommonDays[m] >= 0
    BY <2>1 DEF YearBegins
  <2>3. QED  BY <1>1, <2>1, <2>2, MonthsOfLeapYear
<1> HIDE DEF N
<1>6. CASE d > 1
  <2>1. DayBefore(y, m, d) = Date(y, m, d - 1)
    BY <1>6 DEF DayBefore
  <2>2. /\ IsLeap(y) => DayNumber(Date(y, m, d - 1)) = LeapDays(m) + (d - 1)
        /\ ~IsLeap(y) => DayNumber(Date(y, m, d - 1)) = CommonDays[m] + (d - 1)
    <3>1. d - 1 \in Int
      BY <1>2
    <3>2. QED  BY <1>1, <3>1, DayNumberOfDate
  <2>3. DayNumber(Date(y, m, d - 1)) = N - 1 /\ N # 1
    <3>1. CASE IsLeap(y)  BY <1>2, <1>4, <1>5, <1>6, <2>2, <3>1
    <3>2. CASE ~IsLeap(y)  BY <1>2, <1>4, <1>5, <1>6, <2>2, <3>2
    <3>3. QED  BY <3>1, <3>2
  <2>4. QED  BY <1>3, <2>1, <2>3 DEF N
<1>7. CASE d = 1 /\ m = 1
  <2>1. DayBefore(y, m, d) = Date(y - 1, 12, 31)
    BY <1>7 DEF DayBefore
  <2>2. N = 1
    BY <1>4, <1>5, <1>7 DEF YearBegins
  <2>3. DayNumber(Date(y - 1, 12, 31)) = 365 + (IF IsLeap(y - 1) THEN 1 ELSE 0)
    BY DEF DayNumber, Date, DaysBefore, CommonDays
  <2>4. QED  BY <1>3, <2>1, <2>2, <2>3 DEF N
<1>8. CASE d = 1 /\ m > 1
  <2> DEFINE j == m - 1
             L == MonthLength(y, j)
  <2>1. DayBefore(y, m, d) = Date(y, j, L)
    BY <1>8 DEF DayBefore
  <2>2. j \in 1 .. 12 /\ j < 12 /\ j + 1 = m /\ j \in Int
    BY <1>1, <1>8
  <2> HIDE DEF j
  <2>3. L \in Int /\ DaysBefore(TrueLeap(y), m) = DaysBefore(TrueLeap(y), j) + L
    BY <1>1, <2>2, MonthEnds, MonthLengthInt
  <2>4. CommonDays[j] \in Int /\ LeapDays(j) = CommonDays[j] + (IF j > 2 THEN 1 ELSE 0)
    BY <2>2, MonthsOfYear, MonthsOfLeapYear
  <2>5. /\ IsLeap(y) => DayNumber(Date(y, j, L)) = LeapDays(j) + L
        /\ ~IsLeap(y) => DayNumber(Date(y, j, L)) = CommonDays[j] + L
    BY <1>1, <2>2, <2>3, DayNumberOfDate
  <2>6. /\ DaysBefore(TrueLeap(y), m) = CommonDays[m] + (IF TrueLeap(y) /\ m > 2 THEN 1 ELSE 0)
        /\ DaysBefore(TrueLeap(y), j) = CommonDays[j] + (IF TrueLeap(y) /\ j > 2 THEN 1 ELSE 0)
    BY DEF DaysBefore
  <2>7. /\ IsLeap(y) \in BOOLEAN /\ TrueLeap(y) \in BOOLEAN
        /\ m = 3 => (IsLeap(y) <=> TrueLeap(y))
    <3>1. IsLeap(y) \in BOOLEAN /\ TrueLeap(y) \in BOOLEAN
           /\ (y # 1900 /\ y # 2100 => IsLeap(y) = TrueLeap(y))
      BY <1>1, <1>2, LeapYears
    <3>2. QED  BY <1>8, <3>1
  <2> HIDE DEF L
  <2>8. DayNumber(Date(y, j, L)) = N - 1 /\ N # 1
    <3>1. CASE m = 3
      <4>0. j = 2 /\ ~(j > 2) /\ m > 2 /\ CommonDays[m] = 59
        BY <1>5, <2>2, <3>1 DEF YearBegins
      <4>1. CASE IsLeap(y)
        <5>1. TrueLeap(y)
          BY <2>7, <3>1, <4>1
        <5>2. N = 61
          BY <1>2, <1>4, <1>5, <1>8, <4>0, <4>1
        <5>3. DaysBefore(TrueLeap(y), m) = 60 /\ DaysBefore(TrueLeap(y), j) = CommonDays[j]
          BY <2>4, <2>6, <4>0, <5>1
        <5>4. DayNumber(Date(y, j, L)) = CommonDays[j] + L
          BY <2>4, <2>5, <4>0, <4>1
        <5>5. QED  BY <2>3, <2>4, <5>2, <5>3, <5>4
      <4>2. CASE ~IsLeap(y)
        <5>1. ~TrueLeap(y)
          BY <2>7, <3>1, <4>2
        <5>2. N = 60
          BY <1>2, <1>4, <1>5, <1>8, <4>0, <4>2
        <5>3. DaysBefore(TrueLeap(y), m) = 59 /\ DaysBefore(TrueLeap(y), j) = CommonDays[j]
          BY <2>4, <2>6, <4>0, <5>1
        <5>4. DayNumber(Date(y, j, L)) = CommonDays[j] + L
          BY <2>4, <2>5, <4>0, <4>2
        <5>5. QED  BY <2>3, <2>4, <5>2, <5>3, <5>4
      <4>3. QED  BY <4>1, <4>2
    <3>2. CASE m # 3
      <4>0. /\ CommonDays[m] = CommonDays[j] + L /\ CommonDays[m] > 0
            /\ m > 2 <=> j > 2
        BY <1>1, <1>5, <1>8, <2>2, <2>3, <2>4, <2>6, <2>7, <3>2 DEF YearBegins
      <4>1. CASE IsLeap(y)
        BY <1>4, <1>5, <1>8, <2>2, <2>3, <2>4, <2>5, <4>0, <4>1
      <4>2. CASE ~IsLeap(y)
        BY <1>4, <1>5, <1>8, <2>2, <2>3, <2>4, <2>5, <4>0, <4>2
      <4>3. QED  BY <4>1, <4>2
    <3>3. QED  BY <3>1, <3>2
  <2>9. QED  BY <1>3, <2>1, <2>8 DEF N, L
<1>9. QED  BY <1>1, <1>2, <1>6, <1>7, <1>8

(* The days of a quarter.                                                  *)
QuarterOf(m) == (m + 2) \div 3

DayOfQuarter(y, m, d) ==
  LET first == 3 * QuarterOf(m) - 2
  IN  d + (IF m > first THEN MonthLength(y, first) ELSE 0)
        + (IF m = first + 2 THEN MonthLength(y, first + 1) ELSE 0)

LEMMA DayFromQuarter ==
  ASSUME NEW y \in Int, NEW m \in 1 .. 12, NEW d \in Int
  PROVE  /\ DayOfQuarter(y, m, d) \in Int /\ QuarterStart(y, QuarterOf(m)) \in Int
         /\ DToJ(Date(y, m, d)) = QuarterStart(y, QuarterOf(m)) + DayOfQuarter(y, m, d) - 1
<1> DEFINE q == QuarterOf(m)
           f == 3 * q - 2
           T == TrueLeap(y)
<1>1. q \in Int /\ f \in 1 .. 10 /\ (m = f \/ m = f + 1 \/ m = f + 2)
  BY DEF QuarterOf
<1> HIDE DEF f, q
<1>2. f \in 1 .. 12 /\ f + 1 \in 1 .. 12 /\ f < 12 /\ f + 1 < 12 /\ (f + 1) + 1 = f + 2 /\ f \in Int
  BY <1>1
<1>3. /\ MonthLength(y, f) \in Int /\ MonthLength(y, f + 1) \in Int
      /\ DaysBefore(T, f + 1) = DaysBefore(T, f) + MonthLength(y, f)
      /\ DaysBefore(T, f + 2) = DaysBefore(T, f + 1) + MonthLength(y, f + 1)
      /\ DaysBefore(T, f) \in Int /\ DaysBefore(T, f + 1) \in Int
  <2>1. DaysBefore(T, f) \in Int /\ DaysBefore(T, f + 1) \in Int
    BY <1>2, MonthsOfYear DEF DaysBefore
  <2>2. DaysBefore(T, (f + 1) + 1) = DaysBefore(T, f + 1) + MonthLength(y, f + 1)
    BY <1>2, MonthEnds
  <2>3. QED  BY <1>2, <2>1, <2>2, MonthEnds, MonthLengthInt
<1>4. DayOfQuarter(y, m, d) = d + (IF m > f THEN MonthLength(y, f) ELSE 0)
                                + (IF m = f + 2 THEN MonthLength(y, f + 1) ELSE 0)
  BY DEF DayOfQuarter, f, q
<1>5. QuarterStart(y, q) = NewYearDay(y) + DaysBefore(T, f) + 1 - 1 /\ NewYearDay(y) \in Int
  <2>1. QuarterStart(y, q) = DToJ(Date(y, f, 1))
    BY DEF QuarterStart, f
  <2>2. DToJ(Date(y, f, 1)) = NewYearDay(y) + DaysBefore(TrueLeap(y), f) + 1 - 1
    BY <1>2, NumberOfYearDay
  <2>3. NewYearDay(y) \in Int
    BY NewYearNext
  <2>4. QED  BY <2>1, <2>2, <2>3 DEF T
<1>6. DToJ(Date(y, m, d)) = NewYearDay(y) + DaysBefore(T, m) + d - 1
  BY NumberOfYearDay
<1> HIDE DEF T
<1>7. CASE m = f  BY <1>2, <1>3, <1>4, <1>5, <1>6, <1>7 DEF q
<1>8. CASE m = f + 1  BY <1>2, <1>3, <1>4, <1>5, <1>6, <1>8 DEF q
<1>9. CASE m = f + 2  BY <1>2, <1>3, <1>4, <1>5, <1>6, <1>9 DEF q
<1>10. QED  BY <1>1, <1>7, <1>8, <1>9 DEF q

LEMMA DateLastQuarter ==
  ASSUME NEW y, NEW m, NEW d, IsDate(y, m, d), InCalendar(y), NEW n, n = DToJ(Date(y, m, d))
  PROVE  JToD(SameLastQuarter(n) - DayOfQuarter(y, m, d) + 1)
           = IF QuarterOf(m) = 1 THEN Date(y - 1, 10, 1)
             ELSE Date(y, (3 * QuarterOf(m) - 2) - 3, 1)
<1> DEFINE q == QuarterOf(m)
           D == DayOfQuarter(y, m, d)
<1>1. y \in Int /\ y - 1 \in Int /\ m \in 1 .. 12 /\ d \in 1 .. MonthLength(y, m) /\ d \in Int
  <2>1. y \in Int /\ y - 1 \in Int /\ m \in 1 .. 12 /\ d \in 1 .. MonthLength(y, m)
    BY DEF IsDate
  <2>2. QED  BY <2>1, MonthFits
<1>2. Gregorian(y) /\ Gregorian(y - 1)
  BY <1>1, CalendarYears
<1>3. q \in 1 .. 4
  BY <1>1 DEF QuarterOf
<1>4. D \in Int /\ QuarterStart(y, q) \in Int /\ n = QuarterStart(y, q) + D - 1
  BY <1>1, DayFromQuarter
<1>5. SameLastQuarter(n) = n - QuarterStart(y, q)
        + (IF q = 1 THEN QuarterStart(y - 1, 4) ELSE QuarterStart(y, q - 1))
  <2>1. JToD(n) = Date(y, m, d)
    BY <1>2, DateOfDate
  <2>2. JToD(n).year = y /\ JToD(n).month = m
    BY <2>1 DEF Date
  <2>3. QED  BY <2>2 DEF SameLastQuarter, QuarterOf
<1> HIDE DEF q, D
<1>6. CASE q = 1
  <2>1. QuarterStart(y - 1, 4) = DToJ(Date(y - 1, 10, 1)) /\ QuarterStart(y - 1, 4) \in Int
    BY <1>1, NumberInt DEF QuarterStart
  <2>2. SameLastQuarter(n) - D + 1 = DToJ(Date(y - 1, 10, 1))
    BY <1>4, <1>5, <1>6, <2>1
  <2>3. IsDate(y - 1, 10, 1)
    BY <1>1, MonthLengthInt DEF IsDate, MonthLength
  <2>4. QED  BY <1>2, <1>6, <2>2, <2>3, DateOfDate DEF q, D
<1>7. CASE q # 1
  <2> DEFINE f == 3 * (q - 1) - 2
  <2>0. f = (3 * q - 2) - 3
    BY <1>3, <1>7
  <2>1. f \in 1 .. 12
    BY <1>3, <1>7
  <2>2. QuarterStart(y, q - 1) = DToJ(Date(y, f, 1))
    BY DEF QuarterStart
  <2> HIDE DEF f
  <2>3. QuarterStart(y, q - 1) \in Int
    <3>0. y \in Int /\ 1 \in Int
      BY <1>1
    <3>1. DToJ(Date(y, f, 1)) \in Int
      BY <2>1, <3>0, NumberInt, Zenon
    <3>2. QED  BY <2>2, <3>1
  <2>4. SameLastQuarter(n) - D + 1 = DToJ(Date(y, f, 1))
    BY <1>4, <1>5, <1>7, <2>2, <2>3
  <2>5. IsDate(y, f, 1)
    <3>1. MonthLength(y, f) \in Int /\ 28 <= MonthLength(y, f)
      BY <1>1, <2>1, MonthLengthInt
    <3>2. QED  BY <1>1, <2>1, <3>1 DEF IsDate
  <2>6. QED  BY <1>2, <1>7, <2>0, <2>4, <2>5, DateOfDate DEF q, D
<1>8. QED  BY <1>6, <1>7

LEMMA RowFields ==
  ASSUME NEW k
  PROVE  LET r == DateRowOf(k)
             n == crow + Base
             D == JToD(n)
         IN  /\ r.sk = n /\ r.date = D /\ r.dow = SetDow(k, D) /\ r.week = WeekSeq(crow)
             /\ r.entry = Entry[DayNumber(D)] /\ r.first = FirstOfMonth(n)
             /\ r.before = Entry[IF DayNumber(D) = 1 THEN 365 + (IF IsLeap(D.year - 1) THEN 1 ELSE 0)
                                 ELSE DayNumber(D) - 1]
             /\ r.last_year = SameLastYear(n) /\ r.last_quarter = SameLastQuarter(n)
<1> DEFINE n == crow + Base
           D == JToD(n)
           b == Entry[IF DayNumber(D) = 1 THEN 365 + (IF IsLeap(D.year - 1) THEN 1 ELSE 0)
                      ELSE DayNumber(D) - 1]
           e == Entry[DayNumber(D)]
           f == FirstOfMonth(n)
           g == LastOfMonth(n)
           h == SameLastYear(n)
           i == SameLastQuarter(n)
           w == SetDow(k, D)
           v == WeekSeq(crow)
<1>1. DateRowOf(k) = [sk |-> n, date |-> D, dow |-> w, week |-> v, entry |-> e, first |-> f,
                      before |-> b, last |-> g, last_year |-> h, last_quarter |-> i]
  BY Zenon DEF DateRowOf
<1> HIDE DEF n, D, b, e, f, g, h, i, w, v
<1>2. LET r == DateRowOf(k)
      IN  /\ r.sk = n /\ r.date = D /\ r.dow = w /\ r.week = v /\ r.entry = e /\ r.first = f
          /\ r.before = b /\ r.last_year = h /\ r.last_quarter = i
  BY <1>1
<1>3. QED  BY <1>2 DEF n, D, b, e, f, h, i, w, v

LEMMA WalkIsTrue == WalkInv => CalendarTrue
<1> SUFFICES ASSUME WalkInv, crow > 0 PROVE CalendarTrue
  BY DEF CalendarTrue
<1> DEFINE y == today.year
           m == today.month
           d == today.day
           n == crow + Base
           r == DateRow
           century == y \in {1900, 2100}
           quarter == (m + 2) \div 3
           first == 3 * quarter - 2
           dayOfQuarter == d + (IF m > first THEN MonthLength(y, first) ELSE 0)
                             + (IF m = first + 2 THEN MonthLength(y, first + 1) ELSE 0)
<1>1. /\ crow \in Int /\ IsDay(today, crow) /\ kept = KeptOf(y) /\ current = FlagsOf(today)
  BY DEF WalkInv
<1>2. /\ IsDate(y, m, d) /\ y \in Int /\ InCalendar(y) /\ n = DToJ(Date(y, m, d)) /\ DateOf(today) = Date(y, m, d)
      /\ today.dow = (crow + 1) % 7
  BY <1>1 DEF IsDay, IsDate, DateOf
<1>3. Gregorian(y)
  BY <1>2, CalendarYears
<1>4. JToD(n) = Date(y, m, d)
  BY <1>2, <1>3, DateOfDate
<1>5. JToD(n).year = y
  BY <1>4 DEF Date
<1>6. century <=> (y = 1900 \/ y = 2100)
  OBVIOUS
<1>7. /\ r.sk = n /\ r.date = Date(y, m, d) /\ r.dow = SetDow(KeptOf(y), Date(y, m, d))
      /\ r.week = WeekSeq(crow) /\ r.entry = Entry[DayNumber(Date(y, m, d))]
      /\ r.first = FirstOfMonth(n)
      /\ r.before = Entry[IF DayNumber(Date(y, m, d)) = 1 THEN 365 + (IF IsLeap(y - 1) THEN 1 ELSE 0)
                          ELSE DayNumber(Date(y, m, d)) - 1]
      /\ r.last_year = SameLastYear(n) /\ r.last_quarter = SameLastQuarter(n)
  <2> DEFINE R == DateRowOf(KeptOf(y))
  <2>1. r = R
    BY <1>1 DEF DateRow
  <2>2. /\ R.sk = n /\ R.date = JToD(n) /\ R.dow = SetDow(KeptOf(y), JToD(n)) /\ R.week = WeekSeq(crow)
        /\ R.entry = Entry[DayNumber(JToD(n))] /\ R.first = FirstOfMonth(n)
        /\ R.before = Entry[IF DayNumber(JToD(n)) = 1
                            THEN 365 + (IF IsLeap(JToD(n).year - 1) THEN 1 ELSE 0)
                            ELSE DayNumber(JToD(n)) - 1]
        /\ R.last_year = SameLastYear(n) /\ R.last_quarter = SameLastQuarter(n)
    BY RowFields, Zenon
  <2> HIDE DEF R, r, n, y, m, d
  <2>3. QED  BY <1>4, <1>5, <2>1, <2>2
<1> HIDE DEF r, n, century
<1>8. r.date = Date(y, m, d) /\ DToJ(r.date) = r.sk
  BY <1>2, <1>7
<1>9. JToD(r.first) = Date(y, m, 1)
  BY <1>2, <1>3, <1>7, FirstDate
<1>10. JToD(r.last_year) = IF m = 2 /\ d = 29 THEN Date(y - 1, 2, 28) ELSE Date(y - 1, m, d)
  BY <1>2, <1>7, DateLastYear
<1>11. r.dow = today.dow \/ (century /\ m <= 2)
  <2>1. SUFFICES ASSUME ~(century /\ m <= 2) PROVE r.dow = today.dow
    OBVIOUS
  <2>2. m \in 1 .. 12
    BY <1>2 DEF IsDate
  <2>3. (y = 1900 \/ y = 2100) => m > 2
    BY <1>6, <2>1, <2>2
  <2>4. SetDow(KeptOf(y), DateOf(today)) = today.dow
    BY <1>1, <2>3, DowOfRow
  <2>5. QED  BY <1>2, <1>7, <2>4
<1>12. today.dow = (crow - 7 * (r.week - 1) + 1) % 7
  BY <1>1, <1>2, <1>7, WeekOfRow
<1>13. r.entry = (IF m <= 2 \/ TrueLeap(y) \/ century
                  THEN [month |-> m, day |-> d]
                  ELSE LET e == JToD(r.sk - 1)
                       IN  IF m = 3 /\ d = 1 THEN [month |-> 2, day |-> 29]
                           ELSE [month |-> e.month, day |-> e.day])
  <2>1. Entry[DayNumber(Date(y, m, d))]
          = IF m <= 2 \/ TrueLeap(y) \/ (y = 1900 \/ y = 2100)
            THEN [month |-> m, day |-> d]
            ELSE IF m = 3 /\ d = 1 THEN [month |-> 2, day |-> 29]
                 ELSE [month |-> JToD(n - 1).month, day |-> JToD(n - 1).day]
    BY <1>2, EntryOfRow
  <2> HIDE DEF y, m, d
  <2>2. QED  BY <1>6, <1>7, <2>1
<1>14. crow > 1 /\ ~(century /\ m = 3 /\ d = 1) => r.before = Entry[DayNumber(JToD(r.sk - 1))]
  <2>1. SUFFICES ASSUME ~(century /\ m = 3 /\ d = 1) PROVE r.before = Entry[DayNumber(JToD(r.sk - 1))]
    OBVIOUS
  <2>2. ~((y = 1900 \/ y = 2100) /\ m = 3 /\ d = 1)
    BY <1>6, <2>1
  <2>3. DayNumber(JToD(n - 1))
          = IF DayNumber(Date(y, m, d)) = 1 THEN 365 + (IF IsLeap(y - 1) THEN 1 ELSE 0)
            ELSE DayNumber(Date(y, m, d)) - 1
    BY <1>2, <2>2, NumberBefore
  <2> HIDE DEF y, m, d
  <2>4. QED  BY <1>7, <2>3
<1>15. JToD(r.last_quarter - dayOfQuarter + 1)
         = IF quarter = 1 THEN Date(y - 1, 10, 1) ELSE Date(y, first - 3, 1)
  <2>1. quarter = QuarterOf(m)
    BY DEF QuarterOf
  <2>2. dayOfQuarter = DayOfQuarter(y, m, d)
    BY DEF DayOfQuarter, QuarterOf
  <2>3. JToD(SameLastQuarter(n) - DayOfQuarter(y, m, d) + 1)
          = IF QuarterOf(m) = 1 THEN Date(y - 1, 10, 1) ELSE Date(y, (3 * QuarterOf(m) - 2) - 3, 1)
    BY <1>2, DateLastQuarter
  <2> HIDE DEF y, m, d, dayOfQuarter, quarter
  <2>4. QED  BY <1>7, <2>1, <2>2, <2>3
<1>16. current = [month |-> y = 2003 /\ m = 1,
                  quarter |-> y = 2003 /\ (m <= 3 \/ (m = 4 /\ d = 1)), week |-> FALSE]
  BY <1>1, Zenon DEF FlagsOf, CurrentYear
<1>17. QED
  BY <1>8, <1>9, <1>10, <1>11, <1>12, <1>13, <1>14, <1>15, <1>16, Zenon DEF CalendarTrue, r, century

LEMMA WalkIsValid == WalkInv => DatesValidated
<1> SUFFICES ASSUME WalkInv, crow > 0, NEW year \in {1999, 2000}
             PROVE  vld_w_date(Kept(NoneKept, year)) = [row |-> DateRow, current |-> current]
  BY DEF DatesValidated
<1> DEFINE y == today.year
           k == Kept(NoneKept, year)
           D == JToD(crow + Base)
           f == IF D.year = 2003 THEN Flags(crow, D) ELSE NoFlags
<1>1. /\ crow \in Int /\ IsDay(today, crow) /\ kept = KeptOf(y) /\ current = FlagsOf(today)
  BY DEF WalkInv
<1>2. y \in Int /\ InCalendar(y)
  BY <1>1 DEF IsDay
<1>3. D = DateOf(today) /\ D.year = y
  <2>1. D = DateOf(today)
    BY <1>1, DayOfRow
  <2>2. QED  BY <2>1 DEF DateOf, Date
<1>4. Kept(k, y) = KeptOf(y)
  <2>1. k = KeptOf(year) /\ year \in Int /\ InCalendar(year)
    BY DEF KeptOf, InCalendar
  <2> HIDE DEF k, y
  <2>2. QED  BY <1>2, <2>1, KeptAgain
<1>5. f = FlagsOf(today)
  <2>1. CASE y = CurrentYear
    <3>1. Flags(crow, D) = FlagsOf(today)
      BY <1>1, <1>3, <2>1, FlagsOfRow
    <3>2. QED  BY <1>3, <2>1, <3>1 DEF CurrentYear
  <2>2. CASE y # CurrentYear
    <3>1. FlagsOf(today) = NoFlags
      BY <2>2, OtherDay
    <3>2. QED  BY <1>3, <2>2, <3>1 DEF CurrentYear
  <2>3. QED  BY <2>1, <2>2
<1>6. vld_w_date(k) = [row |-> DateRowOf(Kept(k, D.year)), current |-> f]
  <2> HIDE DEF k
  <2> QED  BY DEF vld_w_date
<1> HIDE DEF k, D, f, y
<1>7. vld_w_date(k) = [row |-> DateRow, current |-> current]
  BY <1>1, <1>3, <1>4, <1>5, <1>6 DEF DateRow
<1>8. QED  BY <1>7 DEF k

-----------------------------------------------------------------------------
\* Calendar: the dates of a refresh set

(* The days of a zone, counted in a leap year.                             *)
ZoneFrom(z) == IF z = "low" THEN 1 ELSE IF z = "medium" THEN 214 ELSE 306

ZoneTo(z) == IF z = "low" THEN 213 ELSE IF z = "medium" THEN 305 ELSE 366

InDays(z, e) == ZoneFrom(z) <= e /\ e <= ZoneTo(z)

LEMMA ZoneMonths ==
  ASSUME NEW z \in Zones, NEW m \in 1 .. 12, NEW d \in 1 .. LongestMonth(m)
  PROVE  m \in Months(z) <=> InDays(z, LeapDays(m) + d)
<1>1. /\ LeapDays(1) = 0 /\ LeapDays(2) = 31 /\ LeapDays(3) = 60
      /\ LeapDays(4) = 91 /\ LeapDays(5) = 121 /\ LeapDays(6) = 152
      /\ LeapDays(7) = 182 /\ LeapDays(8) = 213 /\ LeapDays(9) = 244
      /\ LeapDays(10) = 274 /\ LeapDays(11) = 305 /\ LeapDays(12) = 335
  BY DEF LeapDays, DaysBefore, CommonDays
<1>2. m = 1 \/ m = 2 \/ m = 3 \/ m = 4 \/ m = 5 \/ m = 6 \/ m = 7 \/ m = 8 \/ m = 9 \/ m = 10
        \/ m = 11 \/ m = 12
  OBVIOUS
<1>3. LeapDays(m) \in Int /\ d \in Int /\ 1 <= d /\ d <= LongestMonth(m) /\ LongestMonth(m) \in Int
  BY MonthsOfLeapYear DEF LongestMonth
<1>4. /\ m <= 7 => LeapDays(m) + LongestMonth(m) <= 213
      /\ m >= 8 => LeapDays(m) >= 213
      /\ m <= 10 => LeapDays(m) + LongestMonth(m) <= 305
      /\ m >= 11 => LeapDays(m) >= 305
      /\ LeapDays(m) >= 0 /\ LeapDays(m) + LongestMonth(m) <= 366
  BY <1>1, <1>2 DEF LongestMonth
<1>5. CASE z = "low"
  <2>1. Months(z) = 1 .. 7  BY <1>5, Zenon DEF Months
  <2>2. QED  BY <1>3, <1>4, <1>5, <2>1 DEF InDays, ZoneFrom, ZoneTo
<1>6. CASE z = "medium"
  <2>1. Months(z) = 8 .. 10  BY <1>6, Zenon DEF Months
  <2>2. QED  BY <1>3, <1>4, <1>6, <2>1 DEF InDays, ZoneFrom, ZoneTo
<1>7. CASE z = "high"
  <2>1. Months(z) = 11 .. 12  BY <1>7, Zenon DEF Months
  <2>2. QED  BY <1>3, <1>4, <1>7, <2>1 DEF InDays, ZoneFrom, ZoneTo
<1>8. QED  BY <1>5, <1>6, <1>7 DEF Zones

LEMMA EntriesOf ==
  ASSUME NEW z \in Zones, NEW n \in Int
  PROVE  n \in Entries[z] <=> n \in 1 .. 366 /\ n # 60 /\ InDays(z, n)
<1>1. n \in Entries[z] <=> n \in 1 .. 366 /\ n # 60 /\ Entry[n].month \in Months(z)
  BY Zenon DEF Entries
<1>2. ASSUME n \in 1 .. 366 PROVE Entry[n].month \in Months(z) <=> InDays(z, n)
  <2>1. PICK m \in 1 .. 12 : \E d \in 1 .. LongestMonth(m) : n = LeapDays(m) + d
    BY <1>2, DateOfEntry DEF Dated
  <2>2. PICK d \in 1 .. LongestMonth(m) : n = LeapDays(m) + d
    BY <2>1
  <2>3. Entry[n].month = m
    <3>1. Entry[n] = [month |-> m, day |-> d]
      BY <2>2, EntryOfDate
    <3>2. QED  BY <3>1
  <2>4. QED  BY <2>2, <2>3, ZoneMonths
<1>3. QED  BY <1>1, <1>2

(* The day of a year, counted in a leap year.                              *)
LeapDay(y, p) == IF TrueLeap(y) \/ p <= 59 THEN p ELSE p + 1

LEMMA DateOfDayOfYear ==
  ASSUME NEW y \in Int, NEW p \in 1 .. YearLength(y)
  PROVE  \E m \in 1 .. 12, d \in 1 .. 31 :
           /\ IsDate(y, m, d) /\ DToJ(Date(y, m, d)) = NewYearDay(y) + p - 1
           /\ LeapDays(m) + d = LeapDay(y, p)
<1> DEFINE e == LeapDay(y, p)
<1>1. p \in Int /\ 1 <= p /\ p <= YearLength(y) /\ e \in 1 .. 366
  BY DEF YearLength, LeapDay
<1>2. PICK m \in 1 .. 12 : \E d \in 1 .. LongestMonth(m) : e = LeapDays(m) + d
  <2> HIDE DEF e
  <2> QED  BY <1>1, DateOfEntry DEF Dated
<1>3. PICK d \in 1 .. LongestMonth(m) : e = LeapDays(m) + d
  BY <1>2
<1>4. d \in 1 .. 31 /\ d \in Int
  BY DEF LongestMonth
<1>5. LeapDays(m) \in Int /\ LeapDays(m) = CommonDays[m] + (IF m > 2 THEN 1 ELSE 0)
        /\ CommonDays[m] \in Int
  BY MonthsOfLeapYear, MonthsOfYear
<1>6. /\ m <= 2 => LeapDays(m) <= 31 /\ (m = 2 => LeapDays(m) = 31)
      /\ m = 1 => LeapDays(m) = 0
      /\ m > 2 => LeapDays(m) >= 60
  <2>1. YearBegins(m, CommonDays[m])
    BY MonthsOfYear
  <2>2. QED  BY <1>5, <2>1 DEF YearBegins
<1>7. IsDate(y, m, d)
  <2>1. /\ MonthLength(y, m) \in Int /\ (m = 2 => MonthLength(y, m) = IF TrueLeap(y) THEN 29 ELSE 28)
        /\ (m # 2 => MonthLength(y, m) = LongestMonth(m))
    BY MonthLengthInt
  <2>2. CASE m = 2 /\ ~TrueLeap(y)
    <3>1. e # 60 /\ LeapDays(m) = 31
      BY <1>1, <1>6, <2>2 DEF LeapDay
    <3>2. d <= 28
      <4>1. LongestMonth(m) = 29
        BY <2>2 DEF LongestMonth
      <4> HIDE DEF e
      <4>2. QED  BY <1>3, <1>4, <3>1, <4>1
    <3>3. QED  BY <1>4, <2>1, <2>2, <3>2 DEF IsDate
  <2>3. CASE ~(m = 2 /\ ~TrueLeap(y))
    <3>1. MonthLength(y, m) = LongestMonth(m)
      BY <2>1, <2>3 DEF LongestMonth
    <3>2. QED  BY <3>1 DEF IsDate
  <2>4. QED  BY <2>2, <2>3
<1>8. DaysBefore(TrueLeap(y), m) + d = p
  <2>1. DaysBefore(TrueLeap(y), m) = CommonDays[m] + (IF TrueLeap(y) /\ m > 2 THEN 1 ELSE 0)
    BY DEF DaysBefore
  <2>2. CASE TrueLeap(y)
    <3>1. e = p
      BY <2>2 DEF LeapDay
    <3> HIDE DEF e
    <3>2. QED  BY <1>1, <1>3, <1>4, <1>5, <2>1, <2>2, <3>1
  <2>3. CASE ~TrueLeap(y) /\ p <= 59
    <3>1. e = p
      BY <2>3 DEF LeapDay
    <3> HIDE DEF e
    <3>2. m <= 2
      <4>1. SUFFICES ASSUME m > 2 PROVE FALSE
        OBVIOUS
      <4>2. LeapDays(m) >= 60 /\ 1 <= d /\ e <= 59
        BY <1>1, <1>4, <1>6, <2>3, <3>1, <4>1
      <4>3. QED  BY <1>1, <1>3, <1>4, <1>5, <4>2
    <3>3. QED  BY <1>1, <1>3, <1>4, <1>5, <2>1, <2>3, <3>1, <3>2
  <2>4. CASE ~TrueLeap(y) /\ p > 59
    <3>1. e = p + 1
      BY <1>1, <2>4 DEF LeapDay
    <3> HIDE DEF e
    <3>2. m > 2
      <4>1. CASE m = 1
        <5>1. LongestMonth(m) = 31  BY <4>1 DEF LongestMonth
        <5>2. QED  BY <1>1, <1>3, <1>4, <1>6, <2>4, <3>1, <4>1, <5>1
      <4>2. CASE m = 2
        <5>1. LongestMonth(m) = 29  BY <4>2 DEF LongestMonth
        <5>2. QED  BY <1>1, <1>3, <1>4, <1>6, <2>4, <3>1, <4>2, <5>1
      <4>3. QED  BY <4>1, <4>2
    <3>3. QED  BY <1>1, <1>3, <1>4, <1>5, <2>1, <2>4, <3>1, <3>2
  <2>5. QED  BY <1>1, <2>2, <2>3, <2>4
<1>9. DToJ(Date(y, m, d)) = NewYearDay(y) + p - 1
  <2>1. DToJ(Date(y, m, d)) = NewYearDay(y) + DaysBefore(TrueLeap(y), m) + d - 1
    BY <1>4, NumberOfYearDay
  <2>2. NewYearDay(y) \in Int /\ DaysBefore(TrueLeap(y), m) \in Int
    BY <1>5, NewYearNext DEF DaysBefore
  <2>3. QED  BY <1>1, <1>4, <1>8, <2>1, <2>2
<1>10. QED  BY <1>3, <1>4, <1>7, <1>9

LEMMA DrawnDay ==
  ASSUME NEW z \in Zones, NEW first, DrawnFrom(z, first)
  PROVE  \E y \in Years : \E p \in 1 .. YearLength(y) :
           /\ first = NewYearDay(y) + p - 1
           /\ InDays(z, LeapDay(y, p)) /\ LeapDay(y, p) # 60
<1>1. PICK y \in Years, m \in 1 .. 12, d \in 1 .. 31 :
        /\ IsDate(y, m, d) /\ m \in Months(z) /\ ~(m = 2 /\ d = 29)
        /\ first = DToJ(Date(y, m, d))
  BY DEF DrawnFrom
<1> DEFINE p == DaysBefore(TrueLeap(y), m) + d
           e == LeapDays(m) + d
           b == CommonDays[m]
<1>2. y \in Int /\ Gregorian(y)
  BY YearsInt, CalendarYears
<1>3. d \in Int /\ 1 <= d /\ d \in 1 .. LongestMonth(m) /\ d <= LongestMonth(m) /\ LongestMonth(m) \in Int
        /\ (m = 2 => d <= 28)
  <2>1. d \in 1 .. MonthLength(y, m)
    BY <1>1 DEF IsDate
  <2>2. LongestMonth(2) = 29 /\ LongestMonth(m) \in Int
    BY DEF LongestMonth
  <2>3. d \in 1 .. LongestMonth(m)
    BY <1>2, <2>1, MonthFits
  <2>4. m = 2 => d <= 28
    BY <1>1, <2>2, <2>3
  <2>5. QED  BY <2>2, <2>3, <2>4
<1>4. e \in 1 .. 366 /\ e # 60
  <2>1. e \in 1 .. 366 /\ Entry[e] = [month |-> m, day |-> d]
    BY <1>3, EntryOfDate
  <2>2. Entry[60] = [month |-> 2, day |-> 29]
    <3>1. LeapDays(2) + 29 = 60 /\ 29 \in 1 .. LongestMonth(2) /\ 2 \in 1 .. 12
      BY DEF LeapDays, DaysBefore, CommonDays, LongestMonth
    <3>2. Entry[LeapDays(2) + 29] = [month |-> 2, day |-> 29]
      BY <3>1, EntryOfDate
    <3>3. QED  BY <3>1, <3>2
  <2> HIDE DEF e
  <2>3. QED  BY <1>1, <2>1, <2>2
<1>5. InDays(z, e)
  BY <1>1, <1>3, ZoneMonths
<1>6. b \in Int /\ YearBegins(m, b) /\ e = b + (IF m > 2 THEN 1 ELSE 0) + d
        /\ p = b + (IF TrueLeap(y) /\ m > 2 THEN 1 ELSE 0) + d
  <2>1. LeapDays(m) = b + (IF m > 2 THEN 1 ELSE 0) /\ b \in Int /\ YearBegins(m, b)
    BY MonthsOfLeapYear, MonthsOfYear
  <2>2. QED  BY <2>1 DEF DaysBefore
<1> HIDE DEF p, e, b
<1>7. p \in 1 .. YearLength(y) /\ LeapDay(y, p) = e
  <2>1. CASE TrueLeap(y)
    BY <1>4, <1>6, <2>1 DEF YearLength, LeapDay
  <2>2. CASE ~TrueLeap(y) /\ m <= 2
    <3>1. p = e /\ p <= 59
      <4>1. CASE m = 1
        <5>1. LongestMonth(m) = 31 /\ b = 0  BY <1>6, <4>1 DEF LongestMonth, YearBegins
        <5>2. QED  BY <1>3, <1>6, <4>1, <5>1
      <4>2. CASE m = 2
        <5>1. b = 31  BY <1>6, <4>2 DEF YearBegins
        <5>2. QED  BY <1>3, <1>6, <4>2, <5>1
      <4>3. QED  BY <2>2, <4>1, <4>2
    <3>2. QED  BY <1>4, <2>2, <3>1 DEF YearLength, LeapDay
  <2>3. CASE ~TrueLeap(y) /\ m > 2
    <3>1. p = e - 1 /\ b >= 59
      BY <1>3, <1>6, <2>3 DEF YearBegins
    <3>2. p >= 60
      BY <1>3, <1>6, <2>3, <3>1
    <3>3. QED  BY <1>4, <2>3, <3>1, <3>2 DEF YearLength, LeapDay
  <2>4. QED  BY <2>1, <2>2, <2>3
<1>8. first = NewYearDay(y) + p - 1
  <2>1. first = NewYearDay(y) + DaysBefore(TrueLeap(y), m) + d - 1
    BY <1>1, <1>2, <1>3, NumberOfYearDay
  <2>2. NewYearDay(y) \in Int /\ DaysBefore(TrueLeap(y), m) \in Int
    BY <1>2, NewYearNext, MonthsOfYear DEF DaysBefore
  <2>3. QED  BY <1>3, <2>1, <2>2 DEF p
<1>9. QED  BY <1>1, <1>4, <1>5, <1>7, <1>8

LEMMA DayOfYear ==
  ASSUME NEW y \in Int, Gregorian(y), NEW p \in 1 .. YearLength(y),
         NEW n, n = NewYearDay(y) + p - 1, NEW z \in Zones
  PROVE  /\ JToD(n).year = y
         /\ InZone(z, n) <=> InDays(z, LeapDay(y, p))
         /\ DayNumber(JToD(n)) = IF IsLeap(y) THEN LeapDay(y, p) ELSE p
         /\ LeapDay(y, p) = 59 => JToD(n).month = 2 /\ JToD(n).day = 28
<1>1. PICK m \in 1 .. 12, d \in 1 .. 31 :
        /\ IsDate(y, m, d) /\ DToJ(Date(y, m, d)) = NewYearDay(y) + p - 1
        /\ LeapDays(m) + d = LeapDay(y, p)
  BY DateOfDayOfYear
<1>2. JToD(n) = Date(y, m, d)
  BY <1>1, DateOfDate
<1>3. JToD(n).year = y /\ JToD(n).month = m /\ JToD(n).day = d
  BY <1>2 DEF Date
<1>4. d \in 1 .. LongestMonth(m) /\ d \in Int
  BY <1>1, MonthFits DEF IsDate
<1>5. InZone(z, n) <=> InDays(z, LeapDay(y, p))
  BY <1>1, <1>3, <1>4, ZoneMonths DEF InZone
<1>6. DayNumber(JToD(n)) = IF IsLeap(y) THEN LeapDay(y, p) ELSE p
  <2>1. CASE IsLeap(y)
    <3>1. DayNumber(Date(y, m, d)) = LeapDays(m) + d
      BY <1>4, <2>1, DayNumberOfDate
    <3>2. QED  BY <1>1, <1>2, <2>1, <3>1
  <2>2. CASE ~IsLeap(y)
    <3>1. DayNumber(Date(y, m, d)) = CommonDays[m] + d
      BY <1>4, <2>2, DayNumberOfDate
    <3>2. ~TrueLeap(y)
      BY <2>2, LeapYears
    <3>3. DaysBefore(TrueLeap(y), m) = CommonDays[m] /\ CommonDays[m] \in Int
      BY <3>2, MonthsOfYear DEF DaysBefore
    <3>4. DToJ(Date(y, m, d)) = NewYearDay(y) + DaysBefore(TrueLeap(y), m) + d - 1 /\ NewYearDay(y) \in Int
      BY <1>4, NumberOfYearDay, NewYearNext
    <3>5. p \in Int
      BY DEF YearLength
    <3>6. CommonDays[m] + d = p
      BY <1>1, <1>4, <3>3, <3>4, <3>5
    <3>7. QED  BY <1>2, <2>2, <3>1, <3>6
  <2>3. QED  BY <2>1, <2>2
<1>7. LeapDay(y, p) = 59 => m = 2 /\ d = 28
  <2>1. SUFFICES ASSUME LeapDay(y, p) = 59 PROVE m = 2 /\ d = 28
    OBVIOUS
  <2>2. Entry[LeapDays(m) + d] = [month |-> m, day |-> d]
    BY <1>4, EntryOfDate
  <2>3. LeapDays(2) + 28 = 59 /\ 28 \in 1 .. LongestMonth(2) /\ 2 \in 1 .. 12
    BY DEF LeapDays, DaysBefore, CommonDays, LongestMonth
  <2>4. Entry[LeapDays(2) + 28] = [month |-> 2, day |-> 28]
    BY <2>3, EntryOfDate
  <2>5. [month |-> m, day |-> d] = [month |-> 2, day |-> 28]
    BY <1>1, <2>1, <2>2, <2>3, <2>4
  <2>6. QED  BY <2>5
<1>8. QED  BY <1>3, <1>5, <1>6, <1>7

(* A day around those of a year.                                           *)
Near(z, n, q, y) ==
  /\ DayNumber(JToD(n)) \in 1 .. 366
  /\ q \in 1 .. YearLength(y) =>
       /\ DayNumber(JToD(n)) = q /\ (Late(n) <=> ~TrueLeap(y))
       /\ InZone(z, n) <=> InDays(z, LeapDay(y, q))
       /\ q = 59 => JToD(n).month = 2 /\ JToD(n).day = 28
  /\ q < 1 => DayNumber(JToD(n)) >= 330 /\ (InZone(z, n) <=> z = "high")
  /\ q > YearLength(y) => DayNumber(JToD(n)) = q - YearLength(y) /\ (InZone(z, n) <=> z = "low")

LEMMA NearDay ==
  ASSUME NEW y \in Years, NEW q \in Int, -30 <= q, q <= YearLength(y) + 30,
         NEW n, n = NewYearDay(y) + q - 1, NEW z \in Zones
  PROVE  Near(z, n, q, y)
<1> DEFINE L == YearLength(y)
<1>1. y \in Int /\ InCalendar(y) /\ y # 1900 /\ y # 2100 /\ Gregorian(y) /\ Gregorian(y - 1) /\ Gregorian(y + 1)
  BY YearsInt, CalendarYears
<1>2. L \in Int /\ (L = 365 \/ L = 366) /\ (L = IF TrueLeap(y) THEN 366 ELSE 365)
  BY DEF YearLength
<1>3. NewYearDay(y) \in Int /\ NewYearDay(y + 1) = NewYearDay(y) + L
  BY <1>1, NewYearNext
<1>4. CASE q < 1
  <2> DEFINE x == y - 1
             K == YearLength(x)
             p == q + K
  <2>1. x \in Int /\ Gregorian(x) /\ x + 1 = y
    BY <1>1
  <2> HIDE DEF x
  <2>2. K \in Int /\ (K = 365 \/ K = 366)
    BY DEF YearLength
  <2>3. NewYearDay(x) \in Int /\ NewYearDay(y) = NewYearDay(x) + K
    BY <2>1, NewYearNext
  <2> HIDE DEF K
  <2>4. p \in 1 .. K /\ p \in Int /\ p >= 335
    BY <1>4, <2>2
  <2>5. n = NewYearDay(x) + p - 1
    BY <1>3, <2>2, <2>3
  <2> HIDE DEF p
  <2>6. /\ InZone(z, n) <=> InDays(z, LeapDay(x, p))
        /\ DayNumber(JToD(n)) = IF IsLeap(x) THEN LeapDay(x, p) ELSE p
    BY <2>1, <2>4, <2>5, DayOfYear DEF K
  <2>7. LeapDay(x, p) \in 335 .. 366 /\ p \in 335 .. 366
    BY <2>2, <2>4 DEF LeapDay, K, YearLength
  <2>8. InDays(z, LeapDay(x, p)) <=> z = "high"
    BY <2>7 DEF InDays, ZoneFrom, ZoneTo, Zones
  <2>9. DayNumber(JToD(n)) \in 335 .. 366
    BY <2>6, <2>7
  <2> HIDE DEF L
  <2>10. QED  BY <1>2, <1>4, <2>6, <2>8, <2>9 DEF Near, L
<1>5. CASE q \in 1 .. L
  <2>1. /\ JToD(n).year = y
        /\ InZone(z, n) <=> InDays(z, LeapDay(y, q))
        /\ DayNumber(JToD(n)) = IF IsLeap(y) THEN LeapDay(y, q) ELSE q
        /\ LeapDay(y, q) = 59 => JToD(n).month = 2 /\ JToD(n).day = 28
    BY <1>1, <1>5, DayOfYear
  <2>2. IsLeap(y) = TrueLeap(y) /\ TrueLeap(y) \in BOOLEAN
    BY <1>1, LeapYears
  <2>3. DayNumber(JToD(n)) = q /\ (q = 59 => LeapDay(y, q) = 59)
    BY <1>5, <2>1, <2>2 DEF LeapDay
  <2>4. Late(n) <=> ~TrueLeap(y)
    BY <2>1, <2>2 DEF Late
  <2>5. q \in 1 .. 366 /\ ~(q < 1) /\ ~(q > L)
    BY <1>2, <1>5
  <2>6. QED  BY <2>1, <2>3, <2>4, <2>5 DEF Near
<1>6. CASE q > L
  <2> DEFINE x == y + 1
             p == q - L
  <2>1. x \in Int /\ Gregorian(x)
    BY <1>1
  <2> HIDE DEF x
  <2>2. p \in 1 .. 30 /\ p \in Int
    BY <1>2, <1>6
  <2>3. p \in 1 .. YearLength(x)
    BY <2>2 DEF YearLength
  <2>4. n = NewYearDay(x) + p - 1
    BY <1>2, <1>3 DEF x
  <2> HIDE DEF p
  <2>5. /\ InZone(z, n) <=> InDays(z, LeapDay(x, p))
        /\ DayNumber(JToD(n)) = IF IsLeap(x) THEN LeapDay(x, p) ELSE p
    BY <2>1, <2>3, <2>4, DayOfYear
  <2>6. LeapDay(x, p) = p
    BY <2>2 DEF LeapDay
  <2>7. InDays(z, p) <=> z = "low"
    BY <2>2 DEF InDays, ZoneFrom, ZoneTo, Zones
  <2>8. DayNumber(JToD(n)) = p /\ p \in 1 .. 366
    BY <2>2, <2>5, <2>6
  <2>9. ~(q \in 1 .. L) /\ ~(q < 1)
    BY <1>2, <1>6
  <2> HIDE DEF L
  <2>10. QED  BY <2>5, <2>6, <2>7, <2>8, <2>9 DEF Near, L, p
<1>7. QED
  <2> HIDE DEF L
  <2> QED  BY <1>2, <1>4, <1>5, <1>6

LEMMA LengthOfYear ==
  ASSUME NEW y \in Int
  PROVE  /\ YearLength(y) \in Int /\ (YearLength(y) = 365 \/ YearLength(y) = 366)
         /\ TrueLeap(y) <=> YearLength(y) = 366
         /\ NewYearDay(y) \in Int
BY NewYearNext DEF YearLength

(* The second day of a pair.                                               *)
LEMMA PairFits ==
  ASSUME NEW z \in Zones, NEW first, DrawnFrom(z, first), NEW second \in NextDay(z, first)
  PROVE  LET d == JToD(first)
         IN  /\ InZone(z, first) /\ second \in {first - 1, first + 1}
             /\ ~InZone(z, second) => EndOfZone(z, first) /\ (Late(first) \/ z = "high")
             /\ second < first => (d.month = 2 /\ d.day = 28)
                                    \/ (EndOfZone(z, first) /\ (~Late(first) \/ z = "high"))
<1>1. PICK y \in Years : \E p \in 1 .. YearLength(y) :
        /\ first = NewYearDay(y) + p - 1
        /\ InDays(z, LeapDay(y, p)) /\ LeapDay(y, p) # 60
  BY DrawnDay
<1>2. PICK p \in 1 .. YearLength(y) :
        /\ first = NewYearDay(y) + p - 1
        /\ InDays(z, LeapDay(y, p)) /\ LeapDay(y, p) # 60
  BY <1>1
<1> DEFINE L == YearLength(y)
           n == DayNumber(JToD(first))
<1>3. y \in Int /\ L \in Int /\ (L = 365 \/ L = 366) /\ (TrueLeap(y) <=> L = 366) /\ NewYearDay(y) \in Int
  BY YearsInt, LengthOfYear
<1> HIDE DEF L
<1>4. /\ p \in Int /\ 1 <= p /\ p <= L /\ p \in 1 .. L
      /\ first \in Int /\ first + 1 = NewYearDay(y) + (p + 1) - 1 /\ first - 1 = NewYearDay(y) + (p - 1) - 1
  BY <1>2, <1>3 DEF L
<1>5. Near(z, first, p, y) /\ Near(z, first + 1, p + 1, y) /\ Near(z, first - 1, p - 1, y)
  <2>1. Near(z, first, p, y)
    BY <1>2, <1>3, <1>4, NearDay DEF L
  <2>2. p + 1 \in Int /\ -30 <= p + 1 /\ p + 1 <= YearLength(y) + 30
    BY <1>3, <1>4 DEF L
  <2>3. p - 1 \in Int /\ -30 <= p - 1 /\ p - 1 <= YearLength(y) + 30
    BY <1>3, <1>4 DEF L
  <2>4. Near(z, first + 1, p + 1, y)
    BY <1>4, <2>2, NearDay
  <2>5. Near(z, first - 1, p - 1, y)
    BY <1>4, <2>3, NearDay
  <2>6. QED  BY <2>1, <2>4, <2>5
<1>6. /\ n = p /\ (Late(first) <=> L = 365)
      /\ InZone(z, first)
      /\ p = 59 => JToD(first).month = 2 /\ JToD(first).day = 28
  BY <1>2, <1>3, <1>4, <1>5 DEF Near, L
<1>7. /\ p + 1 <= L => (InZone(z, first + 1) <=> InDays(z, LeapDay(y, p + 1)))
      /\ p + 1 > L => (InZone(z, first + 1) <=> z = "low")
  BY <1>3, <1>4, <1>5 DEF Near, L
<1>8. /\ p > 1 => (InZone(z, first - 1) <=> InDays(z, LeapDay(y, p - 1)))
      /\ p = 1 => (InZone(z, first - 1) <=> z = "high")
  BY <1>3, <1>4, <1>5 DEF Near, L
<1>9. PICK w \in Weighs(z, p + 1) : second = IF w THEN first + 1 ELSE first - 1
  BY <1>6 DEF NextDay
<1>10. p + 1 <= 366 => w = (p + 1 # 60 /\ InDays(z, p + 1))
  <2>1. SUFFICES ASSUME p + 1 <= 366 PROVE w = (p + 1 # 60 /\ InDays(z, p + 1))
    OBVIOUS
  <2>2. w = (p + 1 \in Entries[z])
    BY <1>4, <2>1, <1>9 DEF Weighs
  <2>3. p + 1 \in Int /\ p + 1 \in 1 .. 366
    BY <1>4, <2>1
  <2>4. p + 1 \in Entries[z] <=> p + 1 # 60 /\ InDays(z, p + 1)
    BY <2>3, EntriesOf
  <2>5. QED  BY <2>2, <2>4
<1> DEFINE lo == ZoneFrom(z)
           hi == ZoneTo(z)
           e == LeapDay(y, p)
           f == LeapDay(y, p + 1)
           g == LeapDay(y, p - 1)
<1>11. /\ e = IF L = 366 \/ p <= 59 THEN p ELSE p + 1
       /\ f = IF L = 366 \/ p + 1 <= 59 THEN p + 1 ELSE p + 2
       /\ g = IF L = 366 \/ p - 1 <= 59 THEN p - 1 ELSE p
  BY <1>3, <1>4 DEF LeapDay
<1>12. /\ lo <= e /\ e <= hi /\ e # 60
       /\ InDays(z, f) <=> lo <= f /\ f <= hi
       /\ InDays(z, g) <=> lo <= g /\ g <= hi
       /\ InDays(z, p + 1) <=> lo <= p + 1 /\ p + 1 <= hi
  BY <1>2 DEF InDays
<1>13. \/ (lo = 1 /\ hi = 213 /\ z = "low")
       \/ (lo = 214 /\ hi = 305 /\ z = "medium")
       \/ (lo = 306 /\ hi = 366 /\ z = "high")
  BY DEF ZoneFrom, ZoneTo, Zones
<1> HIDE DEF lo, hi, e, f, g
<1>14. /\ p + 1 <= 366 => w = (p + 1 # 60 /\ lo <= p + 1 /\ p + 1 <= hi)
       /\ p + 1 <= L => (InZone(z, first + 1) <=> lo <= f /\ f <= hi)
       /\ p > 1 => (InZone(z, first - 1) <=> lo <= g /\ g <= hi)
  BY <1>7, <1>8, <1>10, <1>12 DEF f, g
<1>15. w \in BOOLEAN
  BY <1>4, <1>9 DEF Weighs
<1> HIDE DEF n
<1>16. p \in Int /\ L \in Int /\ e \in Int /\ f \in Int /\ g \in Int
  BY <1>3, <1>4, <1>11
<1>17. CASE w
  <2>1. second = first + 1 /\ (p + 1 <= 366 => (p + 1 # 60 /\ lo <= p + 1 /\ p + 1 <= hi))
    BY <1>9, <1>17, <1>14, Zenon
  <2>2. ASSUME ~InZone(z, first + 1) PROVE Late(first) \/ z = "high"
    <3>1. SUFFICES ASSUME L = 366, z # "high" PROVE FALSE
      BY <1>3, <1>6
    <3>2. p + 1 <= 366 => ~(lo <= p + 1 /\ p + 1 <= hi)
      BY <1>11, <1>14, <2>2, <3>1
    <3>3. p + 1 > 366
      BY <1>16, <2>1, <3>2
    <3>4. QED  BY <1>4, <1>11, <1>12, <1>13, <1>16, <3>1, <3>3
  <2>3. QED  BY <1>4, <1>6, <2>1, <2>2 DEF EndOfZone
<1>18. CASE ~w
  <2>1. second = first - 1 /\ (p + 1 <= 366 => ~(p + 1 # 60 /\ lo <= p + 1 /\ p + 1 <= hi))
    BY <1>9, <1>18, <1>14, Zenon
  <2>2. p = 59 \/ (L = 366 /\ (p = hi \/ p = 366))
    BY <1>3, <1>4, <1>11, <1>12, <1>13, <1>16, <2>1
  <2>3. InZone(z, first - 1)
    <3>1. p > 1 /\ lo <= g /\ g <= hi
      BY <1>3, <1>4, <1>11, <1>12, <1>13, <1>16, <2>2
    <3>2. QED  BY <1>14, <3>1
  <2>4. p = 59 \/ (~InZone(z, first + 1) /\ (~Late(first) \/ z = "high"))
    <3>1. SUFFICES ASSUME p # 59 PROVE ~InZone(z, first + 1) /\ ~Late(first)
      OBVIOUS
    <3>2. L = 366 /\ (p = hi \/ p = 366)
      BY <2>2, <3>1
    <3>3. ~(lo <= f /\ f <= hi) /\ (p + 1 > L => z # "low")
      BY <1>3, <1>4, <1>11, <1>12, <1>13, <1>16, <3>2
    <3>4. ~InZone(z, first + 1)
      BY <1>3, <1>7, <1>14, <1>16, <3>3
    <3>5. QED  BY <1>6, <3>2, <3>4
  <2>5. QED  BY <1>4, <1>6, <2>1, <2>3, <2>4 DEF EndOfZone
<1>19. QED  BY <1>15, <1>17, <1>18

(* The Thursdays.                                                          *)
LEMMA DowOfDay ==
  ASSUME NEW y \in Years, NEW p \in 1 .. YearLength(y), NEW n, n = NewYearDay(y) + p - 1
  PROVE  n \in Int /\ JToD(n).year = y /\ SetDow(KeptOf(y), JToD(n)) = (n + 1) % 7
<1>1. y \in Int /\ InCalendar(y) /\ y # 1900 /\ y # 2100 /\ Gregorian(y)
  BY YearsInt, CalendarYears
<1>0. y \in Int
  BY <1>1
<1>2. PICK m \in 1 .. 12, d \in 1 .. 31 :
        /\ IsDate(y, m, d) /\ DToJ(Date(y, m, d)) = NewYearDay(y) + p - 1
        /\ LeapDays(m) + d = LeapDay(y, p)
  BY <1>0, DateOfDayOfYear
<1>3. JToD(n) = Date(y, m, d)
  BY <1>1, <1>2, DateOfDate
<1>4. JToD(n).year = y
  BY <1>3 DEF Date
<1>5. SetDow(KeptOf(y), Date(y, m, d)) = (DToJ(Date(y, m, d)) + 1) % 7
  BY <1>1, DayOfWeek
<1>6. n \in Int
  BY <1>1, <1>2, NumberInt
<1>7. QED  BY <1>2, <1>3, <1>4, <1>5, <1>6

LEMMA NearEntry ==
  ASSUME NEW y \in Years, NEW q \in Int, NEW n, NEW z \in Zones, Near(z, n, q, y)
  PROVE  InEntries(z, n) <=> DayNumber(JToD(n)) # 60 /\ InDays(z, DayNumber(JToD(n)))
<1>1. DayNumber(JToD(n)) \in 1 .. 366 /\ DayNumber(JToD(n)) \in Int
  BY DEF Near
<1>2. QED  BY <1>1, EntriesOf DEF InEntries

ThursdayFits(z, n) ==
  InZone(z, n) \/ (EndOfZone(z, n - 1) /\ Late(n) /\ z # "high")

LEMMA EntryFits ==
  ASSUME NEW y \in Years, NEW q \in Int, -29 <= q, q <= YearLength(y) + 29,
         NEW n, n = NewYearDay(y) + q - 1, NEW z \in Zones, InEntries(z, n)
  PROVE  ThursdayFits(z, n)
<1> DEFINE L == YearLength(y)
           v == DayNumber(JToD(n))
           lo == ZoneFrom(z)
           hi == ZoneTo(z)
<1>1. y \in Int /\ L \in Int /\ (L = 365 \/ L = 366) /\ (TrueLeap(y) <=> L = 366) /\ NewYearDay(y) \in Int
  BY YearsInt, LengthOfYear
<1> HIDE DEF L
<1>2. Near(z, n, q, y) /\ Near(z, n - 1, q - 1, y)
  <2>1. q - 1 \in Int /\ -30 <= q - 1 /\ q - 1 <= YearLength(y) + 30 /\ -30 <= q /\ q <= YearLength(y) + 30
        /\ n - 1 = NewYearDay(y) + (q - 1) - 1
    BY <1>1 DEF L
  <2>2. Near(z, n - 1, q - 1, y)
    BY <2>1, NearDay
  <2>3. QED  BY <2>1, <2>2, NearDay
<1>3. v # 60 /\ lo <= v /\ v <= hi
  BY <1>2, NearEntry DEF InDays
<1>4. \/ (lo = 1 /\ hi = 213 /\ z = "low")
      \/ (lo = 214 /\ hi = 305 /\ z = "medium")
      \/ (lo = 306 /\ hi = 366 /\ z = "high")
  BY DEF ZoneFrom, ZoneTo, Zones
<1>5. CASE q < 1
  <2>1. v >= 330 /\ v \in Int /\ (InZone(z, n) <=> z = "high")
    BY <1>2, <1>5 DEF Near
  <2> HIDE DEF v, lo, hi
  <2>2. z = "high"
    BY <1>3, <1>4, <2>1
  <2>3. QED  BY <2>1, <2>2 DEF ThursdayFits
<1>6. CASE q > L
  <2>1. v = q - L /\ v <= 29 /\ v \in Int /\ (InZone(z, n) <=> z = "low")
    BY <1>1, <1>2, <1>6 DEF Near, L
  <2> HIDE DEF v, lo, hi
  <2>2. z = "low"
    BY <1>3, <1>4, <2>1
  <2>3. QED  BY <2>1, <2>2 DEF ThursdayFits
<1>7. CASE q \in 1 .. L
  <2> DEFINE e == LeapDay(y, q)
             f == LeapDay(y, q - 1)
  <2>1. v = q /\ (Late(n) <=> L = 365) /\ (InZone(z, n) <=> lo <= e /\ e <= hi)
    BY <1>1, <1>2, <1>7 DEF Near, L, InDays
  <2>2. e = (IF L = 366 \/ q <= 59 THEN q ELSE q + 1) /\ f = (IF L = 366 \/ q - 1 <= 59 THEN q - 1 ELSE q)
    BY <1>1 DEF LeapDay
  <2>3. q > 1 => (InZone(z, n - 1) <=> lo <= f /\ f <= hi)
    <3>1. SUFFICES ASSUME q > 1 PROVE InZone(z, n - 1) <=> lo <= f /\ f <= hi
      OBVIOUS
    <3>2. q - 1 \in 1 .. L
      BY <1>1, <1>7, <3>1
    <3>3. QED  BY <1>2, <3>2 DEF Near, InDays, L
  <2>4. n \in Int /\ (n - 1) + 1 = n
    BY <1>1
  <2> HIDE DEF v, lo, hi, e, f
  <2>5. CASE lo <= e /\ e <= hi
    BY <2>1, <2>5 DEF ThursdayFits
  <2>6. CASE ~(lo <= e /\ e <= hi)
    <3>1. L = 365 /\ q = hi /\ q > 60
      BY <1>1, <1>3, <1>4, <1>7, <2>1, <2>2, <2>6
    <3>2. z # "high"
      BY <1>4, <1>7, <3>1
    <3>3. q > 1 /\ lo <= f /\ f <= hi
      BY <1>4, <2>2, <3>1
    <3>4. InZone(z, n - 1) /\ ~InZone(z, n)
      BY <2>1, <2>3, <2>6, <3>3
    <3>5. QED  BY <2>1, <2>4, <3>1, <3>2, <3>4 DEF ThursdayFits, EndOfZone
  <2>7. QED  BY <2>5, <2>6
<1>8. QED  BY <1>1, <1>5, <1>6, <1>7

LEMMA EntryNear ==
  ASSUME NEW y \in Years, NEW q \in Int, -29 <= q, q <= YearLength(y) + 29,
         NEW n, n = NewYearDay(y) + q - 1, NEW z \in Zones
  PROVE  /\ q \in 1 .. YearLength(y) => (InEntries(z, n) <=> q # 60 /\ InDays(z, q))
         /\ q < 1 /\ InEntries(z, n) => z = "high"
         /\ q > YearLength(y) /\ InEntries(z, n) => z = "low"
<1> DEFINE L == YearLength(y)
           v == DayNumber(JToD(n))
           lo == ZoneFrom(z)
           hi == ZoneTo(z)
<1>1. y \in Int /\ L \in Int /\ (L = 365 \/ L = 366) /\ (TrueLeap(y) <=> L = 366) /\ NewYearDay(y) \in Int
  BY YearsInt, LengthOfYear
<1> HIDE DEF L
<1>2. Near(z, n, q, y)
  <2>1. -30 <= q /\ q <= YearLength(y) + 30
    BY <1>1 DEF L
  <2>2. QED  BY <2>1, NearDay
<1>3. InEntries(z, n) <=> v # 60 /\ InDays(z, v)
  BY <1>2, NearEntry
<1>4. InDays(z, v) <=> lo <= v /\ v <= hi
  BY DEF InDays
<1>5. \/ (lo = 1 /\ hi = 213 /\ z = "low")
      \/ (lo = 214 /\ hi = 305 /\ z = "medium")
      \/ (lo = 306 /\ hi = 366 /\ z = "high")
  BY DEF ZoneFrom, ZoneTo, Zones
<1>6. q \in 1 .. L => (InEntries(z, n) <=> q # 60 /\ InDays(z, q))
  BY <1>2, <1>3 DEF Near, L
<1>7. q < 1 /\ InEntries(z, n) => z = "high"
  <2>1. SUFFICES ASSUME q < 1, InEntries(z, n) PROVE z = "high"
    OBVIOUS
  <2>2. v >= 330 /\ v \in Int
    BY <1>2, <2>1 DEF Near
  <2> HIDE DEF v, lo, hi
  <2>3. QED  BY <1>3, <1>4, <1>5, <2>1, <2>2
<1>8. q > L /\ InEntries(z, n) => z = "low"
  <2>1. SUFFICES ASSUME q > L, InEntries(z, n) PROVE z = "low"
    OBVIOUS
  <2>2. v = q - L /\ v <= 29 /\ v \in Int
    BY <1>1, <1>2, <2>1 DEF Near, L
  <2> HIDE DEF v, lo, hi
  <2>3. QED  BY <1>3, <1>4, <1>5, <2>1, <2>2
<1>9. QED  BY <1>6, <1>7, <1>8 DEF L

\* A Thursday that is in the zone, whichever of the three is taken.
IsThursday(z, y, q, t) ==
  /\ q \in 1 .. YearLength(y) /\ t = NewYearDay(y) + q - 1
  /\ InDays(z, q) /\ q # 60 /\ InEntries(z, t) /\ (t + 1) % 7 = 4

LEMMA ThursdayOfZone ==
  ASSUME NEW z \in Zones, NEW y \in Years, NEW p \in 1 .. YearLength(y), NEW first,
         first = NewYearDay(y) + p - 1, InDays(z, LeapDay(y, p)), LeapDay(y, p) # 60
  PROVE  \E q \in 1 .. YearLength(y) : IsThursday(z, y, q, Thursday(z, KeptOf(y), first))
<1> DEFINE L == YearLength(y)
           Y == NewYearDay(y)
           w == (first + 1) % 7
           lo == ZoneFrom(z)
           hi == ZoneTo(z)
           e == LeapDay(y, p)
           t == first + (4 - w)
           q == p + 4 - w
           u == Thursday(z, KeptOf(y), first)
<1>1. y \in Int /\ L \in Int /\ (L = 365 \/ L = 366) /\ (TrueLeap(y) <=> L = 366) /\ Y \in Int
  BY YearsInt, LengthOfYear
<1>2. first \in Int /\ SetDow(KeptOf(y), JToD(first)) = w
  BY DowOfDay
<1>3. u = IF InEntries(z, t) THEN t ELSE IF InEntries(z, t - 7) THEN t - 7 ELSE t + 7
  <2>1. t = first + (4 - SetDow(KeptOf(y), JToD(first)))
    BY <1>2
  <2> HIDE DEF t
  <2>2. QED  BY <2>1 DEF Thursday
<1>4. w \in Int /\ 0 <= w /\ w <= 6
  BY <1>2
<1>5. t \in Int /\ (t + 1) % 7 = 4 /\ ((t - 7) + 1) % 7 = 4 /\ ((t + 7) + 1) % 7 = 4
  BY <1>2
<1> HIDE DEF L, Y, w
<1>6. p \in Int /\ 1 <= p /\ p <= L /\ q \in Int /\ p - 2 <= q /\ q <= p + 4
        /\ t = Y + q - 1 /\ t - 7 = Y + (q - 7) - 1 /\ t + 7 = Y + (q + 7) - 1
  BY <1>1, <1>4 DEF L, Y
<1>7. e = (IF L = 366 \/ p <= 59 THEN p ELSE p + 1) /\ lo <= e /\ e <= hi /\ e # 60
  BY <1>1, <1>6 DEF LeapDay, InDays
<1>8. \/ (lo = 1 /\ hi = 213 /\ z = "low")
      \/ (lo = 214 /\ hi = 305 /\ z = "medium")
      \/ (lo = 306 /\ hi = 366 /\ z = "high")
  BY DEF ZoneFrom, ZoneTo, Zones
<1> HIDE DEF lo, hi, e, t, q, u
<1>9. lo - 1 <= p /\ p <= hi /\ lo \in Int /\ hi \in Int
  BY <1>1, <1>6, <1>7, <1>8
<1>10. ASSUME NEW x \in Int, q - 7 <= x, x <= q + 7, NEW s, s = Y + x - 1
       PROVE  /\ x \in 1 .. L => (InEntries(z, s) <=> x # 60 /\ lo <= x /\ x <= hi)
              /\ InEntries(z, s) => x \in 1 .. L
  <2>1. -29 <= x /\ x <= L + 29
    BY <1>1, <1>6, <1>10
  <2>2. /\ x \in 1 .. L => (InEntries(z, s) <=> x # 60 /\ InDays(z, x))
        /\ x < 1 /\ InEntries(z, s) => z = "high"
        /\ x > L /\ InEntries(z, s) => z = "low"
    BY <1>10, <2>1, EntryNear DEF L, Y
  <2>3. z = "high" => ~(x < 1)
    BY <1>6, <1>8, <1>9, <1>10
  <2>4. z = "low" => ~(x > L)
    BY <1>1, <1>6, <1>8, <1>9, <1>10
  <2>5. InDays(z, x) <=> lo <= x /\ x <= hi
    BY DEF InDays, lo, hi
  <2>6. InEntries(z, s) => x \in 1 .. L
    BY <1>1, <1>10, <2>2, <2>3, <2>4
  <2>7. QED  BY <2>2, <2>5, <2>6
<1>11. ASSUME NEW x \in Int, q - 7 <= x, x <= q + 7, NEW s, s = Y + x - 1, InEntries(z, s), (s + 1) % 7 = 4
       PROVE  x \in 1 .. YearLength(y) /\ IsThursday(z, y, x, s)
  <2>1. x \in 1 .. L /\ x # 60 /\ lo <= x /\ x <= hi
    BY <1>10, <1>11
  <2>2. InDays(z, x)
    BY <2>1 DEF InDays, lo, hi
  <2>3. QED  BY <1>11, <2>1, <2>2 DEF IsThursday, L, Y
<1>12. q - 7 \in Int /\ q + 7 \in Int /\ q - 7 <= q /\ q <= q + 7 /\ q - 7 <= q + 7 /\ q - 7 <= q - 7 /\ q + 7 <= q + 7
  BY <1>6
<1>13. \E x \in 1 .. YearLength(y) : IsThursday(z, y, x, u)
  <2>1. CASE InEntries(z, t)
    <3>1. u = t
      BY <1>3, <2>1
    <3>2. q \in 1 .. YearLength(y) /\ IsThursday(z, y, q, t)
      BY <1>5, <1>6, <1>11, <1>12, <2>1
    <3>3. QED  BY <3>1, <3>2
  <2>2. CASE ~InEntries(z, t) /\ InEntries(z, t - 7)
    <3>1. u = t - 7
      BY <1>3, <2>2
    <3>2. q - 7 \in 1 .. YearLength(y) /\ IsThursday(z, y, q - 7, t - 7)
      BY <1>5, <1>6, <1>11, <1>12, <2>2
    <3>3. QED  BY <3>1, <3>2
  <2>3. CASE ~InEntries(z, t) /\ ~InEntries(z, t - 7)
    <3>1. u = t + 7
      BY <1>3, <2>3
    <3>2. q \in 1 .. L => q = 60 \/ q < lo \/ q > hi
      BY <1>6, <1>9, <1>10, <1>12, <2>3
    <3>3. q - 7 \in 1 .. L => q - 7 = 60 \/ q - 7 < lo \/ q - 7 > hi
      BY <1>6, <1>9, <1>10, <1>12, <2>3
    <3>4. q + 7 \in 1 .. L /\ q + 7 # 60 /\ lo <= q + 7 /\ q + 7 <= hi
      BY <1>1, <1>6, <1>7, <1>8, <1>9, <3>2, <3>3
    <3>5. InEntries(z, t + 7)
      BY <1>6, <1>10, <1>12, <3>4
    <3>6. q + 7 \in 1 .. YearLength(y) /\ IsThursday(z, y, q + 7, t + 7)
      BY <1>5, <1>6, <1>11, <1>12, <3>5
    <3>7. QED  BY <3>1, <3>6
  <2>4. QED  BY <2>1, <2>2, <2>3
<1>14. QED  BY <1>13 DEF u

LEMMA OtherFits ==
  ASSUME NEW z \in Zones, NEW y \in Years, NEW q, NEW t, IsThursday(z, y, q, t)
  PROVE  /\ ThursdayFits(z, t) /\ ThursdayFits(z, OtherThursday(z, t))
         /\ OtherThursday(z, t) \in {t - 7, t + 7} /\ (OtherThursday(z, t) + 1) % 7 = 4
<1> DEFINE L == YearLength(y)
           Y == NewYearDay(y)
           lo == ZoneFrom(z)
           hi == ZoneTo(z)
           u == OtherThursday(z, t)
           a == t + 7
           b == t - 7
           v == DayNumber(JToD(a))
           n == v + (IF z = "low" THEN 1 ELSE 0)
           e == LeapDay(y, q + 7)
           f == LeapDay(y, q - 7)
<1>1. y \in Int /\ L \in Int /\ (L = 365 \/ L = 366) /\ (TrueLeap(y) <=> L = 366) /\ Y \in Int
  BY YearsInt, LengthOfYear
<1> HIDE DEF L, Y
<1>2. /\ q \in Int /\ 1 <= q /\ q <= L /\ t = Y + q - 1 /\ t \in Int
      /\ lo <= q /\ q <= hi /\ q # 60 /\ InEntries(z, t) /\ (t + 1) % 7 = 4
  BY <1>1 DEF IsThursday, L, Y, InDays
<1>3. /\ a \in Int /\ b \in Int /\ a = Y + (q + 7) - 1 /\ b = Y + (q - 7) - 1
      /\ (a + 1) % 7 = 4 /\ (b + 1) % 7 = 4
  BY <1>1, <1>2
<1>4. \/ (lo = 1 /\ hi = 213 /\ z = "low")
      \/ (lo = 214 /\ hi = 305 /\ z = "medium")
      \/ (lo = 306 /\ hi = 366 /\ z = "high")
  BY DEF ZoneFrom, ZoneTo, Zones
<1>5. ThursdayFits(z, t)
  <2>1. -29 <= q /\ q <= YearLength(y) + 29
    BY <1>1, <1>2 DEF L
  <2>2. QED  BY <1>2, <2>1, EntryFits DEF Y
<1>6. u = IF n \in Entries[z] THEN a ELSE b
  BY DEF OtherThursday
<1>7. Near(z, a, q + 7, y) /\ Near(z, b, q - 7, y)
  <2>1. q + 7 \in Int /\ -30 <= q + 7 /\ q + 7 <= YearLength(y) + 30
    BY <1>1, <1>2 DEF L
  <2>2. q - 7 \in Int /\ -30 <= q - 7 /\ q - 7 <= YearLength(y) + 30
    BY <1>1, <1>2 DEF L
  <2> HIDE DEF a, b
  <2>3. QED  BY <1>3, <2>1, <2>2, NearDay DEF Y
<1> HIDE DEF a, b, u
<1>8. /\ e = IF L = 366 \/ q + 7 <= 59 THEN q + 7 ELSE q + 8
      /\ f = IF L = 366 \/ q - 7 <= 59 THEN q - 7 ELSE q - 6
  BY <1>1, <1>2 DEF LeapDay
<1>9. /\ v \in 1 .. 366 /\ v \in Int
      /\ q + 7 <= L => v = q + 7 /\ (InZone(z, a) <=> lo <= e /\ e <= hi)
      /\ q + 7 > L => v = (q + 7) - L
  <2>1. q + 7 <= L => q + 7 \in 1 .. L
    BY <1>1, <1>2
  <2>2. QED  BY <1>7, <2>1 DEF Near, L, InDays
<1>10. q - 7 >= 1 => (InZone(z, b) <=> lo <= f /\ f <= hi)
  <2>1. q - 7 >= 1 => q - 7 \in 1 .. L
    BY <1>1, <1>2
  <2>2. QED  BY <1>7, <2>1 DEF Near, L, InDays
<1>11. n \in Int /\ (n \in Entries[z] <=> n \in 1 .. 366 /\ n # 60 /\ lo <= n /\ n <= hi)
  <2>1. n \in Int
    BY <1>9
  <2> HIDE DEF n
  <2>2. QED  BY <2>1, EntriesOf DEF InDays
<1>12. n = IF z = "low" THEN v + 1 ELSE v
  BY <1>9
<1> HIDE DEF lo, hi, e, f, v, n
<1>13. CASE n \in Entries[z]
  <2>1. u = a
    BY <1>6, <1>13
  <2>2. ThursdayFits(z, a)
    <3>1. CASE z = "low"
      <4>1. q + 7 <= L /\ lo <= e /\ e <= hi
        BY <1>1, <1>2, <1>4, <1>8, <1>9, <1>11, <1>12, <1>13, <3>1
      <4>2. QED  BY <1>9, <4>1 DEF ThursdayFits
    <3>2. CASE z # "low"
      <4>1. n = v
        BY <1>12, <3>2
      <4>2. InEntries(z, a)
        BY <1>13, <4>1 DEF InEntries, v
      <4>3. q + 7 \in Int /\ -29 <= q + 7 /\ q + 7 <= YearLength(y) + 29
        BY <1>1, <1>2 DEF L
      <4>4. QED  BY <1>3, <4>2, <4>3, EntryFits DEF Y
    <3>3. QED  BY <3>1, <3>2
  <2>3. QED  BY <1>3, <1>5, <2>1, <2>2 DEF u, a
<1>14. CASE n \notin Entries[z]
  <2>1. u = b
    BY <1>6, <1>14
  <2>2. q - 7 >= 1 /\ lo <= f /\ f <= hi
    <3>1. CASE z = "low"
      <4>1. n = v + 1 /\ v = q + 7 /\ lo = 1 /\ hi = 213
        BY <1>1, <1>2, <1>4, <1>9, <1>12, <3>1
      <4>2. n = 60 \/ n > 213
        BY <1>2, <1>4, <1>11, <1>14, <3>1, <4>1
      <4>3. QED  BY <1>1, <1>2, <1>8, <4>1, <4>2
    <3>2. CASE z = "medium"
      <4>1. n = v /\ v = q + 7 /\ lo = 214 /\ hi = 305
        BY <1>1, <1>2, <1>4, <1>9, <1>12, <3>2
      <4>2. QED  BY <1>1, <1>2, <1>8, <1>11, <1>14, <4>1
    <3>3. CASE z = "high"
      <4>1. n = v /\ lo = 306 /\ hi = 366
        BY <1>4, <1>12, <3>3
      <4>2. q + 7 > L
        BY <1>1, <1>2, <1>9, <1>11, <1>14, <4>1
      <4>3. QED  BY <1>1, <1>2, <1>8, <4>1, <4>2
    <3>4. QED  BY <1>4, <3>1, <3>2, <3>3
  <2>3. ThursdayFits(z, b)
    BY <1>10, <2>2 DEF ThursdayFits
  <2>4. QED  BY <1>3, <1>5, <2>1, <2>3 DEF u, b
<1>15. QED  BY <1>13, <1>14

LEMMA PicksFit == WalkInv /\ PickDates => UpdateDatesFit'
<1> SUFFICES ASSUME WalkInv, PickDates PROVE UpdateDatesFit'
  OBVIOUS
<1> DEFINE z == zone'
<1>1. z \in Zones
  BY DEF PickDates, ZoneAfter, Zones
<1>2. PICK first \in SkewedDates(z) :
        /\ \E second \in NextDay(z, first) : pair' = <<first, second>>
        /\ kept' = Kept(kept, JToD(first).year)
        /\ stock' = <<Thursday(z, kept', first), OtherThursday(z, Thursday(z, kept', first))>>
  BY Zenon DEF PickDates
<1>3. PICK second \in NextDay(z, first) : pair' = <<first, second>>
  BY <1>2
<1>4. DrawnFrom(z, first)
  BY <1>1, SkewedDay
<1>5. PICK y \in Years : \E p \in 1 .. YearLength(y) :
        /\ first = NewYearDay(y) + p - 1
        /\ InDays(z, LeapDay(y, p)) /\ LeapDay(y, p) # 60
  BY <1>1, <1>4, DrawnDay
<1>6. PICK p \in 1 .. YearLength(y) :
        /\ first = NewYearDay(y) + p - 1
        /\ InDays(z, LeapDay(y, p)) /\ LeapDay(y, p) # 60
  BY <1>5
<1>7. y \in Int /\ InCalendar(y)
  BY YearsInt
<1>8. first \in Int /\ JToD(first).year = y
  BY <1>6, DowOfDay
<1>9. kept' = KeptOf(y)
  <2>1. kept = NoneKept \/ \E x \in Int : InCalendar(x) /\ kept = KeptOf(x)
    BY DEF WalkInv
  <2>2. QED  BY <1>2, <1>7, <1>8, <2>1, KeptAgain
<1> DEFINE t == Thursday(z, kept', first)
           u == OtherThursday(z, t)
<1>10. PICK q \in 1 .. YearLength(y) : IsThursday(z, y, q, t)
  BY <1>1, <1>6, <1>9, ThursdayOfZone
<1>11. (t + 1) % 7 = 4
  BY <1>10 DEF IsThursday
<1> HIDE DEF t
<1>12. ThursdayFits(z, t) /\ ThursdayFits(z, u) /\ u \in {t - 7, t + 7} /\ (u + 1) % 7 = 4
  BY <1>1, <1>10, OtherFits
<1>13. /\ pair'[1] = first /\ pair'[2] = second /\ stock'[1] = t /\ stock'[2] = u
  BY <1>2, <1>3 DEF t
<1>14. LET d == JToD(first)
       IN  /\ InZone(z, first) /\ second \in {first - 1, first + 1}
           /\ ~InZone(z, second) => EndOfZone(z, first) /\ (Late(first) \/ z = "high")
           /\ second < first => (d.month = 2 /\ d.day = 28)
                                  \/ (EndOfZone(z, first) /\ (~Late(first) \/ z = "high"))
  BY <1>1, <1>4, PairFits
<1> HIDE DEF u
<1>15. \A k \in {1, 2} : (stock'[k] + 1) % 7 = 4 /\ ThursdayFits(z, stock'[k])
  BY <1>11, <1>12, <1>13
<1>16. QED
  <2>1. LET d == JToD(pair'[1])
        IN  /\ InZone(z, pair'[1]) /\ pair'[2] \in {pair'[1] - 1, pair'[1] + 1}
            /\ ~InZone(z, pair'[2]) => EndOfZone(z, pair'[1]) /\ (Late(pair'[1]) \/ z = "high")
            /\ pair'[2] < pair'[1] => (d.month = 2 /\ d.day = 28)
                                        \/ (EndOfZone(z, pair'[1]) /\ (~Late(pair'[1]) \/ z = "high"))
            /\ stock'[2] \in {stock'[1] - 7, stock'[1] + 7}
    BY <1>12, <1>13, <1>14
  <2>2. \A k \in {1, 2} :
          /\ (stock'[k] + 1) % 7 = 4
          /\ InZone(z, stock'[k]) \/ (EndOfZone(z, stock'[k] - 1) /\ Late(stock'[k]) /\ z # "high")
    BY <1>15 DEF ThursdayFits
  <2>3. QED  BY <2>1, <2>2, Zenon DEF UpdateDatesFit

(* The inductive invariant: the walk, and the dates that were picked last. *)
CalendarInductive == WalkInv /\ UpdateDatesFit

LEMMA CalendarInvariant == CalendarSpec => []CalendarInductive
<1>1. CalendarInit => CalendarInductive
  <2>1. CalendarInit => UpdateDatesFit
    BY DEF CalendarInit, UpdateDatesFit, Zones
  <2>2. QED  BY <2>1, WalkInit DEF CalendarInductive
<1>2. CalendarInductive /\ [CalendarNext]_calendarVars => CalendarInductive'
  <2> SUFFICES ASSUME CalendarInductive, [CalendarNext]_calendarVars PROVE CalendarInductive'
    OBVIOUS
  <2>1. WalkInv'
    BY WalkNext DEF CalendarInductive
  <2>2. UpdateDatesFit'
    <3>1. CASE MakeDate
      BY <3>1, Zenon DEF CalendarInductive, MakeDate, UpdateDatesFit
    <3>2. CASE PickDates
      BY <3>2, PicksFit DEF CalendarInductive
    <3>3. CASE UNCHANGED calendarVars
      BY <3>3, Zenon DEF CalendarInductive, calendarVars, UpdateDatesFit
    <3>4. QED  BY <3>1, <3>2, <3>3 DEF CalendarNext
  <2>3. QED  BY <2>1, <2>2 DEF CalendarInductive
<1>3. QED  BY <1>1, <1>2, PTL DEF CalendarSpec

(* Every row of date_dim, to the last, is the day it should be, in date,   *)
(* number, week, day of the week, month, quarter and year before and       *)
(* flags, but that from March on a common year has the entry of "calendar" *)
(* of the day before; a row that is validated is the row that was built;   *)
(* and whatever days a refresh set draws from whatever years, they are of  *)
(* its zone, but for the days behind it that day_number() and              *)
(* setUpdateDates() let through in common years and on December 31.        *)
THEOREM DatesAlwaysTrue == CalendarSpec => []DatesTrue
<1>1. CalendarInductive => DatesTrue
  BY WalkIsTrue, WalkIsValid DEF CalendarInductive, DatesTrue
<1>2. QED  BY <1>1, CalendarInvariant, PTL

=============================================================================
