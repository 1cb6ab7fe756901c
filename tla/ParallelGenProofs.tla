-------------------------- MODULE ParallelGenProofs --------------------------
(***************************************************************************)
(* Proofs about ParallelGen, for any tables, streams, calendar and number  *)
(* of processes that satisfy its assumptions; first, about split_work(),   *)
(* for every number of rows and of processes: the chunks lie in the table, *)
(* no two of them overlap, and together they are the whole table.  With    *)
(* q = RowsetSize and r = ExtraRows, the first r chunks have q + 1 rows    *)
(* and the others q.                                                       *)
(*                                                                         *)
(*   ChunksWithin, ChunksDisjoint, ChunksCover                             *)
(*                             what split_work() gives the processes       *)
(*   TypeCorrect               the processes stay within their types       *)
(*   ChunksAlwaysFit           no row twice, none beyond its table         *)
(*   StreamsAlwaysInStep       the random numbers are those of a serial    *)
(*                             build, when TwoGenerations holds            *)
(*   DatesAlwaysInStep         and so are the sale dates, when             *)
(*                             NoDayEndsAtAChunk holds                     *)
(*   BuildImplementsTableGen   the build implements TableGen (its safety   *)
(*                             part) when both hold                        *)
(*                                                                         *)
(* All rest on the inductive invariant Inv: while a process builds a table *)
(* it is in its chunk (InChunk) and its walk over the calendar can still   *)
(* find the day of every row (WalksReach).                                 *)
(***************************************************************************)
EXTENDS ParallelGen, TLAPS, WellFoundedInduction

-----------------------------------------------------------------------------
(* Division: quotient and remainder of the C operators / and %, for the    *)
(* positive divisors split_work() has.                                     *)
LEMMA Division ==
  ASSUME NEW n \in Nat, NEW p \in Nat \ {0}
  PROVE  /\ n % p \in 0 .. p - 1
         /\ n \div p \in Nat
         /\ n = p * (n \div p) + (n % p)
  OBVIOUS

LEMMA ExactDivision ==
  ASSUME NEW k \in Nat, NEW p \in Nat \ {0}
  PROVE  (p * k) \div p = k
  OBVIOUS

LEMMA Quotient ==
  ASSUME NEW a \in Nat, NEW b \in Nat \ {0}
  PROVE  /\ a \div b \in Nat
         /\ (a \div b) * b <= a
         /\ a < (a \div b) * b + b
<1>1. a \div b \in Nat /\ a % b \in 0 .. b - 1  BY Division
<1>2. a = b * (a \div b) + (a % b)  BY Division
<1> DEFINE d == a \div b
<1>3. d * b = b * d  BY <1>1
<1>4. b * d \in Nat  BY <1>1
<1> HIDE DEF d
<1> QED BY <1>1, <1>2, <1>3, <1>4 DEF d

LEMMA TimesMonotone ==
  ASSUME NEW a \in Nat, NEW b \in Nat, NEW k \in Nat, a <= b
  PROVE  a * k <= b * k
<1>1. b * k = a * k + (b - a) * k  OBVIOUS
<1>2. (b - a) * k >= 0             OBVIOUS
<1>3. a * k \in Nat /\ b * k \in Nat  OBVIOUS
<1> QED BY <1>1, <1>2, <1>3

(* kRowsetSize and kExtraRows of split_work(): every process gets the same *)
(* number of rows and fewer than nParallel rows are left over.             *)
LEMMA RowsetSizeAndExtraRows ==
  ASSUME NEW n \in Nat, NEW p \in Nat \ {0}
  PROVE  /\ RowsetSize(n, p) \in Nat
         /\ ExtraRows(n, p) \in 0 .. p - 1
         /\ n = p * RowsetSize(n, p) + ExtraRows(n, p)
<1>1. n - (n % p) = p * (n \div p)  BY Division
<1>2. RowsetSize(n, p) = n \div p   BY <1>1, Division, ExactDivision DEF RowsetSize
<1> QED BY <1>2, Division DEF ExtraRows

(* The first row and the number of rows split_work() returns are a row     *)
(* number and a number of rows.                                            *)
LEMMA ChunkType ==
  ASSUME NEW n \in Nat, NEW p \in Nat, NEW c \in Children(p)
  PROVE  /\ FirstRow(n, p, c) \in Nat \ {0}
         /\ RowCount(n, p, c) \in Nat
         /\ c \in Nat \ {0}
<1>1. c \in Nat \ {0}
  BY DEF Children, Unset
<1>2. CASE ~IsSplit(n, p)
  BY <1>1, <1>2 DEF FirstRow, RowCount
<1>3. CASE IsSplit(n, p)
  <2> DEFINE q == RowsetSize(n, p)
             r == ExtraRows(n, p)
  <2>1. p \in Nat \ {0}  BY <1>3 DEF IsSplit, Unset
  <2>2. q \in Nat /\ r \in Nat  BY <2>1, RowsetSizeAndExtraRows
  <2>3. (c - 1) * q \in Nat  BY <1>1, <2>2
  <2> QED BY <1>1, <1>3, <2>2, <2>3 DEF FirstRow, RowCount
<1> QED BY <1>1, <1>2, <1>3

(* The first process starts with row 1.                                    *)
LEMMA FirstChunk ==
  ASSUME NEW n \in Nat, NEW p \in Nat
  PROVE  FirstRow(n, p, 1) = 1
<1>1. CASE ~IsSplit(n, p)
  BY <1>1 DEF FirstRow
<1>2. CASE IsSplit(n, p)
  <2>1. p \in Nat \ {0}  BY <1>2 DEF IsSplit, Unset
  <2>2. RowsetSize(n, p) \in Nat /\ ExtraRows(n, p) \in Nat
    BY <2>1, RowsetSizeAndExtraRows
  <2>3. (1 - 1) * RowsetSize(n, p) = 0
    BY <2>2
  <2> QED BY <1>2, <2>2, <2>3 DEF FirstRow
<1> QED BY <1>1, <1>2

(* Where one chunk ends the next begins: each process computes this on its *)
(* own, from PARALLEL and CHILD alone.                                     *)
LEMMA ChunksAdjacent ==
  ASSUME NEW n \in Nat, NEW p \in Nat, IsSplit(n, p),
         NEW c \in Nat \ {0}
  PROVE  FirstRow(n, p, c + 1) = FirstRow(n, p, c) + RowCount(n, p, c)
<1> DEFINE q == RowsetSize(n, p)
           r == ExtraRows(n, p)
<1>1. p \in Nat \ {0}  BY DEF IsSplit, Unset
<1>2. q \in Nat /\ r \in Nat  BY <1>1, RowsetSizeAndExtraRows
<1>3. ((c + 1) - 1) * q = (c - 1) * q + q  BY <1>2
<1>4. (c - 1) * q \in Nat  BY <1>2
<1> HIDE DEF q, r
<1>5. FirstRow(n, p, c) = 1 + (c - 1) * q + (IF c - 1 < r THEN c - 1 ELSE r)
  BY DEF FirstRow, q, r
<1>6. FirstRow(n, p, c + 1)
        = 1 + ((c + 1) - 1) * q + (IF (c + 1) - 1 < r THEN (c + 1) - 1 ELSE r)
  BY DEF FirstRow, q, r
<1>7. RowCount(n, p, c) = q + (IF c <= r THEN 1 ELSE 0)
  BY DEF RowCount, q, r
<1> QED BY <1>2, <1>3, <1>4, <1>5, <1>6, <1>7

(* A later chunk begins no earlier.                                        *)
LEMMA FirstRowMonotone ==
  ASSUME NEW n \in Nat, NEW p \in Nat, IsSplit(n, p),
         NEW c \in Nat \ {0}, NEW e \in Nat \ {0}, c <= e
  PROVE  FirstRow(n, p, c) <= FirstRow(n, p, e)
<1> DEFINE q == RowsetSize(n, p)
           r == ExtraRows(n, p)
<1>1. p \in Nat \ {0}  BY DEF IsSplit, Unset
<1>2. q \in Nat /\ r \in Nat  BY <1>1, RowsetSizeAndExtraRows
<1>3. (c - 1) * q <= (e - 1) * q  BY <1>2, TimesMonotone
<1>4. (c - 1) * q \in Nat /\ (e - 1) * q \in Nat  BY <1>2
<1>5. FirstRow(n, p, c) = 1 + (c - 1) * q + (IF c - 1 < r THEN c - 1 ELSE r)
  BY DEF FirstRow
<1>6. FirstRow(n, p, e) = 1 + (e - 1) * q + (IF e - 1 < r THEN e - 1 ELSE r)
  BY DEF FirstRow
<1> HIDE DEF q, r
<1> QED BY <1>2, <1>3, <1>4, <1>5, <1>6

(* The last process ends with the last row.                                *)
LEMMA LastChunk ==
  ASSUME NEW n \in Nat, NEW p \in Nat, IsSplit(n, p)
  PROVE  FirstRow(n, p, p) + RowCount(n, p, p) = n + 1
<1> DEFINE q == RowsetSize(n, p)
           r == ExtraRows(n, p)
<1>1. p \in Nat \ {0}  BY DEF IsSplit, Unset
<1>2. q \in Nat /\ r \in 0 .. p - 1 /\ n = p * q + r
  BY <1>1, RowsetSizeAndExtraRows
<1>3. FirstRow(n, p, p) = 1 + (p - 1) * q + (IF p - 1 < r THEN p - 1 ELSE r)
  BY DEF FirstRow
<1>4. RowCount(n, p, p) = q + (IF p <= r THEN 1 ELSE 0)
  BY DEF RowCount
<1>5. (p - 1) * q + q = p * q  BY <1>1, <1>2
<1>6. (p - 1) * q \in Nat /\ p * q \in Nat  BY <1>1, <1>2
<1> HIDE DEF q, r
<1> QED BY <1>1, <1>2, <1>3, <1>4, <1>5, <1>6

(* No process builds a row that is not in the table.                       *)
THEOREM ChunksWithin ==
  ASSUME NEW n \in Nat, NEW p \in Nat, NEW c \in Children(p)
  PROVE  Chunk(n, p, c) \subseteq 1 .. n
<1>1. CASE ~IsSplit(n, p)
  <2>1. FirstRow(n, p, c) = 1 /\ RowCount(n, p, c) \in {0, n}
    BY <1>1 DEF FirstRow, RowCount
  <2> QED BY <2>1 DEF Chunk
<1>2. CASE IsSplit(n, p)
  <2>1. p \in Nat \ {0} /\ c \in 1 .. p
    BY <1>2 DEF IsSplit, Children, Unset
  <2>2. FirstRow(n, p, c) \in Nat \ {0} /\ RowCount(n, p, c) \in Nat
    BY ChunkType
  <2>3. FirstRow(n, p, c) + RowCount(n, p, c) <= n + 1
    <3>1. CASE c = p
      BY <1>2, <3>1, LastChunk
    <3>2. CASE c < p
      <4>1. FirstRow(n, p, c) + RowCount(n, p, c) = FirstRow(n, p, c + 1)
        BY <1>2, <2>1, ChunksAdjacent
      <4>2. FirstRow(n, p, c + 1) <= FirstRow(n, p, p)
        BY <1>2, <2>1, <3>2, FirstRowMonotone
      <4>3. FirstRow(n, p, p) + RowCount(n, p, p) = n + 1
        BY <1>2, LastChunk
      <4>4. p \in Children(p)  BY <2>1 DEF Children, Unset
      <4>5. FirstRow(n, p, p) \in Nat /\ RowCount(n, p, p) \in Nat
        BY <4>4, ChunkType
      <4>6. FirstRow(n, p, c + 1) \in Nat
        BY <2>2, <4>1
      <4> QED BY <4>1, <4>2, <4>3, <4>5, <4>6
    <3> QED BY <2>1, <3>1, <3>2
  <2> QED BY <2>2, <2>3 DEF Chunk
<1> QED BY <1>1, <1>2

(* No two processes build the same row of a table.                         *)
THEOREM ChunksDisjoint ==
  ASSUME NEW n \in Nat, NEW p \in Nat,
         NEW c \in Children(p), NEW e \in Children(p), c < e
  PROVE  Chunk(n, p, c) \intersect Chunk(n, p, e) = {}
<1>1. c \in Nat \ {0} /\ e \in Nat \ {0} /\ e > 1
  BY ChunkType
<1>2. p # Unset
  BY <1>1 DEF Children
<1>3. CASE ~IsSplit(n, p)
  <2>1. FirstRow(n, p, e) = 1 /\ RowCount(n, p, e) = 0
    BY <1>1, <1>2, <1>3, SmallTableAssumption DEF IsSplit, FirstRow, RowCount
  <2> QED BY <2>1 DEF Chunk
<1>4. CASE IsSplit(n, p)
  <2>1. FirstRow(n, p, c) + RowCount(n, p, c) = FirstRow(n, p, c + 1)
    BY <1>1, <1>4, ChunksAdjacent
  <2>2. FirstRow(n, p, c + 1) <= FirstRow(n, p, e)
    BY <1>1, <1>4, FirstRowMonotone
  <2>3. /\ FirstRow(n, p, c) \in Nat /\ RowCount(n, p, c) \in Nat
        /\ FirstRow(n, p, e) \in Nat /\ RowCount(n, p, e) \in Nat
    BY ChunkType
  <2> QED BY <2>1, <2>2, <2>3 DEF Chunk
<1> QED BY <1>3, <1>4

(* Every row of a table is built by some process.                          *)
THEOREM ChunksCover ==
  ASSUME NEW n \in Nat, NEW p \in Nat, NEW i \in 1 .. n
  PROVE  \E c \in Children(p) : i \in Chunk(n, p, c)
<1>1. CASE ~IsSplit(n, p)
  <2>1. 1 \in Children(p)  BY DEF Children, Unset
  <2>2. FirstRow(n, p, 1) = 1 /\ RowCount(n, p, 1) = n
    BY <1>1 DEF FirstRow, RowCount
  <2> QED BY <2>1, <2>2 DEF Chunk
<1>2. CASE IsSplit(n, p)
  <2> DEFINE q == RowsetSize(n, p)
             r == ExtraRows(n, p)
             f(c) == FirstRow(n, p, c)
             k(c) == RowCount(n, p, c)
  <2>1. p \in Nat \ {0}  BY <1>2 DEF IsSplit, Unset
  <2>2. q \in Nat /\ r \in 0 .. p - 1 /\ n = p * q + r
    BY <2>1, RowsetSizeAndExtraRows
  <2>3. \A c : /\ f(c) = 1 + (c - 1) * q + (IF c - 1 < r THEN c - 1 ELSE r)
               /\ k(c) = q + (IF c <= r THEN 1 ELSE 0)
    BY <1>2 DEF FirstRow, RowCount
  <2> HIDE DEF q, r, f, k
  <2>4. SUFFICES \E c \in 1 .. p : f(c) <= i /\ i < f(c) + k(c)
    <3>1. Children(p) = 1 .. p  BY <2>1 DEF Children, Unset
    <3>2. PICK c \in 1 .. p : f(c) <= i /\ i < f(c) + k(c)  BY <2>4
    <3>3. f(c) \in Nat /\ k(c) \in Nat  BY <3>1, ChunkType DEF f, k
    <3>4. i \in Chunk(n, p, c)  BY <3>2, <3>3 DEF Chunk, f, k
    <3> QED BY <3>1, <3>4
  (* The row lies in one of the first r chunks, of q + 1 rows each.        *)
  <2>5. CASE i <= r * (q + 1)
    <3> DEFINE d == (i - 1) \div (q + 1)
    <3>1. q + 1 \in Nat \ {0} /\ i - 1 \in Nat  BY <2>2
    <3>2. d \in Nat /\ d * (q + 1) <= i - 1 /\ i - 1 < d * (q + 1) + (q + 1)
      BY <3>1, Quotient
    <3> HIDE DEF d
    <3>3. d < r
      <4>1. SUFFICES ASSUME r <= d PROVE FALSE  BY <2>2, <3>2
      <4>2. r * (q + 1) <= d * (q + 1)  BY <2>2, <3>1, <3>2, <4>1, TimesMonotone
      <4>3. r * (q + 1) \in Int /\ d * (q + 1) \in Int  BY <2>2, <3>2
      <4> QED BY <2>5, <3>1, <3>2, <4>2, <4>3
    <3>4. d * (q + 1) = d * q + d /\ d * q \in Nat  BY <2>2, <3>2
    <3>5. f(d + 1) = 1 + d * q + d /\ k(d + 1) = q + 1
      <4>1. (d + 1) - 1 = d  BY <3>2
      <4> QED BY <2>2, <2>3, <3>2, <3>3, <4>1
    <3>6. d + 1 \in 1 .. p  BY <2>1, <2>2, <3>2, <3>3
    <3>7. f(d + 1) <= i /\ i < f(d + 1) + k(d + 1)
      BY <2>2, <3>2, <3>4, <3>5
    <3> QED BY <3>6, <3>7
  (* It lies in one of the others, of q rows each.                         *)
  <2>6. CASE ~(i <= r * (q + 1))
    <3> DEFINE j == i - 1 - r * (q + 1)
               d == j \div q
    <3>0. r * (q + 1) = r * q + r /\ r * q \in Nat /\ p * q \in Nat  BY <2>1, <2>2
    <3>1. q # 0
      <4>1. SUFFICES ASSUME q = 0 PROVE FALSE  OBVIOUS
      <4>2. n = r /\ r * (q + 1) = r  BY <2>1, <2>2, <4>1
      <4> QED BY <2>2, <2>6, <4>2
    <3>2. j \in Nat  BY <2>2, <2>6, <3>0
    <3>3. d \in Nat /\ d * q <= j /\ j < d * q + q
      BY <2>2, <3>1, <3>2, Quotient
    <3>4. j < (p - r) * q
      <4>1. (p - r) * q = p * q - r * q  BY <2>1, <2>2
      <4> QED BY <2>2, <3>0, <4>1
    <3> HIDE DEF d
    <3>5. d < p - r
      <4>1. SUFFICES ASSUME p - r <= d PROVE FALSE  BY <2>1, <2>2, <3>3
      <4>2. p - r \in Nat  BY <2>1, <2>2
      <4>3. (p - r) * q <= d * q  BY <2>2, <3>3, <4>1, <4>2, TimesMonotone
      <4>4. (p - r) * q \in Int /\ d * q \in Int  BY <2>2, <3>3, <4>2
      <4> QED BY <3>2, <3>3, <3>4, <4>3, <4>4
    <3> DEFINE c == r + d + 1
    <3>6. c \in 1 .. p  BY <2>1, <2>2, <3>3, <3>5
    <3>7. (c - 1) * q = r * q + d * q /\ d * q \in Nat  BY <2>2, <3>3
    <3>8. f(c) = 1 + (c - 1) * q + r /\ k(c) = q
      BY <2>2, <2>3, <3>3
    <3>9. f(c) <= i /\ i < f(c) + k(c)
      <4>1. f(c) = 1 + r * q + d * q + r  BY <2>2, <3>0, <3>7, <3>8
      <4>2. i = 1 + r * q + r + j  BY <2>2, <3>0
      <4> HIDE DEF j
      <4> QED BY <2>2, <3>0, <3>2, <3>3, <3>7, <3>8, <4>1, <4>2
    <3> QED BY <3>6, <3>9
  <2> QED BY <2>5, <2>6
<1> QED BY <1>1, <1>2

-----------------------------------------------------------------------------
(* A set of natural numbers that is not empty has a least element.         *)
LEMMA LeastExists ==
  ASSUME NEW S \in SUBSET Nat, S # {}
  PROVE  \E m \in S : \A e \in S : m <= e
<1> DEFINE R == OpToRel(<, Nat)
<1>1. IsWellFoundedOn(R, Nat)
  BY NatLessThanWellFounded
<1> HIDE DEF R
<1>2. PICK m \in S : \A e \in S : ~(<<e, m>> \in R)
  BY <1>1, WFMin
<1>3. \A e \in Nat : e < m => <<e, m>> \in R
  BY m \in Nat DEF R, OpToRel
<1>4. \A e \in S : ~(e < m)
  BY <1>2, <1>3, Zenon
<1> QED BY <1>4

LEMMA LeastIsLeast ==
  ASSUME NEW S \in SUBSET Nat, S # {}
  PROVE  Least(S) \in S /\ \A e \in S : Least(S) <= e
<1>1. \E m \in S : \A e \in S : m <= e
  BY LeastExists
<1> QED BY <1>1, Zenon DEF Least

(* The running total of the calendar never falls.                          *)
LEMMA DayEndMonotone ==
  ASSUME NEW d \in 0 .. LastDay, NEW e \in 0 .. LastDay, d <= e
  PROVE  DayEnd[d] <= DayEnd[e]
<1> DEFINE Bad == {k \in d .. LastDay : ~(DayEnd[d] <= DayEnd[k])}
<1>1. SUFFICES ASSUME ~(DayEnd[d] <= DayEnd[e]) PROVE FALSE
  OBVIOUS
<1>2. Bad \in SUBSET Nat /\ e \in Bad
  BY <1>1, CalendarAssumption
<1>3. PICK m \in Bad : \A k \in Bad : m <= k
  BY <1>2, LeastExists
<1>4. m # d /\ m \in d .. LastDay /\ m - 1 \in d .. LastDay
  BY <1>3, CalendarAssumption
<1>5. m - 1 \notin Bad
  BY <1>2, <1>3, <1>4
<1>6. DayEnd[d] <= DayEnd[m - 1]
  BY <1>4, <1>5
<1>7. DayEnd[m] = DayEnd[m - 1] + DayRows[m]
  BY <1>4, CalendarAssumption
<1>8. DayRows[m] \in Nat /\ DayEnd[m - 1] \in Nat /\ DayEnd[d] \in Nat
  BY <1>4, CalendarAssumption
<1> QED BY <1>3, <1>6, <1>7, <1>8

-----------------------------------------------------------------------------
(* A walk that can still find the day of every row of DatedTable.          *)
Reaches(w) ==
  /\ w \in [day : 0 .. LastDay, index : Nat]
  /\ RowsIn[DatedTable] <= w.index + (DayEnd[LastDay] - DayEnd[w.day])

(* skipDays() stops on a day of the calendar, wherever the chunk begins.   *)
LEMMA SkipDaysReaches ==
  ASSUME DatedTable # NoTable, NEW first \in Nat \ {0},
         first <= RowsIn[DatedTable]
  PROVE  Reaches(SkipDays(first))
<1> DEFINE n == RowsIn[DatedTable]
           late == {e \in 0 .. LastDay : DayEnd[e] >= first}
           d == Least(late)
<1>1. n \in Nat
  BY TablesAssumption DEF Roots, NoTable, Tables
<1>2. /\ LastDay \in Nat /\ DayEnd \in [0 .. LastDay -> Nat]
      /\ DayRows \in [0 .. LastDay -> Nat]
      /\ \A e \in 0 .. LastDay : n + DayRows[e] <= DayEnd[LastDay]
  BY CalendarAssumption
<1>3. n <= DayEnd[LastDay]
  BY <1>1, <1>2
<1>4. late \in SUBSET Nat /\ LastDay \in late
  BY <1>1, <1>2, <1>3
<1>5. d \in late /\ \A e \in late : d <= e
  BY <1>4, LeastIsLeast
<1>6. CASE first = 1
  <2>1. SkipDays(first) = [day |-> 0, index |-> DayEnd[0]]  BY <1>6 DEF SkipDays
  <2> QED BY <1>1, <1>2, <1>3, <2>1 DEF Reaches
<1> HIDE DEF d
<1>7. CASE first # 1 /\ DayEnd[d] > first
  <2>1. SkipDays(first) = [day |-> d, index |-> DayEnd[d]]
    BY <1>7 DEF SkipDays, d
  <2> QED BY <1>1, <1>2, <1>3, <1>5, <2>1 DEF Reaches
<1>8. CASE first # 1 /\ ~(DayEnd[d] > first)
  <2>1. SkipDays(first) = [day |-> d + 1, index |-> DayEnd[d]]
    BY <1>8 DEF SkipDays, d
  <2>2. DayEnd[d] = first /\ d \in 0 .. LastDay
    BY <1>2, <1>5, <1>8
  <2>3. d # LastDay
    <3>1. SUFFICES ASSUME d = LastDay PROVE FALSE  OBVIOUS
    <3>2. DayRows[LastDay] = 0
      BY <1>1, <1>2, <2>2, <3>1
    <3>3. LastDay # 0
      BY <1>8, <2>2, <3>1, <3>2, CalendarAssumption
    <3>4. DayEnd[LastDay - 1] = DayEnd[LastDay] /\ LastDay - 1 \in 0 .. LastDay
      BY <1>2, <3>2, <3>3, CalendarAssumption
    <3>5. LastDay - 1 \in late
      BY <2>2, <3>1, <3>4
    <3> QED BY <1>2, <1>5, <3>1, <3>5
  <2>4. d + 1 \in 1 .. LastDay
    BY <1>2, <2>2, <2>3
  <2>5. DayEnd[d + 1] = DayEnd[d] + DayRows[d + 1]
    <3>1. DayEnd[d + 1] = DayEnd[(d + 1) - 1] + DayRows[d + 1]
      BY <2>4, CalendarAssumption
    <3> QED BY <2>2, <3>1, <1>2
  <2>6. n + DayRows[d + 1] <= DayEnd[LastDay]
    BY <1>2, <2>4
  <2>7. DayEnd[d + 1] \in Nat /\ DayEnd[d] \in Nat /\ DayEnd[LastDay] \in Nat /\ DayRows[d + 1] \in Nat
    BY <1>2, <2>2, <2>4
  <2>8. n <= DayEnd[d] + (DayEnd[LastDay] - DayEnd[d + 1])
    BY <1>1, <2>5, <2>6, <2>7
  <2> QED BY <1>2, <2>1, <2>4, <2>7, <2>8 DEF Reaches
<1> QED BY <1>6, <1>7, <1>8

(* The loop of mk_master() stops on a day of the calendar.                 *)
LEMMA WalkToReaches ==
  ASSUME DatedTable # NoTable, NEW w, Reaches(w),
         NEW i \in 1 .. RowsIn[DatedTable]
  PROVE  Reaches(WalkTo(w, i))
<1> DEFINE n == RowsIn[DatedTable]
           days == {e \in w.day .. LastDay :
                      i <= w.index + (DayEnd[e] - DayEnd[w.day])}
           d == Least(days)
<1>1. n \in Nat
  BY TablesAssumption DEF Roots, NoTable, Tables
<1>2. LastDay \in Nat /\ DayEnd \in [0 .. LastDay -> Nat]
  BY CalendarAssumption
<1>3. /\ w.day \in 0 .. LastDay /\ w.index \in Nat
      /\ n <= w.index + (DayEnd[LastDay] - DayEnd[w.day])
  BY DEF Reaches
<1>4. DayEnd[w.day] \in Nat /\ DayEnd[LastDay] \in Nat
  BY <1>2, <1>3
<1>5. days \in SUBSET Nat /\ LastDay \in days
  BY <1>1, <1>2, <1>3, <1>4
<1>6. d \in days
  BY <1>5, LeastIsLeast
<1>7. WalkTo(w, i) = [day |-> d, index |-> w.index + (DayEnd[d] - DayEnd[w.day])]
  BY DEF WalkTo
<1> HIDE DEF d
<1>8. d \in 0 .. LastDay /\ i <= w.index + (DayEnd[d] - DayEnd[w.day])
  BY <1>2, <1>3, <1>6
<1>9. DayEnd[d] \in Nat
  BY <1>2, <1>8
<1>10. w.index + (DayEnd[d] - DayEnd[w.day]) \in Nat
  BY <1>3, <1>4, <1>8, <1>9
<1>11. n <= (w.index + (DayEnd[d] - DayEnd[w.day])) + (DayEnd[LastDay] - DayEnd[d])
  BY <1>1, <1>3, <1>4, <1>9
<1> QED BY <1>7, <1>8, <1>10, <1>11 DEF Reaches

-----------------------------------------------------------------------------
(* A table and the tables its builder writes are tables.                   *)
LEMMA FamilyOfRoot ==
  ASSUME NEW t \in Roots
  PROVE  t \in Tables /\ t \in Family(t) /\ Family(t) \subseteq Tables
<1>1. t \in Tables /\ t # NoTable
  BY TablesAssumption DEF Roots, Tables, NoTable
<1>2. ChildTable(t) \in Tables \union {NoTable}
  BY <1>1, TablesAssumption DEF ChildTable
<1>3. ChildTable(ChildTable(t)) \in Tables \union {NoTable}
  BY TablesAssumption DEF ChildTable
<1> QED BY <1>1, <1>2, <1>3 DEF Family

(* The processes, whatever PARALLEL is.                                    *)
LEMMA ProcsAreNumbers ==
  ASSUME parallel \in ParallelArgs, NEW c \in Procs
  PROVE  parallel \in Nat /\ c \in Children(parallel) /\ c \in Nat \ {0}
<1>1. parallel \in Nat  BY TablesAssumption
<1> QED BY <1>1 DEF Procs, Children, Unset

(* The chunk of a process in a table, as split_work() returns it.          *)
LEMMA ChunkOfProcess ==
  ASSUME parallel \in ParallelArgs, NEW c \in Procs, NEW t \in Roots
  PROVE  /\ RowsIn[t] \in Nat
         /\ First(t, c) \in Nat \ {0}
         /\ Count(t, c) \in Nat
         /\ Count(t, c) > 0 => First(t, c) + Count(t, c) <= RowsIn[t] + 1
<1> DEFINE n == RowsIn[t]
<1>1. n \in Nat
  BY FamilyOfRoot, TablesAssumption
<1>2. parallel \in Nat /\ c \in Children(parallel)
  BY ProcsAreNumbers
<1>3. FirstRow(n, parallel, c) \in Nat \ {0} /\ RowCount(n, parallel, c) \in Nat
  BY <1>1, <1>2, ChunkType
<1>4. Chunk(n, parallel, c) \subseteq 1 .. n
  BY <1>1, <1>2, ChunksWithin
<1>5. ASSUME RowCount(n, parallel, c) > 0
      PROVE  FirstRow(n, parallel, c) + RowCount(n, parallel, c) <= n + 1
  <2>1. FirstRow(n, parallel, c) + RowCount(n, parallel, c) - 1 \in Chunk(n, parallel, c)
    BY <1>3, <1>5 DEF Chunk
  <2> QED BY <1>1, <1>3, <1>4, <2>1
<1> QED BY <1>1, <1>3, <1>5 DEF First, Count

-----------------------------------------------------------------------------
(* Between main()'s loop head and the end of gen_tbl() a process is in its *)
(* chunk of the table it builds.                                           *)
InChunk ==
  \A c \in Procs : pc[c] # "table" =>
    /\ tab[c] \in Roots
    /\ tabid \in {NoTable, tab[c]}
    /\ First(tab[c], c) <= row[c]
    /\ row[c] + left[c] = First(tab[c], c) + Count(tab[c], c)
    /\ pc[c] = "stop" => left[c] > 0

(* A walk that has begun can still find the day of every row.              *)
WalksReach ==
  \A c \in Procs : walk[c] = NotStarted \/ (DatedTable # NoTable /\ Reaches(walk[c]))

Inv == TypeOK /\ InChunk /\ WalksReach

(* The row a builder is called for is a row of its chunk.                  *)
LEMMA RowInTable ==
  ASSUME Inv, NEW c \in Procs, pc[c] # "table", left[c] > 0
  PROVE  /\ row[c] \in 1 .. RowsIn[tab[c]]
         /\ row[c] \in Chunk(RowsIn[tab[c]], parallel, c)
<1> DEFINE t == tab[c]
<1>1. /\ t \in Roots /\ First(t, c) <= row[c]
      /\ row[c] + left[c] = First(t, c) + Count(t, c)
  BY DEF Inv, InChunk
<1>2. parallel \in ParallelArgs /\ row[c] \in Nat /\ left[c] \in Nat
  BY DEF Inv, TypeOK
<1>3. /\ First(t, c) \in Nat \ {0} /\ Count(t, c) \in Nat /\ RowsIn[t] \in Nat
      /\ Count(t, c) > 0 => First(t, c) + Count(t, c) <= RowsIn[t] + 1
  BY <1>1, <1>2, ChunkOfProcess
<1>4. row[c] \in First(t, c) .. First(t, c) + Count(t, c) - 1
  BY <1>1, <1>2, <1>3
<1> QED BY <1>3, <1>4 DEF Chunk, First, Count

(* mk_master() finds the day of the row.                                   *)
WalkAt(c) == WalkTo(IF walk[c] = NotStarted THEN SkipDays(First(tab[c], c))
                                            ELSE walk[c], row[c])

LEMMA WalkAtReaches ==
  ASSUME Inv, NEW c \in Procs, pc[c] = "row", left[c] > 0, tab[c] = DatedTable
  PROVE  DatedTable # NoTable /\ Reaches(WalkAt(c))
<1>1. /\ DatedTable \in Roots /\ First(DatedTable, c) <= row[c]
  BY DEF Inv, InChunk
<1>2. DatedTable # NoTable
  BY <1>1 DEF Roots, Tables, NoTable
<1>3. row[c] \in 1 .. RowsIn[DatedTable]
  BY RowInTable
<1>4. First(DatedTable, c) \in Nat \ {0} /\ RowsIn[DatedTable] \in Nat
  BY <1>1, ChunkOfProcess DEF Inv, TypeOK
<1>5. First(DatedTable, c) <= RowsIn[DatedTable]
  BY <1>1, <1>3, <1>4
<1>6. Reaches(SkipDays(First(DatedTable, c)))
  BY <1>2, <1>4, <1>5, SkipDaysReaches
<1>7. walk[c] # NotStarted => Reaches(walk[c])
  BY DEF Inv, WalksReach
<1> QED BY <1>2, <1>3, <1>6, <1>7, WalkToReaches DEF WalkAt

LEMMA InitInv == Init => Inv
<1> SUFFICES ASSUME Init PROVE Inv  OBVIOUS
<1>1. NotStarted \in Walks  BY DEF Walks
<1>2. 1 \in 1 .. NTables + 1  BY TablesAssumption
<1>3. TypeOK  BY <1>1, <1>2 DEF Init, TypeOK
<1> QED BY <1>3 DEF Init, Inv, InChunk, WalksReach

LEMMA PassOverInv ==
  ASSUME Inv, NEW c \in Procs, PassOver(c)
  PROVE  Inv'
<1>1. Procs' = Procs  BY DEF PassOver, args, Procs
<1>2. tab' \in [Procs -> 1 .. NTables + 1]
  BY TablesAssumption DEF Inv, TypeOK, PassOver, Tables
<1>3. TypeOK'
  BY <1>1, <1>2 DEF Inv, TypeOK, PassOver, args
<1>4. InChunk'
  BY <1>1 DEF Inv, InChunk, TypeOK, PassOver, args, First, Count
<1>5. WalksReach'
  BY <1>1 DEF Inv, WalksReach, PassOver
<1> QED BY <1>3, <1>4, <1>5 DEF Inv

LEMMA EndTableInv ==
  ASSUME Inv, NEW c \in Procs, EndTable(c)
  PROVE  Inv'
<1>1. Procs' = Procs  BY DEF EndTable, args, Procs
<1>2. tab[c] \in 1 .. NTables
  BY DEF Inv, InChunk, EndTable, Moves, Roots, Tables
<1>3. tab' \in [Procs -> 1 .. NTables + 1]
  BY <1>2, TablesAssumption DEF Inv, TypeOK, EndTable
<1>4. TypeOK'
  BY <1>1, <1>3 DEF Inv, TypeOK, EndTable, Moves, args
<1>5. InChunk'
  BY <1>1 DEF Inv, InChunk, TypeOK, EndTable, Moves, args, First, Count
<1>6. WalksReach'
  BY <1>1 DEF Inv, WalksReach, EndTable
<1> QED BY <1>4, <1>5, <1>6 DEF Inv

LEMMA StartTableInv ==
  ASSUME Inv, NEW c \in Procs, StartTable(c)
  PROVE  Inv'
<1> DEFINE t == tab[c]
           f == First(t, c)
           k == Count(t, c)
           skip == IF f = 1 THEN {} ELSE SkippedFor(t)
<1>1. Procs' = Procs  BY DEF StartTable, args, Procs
<1>2. t \in Roots /\ pc' = [pc EXCEPT ![c] = "row"]
  BY DEF StartTable, Moves
<1>3. f \in Nat \ {0} /\ k \in Nat
  BY <1>2, ChunkOfProcess DEF Inv, TypeOK
<1>4. /\ drawn' = [drawn EXCEPT ![c] = [s \in Streams |-> IF s \in skip THEN (f - 1) * PerRow[s] ELSE @[s]]]
      /\ used' = [used EXCEPT ![c] = [s \in Streams |-> IF s \in skip THEN 0 ELSE @[s]]]
      /\ row' = [row EXCEPT ![c] = f] /\ left' = [left EXCEPT ![c] = k]
  BY DEF StartTable
<1> HIDE DEF skip, f, k
<1>5. \A s \in Streams : (f - 1) * PerRow[s] \in Nat
  BY <1>3, StreamsAssumption
<1>6. drawn' \in [Procs -> [Streams -> Nat]] /\ used' \in [Procs -> [Streams -> Nat]]
  BY <1>4, <1>5 DEF Inv, TypeOK
<1>7. TypeOK'
  BY <1>1, <1>2, <1>3, <1>4, <1>6 DEF Inv, TypeOK, StartTable, args
<1>8. InChunk'
  BY <1>1, <1>2, <1>3, <1>4 DEF Inv, InChunk, TypeOK, StartTable, args, First, Count, f, k
<1>9. WalksReach'
  BY <1>1 DEF Inv, WalksReach, StartTable
<1> QED BY <1>7, <1>8, <1>9 DEF Inv

LEMMA RowStopInv ==
  ASSUME Inv, NEW c \in Procs, RowStop(c)
  PROVE  Inv'
<1>1. Procs' = Procs  BY DEF RowStop, args, Procs
<1>2. pc[c] = "stop" /\ left[c] > 0 /\ left[c] \in Nat /\ row[c] \in Nat
  BY DEF RowStop, Moves, Inv, InChunk, TypeOK
<1> DEFINE S == Stopped(tab[c])
           D == [s \in Streams |-> IF s \in S /\ used[c][s] < PerRow[s]
                                   THEN drawn[c][s] + (PerRow[s] - used[c][s])
                                   ELSE drawn[c][s]]
           U == [s \in Streams |-> IF s \in S THEN 0 ELSE used[c][s]]
<1>3. drawn' = [drawn EXCEPT ![c] = D] /\ used' = [used EXCEPT ![c] = U]
  BY DEF RowStop, Inv, TypeOK
<1>4. D \in [Streams -> Nat] /\ U \in [Streams -> Nat]
  <2> HIDE DEF S
  <2>1. drawn[c] \in [Streams -> Nat] /\ used[c] \in [Streams -> Nat]
    BY DEF Inv, TypeOK
  <2> QED BY <2>1, StreamsAssumption
<1> HIDE DEF D, U
<1>5. drawn' \in [Procs -> [Streams -> Nat]] /\ used' \in [Procs -> [Streams -> Nat]]
  BY <1>3, <1>4 DEF Inv, TypeOK
<1>6. TypeOK'
  BY <1>1, <1>2, <1>5 DEF Inv, TypeOK, RowStop, Moves, args
<1>7. InChunk'
  <2>1. /\ row' = [row EXCEPT ![c] = row[c] + 1] /\ left' = [left EXCEPT ![c] = left[c] - 1]
        /\ pc' = [pc EXCEPT ![c] = "row"] /\ tab' = tab /\ tabid' = tabid /\ parallel' = parallel
    BY DEF RowStop, Moves, args, Inv, TypeOK
  <2>2. \A t, e : First(t, e)' = First(t, e) /\ Count(t, e)' = Count(t, e)
    BY <2>1 DEF First, Count
  <2>3. /\ tab[c] \in Roots /\ tabid \in {NoTable, tab[c]} /\ First(tab[c], c) <= row[c]
        /\ row[c] + left[c] = First(tab[c], c) + Count(tab[c], c)
    BY <1>2 DEF Inv, InChunk
  <2>4. First(tab[c], c) \in Nat /\ Count(tab[c], c) \in Nat
    BY <2>3, ChunkOfProcess DEF Inv, TypeOK
  <2>5. row \in [Procs -> Nat] /\ left \in [Procs -> Nat] /\ pc \in [Procs -> {"table", "row", "stop"}]
    BY DEF Inv, TypeOK
  <2>6. InChunk  BY DEF Inv
  <2>7. ASSUME NEW e \in Procs, e # c, pc'[e] # "table"
        PROVE  /\ tab'[e] \in Roots
               /\ tabid' \in {NoTable, tab'[e]}
               /\ First(tab[e], e) <= row'[e]
               /\ row'[e] + left'[e] = First(tab[e], e) + Count(tab[e], e)
               /\ pc'[e] = "stop" => left'[e] > 0
    BY <2>1, <2>5, <2>6, <2>7 DEF InChunk
  <2>8. /\ tab'[c] \in Roots
        /\ tabid' \in {NoTable, tab'[c]}
        /\ First(tab[c], c) <= row'[c]
        /\ row'[c] + left'[c] = First(tab[c], c) + Count(tab[c], c)
        /\ pc'[c] = "stop" => left'[c] > 0
    BY <1>2, <2>1, <2>3, <2>4, <2>5
  <2> QED BY <1>1, <2>1, <2>2, <2>7, <2>8 DEF InChunk
<1>8. WalksReach'
  BY <1>1 DEF Inv, WalksReach, RowStop
<1> QED BY <1>6, <1>7, <1>8 DEF Inv

(* What the builder of a table writes is a row of its type.                *)
Written(c) ==
  [tbl |-> tab[c], row |-> row[c],
   day |-> IF tab[c] = DatedTable THEN WalkAt(c).day ELSE 0,
   at  |-> [s \in StreamsOf(Family(tab[c])) |-> drawn[c][s]]]

LEMMA BuildRowDoes ==
  ASSUME Inv, NEW c \in Procs, BuildRow(c)
  PROVE  /\ pc[c] = "row" /\ pc' = [pc EXCEPT ![c] = "stop"]
         /\ left[c] > 0
         /\ tab[c] \in Roots
         /\ walk' = [walk EXCEPT ![c] = IF tab[c] = DatedTable THEN WalkAt(c) ELSE walk[c]]
         /\ out' = [out EXCEPT ![c] = out[c] \union {Written(c)}]
         /\ \E d \in Draws[tab[c]] :
              /\ drawn' = [drawn EXCEPT ![c] = [s \in Streams |-> drawn[c][s] + d[s]]]
              /\ used' = [used EXCEPT ![c] = [s \in Streams |-> used[c][s] + d[s]]]
         /\ UNCHANGED <<parallel, tabid, tab, row, left>>
         /\ Procs' = Procs
<1>1. pc[c] = "row" /\ pc' = [pc EXCEPT ![c] = "stop"] /\ left[c] > 0
  BY DEF BuildRow, Moves
<1>2. tab[c] \in Roots
  BY <1>1 DEF Inv, InChunk
<1>3. UNCHANGED <<parallel, tabid, tab, row, left>> /\ Procs' = Procs
  BY DEF BuildRow, args, Procs
<1>4. walk' = [walk EXCEPT ![c] = IF tab[c] = DatedTable THEN WalkAt(c) ELSE walk[c]]
  BY DEF BuildRow, WalkAt
<1>5. out' = [out EXCEPT ![c] = out[c] \union {Written(c)}]
  BY DEF BuildRow, WalkAt, Written
<1>6. \E d \in Draws[tab[c]] :
        /\ drawn' = [drawn EXCEPT ![c] = [s \in Streams |-> drawn[c][s] + d[s]]]
        /\ used' = [used EXCEPT ![c] = [s \in Streams |-> used[c][s] + d[s]]]
  BY DEF BuildRow
<1> QED BY <1>1, <1>2, <1>3, <1>4, <1>5, <1>6

LEMMA BuildRowInv ==
  ASSUME Inv, NEW c \in Procs, BuildRow(c)
  PROVE  Inv'
<1>1. /\ pc[c] = "row" /\ pc' = [pc EXCEPT ![c] = "stop"]
      /\ left[c] > 0 /\ tab[c] \in Roots /\ Procs' = Procs
      /\ UNCHANGED <<parallel, tabid, tab, row, left>>
  BY BuildRowDoes
<1>2. tab[c] = DatedTable => DatedTable # NoTable /\ Reaches(WalkAt(c))
  BY <1>1, WalkAtReaches
<1>3. walk' = [walk EXCEPT ![c] = IF tab[c] = DatedTable THEN WalkAt(c) ELSE walk[c]]
  BY BuildRowDoes
<1>4. out' = [out EXCEPT ![c] = out[c] \union {Written(c)}]
  BY BuildRowDoes
<1>5. tab[c] = DatedTable => WalkAt(c) \in Walks /\ WalkAt(c).day \in Nat
  BY <1>2 DEF Reaches, Walks
<1>6. Written(c).tbl \in Roots /\ Written(c) \in RowType(Written(c).tbl)
  <2>1. row[c] \in Nat /\ drawn[c] \in [Streams -> Nat]
    BY DEF Inv, TypeOK
  <2>2. Written(c).tbl = tab[c]  BY DEF Written
  <2>3. [s \in StreamsOf(Family(tab[c])) |-> drawn[c][s]]
          \in [StreamsOf(Family(tab[c])) -> Nat]
    BY <2>1 DEF StreamsOf
  <2> QED BY <1>1, <1>5, <2>1, <2>2, <2>3 DEF Written, RowType
<1>7. drawn' \in [Procs -> [Streams -> Nat]] /\ used' \in [Procs -> [Streams -> Nat]]
  <2>1. PICK d \in Draws[tab[c]] :
          /\ drawn' = [drawn EXCEPT ![c] = [s \in Streams |-> drawn[c][s] + d[s]]]
          /\ used' = [used EXCEPT ![c] = [s \in Streams |-> used[c][s] + d[s]]]
    BY BuildRowDoes
  <2>2. d \in [Streams -> Nat]
    BY <1>1, StreamsAssumption
  <2>3. drawn \in [Procs -> [Streams -> Nat]] /\ used \in [Procs -> [Streams -> Nat]]
    BY DEF Inv, TypeOK
  <2> QED BY <2>1, <2>2, <2>3
<1>8. DOMAIN out' = Procs /\ \A e \in Procs : \A o \in out'[e] : o.tbl \in Roots /\ o \in RowType(o.tbl)
  <2> HIDE DEF Written
  <2>1. DOMAIN out = Procs /\ \A e \in Procs : \A o \in out[e] : o.tbl \in Roots /\ o \in RowType(o.tbl)
    BY DEF Inv, TypeOK
  <2> QED BY <1>4, <1>6, <2>1
<1>9. walk' \in [Procs -> Walks] /\ pc' \in [Procs -> {"table", "row", "stop"}]
  BY <1>1, <1>3, <1>5 DEF Inv, TypeOK
<1>10. TypeOK'
  BY <1>1, <1>7, <1>8, <1>9 DEF Inv, TypeOK
<1>11. InChunk'
  BY <1>1 DEF Inv, TypeOK, InChunk, First, Count
<1>12. WalksReach'
  BY <1>1, <1>2, <1>3 DEF Inv, WalksReach, TypeOK
<1> QED BY <1>10, <1>11, <1>12 DEF Inv

LEMMA StutterInv ==
  ASSUME Inv, UNCHANGED vars
  PROVE  Inv'
BY DEF Inv, TypeOK, InChunk, WalksReach, vars, args, Procs, First, Count

LEMMA NextInv ==
  ASSUME Inv, [Next]_vars
  PROVE  Inv'
<1>1. ASSUME NEW c \in Procs, Step(c) PROVE Inv'
  BY <1>1, PassOverInv, StartTableInv, BuildRowInv, RowStopInv, EndTableInv DEF Step
<1> QED BY <1>1, StutterInv DEF Next

LEMMA SpecInv == Spec => []Inv
<1>1. Init => Inv  BY InitInv
<1>2. Inv /\ [Next]_vars => Inv'  BY NextInv
<1> QED BY <1>1, <1>2, PTL DEF Spec

(* Every process stays within its types: it reaches no row beyond its      *)
(* chunk, and mk_master() never walks off the calendar.                    *)
THEOREM TypeCorrect == Spec => []TypeOK
<1>1. Inv => TypeOK  BY DEF Inv
<1> QED BY <1>1, SpecInv, PTL

-----------------------------------------------------------------------------
(* Every row written is of the chunk of its process.                       *)
WrittenInChunk ==
  \A c \in Procs : \A o \in out[c] :
    o.tbl \in Roots /\ o.row \in Chunk(RowsIn[o.tbl], parallel, c)

LEMMA WrittenInChunkStep ==
  ASSUME Inv, WrittenInChunk, [Next]_vars
  PROVE  WrittenInChunk'
<1>1. CASE UNCHANGED vars
  BY <1>1 DEF WrittenInChunk, vars, args, Procs
<1>2. ASSUME NEW c \in Procs, BuildRow(c) PROVE WrittenInChunk'
  <2>1. /\ pc[c] # "table" /\ left[c] > 0 /\ tab[c] \in Roots
        /\ out' = [out EXCEPT ![c] = out[c] \union {Written(c)}]
        /\ parallel' = parallel /\ Procs' = Procs
    BY <1>2, BuildRowDoes
  <2>2. row[c] \in Chunk(RowsIn[tab[c]], parallel, c)
    BY <2>1, RowInTable
  <2>3. Written(c).tbl = tab[c] /\ Written(c).row = row[c]
    BY DEF Written
  <2>4. DOMAIN out = Procs  BY DEF Inv, TypeOK
  <2> QED BY <2>1, <2>2, <2>3, <2>4 DEF WrittenInChunk
<1>3. ASSUME NEW c \in Procs,
             PassOver(c) \/ StartTable(c) \/ RowStop(c) \/ EndTable(c)
      PROVE  WrittenInChunk'
  BY <1>3 DEF WrittenInChunk, PassOver, StartTable, RowStop, EndTable, args, Procs
<1> QED BY <1>1, <1>2, <1>3 DEF Next, Step

LEMMA SpecWrittenInChunk == Spec => []WrittenInChunk
<1>1. Init => WrittenInChunk  BY DEF Init, WrittenInChunk
<1>2. Inv /\ WrittenInChunk /\ [Next]_vars => WrittenInChunk'
  BY WrittenInChunkStep
<1> QED BY <1>1, <1>2, SpecInv, PTL DEF Spec

(* Whatever the number of rows and of processes, no row number is built    *)
(* twice and none beyond the end of the table: the invariant behind it is  *)
(* that a process writes rows of its own chunk only, and split_work()'s    *)
(* chunks are disjoint and within the table.                               *)
THEOREM ChunksAlwaysFit == Spec => []ChunksFit
<1>1. Inv /\ WrittenInChunk => ChunksFit
  <2> SUFFICES ASSUME Inv, WrittenInChunk PROVE ChunksFit  OBVIOUS
  <2>1. parallel \in Nat /\ Procs = Children(parallel)
    BY TablesAssumption DEF Inv, TypeOK, Procs
  <2>2. \A t \in Roots : RowsIn[t] \in Nat
    BY FamilyOfRoot, TablesAssumption
  <2>3. ASSUME NEW c \in Procs, NEW o \in out[c]
        PROVE  o.row \in 1 .. RowsIn[o.tbl]
    BY <2>1, <2>2, ChunksWithin DEF WrittenInChunk
  <2>4. ASSUME NEW c \in Procs, NEW e \in Procs, NEW o \in out[c], NEW q \in out[e],
               o.tbl = q.tbl, o.row = q.row, c # e
        PROVE  FALSE
    <3>1. /\ o.tbl \in Roots /\ o.row \in Chunk(RowsIn[o.tbl], parallel, c)
          /\ o.row \in Chunk(RowsIn[o.tbl], parallel, e)
      BY <2>4 DEF WrittenInChunk
    <3>2. c \in Nat /\ e \in Nat
      BY <2>1, ProcsAreNumbers DEF Inv, TypeOK
    <3>3. c < e \/ e < c
      BY <2>4, <3>2
    <3> QED BY <2>1, <2>2, <3>1, <3>3, ChunksDisjoint
  <2> QED BY <2>3, <2>4 DEF ChunksFit
<1> QED BY <1>1, SpecInv, SpecWrittenInChunk, PTL

-----------------------------------------------------------------------------
(* A process other than the first that starts a table with row 1 has no    *)
(* row of it to build.                                                     *)
LEMMA OnlyFirstStartsAtOne ==
  ASSUME parallel \in ParallelArgs, NEW c \in Procs, NEW t \in Roots,
         First(t, c) = 1, Count(t, c) > 0
  PROVE  c = 1
<1> DEFINE n == RowsIn[t]
           q == RowsetSize(n, parallel)
           r == ExtraRows(n, parallel)
<1>1. n \in Nat
  BY FamilyOfRoot, TablesAssumption
<1>2. parallel \in Nat /\ c \in Children(parallel) /\ c \in Nat \ {0}
  BY ProcsAreNumbers
<1>3. SUFFICES ASSUME c > 1 PROVE FALSE
  BY <1>2
<1>4. parallel # Unset
  BY <1>2, <1>3 DEF Children
<1>5. IsSplit(n, parallel)
  BY <1>1, <1>2, <1>3, <1>4, SmallTableAssumption DEF IsSplit, Count, RowCount
<1>6. q \in Nat /\ r \in Nat
  <2>1. parallel \in Nat \ {0}  BY <1>2, <1>4 DEF Unset
  <2>2. q \in Nat  BY <1>1, <2>1, RowsetSizeAndExtraRows
  <2>3. r \in 0 .. parallel - 1  BY <1>1, <2>1, RowsetSizeAndExtraRows
  <2> QED BY <2>1, <2>2, <2>3
<1>7. (c - 1) * q \in Nat /\ (c - 1) * q >= q
  <2>1. (c - 1) * q = q + (c - 2) * q  BY <1>2, <1>6
  <2>2. (c - 2) * q \in Nat  BY <1>2, <1>3, <1>6
  <2> QED BY <1>6, <2>1, <2>2
<1>8. 1 = 1 + (c - 1) * q + (IF c - 1 < r THEN c - 1 ELSE r)
  BY <1>5 DEF First, FirstRow
<1>9. Count(t, c) = q + (IF c <= r THEN 1 ELSE 0)
  BY <1>5 DEF Count, RowCount
<1> HIDE DEF n, q, r
<1> QED BY <1>2, <1>3, <1>6, <1>7, <1>8, <1>9

(* Where the streams of the table being built stand; where those of the    *)
(* tables still to come stand in the first process, which never skips; and *)
(* what the rows written say.                                              *)
InStepOf(c) ==
  /\ pc[c] = "row" /\ left[c] > 0 =>
       \A s \in StreamsOf(Family(tab[c])) :
         drawn[c][s] = (row[c] - 1) * PerRow[s] /\ used[c][s] = 0
  /\ pc[c] = "stop" =>
       \A s \in StreamsOf(Family(tab[c])) :
         /\ drawn[c][s] = (row[c] - 1) * PerRow[s] + used[c][s]
         /\ used[c][s] <= PerRow[s]
  /\ c = 1 =>
       \A t \in Roots : (t > tab[c] \/ (t = tab[c] /\ pc[c] = "table")) =>
         \A s \in StreamsOf(Family(t)) : drawn[c][s] = 0 /\ used[c][s] = 0
  /\ \A o \in out[c] : o.at = SerialRow(o.tbl, o.row).at

InStep == \A c \in Procs : InStepOf(c)

LEMMA OtherProcesses ==
  ASSUME Inv, NEW c \in Procs, NEW e \in Procs, e # c, Step(c), InStepOf(e)
  PROVE  InStepOf(e)'
BY DEF Step, PassOver, StartTable, BuildRow, RowStop, EndTable, Moves, Inv, TypeOK, InStepOf

LEMMA InStepPassOver ==
  ASSUME Inv, NEW c \in Procs, PassOver(c) \/ EndTable(c), InStepOf(c)
  PROVE  InStepOf(c)'
<1>1. /\ tab'[c] = tab[c] + 1 /\ pc'[c] = "table"
      /\ UNCHANGED <<row, left, drawn, used, out>>
  BY DEF PassOver, EndTable, Moves, Inv, TypeOK
<1>2. tab[c] \in Nat /\ Roots \subseteq Nat
  BY TablesAssumption DEF Inv, TypeOK, Roots, Tables
<1>3. \A t \in Roots : (t > tab'[c] \/ t = tab'[c]) => t > tab[c]
  BY <1>1, <1>2
<1> QED BY <1>1, <1>3 DEF InStepOf

LEMMA InStepStartTable ==
  ASSUME TwoGenerations, Inv, NEW c \in Procs, StartTable(c), InStepOf(c)
  PROVE  InStepOf(c)'
<1> DEFINE t == tab[c]
           f == First(t, c)
           skip == IF f = 1 THEN {} ELSE SkippedFor(t)
<1>1. /\ t \in Roots /\ pc[c] = "table" /\ pc'[c] = "row"
      /\ row'[c] = f /\ left'[c] = Count(t, c)
      /\ tab' = tab /\ out' = out
  BY DEF StartTable, Moves, Inv, TypeOK
<1>2. \A s \in Streams :
        /\ drawn'[c][s] = IF s \in skip THEN (f - 1) * PerRow[s] ELSE drawn[c][s]
        /\ used'[c][s] = IF s \in skip THEN 0 ELSE used[c][s]
  BY DEF StartTable, Inv, TypeOK
<1>3. StreamsOf(Family(t)) \subseteq SkippedFor(t)
  <2>1. Family(t) \subseteq {t, ChildOf[t]} /\ (ChildOf[t] = NoTable => Family(t) \subseteq {t})
    BY <1>1, FamilyOfRoot DEF TwoGenerations, Family, ChildTable
  <2> QED BY <2>1 DEF SkippedFor, Skipped, StreamsOf
<1>4. \A s \in Streams : PerRow[s] \in Nat
  BY StreamsAssumption
<1>5. f \in Nat \ {0}
  BY <1>1, ChunkOfProcess DEF Inv, TypeOK
<1>6. CASE f = 1
  <2>1. skip = {}  BY <1>6
  <2>2. \A s \in Streams : drawn'[c][s] = drawn[c][s] /\ used'[c][s] = used[c][s]
    BY <1>2, <2>1
  <2>3. \A u \in Roots : StreamsOf(Family(u)) \subseteq Streams
    BY DEF StreamsOf
  <2>4. left'[c] > 0 => c = 1
    BY <1>1, <1>6, OnlyFirstStartsAtOne DEF Inv, TypeOK
  <2>5. \A s \in Streams : (1 - 1) * PerRow[s] = 0
    BY <1>4
  <2> HIDE DEF skip, f
  <2>6. left'[c] > 0 =>
          \A s \in StreamsOf(Family(t)) :
            drawn'[c][s] = (row'[c] - 1) * PerRow[s] /\ used'[c][s] = 0
    BY <1>1, <1>6, <2>2, <2>3, <2>4, <2>5 DEF InStepOf
  <2>7. c = 1 =>
          \A u \in Roots : u > tab'[c] =>
            \A s \in StreamsOf(Family(u)) : drawn'[c][s] = 0 /\ used'[c][s] = 0
    BY <1>1, <2>2, <2>3 DEF InStepOf
  <2>8. \A o \in out'[c] : o.at = SerialRow(o.tbl, o.row).at
    BY <1>1 DEF InStepOf
  <2> QED BY <1>1, <2>6, <2>7, <2>8 DEF InStepOf, SerialRow
<1>7. CASE f # 1
  <2>1. c # 1
    <3>1. RowsIn[t] \in Nat /\ parallel \in Nat
      BY <1>1, ChunkOfProcess, ProcsAreNumbers DEF Inv, TypeOK
    <3> QED BY <1>7, <3>1, FirstChunk DEF First
  <2>2. \A s \in StreamsOf(Family(t)) :
          drawn'[c][s] = (f - 1) * PerRow[s] /\ used'[c][s] = 0
    BY <1>2, <1>3, <1>7 DEF StreamsOf
  <2>3. \A o \in out'[c] : o.at = SerialRow(o.tbl, o.row).at
    BY <1>1 DEF InStepOf
  <2> HIDE DEF f
  <2> QED BY <1>1, <2>1, <2>2, <2>3 DEF InStepOf, SerialRow
<1> QED BY <1>6, <1>7

(* The streams of other tables do not move while a table is built.         *)
LEMMA OtherFamilies ==
  ASSUME NEW t \in Roots, NEW u \in Roots, t # u, NEW s \in StreamsOf(Family(u))
  PROVE  s \in Streams \ StreamsOf(Family(t))
<1>1. Family(t) \intersect Family(u) = {}
  BY TablesAssumption
<1> QED BY <1>1 DEF StreamsOf

LEMMA InStepBuildRow ==
  ASSUME Inv, NEW c \in Procs, BuildRow(c), InStepOf(c)
  PROVE  InStepOf(c)'
<1> DEFINE t == tab[c]
<1>1. /\ pc[c] = "row" /\ pc'[c] = "stop" /\ left[c] > 0 /\ t \in Roots
      /\ UNCHANGED <<tab, row>>
      /\ out'[c] = out[c] \union {Written(c)}
  BY BuildRowDoes DEF Inv, TypeOK
<1>2. PICK d \in Draws[t] :
        /\ drawn' = [drawn EXCEPT ![c] = [s \in Streams |-> drawn[c][s] + d[s]]]
        /\ used' = [used EXCEPT ![c] = [s \in Streams |-> used[c][s] + d[s]]]
  BY BuildRowDoes
<1>3. \A s \in Streams : drawn'[c][s] = drawn[c][s] + d[s] /\ used'[c][s] = used[c][s] + d[s]
  BY <1>2 DEF Inv, TypeOK
<1>4. /\ d \in [Streams -> Nat]
      /\ \A s \in Streams \ StreamsOf(Family(t)) : d[s] = 0
      /\ \A s \in Streams : d[s] <= PerRow[s] /\ PerRow[s] \in Nat
  BY <1>1, StreamsAssumption, NoSeedOverrun
<1>5. \A u \in Roots : StreamsOf(Family(u)) \subseteq Streams
  BY DEF StreamsOf
<1>6. \A s \in StreamsOf(Family(t)) :
        drawn[c][s] = (row[c] - 1) * PerRow[s] /\ used[c][s] = 0
  BY <1>1 DEF InStepOf
<1>7. \A s \in StreamsOf(Family(t)) :
        drawn'[c][s] = (row[c] - 1) * PerRow[s] + used'[c][s] /\ used'[c][s] <= PerRow[s]
  <2> SUFFICES ASSUME NEW s \in StreamsOf(Family(t))
               PROVE  drawn'[c][s] = (row[c] - 1) * PerRow[s] + used'[c][s] /\ used'[c][s] <= PerRow[s]
    OBVIOUS
  <2>1. s \in Streams /\ d[s] \in Nat  BY <1>1, <1>4, <1>5
  <2>2. used'[c][s] = d[s] /\ drawn'[c][s] = (row[c] - 1) * PerRow[s] + d[s]
    BY <1>3, <1>6, <2>1
  <2> QED BY <1>4, <2>1, <2>2
<1>8. c = 1 =>
        \A u \in Roots : u > tab'[c] =>
          \A s \in StreamsOf(Family(u)) : drawn'[c][s] = 0 /\ used'[c][s] = 0
  <2> SUFFICES ASSUME c = 1, NEW u \in Roots, u > t, NEW s \in StreamsOf(Family(u))
               PROVE  drawn'[c][s] = 0 /\ used'[c][s] = 0
    BY <1>1
  <2>1. u # t
    BY TablesAssumption DEF Inv, TypeOK
  <2>2. s \in Streams /\ d[s] = 0
    BY <1>1, <1>4, <2>1, OtherFamilies
  <2>3. drawn[c][s] = 0 /\ used[c][s] = 0
    BY DEF InStepOf
  <2> QED BY <1>3, <2>2, <2>3
<1>9. Written(c).at = SerialRow(Written(c).tbl, Written(c).row).at
  <2>1. Written(c).tbl = t /\ Written(c).row = row[c]
        /\ Written(c).at = [s \in StreamsOf(Family(t)) |-> drawn[c][s]]
    BY DEF Written
  <2>2. SerialRow(t, row[c]).at = [s \in StreamsOf(Family(t)) |-> (row[c] - 1) * PerRow[s]]
    BY DEF SerialRow
  <2> QED BY <1>6, <2>1, <2>2
<1>10. \A o \in out'[c] : o.at = SerialRow(o.tbl, o.row).at
  BY <1>1, <1>9 DEF InStepOf
<1> QED BY <1>1, <1>7, <1>8, <1>10 DEF InStepOf, SerialRow

LEMMA InStepRowStop ==
  ASSUME Inv, NEW c \in Procs, RowStop(c), InStepOf(c)
  PROVE  InStepOf(c)'
<1> DEFINE t == tab[c]
           S == StreamsOf(Family(t))
<1>1. /\ pc[c] = "stop" /\ pc'[c] = "row" /\ row'[c] = row[c] + 1
      /\ UNCHANGED <<tab, out>>
  BY DEF RowStop, Moves, Inv, TypeOK
<1>2. t \in Roots
  BY <1>1 DEF Inv, InChunk
<1>3. \A s \in Streams :
        /\ drawn'[c][s] = IF s \in S /\ used[c][s] < PerRow[s]
                          THEN drawn[c][s] + (PerRow[s] - used[c][s]) ELSE drawn[c][s]
        /\ used'[c][s] = IF s \in S THEN 0 ELSE used[c][s]
  BY DEF RowStop, Stopped, Inv, TypeOK
<1>4. S \subseteq Streams  BY DEF StreamsOf
<1>5. row[c] \in Nat /\ \A s \in Streams : PerRow[s] \in Nat /\ used[c][s] \in Nat /\ drawn[c][s] \in Nat
  BY StreamsAssumption DEF Inv, TypeOK
<1>6. \A s \in S : /\ drawn[c][s] = (row[c] - 1) * PerRow[s] + used[c][s]
                   /\ used[c][s] <= PerRow[s]
  BY <1>1 DEF InStepOf
<1> HIDE DEF S
<1>7. \A s \in S : drawn'[c][s] = (row'[c] - 1) * PerRow[s] /\ used'[c][s] = 0
  <2> SUFFICES ASSUME NEW s \in S
               PROVE  drawn'[c][s] = (row'[c] - 1) * PerRow[s] /\ used'[c][s] = 0
    OBVIOUS
  <2>1. s \in Streams  BY <1>4
  <2>2. drawn'[c][s] = (row[c] - 1) * PerRow[s] + PerRow[s]
    <3>1. (row[c] - 1) * PerRow[s] \in Int  BY <1>5, <2>1
    <3> QED BY <1>3, <1>5, <1>6, <2>1, <3>1
  <2>3. (row'[c] - 1) * PerRow[s] = (row[c] - 1) * PerRow[s] + PerRow[s]
    <3>1. PerRow[s] \in Nat /\ row[c] \in Nat  BY <1>5, <2>1
    <3>2. (row[c] - 1) * PerRow[s] + PerRow[s] = row[c] * PerRow[s]  BY <3>1
    <3>3. row'[c] - 1 = row[c]  BY <1>1, <3>1
    <3> QED BY <3>2, <3>3
  <2> QED BY <1>3, <2>1, <2>2, <2>3
<1>8. c = 1 =>
        \A u \in Roots : u > tab'[c] =>
          \A s \in StreamsOf(Family(u)) : drawn'[c][s] = 0 /\ used'[c][s] = 0
  <2> SUFFICES ASSUME c = 1, NEW u \in Roots, u > t, NEW s \in StreamsOf(Family(u))
               PROVE  drawn'[c][s] = 0 /\ used'[c][s] = 0
    BY <1>1
  <2>1. u # t
    BY TablesAssumption DEF Inv, TypeOK
  <2>2. s \in Streams /\ s \notin S
    BY <1>2, <2>1, OtherFamilies DEF S
  <2>3. drawn[c][s] = 0 /\ used[c][s] = 0
    BY DEF InStepOf
  <2> QED BY <1>3, <2>2, <2>3
<1>9. \A o \in out'[c] : o.at = SerialRow(o.tbl, o.row).at
  BY <1>1 DEF InStepOf
<1> QED BY <1>1, <1>7, <1>8, <1>9 DEF InStepOf, SerialRow, S

LEMMA InStepNext ==
  ASSUME TwoGenerations, Inv, InStep, [Next]_vars
  PROVE  InStep'
<1>1. CASE UNCHANGED vars
  BY <1>1 DEF InStep, InStepOf, SerialRow, vars, args, Procs
<1>2. ASSUME NEW c \in Procs, Step(c) PROVE InStep'
  <2>1. Procs' = Procs
    BY <1>2 DEF Step, PassOver, StartTable, BuildRow, RowStop, EndTable, args, Procs
  <2>2. InStepOf(c)  BY DEF InStep
  <2>3. InStepOf(c)'
    BY <1>2, <2>2, InStepPassOver, InStepStartTable, InStepBuildRow, InStepRowStop DEF Step
  <2>4. \A e \in Procs : e # c => InStepOf(e)'
    BY <1>2, OtherProcesses DEF InStep
  <2> QED BY <2>1, <2>3, <2>4 DEF InStep
<1> QED BY <1>1, <1>2 DEF Next

LEMMA InStepInit == Init => InStep
BY DEF Init, InStep, InStepOf, StreamsOf

LEMMA SpecInStep ==
  ASSUME TwoGenerations
  PROVE  Spec => []InStep
<1>1. Init => InStep  BY InStepInit
<1>2. Inv /\ InStep /\ [Next]_vars => InStep'  BY InStepNext
<1> QED BY <1>1, <1>2, SpecInv, PTL DEF Spec

(* Every row of a parallel build is made from the random numbers the same  *)
(* row of a serial build is made from, for any number of processes, sizes  *)
(* of tables and allowances, as long as no builder writes three            *)
(* generations of tables and no row takes more than its allowance.         *)
THEOREM StreamsAlwaysInStep ==
  ASSUME TwoGenerations
  PROVE  Spec => []StreamsInStep
<1>1. InStep => StreamsInStep  BY DEF InStep, InStepOf, StreamsInStep
<1> QED BY <1>1, SpecInStep, PTL

-----------------------------------------------------------------------------
(* A walk that stands where it would in a serial build: on a day with all  *)
(* its rows, the days before it at an end.                                 *)
OnTheDay(w, i) ==
  /\ w.day \in 0 .. LastDay
  /\ w.index = DayEnd[w.day]
  /\ \A e \in 0 .. LastDay : e < w.day => DayEnd[e] < i

LEMMA SkipDaysOnTheDay ==
  ASSUME DatedTable # NoTable, NEW first \in Nat \ {0}, first <= RowsIn[DatedTable],
         first # 1 => \A d \in 0 .. LastDay : DayEnd[d] # first
  PROVE  OnTheDay(SkipDays(first), first)
<1> DEFINE late == {e \in 0 .. LastDay : DayEnd[e] >= first}
           d == Least(late)
<1>1. /\ LastDay \in Nat /\ DayEnd \in [0 .. LastDay -> Nat]
      /\ DayRows \in [0 .. LastDay -> Nat]
      /\ RowsIn[DatedTable] + DayRows[LastDay] <= DayEnd[LastDay]
  BY CalendarAssumption
<1>2. RowsIn[DatedTable] \in Nat
  BY TablesAssumption DEF Roots, NoTable, Tables
<1>3. late \in SUBSET Nat /\ LastDay \in late
  BY <1>1, <1>2
<1>4. d \in late /\ \A e \in late : d <= e
  BY <1>3, LeastIsLeast
<1> HIDE DEF d
<1>5. CASE first = 1
  <2>1. SkipDays(first) = [day |-> 0, index |-> DayEnd[0]]  BY <1>5 DEF SkipDays
  <2> QED BY <1>1, <2>1 DEF OnTheDay
<1>6. CASE first # 1
  <2>1. DayEnd[d] > first
    BY <1>1, <1>4, <1>6
  <2>2. SkipDays(first) = [day |-> d, index |-> DayEnd[d]]
    BY <1>6, <2>1 DEF SkipDays, d
  <2>3. \A e \in 0 .. LastDay : e < d => DayEnd[e] < first
    BY <1>1, <1>4
  <2> QED BY <1>4, <2>2, <2>3 DEF OnTheDay
<1> QED BY <1>5, <1>6

LEMMA WalkToOnTheDay ==
  ASSUME DatedTable # NoTable, NEW w, NEW i \in 1 .. RowsIn[DatedTable],
         OnTheDay(w, i)
  PROVE  OnTheDay(WalkTo(w, i), i) /\ WalkTo(w, i).day = SerialDay(i)
<1> DEFINE days == {e \in w.day .. LastDay : i <= w.index + (DayEnd[e] - DayEnd[w.day])}
           late == {e \in 0 .. LastDay : i <= DayEnd[e]}
           d == Least(late)
<1>1. /\ LastDay \in Nat /\ DayEnd \in [0 .. LastDay -> Nat]
      /\ DayRows \in [0 .. LastDay -> Nat]
      /\ RowsIn[DatedTable] + DayRows[LastDay] <= DayEnd[LastDay]
  BY CalendarAssumption
<1>2. RowsIn[DatedTable] \in Nat
  BY TablesAssumption DEF Roots, NoTable, Tables
<1>3. w.day \in 0 .. LastDay /\ w.index = DayEnd[w.day] /\ DayEnd[w.day] \in Nat
  BY <1>1 DEF OnTheDay
<1>4. \A e \in 0 .. LastDay : DayEnd[e] \in Nat /\ w.index + (DayEnd[e] - DayEnd[w.day]) = DayEnd[e]
  BY <1>1, <1>3
<1>5. \A e \in late : e >= w.day
  <2> SUFFICES ASSUME NEW e \in late, ~(e >= w.day) PROVE FALSE
    OBVIOUS
  <2>1. e \in 0 .. LastDay /\ i <= DayEnd[e] /\ e < w.day
    BY <1>1, <1>3
  <2>2. DayEnd[e] < i
    BY <2>1 DEF OnTheDay
  <2> QED BY <1>2, <1>4, <2>1, <2>2
<1>6. days = late
  BY <1>1, <1>3, <1>4, <1>5
<1>7. late \in SUBSET Nat /\ LastDay \in late
  BY <1>1, <1>2
<1>8. d \in late /\ \A e \in late : d <= e
  BY <1>7, LeastIsLeast
<1>9. WalkTo(w, i) = [day |-> d, index |-> w.index + (DayEnd[d] - DayEnd[w.day])]
  BY <1>6 DEF WalkTo
<1>10. SerialDay(i) = d
  BY DEF SerialDay
<1> HIDE DEF d
<1>11. d \in 0 .. LastDay /\ w.index + (DayEnd[d] - DayEnd[w.day]) = DayEnd[d]
  BY <1>4, <1>8
<1>12. \A e \in 0 .. LastDay : e < d => DayEnd[e] < i
  BY <1>1, <1>4, <1>8
<1> QED BY <1>9, <1>10, <1>11, <1>12 DEF OnTheDay

(* Where mk_master() stands in the calendar, and what the rows say.        *)
OnTheDayOf(c) ==
  /\ walk[c] # NotStarted =>
       \/ tab[c] > DatedTable
       \/ tab[c] = DatedTable /\ pc[c] # "table" /\ OnTheDay(walk[c], row[c])
  /\ \A o \in out[c] : o.day = SerialRow(o.tbl, o.row).day

DatesOnTheDay == \A c \in Procs : OnTheDayOf(c)

(* The walk of the row to be built ends where that of a serial build does. *)
LEMMA WalkAtOnTheDay ==
  ASSUME NoDayEndsAtAChunk, Inv, NEW c \in Procs, pc[c] = "row", left[c] > 0,
         tab[c] = DatedTable, OnTheDayOf(c)
  PROVE  OnTheDay(WalkAt(c), row[c]) /\ WalkAt(c).day = SerialDay(row[c])
<1>1. DatedTable \in Roots /\ First(DatedTable, c) <= row[c] /\ row[c] \in Nat
  BY DEF Inv, InChunk, TypeOK
<1>2. DatedTable # NoTable /\ DatedTable \in Nat
  BY <1>1, TablesAssumption DEF Roots, Tables, NoTable
<1>3. row[c] \in 1 .. RowsIn[DatedTable]
  BY RowInTable
<1>4. First(DatedTable, c) \in Nat \ {0} /\ RowsIn[DatedTable] \in Nat
  BY <1>1, ChunkOfProcess DEF Inv, TypeOK
<1>5. First(DatedTable, c) <= RowsIn[DatedTable]
  BY <1>1, <1>3, <1>4
<1>6. First(DatedTable, c) # 1 => \A d \in 0 .. LastDay : DayEnd[d] # First(DatedTable, c)
  BY <1>2, ProcsAreNumbers DEF NoDayEndsAtAChunk, First, Inv, TypeOK
<1>7. OnTheDay(SkipDays(First(DatedTable, c)), First(DatedTable, c))
  BY <1>2, <1>4, <1>5, <1>6, SkipDaysOnTheDay
<1>8. DayEnd \in [0 .. LastDay -> Nat]
  BY CalendarAssumption
<1>9. OnTheDay(SkipDays(First(DatedTable, c)), row[c])
  BY <1>1, <1>4, <1>7, <1>8 DEF OnTheDay
<1>10. walk[c] # NotStarted => OnTheDay(walk[c], row[c])
  BY <1>2 DEF OnTheDayOf
<1> QED BY <1>2, <1>3, <1>9, <1>10, WalkToOnTheDay DEF WalkAt

LEMMA DatesOtherProcesses ==
  ASSUME Inv, NEW c \in Procs, NEW e \in Procs, e # c, Step(c), OnTheDayOf(e)
  PROVE  OnTheDayOf(e)'
<1>1. /\ walk'[e] = walk[e] /\ tab'[e] = tab[e] /\ pc'[e] = pc[e]
      /\ row'[e] = row[e] /\ out'[e] = out[e]
  BY DEF Step, PassOver, StartTable, BuildRow, RowStop, EndTable, Moves, Inv, TypeOK
<1> QED BY <1>1 DEF OnTheDayOf, SerialRow, OnTheDay

LEMMA DatesStep ==
  ASSUME NoDayEndsAtAChunk, Inv, NEW c \in Procs, Step(c), OnTheDayOf(c)
  PROVE  OnTheDayOf(c)'
<1>1. tab[c] \in Nat /\ DatedTable \in Nat
  BY TablesAssumption DEF Inv, TypeOK, Roots, Tables, NoTable
<1>2. CASE PassOver(c) \/ EndTable(c)
  <2>1. /\ tab'[c] = tab[c] + 1 /\ walk' = walk /\ out' = out
    BY <1>2 DEF PassOver, EndTable, Inv, TypeOK
  <2> QED BY <1>1, <2>1 DEF OnTheDayOf
<1>3. CASE StartTable(c)
  <2>1. tab' = tab /\ walk' = walk /\ out' = out /\ pc[c] = "table"
    BY <1>3 DEF StartTable, Moves
  <2> QED BY <1>1, <2>1 DEF OnTheDayOf
<1>4. CASE BuildRow(c)
  <2>1. /\ pc[c] = "row" /\ pc'[c] = "stop" /\ left[c] > 0
        /\ UNCHANGED <<tab, row>>
        /\ walk'[c] = (IF tab[c] = DatedTable THEN WalkAt(c) ELSE walk[c])
        /\ out'[c] = out[c] \union {Written(c)}
    BY <1>4, BuildRowDoes DEF Inv, TypeOK
  <2>2. tab[c] = DatedTable =>
          OnTheDay(WalkAt(c), row[c]) /\ WalkAt(c).day = SerialDay(row[c])
    BY <2>1, WalkAtOnTheDay
  <2>3. Written(c).day = SerialRow(Written(c).tbl, Written(c).row).day
    <3>1. Written(c).tbl = tab[c] /\ Written(c).row = row[c]
          /\ Written(c).day = IF tab[c] = DatedTable THEN WalkAt(c).day ELSE 0
      BY DEF Written
    <3>2. SerialRow(tab[c], row[c]).day = IF tab[c] = DatedTable THEN SerialDay(row[c]) ELSE 0
      BY DEF SerialRow
    <3> QED BY <2>2, <3>1, <3>2
  <2>4. \A o \in out'[c] : o.day = SerialRow(o.tbl, o.row).day
    BY <2>1, <2>3 DEF OnTheDayOf
  <2>5. tab[c] = DatedTable => OnTheDay(walk'[c], row'[c])
    BY <2>1, <2>2
  <2> QED BY <2>1, <2>4, <2>5 DEF OnTheDayOf
<1>5. CASE RowStop(c)
  <2>1. /\ pc[c] = "stop" /\ pc'[c] = "row" /\ row'[c] = row[c] + 1
        /\ UNCHANGED <<tab, walk, out>> /\ row[c] \in Nat
    BY <1>5 DEF RowStop, Moves, Inv, TypeOK
  <2>2. DayEnd \in [0 .. LastDay -> Nat]
    BY CalendarAssumption
  <2>3. OnTheDay(walk[c], row[c]) => OnTheDay(walk[c], row[c] + 1)
    BY <2>1, <2>2 DEF OnTheDay
  <2> QED BY <2>1, <2>3 DEF OnTheDayOf
<1> QED BY <1>2, <1>3, <1>4, <1>5 DEF Step

LEMMA DatesNext ==
  ASSUME NoDayEndsAtAChunk, Inv, DatesOnTheDay, [Next]_vars
  PROVE  DatesOnTheDay'
<1>1. CASE UNCHANGED vars
  BY <1>1 DEF DatesOnTheDay, OnTheDayOf, vars, args, Procs
<1>2. ASSUME NEW c \in Procs, Step(c) PROVE DatesOnTheDay'
  <2>1. Procs' = Procs
    BY <1>2 DEF Step, PassOver, StartTable, BuildRow, RowStop, EndTable, args, Procs
  <2>2. OnTheDayOf(c)'
    BY <1>2, DatesStep DEF DatesOnTheDay
  <2>3. \A e \in Procs : e # c => OnTheDayOf(e)'
    BY <1>2, DatesOtherProcesses DEF DatesOnTheDay
  <2> QED BY <2>1, <2>2, <2>3 DEF DatesOnTheDay
<1> QED BY <1>1, <1>2 DEF Next

LEMMA SpecDatesOnTheDay ==
  ASSUME NoDayEndsAtAChunk
  PROVE  Spec => []DatesOnTheDay
<1>1. Init => DatesOnTheDay  BY DEF Init, DatesOnTheDay, OnTheDayOf
<1>2. Inv /\ DatesOnTheDay /\ [Next]_vars => DatesOnTheDay'  BY DatesNext
<1> QED BY <1>1, <1>2, SpecInv, PTL DEF Spec

(* Every order of a parallel build carries the date of a serial build, if  *)
(* no day of sales ends with the first row of a chunk.                     *)
THEOREM DatesAlwaysInStep ==
  ASSUME NoDayEndsAtAChunk
  PROVE  Spec => []DatesInStep
<1>1. DatesOnTheDay => DatesInStep  BY DEF DatesOnTheDay, OnTheDayOf, DatesInStep
<1> QED BY <1>1, SpecDatesOnTheDay, PTL

-----------------------------------------------------------------------------
(* The row a builder writes is the serial row of its number, and one of    *)
(* the tables asked for.                                                   *)
LEMMA WrittenIsSerial ==
  ASSUME NoDayEndsAtAChunk, Inv, InStep, DatesOnTheDay,
         NEW c \in Procs, BuildRow(c)
  PROVE  /\ Written(c) \in SerialRows
         /\ Written(c).tbl \in (IF tabid = NoTable THEN Roots ELSE {tabid})
<1> DEFINE t == tab[c]
<1>1. pc[c] = "row" /\ left[c] > 0 /\ t \in Roots
  BY BuildRowDoes
<1>2. row[c] \in 1 .. RowsIn[t]
  BY <1>1, RowInTable
<1>3. t = DatedTable => WalkAt(c).day = SerialDay(row[c])
  BY <1>1, WalkAtOnTheDay DEF DatesOnTheDay
<1>4. \A s \in StreamsOf(Family(t)) : drawn[c][s] = (row[c] - 1) * PerRow[s]
  BY <1>1 DEF InStep, InStepOf
<1>5. [s \in StreamsOf(Family(t)) |-> drawn[c][s]]
        = [s \in StreamsOf(Family(t)) |-> (row[c] - 1) * PerRow[s]]
  BY <1>4
<1>6. Written(c) = SerialRow(t, row[c])
  BY <1>3, <1>5 DEF Written, SerialRow
<1>7. Written(c).tbl = t /\ tabid \in {NoTable, t}
  BY <1>1 DEF Written, Inv, InChunk
<1> QED BY <1>1, <1>2, <1>6, <1>7 DEF SerialRows

(* A parallel build writes, step by step, rows that a serial build has and *)
(* that nobody has written yet: it implements TableGen.                    *)
THEOREM BuildImplementsTableGen ==
  ASSUME TwoGenerations, NoDayEndsAtAChunk
  PROVE  Spec => ImplementsTableGen
<1>1. Init => Data!Init
  BY DEF Init, Data!Init
<1>2. ASSUME Inv, InStep, DatesOnTheDay, [Next]_vars
      PROVE  [Data!Build]_(Data!vars)
  <2>1. CASE UNCHANGED vars
    BY <2>1 DEF vars, args, Data!vars, Procs
  <2>2. ASSUME NEW c \in Procs,
               PassOver(c) \/ StartTable(c) \/ RowStop(c) \/ EndTable(c)
        PROVE  UNCHANGED Data!vars
    BY <2>2 DEF PassOver, StartTable, RowStop, EndTable, args, Data!vars, Procs
  <2>3. ASSUME NEW c \in Procs, BuildRow(c)
        PROVE  [Data!Build]_(Data!vars)
    <3> DEFINE built == UNION {out[e] : e \in Procs}
               wanted == IF tabid = NoTable THEN Roots ELSE {tabid}
               r == Written(c)
    <3>1. /\ out' = [out EXCEPT ![c] = out[c] \union {r}]
          /\ Procs' = Procs /\ UNCHANGED <<parallel, tabid>>
      BY <1>2, <2>3, BuildRowDoes
    <3>2. DOMAIN out = Procs  BY <1>2 DEF Inv, TypeOK
    <3>3. built' = built \union {r} /\ wanted' = wanted
      <4> HIDE DEF r
      <4>1. \A e \in Procs : out'[e] = IF e = c THEN out[e] \union {r} ELSE out[e]
        BY <3>1, <3>2
      <4>2. built' = UNION {out'[e] : e \in Procs}
        BY <3>1
      <4>3. UNION {out'[e] : e \in Procs} = built \union {r}
        BY <4>1
      <4> QED BY <3>1, <4>2, <4>3
    <3>4. r \in SerialRows /\ r.tbl \in wanted
      BY <1>2, <2>3, WrittenIsSerial
    <3>5. CASE r \in built
      <4>1. built' = built  BY <3>3, <3>5
      <4> QED BY <3>3, <4>1 DEF Data!vars
    <3>6. CASE r \notin built
      <4>1. r \in Data!Missing
        BY <3>4, <3>6 DEF Data!Missing
      <4>2. Data!Build
        BY <3>3, <4>1 DEF Data!Build
      <4> QED BY <4>2
    <3> QED BY <3>5, <3>6
  <2> QED BY <1>2, <2>1, <2>2, <2>3 DEF Next, Step
<1>3. Spec => []Inv /\ []InStep /\ []DatesOnTheDay
  BY SpecInv, SpecInStep, SpecDatesOnTheDay
<1> QED BY <1>1, <1>2, <1>3, PTL DEF Spec, ImplementsTableGen, Data!Spec
=============================================================================
