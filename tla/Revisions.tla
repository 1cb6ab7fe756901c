------------------------------ MODULE Revisions -----------------------------
(***************************************************************************)
(* dsdgen: the dimensions that keep history (tools/scd.c): item, store,    *)
(* call_center, web_site and web_page.  A member of the dimension, an id,  *)
(* has one, two or three rows, each valid for some days; six rows are      *)
(* three ids.  The builder of the dimension numbers the rows, dates them   *)
(* and decides what a row keeps of the one before; the builders of other   *)
(* tables, in other processes maybe, never see those rows and compute from *)
(* the number of an id which row is its revision of a day.                 *)
(*                                                                         *)
(* An attribute is modelled by the number of the row its value was drawn   *)
(* for.                                                                    *)
(***************************************************************************)
EXTENDS Integers, Sequences

CONSTANTS
  MinDay, MaxDay,  \* DATA_START_DATE and DATA_END_DATE
  MaxRows,         \* bound on the rows of a dimension
  TableNumbers,    \* nTableID of the dimensions
  Attributes       \* the attributes that may change from row to row

ASSUME RevisionsAssumption ==
  /\ MinDay \in Nat /\ MaxDay \in Nat /\ MinDay < MaxDay
  /\ MaxRows \in Nat /\ TableNumbers \subseteq Nat
  /\ \A t \in TableNumbers : 6 * t < MinDay

Open == -1   \* a record without an end date

H1Day == MinDay + (MaxDay - MinDay) \div 2

T1Day == MinDay + (MaxDay - MinDay) \div 3

T2Day == T1Day + (MaxDay - MinDay) \div 3

-----------------------------------------------------------------------------
(* Ids and rows, as other builders compute them.                           *)

(* getIDCount(): the ids of a dimension of n rows.                         *)
IdCount(n) ==
  3 * (n \div 6) + (CASE n % 6 = 0 -> 0 [] n % 6 = 1 -> 1 [] n % 6 \in {2, 3} -> 2
                      [] n % 6 \in {4, 5} -> 3)

(* getFirstSK()                                                            *)
FirstSK(id) ==
  CASE id % 3 = 1 -> 6 * (id \div 3) + 1
    [] id % 3 = 2 -> 6 * (id \div 3) + 2
    [] id % 3 = 0 -> 6 * (id \div 3 - 1) + 4

(* What getSKFromID() chooses from.                                        *)
AnySK(id) == FirstSK(id) .. FirstSK(id) + (IF id % 3 = 0 THEN 2 ELSE (id % 3) - 1)

(* How many rows after the first one the revision of a day is.             *)
Revision(id, day) ==
  CASE id % 3 = 1 -> 0
    [] id % 3 = 2 -> IF day > H1Day THEN 1 ELSE 0
    [] id % 3 = 0 -> IF day > T2Day THEN 2 ELSE IF day > T1Day THEN 1 ELSE 0

(* matchSCDSK()                                                            *)
MatchSK(id, day, n) ==
  LET sk == FirstSK(id) + Revision(id, day)
  IN  IF sk > n THEN n ELSE sk

-----------------------------------------------------------------------------
(* The builder of a dimension.                                             *)
VARIABLES
  dim,     \* nTableID of the dimension being built, and its rows
  bkey,    \* arBKeys[]: the row whose number the business key is made of
  old,     \* g_OldValues
  built    \* the rows so far

revVars == <<dim, bkey, old, built>>

Dimensions == [table : TableNumbers, rows : 1 .. MaxRows]

RevInit ==
  /\ dim \in Dimensions
  /\ bkey = 0 /\ old = [a \in Attributes |-> 0] /\ built = <<>>

(* How many rows of the same id are before row k: setSCDKeys().            *)
Earlier(k) ==
  CASE k % 6 \in {1, 2, 4} -> 0 [] k % 6 \in {3, 5} -> 1 [] k % 6 = 0 -> 2

Shifted(day) == day - 6 * dim.table

BeginDay(k) ==
  CASE k % 6 \in {1, 2, 4} -> Shifted(MinDay)
    [] k % 6 = 3 -> Shifted(H1Day) + 1
    [] k % 6 = 5 -> Shifted(T1Day) + 1
    [] k % 6 = 0 -> Shifted(T2Day) + 1

(* Wrong variant of EndDay: the day the next row begins.                   *)
EndDayLate(k) ==
  CASE k % 6 \in {0, 1, 3} -> Open
    [] k % 6 = 2 -> Shifted(H1Day) + 1
    [] k % 6 = 4 -> Shifted(T1Day) + 1
    [] k % 6 = 5 -> Shifted(T2Day) + 1

EndDay(k) ==
  CASE k % 6 \in {0, 1, 3} -> Open
    [] k % 6 = 2 -> Shifted(H1Day)
    [] k % 6 = 4 -> Shifted(T1Day)
    [] k % 6 = 5 -> Shifted(T2Day)

(* Wrong variant of KeepsOld: the first row of an id is not excepted.      *)
KeepsOldAlways(k, odd) == odd

(* changeSCD() with a flag that is odd, for a row that begins no id.       *)
KeepsOld(k, odd) == odd /\ Earlier(k) > 0

(* A row of the dimension.  The flags are bits of a random number, one for *)
(* an attribute.  (An attribute passed as SCD_PTR never keeps a value, the *)
(* pointers being assigned to each other: its flag is even, here.)         *)
BuildRow ==
  LET k == Len(built) + 1 IN
  /\ k <= dim.rows
  /\ bkey' = k - Earlier(k)
  /\ \E odd \in SUBSET Attributes :
       LET value == [a \in Attributes |-> IF KeepsOld(k, a \in odd) THEN old[a] ELSE k] IN
       /\ old' = value
       /\ built' = Append(built, [key |-> bkey', begin |-> BeginDay(k), end |-> EndDay(k),
                                  value |-> value])
  /\ UNCHANGED dim

(* The next dimension; each has old values of its own.                     *)
NextDimension ==
  /\ Len(built) = dim.rows
  /\ dim' \in Dimensions
  /\ bkey' = 0 /\ old' = [a \in Attributes |-> 0] /\ built' = <<>>

RevNext == BuildRow \/ NextDimension

RevSpec == RevInit /\ [][RevNext]_revVars

-----------------------------------------------------------------------------
Complete == Len(built) = dim.rows

ValidOn(k, day) == built[k].begin <= day /\ (built[k].end = Open \/ day <= built[k].end)

(* A dimension that ends between two revisions of an id lacks those that   *)
(* would follow.                                                           *)
Whole(id) == id < IdCount(dim.rows) \/ dim.rows % 6 \in {0, 1, 3}

(* On any day a member of the dimension has exactly one valid row: its     *)
(* revisions neither overlap nor leave a day out, the first is there from  *)
(* the first day of the data and the last has not ended.                   *)
OneRevisionPerDay ==
  Complete =>
    \A id \in 1 .. IdCount(dim.rows), day \in MinDay .. MaxDay :
      Whole(id) => \E k \in 1 .. dim.rows :
        /\ built[k].key = FirstSK(id) /\ ValidOn(k, day)
        /\ \A j \in 1 .. dim.rows : built[j].key = FirstSK(id) /\ ValidOn(j, day) => j = k

(* What other builders compute fits the table: the number of ids, the rows *)
(* of an id, and the revision of a day.  That one is off by the shift of   *)
(* the dates, 6 days a table number, which only the dimension knows of: it *)
(* is the revision of that many days before, and so it is the one of the   *)
(* day exactly where no new revision begins within that many days.         *)
MatchAgrees ==
  Complete =>
    /\ {built[k].key : k \in 1 .. dim.rows} = {FirstSK(id) : id \in 1 .. IdCount(dim.rows)}
    /\ \A id \in 1 .. IdCount(dim.rows), day \in MinDay .. MaxDay :
         LET sk == MatchSK(id, day, dim.rows) IN
         /\ sk \in AnySK(id) /\ sk \in 1 .. dim.rows
         /\ built[sk].key = FirstSK(id)
         /\ Whole(id) =>
              /\ ValidOn(sk, Shifted(day))
              /\ ValidOn(sk, day) <=> Revision(id, day) = Revision(id, day + 6 * dim.table)

(* A member has one row of each day, and the row that other builders       *)
(* compute is that of 6 days a table number before.                        *)
RevisionsMatch == OneRevisionPerDay /\ MatchAgrees

(* A value is one that was drawn for this member of the dimension, though  *)
(* the old values of all of them lie in one place, and is passed on from   *)
(* one revision to the next: one that was replaced does not come back.     *)
ValuesStay ==
  \A k \in 1 .. Len(built), a \in Attributes :
    LET v == built[k].value[a] IN
    /\ v \in built[k].key .. k
    /\ \A j \in v .. k : built[j].value[a] = v /\ built[j].key = built[k].key

=============================================================================
