------------------------------ MODULE UpdateSet ------------------------------
(***************************************************************************)
(* dsdgen -UPDATE: how many rows a table of a refresh set has, and which   *)
(* of the six dates of the set a row is of (scaling.c).  Orders are spread *)
(* as the sales of their day are spread over the year; an inventory takes  *)
(* every item in every warehouse once on each date.                        *)
(***************************************************************************)
EXTENDS FactKeys

CONSTANTS
  SalesRows,    \* get_rowcount() of the table of sales
  DayWeights,   \* weights that "calendar" gives days for sales
  YearWeight    \* their sum over a year

ASSUME UpdateSetAssumption ==
  SalesRows \in Nat /\ YearWeight \in Nat \ {0} /\ DayWeights \subseteq 0 .. YearWeight

Dates == 1 .. 6   \* of arUpdateDates[] and arInventoryUpdateDates[]

VARIABLES
  source,    \* the table, "orders" or "inventory"
  dayWeights,   \* the weights of the six dates
  kDayRowcount, \* the rows of the dates up to each
  refreshed  \* the rows that were built

updateVars == <<source, dayWeights, kDayRowcount, refreshed>>

UpdateInit ==
  /\ source \in {"orders", "inventory"}
  /\ dayWeights \in [Dates -> DayWeights]
  /\ source = "inventory" => \A day \in Dates : dayWeights[day] = dayWeights[1]   \* not used
  /\ kDayRowcount = <<>> /\ refreshed = <<>>

\* An inventory has the same rows on every day; others are rounded.
dateScaling(day) ==
  IF source = "inventory" THEN Warehouses * IdCount(ItemRows)
  ELSE (SalesRows * dayWeights[day] + (5 * YearWeight) \div 2) \div (5 * YearWeight)

setUpdateScaling ==
  /\ kDayRowcount = <<>>
  /\ kDayRowcount' = LET upTo[day \in 0 .. 6] == IF day = 0 THEN 0 ELSE upTo[day - 1] + dateScaling(day)
                     IN [day \in Dates |-> upTo[day]]
  /\ UNCHANGED <<source, dayWeights, refreshed>>

\* What split_work() divides and gen_tbl() builds.
get_rowcount ==
  IF source = "inventory" THEN IdCount(ItemRows) * Warehouses * 6 ELSE kDayRowcount[6]

(* Wrong variant of getUpdateDate: the last row of a date is of the next.  *)
getUpdateDateEarly(row) ==
  CHOOSE day \in Dates : (row < kDayRowcount[day] \/ day = 6) /\ \A d \in 1 .. day - 1 : row >= kDayRowcount[d]

\* The first date whose rows reach as far.
getUpdateDate(row) ==
  CHOOSE day \in Dates : (row <= kDayRowcount[day] \/ day = 6) /\ \A d \in 1 .. day - 1 : row > kDayRowcount[d]

\* getUpdateBase() reads the entry of another table, which is zero.
mk_s_order(row) == [date |-> getUpdateDate(row), id |-> row]

mk_s_inventory(row) ==
  LET n == row - 1
  IN [date |-> getUpdateDate(row), warehouse |-> ((n \div IdCount(ItemRows)) % Warehouses) + 1,
      item |-> FirstSK((n % IdCount(ItemRows)) + 1)]

RefreshRow ==
  /\ kDayRowcount # <<>> /\ Len(refreshed) < get_rowcount
  /\ LET row == Len(refreshed) + 1
     IN refreshed' = Append(refreshed, IF source = "inventory" THEN mk_s_inventory(row) ELSE mk_s_order(row))
  /\ UNCHANGED <<source, dayWeights, kDayRowcount>>

UpdateNext == setUpdateScaling \/ RefreshRow

UpdateSpec == UpdateInit /\ [][UpdateNext]_updateVars

----------------------------------------------------------------------------
Built == kDayRowcount # <<>> /\ Len(refreshed) = get_rowcount

\* The rows a day of this weight has in the table of sales, to the nearest.
Share(day) == {n \in 0 .. SalesRows : LET twice == 2 * (5 * n * YearWeight - SalesRows * dayWeights[day])
                                      IN -5 * YearWeight < twice /\ twice <= 5 * YearWeight}

(* A refresh set is spread over its dates, in order and none of a date     *)
(* that is not the set's: an order date takes as many orders as a day of   *)
(* that weight has in the five years of sales; an inventory date takes     *)
(* each item in each warehouse exactly once, so that its key is unique.    *)
SpreadOverDates ==
  Built =>
    LET Of(day) == {row \in DOMAIN refreshed : refreshed[row].date = day}
    IN /\ \A r \in DOMAIN refreshed : r > 1 => refreshed[r].date >= refreshed[r - 1].date
       /\ source = "orders" => \A day \in Dates : Cardinality(Of(day)) \in Share(day)
       /\ source = "inventory" => \A day \in Dates :
            /\ Cardinality(Of(day)) = Warehouses * IdCount(ItemRows)
            /\ {<<refreshed[r].warehouse, refreshed[r].item>> : r \in Of(day)}
                 = (1 .. Warehouses) \X {FirstSK(id) : id \in Ids}

=============================================================================
