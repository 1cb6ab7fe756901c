------------------------------- MODULE FactKeys ------------------------------
(***************************************************************************)
(* dsdgen: the primary keys of the fact tables.  A sale is identified by   *)
(* its order and its item, an inventory by its week, warehouse and item.   *)
(* Which item is decided in two steps: an id, and the row of item that is  *)
(* its revision of the day (matchSCDSK of Revisions).                      *)
(*                                                                         *)
(* An order takes consecutive ids of a permutation, which each process     *)
(* builds for itself before its first order, from a random place on.       *)
(* w_store_sales.c, w_catalog_sales.c and w_web_sales.c do the same.       *)
(***************************************************************************)
EXTENDS Revisions, FiniteSets

CONSTANTS
  ItemRows,    \* get_rowcount(ITEM)
  MinLines, MaxLines,  \* bounds of nLineitems
  Warehouses,  \* get_rowcount(WAREHOUSE)
  Weeks        \* inventories of an item and warehouse

Ids == 1 .. IdCount(ItemRows)

ASSUME FactsAssumption ==
  /\ ItemRows \in Nat /\ MinLines \in Nat /\ MaxLines \in Nat
  /\ MinLines <= MaxLines /\ MaxLines <= IdCount(ItemRows)
  /\ Warehouses \in Nat \ {0} /\ Weeks \in Nat

VARIABLES
  fact,      \* what the process is building, inventory or sales
  perm,      \* pItemPermutation, one-based as getPermutationEntry() reads it
  swapped,   \* makePermutation(): entries that have had their turn
  place,     \* nTicketItemBase or nItemIndex
  start,     \* history: place before the first line of the order
  sold,      \* the order's lines so far: the item of each
  lines,     \* nLineitems
  sday,      \* the day of the sale
  counted    \* mk_w_inventory(): the rows so far

keyVars == <<fact, perm, swapped, place, start, sold, lines, sday, counted>>

KeyInit ==
  /\ fact \in {"inventory", "sales"}
  /\ perm = [i \in Ids |-> i] /\ swapped = 0
  /\ place = 0 /\ start = 0 /\ sold = <<>> /\ lines = 0 /\ sday = MinDay
  /\ counted = <<>>

(* Wrong variant of Swap: the random entry is copied, not exchanged.       *)
Copy ==
  /\ fact = "sales" /\ swapped < IdCount(ItemRows)
  /\ swapped' = swapped + 1
  /\ \E j \in Ids : perm' = [perm EXCEPT ![swapped + 1] = perm[j]]
  /\ UNCHANGED <<fact, place, start, sold, lines, sday, counted>>

Swap ==
  /\ fact = "sales" /\ swapped < IdCount(ItemRows)
  /\ swapped' = swapped + 1
  /\ \E j \in Ids : perm' = [perm EXCEPT ![swapped + 1] = perm[j], ![j] = perm[swapped + 1]]
  /\ UNCHANGED <<fact, place, start, sold, lines, sday, counted>>

(* mk_master()                                                             *)
StartOrder ==
  /\ fact = "sales" /\ swapped = IdCount(ItemRows) /\ Len(sold) = lines
  /\ \E p \in Ids : place' = p /\ start' = p
  /\ lines' \in MinLines .. MaxLines
  /\ sday' \in MinDay .. MaxDay
  /\ sold' = <<>>
  /\ UNCHANGED <<fact, perm, swapped, counted>>

NextPlace(p) == IF p + 1 > IdCount(ItemRows) THEN 1 ELSE p + 1

(* mk_detail()                                                             *)
SellItem ==
  /\ Len(sold) < lines
  /\ place' = NextPlace(place)
  /\ sold' = Append(sold, MatchSK(perm[place'], sday, ItemRows))
  /\ UNCHANGED <<fact, perm, swapped, start, lines, sday, counted>>

InventoryRows == IdCount(ItemRows) * Warehouses * Weeks

InventoryKey(k) ==
  LET n == k - 1
      id == (n % IdCount(ItemRows)) + 1
      day == MinDay + 7 * ((n \div IdCount(ItemRows)) \div Warehouses)
  IN  <<day, ((n \div IdCount(ItemRows)) % Warehouses) + 1, MatchSK(id, day, ItemRows)>>

(* mk_w_inventory()                                                        *)
CountStock ==
  /\ fact = "inventory" /\ Len(counted) < InventoryRows
  /\ counted' = Append(counted, InventoryKey(Len(counted) + 1))
  /\ UNCHANGED <<fact, perm, swapped, place, start, sold, lines, sday>>

(* On to a sales table.                                                    *)
StockCounted ==
  /\ fact = "inventory" /\ Len(counted) = InventoryRows
  /\ fact' = "sales" /\ counted' = <<>>
  /\ UNCHANGED <<perm, swapped, place, start, sold, lines, sday>>

KeyNext == Swap \/ StartOrder \/ SellItem \/ CountStock \/ StockCounted

KeySpec == KeyInit /\ [][KeyNext]_keyVars

-----------------------------------------------------------------------------
(* No item is sold twice in an order, so order and item identify a sale    *)
(* and the return of it; whatever the permutation came out as, wherever in *)
(* it the order begins and whichever revisions are sold.                   *)
ItemsUnique == \A i, j \in 1 .. Len(sold) : sold[i] = sold[j] => i = j

(* Every item sold is a row of item, and one of the permuted ids.          *)
ItemsSold == \A i \in 1 .. Len(sold) : sold[i] \in 1 .. ItemRows

(* No two rows of inventory have the same key.                             *)
InventoryUnique == \A i, j \in 1 .. Len(counted) : counted[i] = counted[j] => i = j

(* So the keys of the fact tables are keys, and their loads do not fail.   *)
KeysUnique == ItemsUnique /\ InventoryUnique

=============================================================================
