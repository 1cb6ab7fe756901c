--------------------------- MODULE DimensionCopies --------------------------
(***************************************************************************)
(* dsdgen -UPDATE: the copies of dimensions in a refresh set.  They are of *)
(* use if they name what the warehouse has: a row of s_item a member of    *)
(* item, by the id that item's own rows bear, and no member twice; a       *)
(* customer the demographics that customer_demographics has under a key;   *)
(* s_zip_to_gmt the zips that addresses have.                              *)
(*                                                                         *)
(* Each copy takes its members from a permutation of the ids that it       *)
(* builds for itself.  For a dimension with history an id is turned into   *)
(* one of its revisions, drawn at random, and the builder of the dimension *)
(* makes the id again of the row it is given.                              *)
(***************************************************************************)
EXTENDS Revisions

CONSTANTS
  DimensionRows,  \* get_rowcount() of the dimension
  MaxIds,         \* bound on the ids of it
  MaxCustomers,   \* bound on the rows of s_customer
  DemoKeys,       \* what mk_join() draws of customer_demographics
  ZipRows,        \* rows of s_zip_to_gmt
  CityHashes      \* what city_hash() makes of a city's name

History == {"item", "store", "call_center", "web_site", "web_page"}
Plain == {"warehouse", "promotion"}

(* Combinations of two genders, five marital states and so on, down to the *)
(* three numbers of dependents.                                            *)
DemoSizes == <<2, 5, 7, 20, 4, 7, 7, 7>>
Below[i \in 1 .. 9] == IF i = 1 THEN 1 ELSE Below[i - 1] * DemoSizes[i - 1]
DemoRows == Below[9]

LastZip == 99999   \* scaling.dst has a row of s_zip_to_gmt for each zip

ASSUME CopiesAssumption ==
  /\ DimensionRows \subseteq Nat \ {0} /\ MaxIds \in Nat /\ MaxCustomers \in Nat
  /\ DemoKeys \subseteq 1 .. DemoRows
  /\ \A k \in ZipRows : k \in Nat \ {0} /\ k - 1 <= LastZip
  /\ \A hash \in CityHashes : hash \in Nat \ {0} /\ hash < 10000

(* scaling.dst: the rows of dimensions and of their copies at the nine     *)
(* scale factors, in thousands for item and customer, in hundreds for the  *)
(* copy of item.  A copy of call_center, web_site or warehouse has one row.*)
ItemRowsOf == <<18, 102, 204, 264, 300, 360, 402, 462, 502>>
ItemCopies == <<5, 7, 10, 13, 15, 18, 20, 23, 25>>
StoreRowsOf == <<12, 102, 402, 804, 1002, 1350, 1500, 1704, 1902>>
StoreCopies == <<1, 1, 2, 4, 5, 6, 7, 8, 9>>
PageRowsOf == <<60, 200, 2040, 2604, 3000, 3600, 4002, 4602, 5004>>
PageCopies == <<6, 1, 200, 260, 300, 360, 400, 460, 500>>
PromotionRowsOf == <<300, 500, 1000, 1300, 1500, 1800, 2000, 2300, 2500>>
PromotionCopies == ItemCopies
CustomerRowsOf == <<100, 500, 2000, 5000, 12000, 30000, 65000, 80000, 100000>>
CustomerCopies == <<5, 10, 20, 50, 120, 300, 650, 800, 1000>>

(* No copy has more rows than its permutation has entries.                 *)
ASSUME EnoughIds ==
  \A s \in 1 .. 9 :
    /\ 100 * ItemCopies[s] <= IdCount(1000 * ItemRowsOf[s])
    /\ StoreCopies[s] <= IdCount(StoreRowsOf[s]) /\ PageCopies[s] <= IdCount(PageRowsOf[s])
    /\ PromotionCopies[s] <= PromotionRowsOf[s] /\ CustomerCopies[s] <= CustomerRowsOf[s]

-----------------------------------------------------------------------------
VARIABLES
  copyOf,    \* the dimension
  dimRows,   \* its rows
  permuted,  \* pPermutation, zero-based as makePermutation() fills it
  shuffled,  \* the entries that have had their turn
  copied     \* the rows of the copy so far

copyVars == <<copyOf, dimRows, permuted, shuffled, copied>>

(* getIDCount()                                                            *)
IDCount == IF copyOf \in History THEN IdCount(dimRows) ELSE dimRows

CopyRows ==
  CASE copyOf = "zip_to_gmt" -> 1
    [] copyOf = "customer" /\ MaxCustomers < IDCount -> MaxCustomers
    [] OTHER -> IDCount

CopyInit ==
  /\ copyOf \in History \union Plain \union {"customer", "zip_to_gmt"}
  /\ dimRows \in DimensionRows /\ IDCount <= MaxIds
  /\ permuted = [i \in 0 .. IDCount - 1 |-> i] /\ shuffled = 0 /\ copied = <<>>

ShuffleIds ==
  /\ copyOf # "zip_to_gmt" /\ shuffled < IDCount
  /\ shuffled' = shuffled + 1
  /\ \E j \in 0 .. IDCount - 1 :
       permuted' = [permuted EXCEPT ![shuffled] = permuted[j], ![j] = permuted[shuffled]]
  /\ UNCHANGED <<copyOf, dimRows, copied>>

(* Wrong variant of getPermutationEntry: numbers from 0 on.                *)
getPermutationEntryFrom0(i) == permuted[i - 1]

getPermutationEntry(i) == permuted[i - 1] + 1

(* setSCDKeys(): the row whose number the id of row k is made of.          *)
BKey(k) == k - Earlier(k)

(* The rows that the builder of the dimension may be called for.           *)
RowsOfId(id) == IF copyOf \in History THEN AnySK(id) ELSE {id}

(* The number that the printed id is made of.  The copy of call_center     *)
(* makes it of the row's own key.                                          *)
Printed(k) == IF copyOf \in History \ {"call_center"} THEN BKey(k) ELSE k

CopyRow ==
  /\ copyOf \in History \union Plain
  /\ shuffled = IDCount /\ Len(copied) < CopyRows
  /\ \E k \in RowsOfId(getPermutationEntry(Len(copied) + 1)) :
       copied' = Append(copied, [row |-> k, id |-> Printed(k)])
  /\ UNCHANGED <<copyOf, dimRows, permuted, shuffled>>

(* bitmap_to_dist(), eight times over.                                     *)
Demographics(key) == [i \in 1 .. 8 |-> ((key - 1) \div Below[i]) % DemoSizes[i]]

CopyCustomer ==
  /\ copyOf = "customer"
  /\ shuffled = IDCount /\ Len(copied) < CopyRows
  /\ \E key \in DemoKeys :
       copied' = Append(copied, [id |-> getPermutationEntry(Len(copied) + 1), key |-> key,
                                 demographics |-> Demographics(key)])
  /\ UNCHANGED <<copyOf, dimRows, permuted, shuffled>>

(* arGMTOffset: the last zip of each of its ranges, -99 before the first   *)
(* one that is in use.                                                     *)
ZipMax ==
  <<599, 999, 2799, 2999, 3899, 4999, 5999, 6999, 8999, 9999, 14999, 19699, 19999, 20599, 21999,
    24699, 26999, 28999, 29999, 31999, 33999, 34999, 34095, 36999, 38599, 39999, 41799, 42799, 45999,
    47999, 49999, 52999, 54999, 56999, 57499, 57999, 58499, 58499, 59999, 62999, 65999, 67999, 68999,
    69999, 71599, 72999, 74999, 78999, 79999, 81999, 83199, 83699, 83999, 84999, 86999, 88999, 89999,
    95999, 96699, 96899, 97999, 99499, 99999>>

ZipEntry(zip) ==
  LET reached == {i \in DOMAIN ZipMax : zip <= ZipMax[i]}
  IN  CHOOSE i \in reached : \A j \in reached : i <= j

CopyZip ==
  /\ copyOf = "zip_to_gmt" /\ Len(copied) < CopyRows
  /\ \E k \in ZipRows :
       copied' = <<[zip |-> k - 1, entry |-> ZipEntry(k - 1)]>>
  /\ UNCHANGED <<copyOf, dimRows, permuted, shuffled>>

CopyNext == ShuffleIds \/ CopyRow \/ CopyCustomer \/ CopyZip

CopySpec == CopyInit /\ [][CopyNext]_copyVars

-----------------------------------------------------------------------------
(* The ids that the rows of the dimension bear.                            *)
Members == IF copyOf \in History THEN {BKey(k) : k \in 1 .. dimRows} ELSE 1 .. dimRows

(* Only the key of a first revision is an id, in the copy of call_center.  *)
NameIn(row) == IF copyOf = "call_center" THEN BKey(row.id) ELSE row.id

(* mk_address(): the prefix is the zone of the county.                     *)
AddressZip(prefix, hash) ==
  10000 * prefix + (IF prefix = 0 /\ hash < 9400 THEN hash + 600 ELSE hash)
AddressZips == {AddressZip(prefix, hash) : prefix \in 0 .. 9, hash \in CityHashes}

(* What a copy names is in the warehouse: each row another member of the   *)
(* dimension, though its row may be a revision that the dimension does not *)
(* reach; the attributes of a customer belong to one key of                *)
(* customer_demographics, that was drawn; and any zip that an address may  *)
(* have has a row, which is printed.                                       *)
CopiesFit ==
  /\ copyOf # "zip_to_gmt" =>
       /\ \A i \in DOMAIN copied : NameIn(copied[i]) \in Members
       /\ \A i, j \in DOMAIN copied : NameIn(copied[i]) = NameIn(copied[j]) => i = j
  /\ copyOf = "customer" => \A i \in DOMAIN copied :
       {key \in DemoKeys : Demographics(key) = copied[i].demographics} = {copied[i].key}
  /\ copyOf = "zip_to_gmt" =>
       /\ AddressZips \subseteq 0 .. LastZip
       /\ \A i \in DOMAIN copied : copied[i].zip \in AddressZips => copied[i].entry > 1

=============================================================================
