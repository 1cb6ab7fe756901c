------------------------------ MODULE FlatFiles ------------------------------
(***************************************************************************)
(* The flat files: which columns a builder's row has in its line, which of *)
(* them are empty, and into which file the line goes (the pr_ functions,   *)
(* nulls.c, print.c), against what the line is loaded into by position.    *)
(*                                                                         *)
(* An empty field is NULL.  Whether a row has any is drawn once for the    *)
(* row, as a map of 31 bits; bit n is the table's n-th column in columns.h *)
(* whatever its position in the line.  A mask per table keeps the columns  *)
(* filled that may not be NULL.  A key of -1 and a date that is not there  *)
(* are printed as empty fields, too.  A field is text or nothing here, a   *)
(* line what was written of it, and what is loaded what LOAD DATA takes    *)
(* from between the delimiters.                                            *)
(***************************************************************************)
EXTENDS Integers, SequencesExt, FiniteSets, TLC

CONSTANTS
  Drawn,    \* maps a random number may stand for, all 31 bits among them
  MaxBuilt  \* the calls of a builder in a behaviour, at most

ASSUME FlatFilesAssumption ==
  Drawn \subseteq SUBSET (0 .. 30) /\ 0 .. 30 \in Drawn /\ MaxBuilt \in Nat \ {0}

Run(a, b) == [i \in 1 .. b - a + 1 |-> a + i - 1]
Times(n, column) == [i \in 1 .. n |-> column]

----------------------------------------------------------------------------
\* The columns of each line, numbered as in columns.h.  A column may be
\* printed twice, out of its order, or under the number of another one.

CallCenterLine == Run(1, 20) \o Times(10, 31) \o <<32>>
CatalogPageLine == Run(35, 38) \o Run(40, 44)
CatalogReturnsLine == Run(46, 72)
CatalogSalesLine == Run(75, 96) \o <<99, 98>> \o Run(100, 102) \o <<97>> \o Run(103, 108)
CustomerLine == Run(114, 131)
CustomerAddressLine == Run(133, 145)
CustomerDemographicsLine == Run(149, 157)
DateLine == <<159, 160, 159>> \o Run(162, 186)
HouseholdDemographicsLine == Run(188, 192)
IncomeBandLine == Run(194, 196)
InventoryLine == Run(198, 201)
ItemLine == Run(203, 224)
PromotionLine == Run(228, 246)
ReasonLine == Run(248, 250)
ShipModeLine == Run(252, 255) \o <<257, 256>>
StoreLine == Run(259, 269) \o Run(271, 287) \o <<270>>
StoreReturnsLine == Run(292, 311)
StoreSalesLine == Run(314, 332) \o <<328>> \o Run(333, 335)
TimeLine == Run(340, 349)
WarehouseLine == Run(351, 364)
WebPageLine == Run(367, 380)
WebReturnsLine == Run(383, 406)
WebSalesLine == Run(409, 442)
WebSiteLine == Run(447, 472)
VersionLine == Run(476, 479)

CatalogOrderLine == Run(517, 523) \o <<525>>
CatalogOrderItemLine == <<526, 527, 524, 528, 529, 535>> \o Run(530, 534) \o <<536>>
CatalogOrderReturnLine == Run(551, 567) \o Run(569, 571)
RefreshInventoryLine == Run(621, 624)
PurchaseOrderLine == Run(670, 677)
PurchaseItemLine == <<680, 681, 679, 682, 684, 683, 685, 686>>
PurchaseReturnLine == Run(710, 726)
WebOrderLine == Run(740, 747)
WebOrderItemLine == <<749, 750, 748, 751, 752, 757>> \o Run(753, 755) \o <<758, 756>>
WebOrderReturnLine == Run(778, 785) \o Times(8, 787) \o <<786>>

\* The copies of dimensions: some print the columns of the dimension.
CallCenterCopyLine == <<1, 6, 5>> \o Run(7, 12) \o <<32>>
CatalogPageCopyLine == Run(539, 546)
CustomerAddressCopyLine == Run(486, 496)
CustomerCopyLine ==
  Run(580, 585) \o Run(588, 591) \o <<587, 586>> \o Run(592, 594) \o <<596, 600>> \o Run(597, 599)
    \o Run(601, 617)
ItemCopyLine == <<625>> \o Run(628, 630) \o Run(632, 636) \o <<631>>
PromotionCopyLine == <<229, 235, 230, 230, 233, 234>> \o Run(236, 246)
StoreCopyLine == <<260>> \o Run(263, 269) \o <<271, 273, 270>>
WarehouseCopyLine == Run(352, 354)
WebPageCopyLine == <<368>> \o Run(371, 373) \o Run(375, 380)
WebSiteCopyLine == <<448, 452, 453, 451, 454, 455, 472>>
ZipLine == <<798, 799>>

----------------------------------------------------------------------------
\* w_tdefs.h and s_tdefs.h.  A row of them: nNullPct, the bits of
\* kNotNullBitMap, and the child of a table with FL_PARENT.

Tdef(line, pct, notNull, child) ==
  [line |-> line, nullPct |-> pct, notNull |-> notNull, child |-> child]

None == "none"

WarehouseTdefs ==
  [call_center |-> Tdef(CallCenterLine, 100, {0, 1, 3}, None),
   catalog_page |-> Tdef(CatalogPageLine, 200, {0, 1}, None),
   catalog_returns |-> Tdef(CatalogReturnsLine, 400, {0, 1, 2, 16}, None),
   catalog_sales |-> Tdef(CatalogSalesLine, 100, {15, 17}, "catalog_returns"),
   customer |-> Tdef(CustomerLine, 700, {0, 1, 4}, None),
   customer_address |-> Tdef(CustomerAddressLine, 600, {0, 1}, None),
   customer_demographics |-> Tdef(CustomerDemographicsLine, 0, {0}, None),
   date_dim |-> Tdef(DateLine, 0, {0, 1}, None),
   household_demographics |-> Tdef(HouseholdDemographicsLine, 0, {0}, None),
   income_band |-> Tdef(IncomeBandLine, 0, {0}, None),
   inventory |-> Tdef(InventoryLine, 1000, {0, 1, 2}, None),
   item |-> Tdef(ItemLine, 50, {0, 1, 3}, None),
   promotion |-> Tdef(PromotionLine, 200, {0, 1}, None),
   reason |-> Tdef(ReasonLine, 0, {0, 1}, None),
   ship_mode |-> Tdef(ShipModeLine, 0, {0, 1}, None),
   store |-> Tdef(StoreLine, 100, {0, 1, 3}, None),
   store_returns |-> Tdef(StoreReturnsLine, 700, {2, 9}, None),
   store_sales |-> Tdef(StoreSalesLine, 900, {2, 9}, "store_returns"),
   time_dim |-> Tdef(TimeLine, 0, {0, 1}, None),
   warehouse |-> Tdef(WarehouseLine, 200, {0, 1}, None),
   web_page |-> Tdef(WebPageLine, 250, {0, 1, 3}, None),
   web_returns |-> Tdef(WebReturnsLine, 900, {2, 13}, None),
   web_sales |-> Tdef(WebSalesLine, 5, {3, 17}, "web_returns"),
   web_site |-> Tdef(WebSiteLine, 100, {0, 1, 3}, None),
   dbgen_version |-> Tdef(VersionLine, 0, {}, None)]

\* No builder of a refresh table calls nullSet() for it.
RefreshTdefs ==
  [s_catalog_order |-> Tdef(CatalogOrderLine, 0, {0}, "s_catalog_order_lineitem"),
   s_catalog_order_lineitem |-> Tdef(CatalogOrderItemLine, 0, {0, 1, 2}, "s_catalog_returns"),
   s_catalog_returns |-> Tdef(CatalogOrderReturnLine, 0, {1, 2, 3}, None),
   s_inventory |-> Tdef(RefreshInventoryLine, 0, {0, 1, 2}, None),
   s_purchase |-> Tdef(PurchaseOrderLine, 0, {0}, "s_purchase_lineitem"),
   s_purchase_lineitem |-> Tdef(PurchaseItemLine, 0, {0, 1, 2}, "s_store_returns"),
   s_store_returns |-> Tdef(PurchaseReturnLine, 0, {1, 2, 3}, None),
   s_web_order |-> Tdef(WebOrderLine, 0, {0}, "s_web_order_lineitem"),
   s_web_order_lineitem |-> Tdef(WebOrderItemLine, 0, {0, 1, 2}, "s_web_returns"),
   s_web_returns |-> Tdef(WebOrderReturnLine, 0, {1, 2, 3}, None)]

CopyTdefs ==
  [s_call_center |-> Tdef(CallCenterCopyLine, 0, {1}, None),
   s_catalog_page |-> Tdef(CatalogPageCopyLine, 0, {0, 1, 4, 5}, None),
   s_customer_address |-> Tdef(CustomerAddressCopyLine, 0, {0}, None),
   s_customer |-> Tdef(CustomerCopyLine, 0, {0}, None),
   s_item |-> Tdef(ItemCopyLine, 0, {0}, None),
   s_promotion |-> Tdef(PromotionCopyLine, 0, {0}, None),
   s_store |-> Tdef(StoreCopyLine, 0, {0}, None),
   s_warehouse |-> Tdef(WarehouseCopyLine, 0, {0}, None),
   s_web_page |-> Tdef(WebPageCopyLine, 0, {0}, None),
   s_web_site |-> Tdef(WebSiteCopyLine, 0, {0}, None),
   s_zip_to_gmt |-> Tdef(ZipLine, 0, {0, 1}, None)]

\* Whose builder builds the row of a copy, and draws its own null map.
CopyOf ==
  [s_call_center |-> "call_center", s_catalog_page |-> "catalog_page",
   s_customer_address |-> "customer_address", s_customer |-> "customer_address", s_item |-> "item",
   s_promotion |-> "promotion", s_store |-> "store", s_warehouse |-> "warehouse",
   s_web_page |-> "web_page", s_web_site |-> "web_site"]
NullTable(t) == IF t \in DOMAIN CopyOf THEN CopyOf[t] ELSE t

Tdefs == WarehouseTdefs @@ RefreshTdefs @@ CopyTdefs
Tables == DOMAIN Tdefs

Children(tables) == {Tdefs[t].child : t \in tables} \ {None}
Roots == Tables \ Children(Tables)

\* A table of gen_tbl() with the tables its builder also prints.
Family(t) == {t} \union Children({t}) \union Children(Children({t}))

\* The columns of each table in columns.h, from _START to _END.
CatalogColumns ==
  [call_center |-> 1 .. 34, catalog_page |-> 35 .. 45, catalog_returns |-> 46 .. 74,
   catalog_sales |-> 75 .. 113]

CustomerColumns ==
  [customer |-> 114 .. 132, customer_address |-> 133 .. 148,
   customer_demographics |-> 149 .. 158, date_dim |-> 159 .. 187,
   household_demographics |-> 188 .. 193, income_band |-> 194 .. 197]

StoreColumns ==
  [inventory |-> 198 .. 202, item |-> 203 .. 227, promotion |-> 228 .. 247,
   reason |-> 248 .. 251, ship_mode |-> 252 .. 258, store |-> 259 .. 291,
   store_returns |-> 292 .. 313]

SalesColumns ==
  [store_sales |-> 314 .. 339, time_dim |-> 340 .. 350, warehouse |-> 351 .. 366,
   web_page |-> 367 .. 382, web_returns |-> 383 .. 408, web_sales |-> 409 .. 446]

SiteColumns == [web_site |-> 447 .. 475, dbgen_version |-> 476 .. 480]

RefreshColumns ==
  [s_catalog_order |-> 517 .. 525, s_catalog_order_lineitem |-> 526 .. 538,
   s_catalog_returns |-> 551 .. 571, s_inventory |-> 621 .. 624, s_purchase |-> 670 .. 679,
   s_purchase_lineitem |-> 680 .. 689, s_store_returns |-> 710 .. 727,
   s_web_order |-> 740 .. 748, s_web_order_lineitem |-> 749 .. 760, s_web_returns |-> 778 .. 787]

CopyColumns ==
  [s_customer_address |-> 486 .. 497, s_call_center |-> 498 .. 511, s_catalog_page |-> 539 .. 546,
   s_customer |-> 580 .. 617, s_item |-> 625 .. 637, s_promotion |-> 650 .. 669,
   s_store |-> 692 .. 706, s_warehouse |-> 736 .. 739, s_web_page |-> 761 .. 773,
   s_web_site |-> 788 .. 797, s_zip_to_gmt |-> 798 .. 799]

Columns ==
  CatalogColumns @@ CustomerColumns @@ StoreColumns @@ SalesColumns @@ SiteColumns @@ RefreshColumns
    @@ CopyColumns
First(t) == CHOOSE c \in Columns[t] : \A d \in Columns[t] : c <= d
getTableFromColumn(column) == CHOOSE t \in Tables : column \in Columns[t]

Bit(column) == column - First(getTableFromColumn(column))

----------------------------------------------------------------------------
\* What a line is loaded into: how many columns, and which of them, by
\* position, are NOT NULL.

Into(fields, required) == [fields |-> fields, required |-> required]

LoadData ==
  [call_center |-> Into(31, {1, 2}), catalog_page |-> Into(9, {1, 2}),
   catalog_returns |-> Into(27, {3, 17}), catalog_sales |-> Into(34, {16, 18}),
   customer |-> Into(18, {1, 2}), customer_address |-> Into(13, {1, 2}),
   customer_demographics |-> Into(9, {1}), date_dim |-> Into(28, {1, 2, 3}),
   household_demographics |-> Into(5, {1}), income_band |-> Into(3, {1}),
   inventory |-> Into(4, {1, 2, 3}), item |-> Into(22, {1, 2}), promotion |-> Into(19, {1, 2}),
   reason |-> Into(3, {1, 2}), ship_mode |-> Into(6, {1, 2}), store |-> Into(29, {1, 2}),
   store_returns |-> Into(20, {3, 10}), store_sales |-> Into(23, {3, 10}),
   time_dim |-> Into(10, {1, 2, 3}), warehouse |-> Into(14, {1, 2}),
   web_page |-> Into(14, {1, 2}), web_returns |-> Into(24, {3, 14}),
   web_sales |-> Into(34, {4, 18}), web_site |-> Into(26, {1, 2}),
   dbgen_version |-> Into(4, {1, 2, 3, 4})]

\* tpcds_source.sql has no s_web_returns.
RefreshSchema ==
  [s_catalog_order |-> Into(8, {1}), s_catalog_order_lineitem |-> Into(12, {1, 2}),
   s_catalog_returns |-> Into(20, {2, 3, 4}), s_inventory |-> Into(4, {1, 2, 3}),
   s_purchase |-> Into(8, {1}), s_purchase_lineitem |-> Into(8, {1, 2}),
   s_store_returns |-> Into(17, {2, 3, 4}),
   s_web_order |-> Into(8, {1}), s_web_order_lineitem |-> Into(11, {1, 2})]

Loaded == LoadData @@ RefreshSchema

\* Nothing says what a copy is loaded into; it is of no use without an id.
IdField(t) == IF t = "s_catalog_page" THEN 4 ELSE 1

----------------------------------------------------------------------------
VARIABLES
  root,     \* the table of gen_tbl()
  calls,    \* how often its builder was called
  nulls,    \* kNullBitMap of each table, as the set of its bits
  due,      \* the tables of which the built rows are still to be printed, in order
  outfiles, \* the tables whose outfile is open
  stored,   \* the lines in the file of each table
  printed,  \* the lines that were printed of each table
  line,     \* the last one: its text
  finished

fileVars == <<root, calls, nulls, due, outfiles, stored, printed, line, finished>>

FileInit ==
  /\ root \in Roots
  /\ calls = 0 /\ due = <<>> /\ outfiles = {} /\ finished = FALSE
  \* w_tdefs.h gives web_sales the map 1100, bits 2, 3, 6 and 10.
  /\ nulls = [t \in Family(root) \union {NullTable(root)} |->
                IF t = "web_sales" THEN {2, 3, 6, 10} ELSE {}]
  /\ stored = [t \in Family(root) |-> 0] /\ printed = stored
  /\ line = [table |-> None, text |-> <<>>]

(* Wrong variant of nullSet: a map without the mask.                       *)
nullSetUnmasked(t) == {{}} \union (IF Tdefs[t].nullPct > 0 THEN Drawn ELSE {})

nullSet(t) ==
  {{}} \union (IF Tdefs[t].nullPct > 0 THEN {map \ Tdefs[t].notNull : map \in Drawn} ELSE {})

nullCheck(column) == Bit(column) \in nulls[getTableFromColumn(column)]

\* The end of a revision, the day a shop or site closed, what an order in
\* the last days is shipped on; and the keys of what a web page has no
\* customer, a sale on its day no call center, page or site for.
NoDate == {4, 206, 262, 370, 450, 532, 755}
NoKey == {5, 57, 86, 263, 374, 394, 421, 422, 453}

print_separator(sep) == IF sep THEN <<"|">> ELSE <<>>

print_integer(column, sep) ==
  (IF nullCheck(column) THEN <<>> ELSE <<"text">>) \o print_separator(sep)

print_key(column, val, sep) ==
  IF val = -1 THEN print_separator(sep) ELSE print_integer(column, sep)

print_date(column, val, sep) ==
  IF val > 0 THEN print_integer(column, sep) ELSE print_separator(sep)

\* Those of the columns in gone have no value.
Field(column, gone, sep) ==
  CASE column \in NoDate -> print_date(column, IF column \in gone THEN -1 ELSE 1, sep)
    [] column \in NoKey -> print_key(column, IF column \in gone THEN -1 ELSE 1, sep)
    [] OTHER -> print_integer(column, sep)

\* TERMINATE is Y unless it is said to be N.
print_end == <<"|", "\n">>

PrintLine(columns, gone) ==
  FlattenSeq([i \in DOMAIN columns |-> Field(columns[i], gone, i < Len(columns))]) \o print_end

\* FIELDS TERMINATED BY '|', LINES TERMINATED BY '|\n'.
ReadLine(text) ==
  LET Bars == {i \in DOMAIN text : text[i] = "|"}
      end == CHOOSE i \in Bars : text[i + 1] = "\n"
      Number(bar) == Cardinality({i \in Bars : i <= bar})
  IN  [fields |-> Number(end), empty |-> {Number(i) : i \in {j \in Bars : j = 1 \/ text[j - 1] = "|"}}]

\* The tables of which one call of a builder prints rows, in order.  The
\* line items of an order are two here, each returned or not.
Batches(t) ==
  CASE Tdefs[t].child = None -> {<<t>>}
    [] t \in DOMAIN WarehouseTdefs /\ Tdefs[t].child # None -> {<<t>>, <<Tdefs[t].child, t>>}
    [] t \in DOMAIN RefreshTdefs /\ Tdefs[t].child # None ->
         LET item == Tdefs[t].child
             lines == {<<item>>, <<item, Tdefs[item].child>>}
         IN {first \o second \o <<t>> : first \in lines, second \in lines}

\* The maps of the rows of a batch are drawn when they are built; in the
\* warehouse, both rows of a returned line before either is printed.
CallBuilder ==
  /\ ~finished /\ due = <<>> /\ calls < MaxBuilt
  /\ calls' = calls + 1
  /\ \E batch \in Batches(root), map \in nullSet(NullTable(root)) :
     \E childs \in nullSet(Head(batch)) :
       /\ due' = batch
       /\ nulls' = [nulls EXCEPT ![Head(batch)] = childs, ![NullTable(root)] = map]
  /\ UNCHANGED <<root, outfiles, stored, printed, line, finished>>

\* The lines a file has after print_start(): fopen() for writing empties it.
Opened(t) == IF t \in outfiles THEN stored[t] ELSE 0

PrintRow ==
  /\ due # <<>>
  /\ LET t == Head(due) IN
     /\ stored' = [stored EXCEPT ![t] = Opened(t) + 1]
     /\ printed' = [printed EXCEPT ![t] = @ + 1]
     /\ outfiles' = outfiles \union {t}
     /\ \E gone \in {{}, NoDate \union NoKey} :
          line' = [table |-> t, text |-> PrintLine(Tdefs[t].line, gone)]
  /\ due' = Tail(due)
  /\ UNCHANGED <<root, calls, nulls, finished>>

\* print_close() follows the children of FL_PARENT tables.
print_close ==
  /\ due = <<>> /\ ~finished /\ finished' = TRUE
  /\ outfiles' = outfiles \ Family(root)
  /\ UNCHANGED <<root, calls, nulls, due, stored, printed, line>>

FileNext == CallBuilder \/ PrintRow \/ print_close

FileSpec == FileInit /\ [][FileNext]_fileVars

----------------------------------------------------------------------------
(* No line is lost: the files stay open from a table's first row to the    *)
(* end of its parent, so that none is opened for writing, and emptied,     *)
(* again.                                                                  *)
LinesKept == stored = printed

(* Every line is kept and is read back as as many fields as the statement  *)
(* that loads it by position names columns, and none of those that are NOT *)
(* NULL, nor the id of a copy of a dimension, is empty, whatever the null  *)
(* maps of this row, of the rows before and of the other table of a        *)
(* returned line, and whatever it has no value for: bit and position       *)
(* differ, columns are printed twice, out of order or as another table's,  *)
(* the last field may be empty, and no table's line is counted against its *)
(* mask.                                                                   *)
RowsLoad ==
  /\ LinesKept
  /\ line.table # None => LET row == ReadLine(line.text) IN
       /\ line.table \in DOMAIN Loaded =>
            /\ row.fields = Loaded[line.table].fields
            /\ row.empty \intersect Loaded[line.table].required = {}
       /\ line.table \in DOMAIN CopyTdefs =>
            /\ row.fields = Len(Tdefs[line.table].line)
            /\ IdField(line.table) \notin row.empty

=============================================================================
