------------------------------- MODULE RowDraws ------------------------------
(***************************************************************************)
(* dsdgen: the numbers a row costs.  Parallel generation moves a stream    *)
(* over rows that others build by nUsedPerRow numbers a row (streams.h),   *)
(* and row_stop() fills up to that many: a builder that draws more from a  *)
(* stream leaves it out of step with the processes that skip the row, and  *)
(* their parts of the table do not fit together.  ParallelGen assumes that *)
(* none does; here is what the builders draw, column by column: of the     *)
(* fact tables and their returns, of the other tables that are ever split, *)
(* of the dimensions, whose rows the validation mode skips, and of the     *)
(* tables of a refresh set.                                                *)
(*                                                                         *)
(* Left out: the streams of the item permutations, drawn from when a       *)
(* process builds its first order and never again, equally in all of them. *)
(***************************************************************************)
EXTENDS DimensionDraws, RefreshDraws

VARIABLES
  building, \* the table of which a row is being built, or "none"
  togo,     \* the line items still to build
  drawn     \* nUsed of the streams since the row began: a bag of columns

drawVars == <<building, togo, drawn>>

CatalogMaster(gift) ==
  Join2({"CS_SOLD_TIME_SK"})
    (+) Join1({"CS_CALL_CENTER_SK", "CS_BILL_CUSTOMER_SK", "CS_BILL_CDEMO_SK",
               "CS_BILL_HDEMO_SK", "CS_BILL_ADDR_SK"})
    (+) Take(1, {"CS_SHIP_CUSTOMER_SK", "CS_SOLD_ITEM_SK", "CS_ORDER_NUMBER"})
    (+) IF gift THEN Join1({"CS_SHIP_CUSTOMER_SK", "CS_SHIP_CDEMO_SK", "CS_SHIP_HDEMO_SK",
                            "CS_SHIP_ADDR_SK"})
        ELSE EmptyBag

CatalogDetail ==
  NullSet("CS_NULLS")
    (+) Join2({"CS_CATALOG_PAGE_SK"})
    (+) Join1({"CS_SHIP_MODE_SK", "CS_WAREHOUSE_SK", "CS_PROMO_SK"})
    (+) Take(1, {"CS_SHIP_DATE_SK", "CR_IS_RETURNED"})
    (+) SalesPricing("CS_PRICING")

CatalogReturn ==
  NullSet("CR_NULLS")
    (+) Join2({"CR_RETURNED_DATE_SK", "CR_RETURNED_TIME_SK"})
    (+) Join1({"CR_RETURNING_CUSTOMER_SK", "CR_RETURNING_CDEMO_SK", "CR_RETURNING_HDEMO_SK",
               "CR_RETURNING_ADDR_SK", "CR_SHIP_MODE_SK", "CR_WAREHOUSE_SK", "CR_REASON_SK"})
    (+) Take(1, {"CR_RETURNING_CUSTOMER_SK"})
    (+) ReturnsPricing("CR_PRICING")

StoreMaster ==
  Join2({"SS_SOLD_TIME_SK", "SS_SOLD_DATE_SK"})
    (+) Join1({"SS_SOLD_STORE_SK", "SS_SOLD_CUSTOMER_SK", "SS_SOLD_CDEMO_SK", "SS_SOLD_HDEMO_SK",
               "SS_SOLD_ADDR_SK"})
    (+) Take(1, {"SS_SOLD_ITEM_SK", "SS_TICKET_NUMBER"})

StoreDetail ==
  NullSet("SS_NULLS")
    (+) Join1({"SS_SOLD_PROMO_SK"}) (+) Take(1, {"SR_IS_RETURNED"})
    (+) SalesPricing("SS_PRICING")

StoreReturn ==
  NullSet("SR_NULLS")
    (+) Join2({"SR_RETURNED_DATE_SK"})
    (+) Join1({"SR_CUSTOMER_SK", "SR_CDEMO_SK", "SR_HDEMO_SK", "SR_ADDR_SK", "SR_STORE_SK",
               "SR_REASON_SK"})
    (+) Take(1, {"SR_TICKET_NUMBER", "SR_RETURNED_TIME_SK"})
    (+) ReturnsPricing("SR_PRICING")

WebMaster(gift) ==
  Join2({"WS_SOLD_DATE_SK", "WS_SOLD_TIME_SK"})
    (+) Join1({"WS_BILL_CUSTOMER_SK", "WS_BILL_CDEMO_SK", "WS_BILL_HDEMO_SK", "WS_BILL_ADDR_SK"})
    (+) Take(1, {"WS_SHIP_CUSTOMER_SK", "WS_ITEM_SK", "WS_ORDER_NUMBER"})
    (+) IF gift THEN Join1({"WS_SHIP_CUSTOMER_SK", "WS_SHIP_CDEMO_SK", "WS_SHIP_HDEMO_SK",
                            "WS_SHIP_ADDR_SK"})
        ELSE EmptyBag

WebDetail ==
  NullSet("WS_NULLS")
    (+) Join1({"WS_WEB_PAGE_SK", "WS_WEB_SITE_SK", "WS_SHIP_MODE_SK", "WS_WAREHOUSE_SK",
               "WS_PROMO_SK"})
    (+) Take(1, {"WS_SHIP_DATE_SK", "WR_IS_RETURNED"})
    (+) SalesPricing("WS_PRICING")

WebReturn ==
  NullSet("WR_NULLS")
    (+) Join2({"WR_RETURNED_DATE_SK", "WR_RETURNED_TIME_SK"})
    (+) Join1({"WR_REFUNDED_CUSTOMER_SK", "WR_REFUNDED_CDEMO_SK", "WR_REFUNDED_HDEMO_SK",
               "WR_REFUNDED_ADDR_SK", "WR_REASON_SK"})
    (+) Take(1, {"WR_RETURNING_CUSTOMER_SK"})
    (+) ReturnsPricing("WR_PRICING")

CustomerRow ==
  NullSet("C_NULLS") (+) Email("C_EMAIL_ADDRESS")
    (+) Join1({"C_CURRENT_HDEMO_SK", "C_CURRENT_CDEMO_SK", "C_CURRENT_ADDR_SK"})
    (+) Take(1, {"C_PREFERRED_CUST_FLAG", "C_FIRST_NAME", "C_LAST_NAME", "C_SALUTATION",
                 "C_BIRTH_DAY", "C_LAST_REVIEW_DATE", "C_FIRST_SALES_DATE_ID",
                 "C_BIRTH_COUNTRY"})

AddressRow == NullSet("CA_NULLS") (+) Take(1, {"CA_LOCATION_TYPE"}) (+) Address("CA_ADDRESS")

\* Everything but the nulls is computed from the number of the row.
DemographicsRow == NullSet("CD_NULLS")

InventoryRow == NullSet("INV_NULLS") (+) Take(1, {"INV_QUANTITY_ON_HAND"})

-----------------------------------------------------------------------------
(* nUsedPerRow of the streams of the tables a builder writes.  (Without    *)
(* those that no builder draws from.)                                      *)
CatalogAllowance ==
  Take(1, {"CS_BILL_CUSTOMER_SK", "CS_BILL_CDEMO_SK", "CS_BILL_HDEMO_SK", "CS_BILL_ADDR_SK",
           "CS_SHIP_CDEMO_SK", "CS_SHIP_HDEMO_SK", "CS_SHIP_ADDR_SK", "CS_CALL_CENTER_SK",
           "CS_SOLD_ITEM_SK", "CS_ORDER_NUMBER"})
    (+) Take(2, {"CS_SOLD_TIME_SK", "CS_SHIP_CUSTOMER_SK"})
    (+) Take(14, {"CS_SHIP_DATE_SK", "CS_SHIP_MODE_SK", "CS_WAREHOUSE_SK", "CS_PROMO_SK",
                  "CR_IS_RETURNED", "CR_RETURNING_CDEMO_SK", "CR_RETURNING_HDEMO_SK",
                  "CR_RETURNING_ADDR_SK", "CR_SHIP_MODE_SK", "CR_WAREHOUSE_SK", "CR_REASON_SK"})
    (+) Take(28, {"CS_NULLS", "CR_NULLS", "CR_RETURNED_DATE_SK", "CR_RETURNED_TIME_SK",
                  "CR_RETURNING_CUSTOMER_SK"})
    (+) Take(42, {"CS_CATALOG_PAGE_SK"}) (+) Take(70, {"CR_PRICING"}) (+) Take(112, {"CS_PRICING"})

StoreAllowance ==
  Take(1, {"SS_SOLD_ITEM_SK", "SS_SOLD_CUSTOMER_SK", "SS_SOLD_CDEMO_SK", "SS_SOLD_HDEMO_SK",
           "SS_SOLD_ADDR_SK", "SS_SOLD_STORE_SK", "SS_TICKET_NUMBER"})
    (+) Take(2, {"SS_SOLD_DATE_SK", "SS_SOLD_TIME_SK"})
    (+) Take(16, {"SS_SOLD_PROMO_SK", "SR_IS_RETURNED", "SR_CUSTOMER_SK", "SR_CDEMO_SK",
                  "SR_HDEMO_SK", "SR_ADDR_SK", "SR_STORE_SK", "SR_REASON_SK", "SR_TICKET_NUMBER"})
    (+) Take(32, {"SS_NULLS", "SR_NULLS", "SR_RETURNED_DATE_SK", "SR_RETURNED_TIME_SK"})
    (+) Take(80, {"SR_PRICING"}) (+) Take(128, {"SS_PRICING"})

WebAllowance ==
  Take(1, {"WS_ITEM_SK", "WS_BILL_CUSTOMER_SK", "WS_BILL_CDEMO_SK", "WS_BILL_HDEMO_SK",
           "WS_BILL_ADDR_SK", "WS_SHIP_HDEMO_SK", "WS_SHIP_ADDR_SK", "WS_ORDER_NUMBER"})
    (+) Take(2, {"WS_SOLD_DATE_SK", "WS_SOLD_TIME_SK", "WS_SHIP_CUSTOMER_SK", "WS_SHIP_CDEMO_SK"})
    (+) Take(16, {"WS_SHIP_DATE_SK", "WS_WEB_PAGE_SK", "WS_WEB_SITE_SK", "WS_SHIP_MODE_SK",
                  "WS_WAREHOUSE_SK", "WS_PROMO_SK", "WR_IS_RETURNED", "WR_REFUNDED_CUSTOMER_SK",
                  "WR_REFUNDED_CDEMO_SK", "WR_REFUNDED_HDEMO_SK", "WR_REFUNDED_ADDR_SK",
                  "WR_RETURNING_CUSTOMER_SK", "WR_REASON_SK"})
    (+) Take(32, {"WS_NULLS", "WR_NULLS", "WR_RETURNED_DATE_SK", "WR_RETURNED_TIME_SK"})
    (+) Take(80, {"WR_PRICING"}) (+) Take(128, {"WS_PRICING"})

CustomerAllowance ==
  Take(1, {"C_CURRENT_CDEMO_SK", "C_CURRENT_HDEMO_SK", "C_CURRENT_ADDR_SK",
           "C_FIRST_SALES_DATE_ID", "C_SALUTATION", "C_FIRST_NAME", "C_LAST_NAME",
           "C_BIRTH_DAY", "C_BIRTH_COUNTRY", "C_LAST_REVIEW_DATE"})
    (+) Take(2, {"C_PREFERRED_CUST_FLAG", "C_NULLS"}) (+) Take(23, {"C_EMAIL_ADDRESS"})

AddressAllowance ==
  Take(1, {"CA_LOCATION_TYPE"}) (+) Take(2, {"CA_NULLS"}) (+) Take(7, {"CA_ADDRESS"})

DemographicsAllowance == Take(2, {"CD_NULLS"})

InventoryAllowance == Take(1, {"INV_QUANTITY_ON_HAND"}) (+) Take(2, {"INV_NULLS"})

-----------------------------------------------------------------------------
Channels ==
  [catalog_sales |-> [master |-> {CatalogMaster(gift) : gift \in BOOLEAN}, items |-> 4 .. 14,
                      detail |-> CatalogDetail, return |-> CatalogReturn,
                      allowance |-> CatalogAllowance],
   store_sales   |-> [master |-> {StoreMaster}, items |-> 8 .. 16,
                      detail |-> StoreDetail, return |-> StoreReturn,
                      allowance |-> StoreAllowance],
   web_sales     |-> [master |-> {WebMaster(gift) : gift \in BOOLEAN}, items |-> 8 .. 16,
                      detail |-> WebDetail, return |-> WebReturn,
                      allowance |-> WebAllowance]]
    @@ RefreshOrders

\* The first four are the others that reach a million rows at some scale.
SingleRows ==
  [customer              |-> [row |-> CustomerRow, allowance |-> CustomerAllowance],
   customer_address      |-> [row |-> AddressRow, allowance |-> AddressAllowance],
   customer_demographics |-> [row |-> DemographicsRow, allowance |-> DemographicsAllowance],
   inventory             |-> [row |-> InventoryRow, allowance |-> InventoryAllowance]]
    @@ DimensionTables @@ RefreshRows

NoTableYet == "none"

DrawInit == building = NoTableYet /\ togo = 0 /\ drawn = EmptyBag

MakeRow ==
  /\ building = NoTableYet /\ building' \in DOMAIN SingleRows
  /\ drawn' = SingleRows[building'].row
  /\ UNCHANGED togo

(* Wrong variant of MakeMaster: one more time round the loop.              *)
MakeMasterOneMore ==
  /\ building = NoTableYet /\ building' \in DOMAIN Channels
  /\ drawn' \in Channels[building'].master
  /\ \E n \in Channels[building'].items : togo' = n + 1

(* mk_master(), and the number of line items.                              *)
MakeMaster ==
  /\ building = NoTableYet /\ building' \in DOMAIN Channels
  /\ drawn' \in Channels[building'].master
  /\ togo' \in Channels[building'].items

(* mk_detail(): a line item, and its return if it comes to one.            *)
MakeDetail ==
  /\ togo > 0 /\ togo' = togo - 1
  /\ \E returned \in {EmptyBag, Channels[building].return} :
       drawn' = drawn (+) Channels[building].detail (+) returned
  /\ UNCHANGED building

(* row_stop()                                                              *)
RowStop ==
  /\ building # NoTableYet /\ togo = 0
  /\ building' = NoTableYet /\ drawn' = EmptyBag
  /\ UNCHANGED togo

DrawNext == MakeRow \/ MakeMaster \/ MakeDetail \/ RowStop

DrawSpec == DrawInit /\ [][DrawNext]_drawVars

-----------------------------------------------------------------------------
Allowance ==
  IF building \in DOMAIN Channels THEN Channels[building].allowance
  ELSE SingleRows[building].allowance

(* Streams of which a row takes more than is allowed for, or that are not  *)
(* moved with the row: two texts of words so short as may come; the line   *)
(* items of s_catalog_order, allowed for one a row; the time of a return,  *)
(* two numbers, and the reason of one, chosen twice; the item's container, *)
(* from a stream of call_center; and the address of s_customer, from those *)
(* of customer_address.                                                    *)
Overdrawn ==
  {"CC_MARKET_DESC", "WEB_MARKET_CLASS",
   "S_CLIN_PROMOTION_ID", "S_CLIN_WAREHOUSE_ID", "S_CLIN_SHIP_DATE", "S_CLIN_IS_RETURNED",
   "S_CLIN_CATALOG_PAGE_ID", "S_CLIN_PRICING",
   "S_SRET_RETURN_TIME", "S_WRET_RETURN_TIME", "S_WRET_REASON_ID"}
    \union (IF building = "item" THEN {"CC_HOURS"} ELSE {})
    \union (IF building = "s_customer" THEN {"CA_NULLS", "CA_LOCATION_TYPE", "CA_ADDRESS"} ELSE {})

(* No row, however many line items and returns it comes to, takes more     *)
(* numbers from a stream than row_skip() allows for it, nor any from a     *)
(* stream of a table that is moved with other rows than these, but from    *)
(* the streams named above.                                                *)
SeedsSuffice ==
  building # NoTableYet =>
    \A c \in BagToSet(drawn) \ Overdrawn : CopiesIn(c, drawn) <= CopiesIn(c, Allowance)

(* What CHKSEEDS looks for is not there: no order with its line items and  *)
(* returns takes more numbers from a stream than it is allowed.            *)
OrdersWithinSeeds == building \in DOMAIN Channels => drawn \sqsubseteq Allowance

=============================================================================
