---------------------------- MODULE DimensionDraws ----------------------------
(***************************************************************************)
(* dsdgen: the random numbers of a row of each dimension, at most, and     *)
(* what streams.h allows for it.  (A dimension with history draws for all  *)
(* columns on every row, whether it keeps the old value or not.)           *)
(***************************************************************************)
EXTENDS Draws

CallCenterRow ==
  NullSet("CC_NULLS") (+) Address("CC_ADDRESS")
    (+) Text(50, "CC_MARKET_CLASS") (+) Text(100, "CC_MARKET_DESC")
    (+) Take(2, {"CC_MANAGER", "CC_MARKET_MANAGER", "CC_COMPANY"})
    (+) Take(1, {"CC_OPEN_DATE_ID", "CC_SCD", "CC_CLASS", "CC_EMPLOYEES", "CC_SQ_FT", "CC_HOURS",
                 "CC_MARKET_ID", "CC_TAX_PERCENTAGE"})

CallCenterAllowance ==
  Take(1, {"CC_EMPLOYEES", "CC_SQ_FT", "CC_HOURS", "CC_MARKET_ID", "CC_TAX_PERCENTAGE", "CC_SCD"})
    (+) Take(2, {"CC_CLASS", "CC_MANAGER", "CC_MARKET_MANAGER", "CC_COMPANY", "CC_NULLS"})
    (+) Take(10, {"CC_OPEN_DATE_ID"}) (+) Take(15, {"CC_ADDRESS"})
    (+) Take(50, {"CC_MARKET_CLASS", "CC_MARKET_DESC"})

CatalogPageRow == NullSet("CP_NULLS") (+) Text(99, "CP_DESCRIPTION")

CatalogPageAllowance == Take(2, {"CP_NULLS"}) (+) Take(100, {"CP_DESCRIPTION"})

(* The container is drawn from stream number ITEM, a table: it is the one  *)
(* of a column of call_center.                                             *)
ItemRow ==
  NullSet("I_NULLS") (+) Text(200, "I_ITEM_DESC") (+) Take(1, {"CC_HOURS"})
    (+) Charset(20, "I_FORMULATION") (+) Take(2, {"I_FORMULATION"})
    (+) Take(2, {"I_MANAGER_ID", "I_CURRENT_PRICE", "I_MANUFACT_ID", "I_PROMO_SK"})
    (+) Take(1, {"I_SCD", "I_WHOLESALE_COST", "I_CATEGORY", "I_CLASS", "I_SIZE", "I_COLOR",
                 "I_UNITS"})

ItemAllowance ==
  Take(1, {"I_SCD", "I_WHOLESALE_COST", "I_CATEGORY", "I_CLASS", "I_SIZE", "I_COLOR", "I_UNITS"})
    (+) Take(2, {"I_CURRENT_PRICE", "I_MANUFACT_ID", "I_MANAGER_ID", "I_NULLS", "I_PROMO_SK"})
    (+) Take(50, {"I_FORMULATION"}) (+) Take(200, {"I_ITEM_DESC"})

PromotionRow ==
  NullSet("P_NULLS") (+) Text(60, "P_CHANNEL_DETAILS")
    (+) Take(1, {"P_START_DATE_ID", "P_END_DATE_ID", "P_CHANNEL_DMAIL", "P_PURPOSE"})
    (+) Join1({"P_ITEM_SK"})

PromotionAllowance ==
  Take(1, {"P_START_DATE_ID", "P_END_DATE_ID", "P_CHANNEL_DMAIL", "P_PURPOSE", "P_ITEM_SK"})
    (+) Take(2, {"P_NULLS"}) (+) Take(100, {"P_CHANNEL_DETAILS"})

ShipModeRow == NullSet("SM_NULLS") (+) Charset(20, "SM_CONTRACT")

ShipModeAllowance == Take(2, {"SM_NULLS"}) (+) Take(21, {"SM_CONTRACT"})

StoreRow ==
  NullSet("W_STORE_NULLS") (+) Address("W_STORE_ADDRESS") (+) Text(100, "W_STORE_MARKET_DESC")
    (+) Take(2, {"W_STORE_CLOSED_DATE_ID", "W_STORE_MANAGER", "W_STORE_MARKET_MANAGER"})
    (+) Take(1, {"W_STORE_SCD", "W_STORE_TYPE", "W_STORE_EMPLOYEES", "W_STORE_FLOOR_SPACE",
                 "W_STORE_HOURS", "W_STORE_MARKET_ID", "W_STORE_TAX_PERCENTAGE",
                 "W_STORE_GEOGRAPHY_CLASS", "W_STORE_DIVISION_NAME", "W_STORE_COMPANY_NAME"})

StoreRowAllowance ==
  Take(1, {"W_STORE_SCD", "W_STORE_TYPE", "W_STORE_EMPLOYEES", "W_STORE_FLOOR_SPACE",
           "W_STORE_HOURS", "W_STORE_MARKET_ID", "W_STORE_TAX_PERCENTAGE",
           "W_STORE_GEOGRAPHY_CLASS", "W_STORE_DIVISION_NAME", "W_STORE_COMPANY_NAME"})
    (+) Take(2, {"W_STORE_CLOSED_DATE_ID", "W_STORE_MANAGER", "W_STORE_MARKET_MANAGER",
                 "W_STORE_NULLS"})
    (+) Take(7, {"W_STORE_ADDRESS"}) (+) Take(100, {"W_STORE_MARKET_DESC"})

WarehouseRow ==
  NullSet("W_NULLS") (+) Address("W_WAREHOUSE_ADDRESS") (+) Text(20, "W_WAREHOUSE_NAME")
    (+) Take(1, {"W_WAREHOUSE_SQ_FT"})

WarehouseAllowance ==
  Take(1, {"W_WAREHOUSE_SQ_FT"}) (+) Take(2, {"W_NULLS"})
    (+) Take(7, {"W_WAREHOUSE_ADDRESS"}) (+) Take(80, {"W_WAREHOUSE_NAME"})

WebPageRow ==
  NullSet("WP_NULLS") (+) Join2({"WP_CREATION_DATE_SK"}) (+) Join1({"WP_CUSTOMER_SK"})
    (+) Take(1, {"WP_SCD", "WP_ACCESS_DATE_SK", "WP_AUTOGEN_FLAG", "WP_TYPE", "WP_LINK_COUNT",
                 "WP_IMAGE_COUNT", "WP_MAX_AD_COUNT", "WP_CHAR_COUNT"})

WebPageAllowance ==
  Take(1, {"WP_SCD", "WP_ACCESS_DATE_SK", "WP_AUTOGEN_FLAG", "WP_TYPE", "WP_LINK_COUNT",
           "WP_IMAGE_COUNT", "WP_MAX_AD_COUNT", "WP_CHAR_COUNT", "WP_CUSTOMER_SK"})
    (+) Take(2, {"WP_CREATION_DATE_SK", "WP_NULLS"})

WebSiteRow ==
  NullSet("WEB_NULLS") (+) Address("WEB_ADDRESS")
    (+) Text(50, "WEB_MARKET_CLASS") (+) Text(100, "WEB_MARKET_DESC")
    (+) Take(2, {"WEB_MANAGER", "WEB_MARKET_MANAGER"})
    (+) Join1({"WEB_OPEN_DATE", "WEB_CLOSE_DATE"})
    (+) Take(1, {"WEB_SCD", "WEB_MARKET_ID", "WEB_COMPANY_ID", "WEB_TAX_PERCENTAGE"})

WebSiteAllowance ==
  Take(1, {"WEB_OPEN_DATE", "WEB_CLOSE_DATE", "WEB_MARKET_ID", "WEB_COMPANY_ID",
           "WEB_TAX_PERCENTAGE"})
    (+) Take(2, {"WEB_MANAGER", "WEB_MARKET_MANAGER", "WEB_NULLS"})
    (+) Take(7, {"WEB_ADDRESS"}) (+) Take(20, {"WEB_MARKET_CLASS"}) (+) Take(70, {"WEB_SCD"})
    (+) Take(100, {"WEB_MARKET_DESC"})

\* Of these everything but the nulls is computed from the number of the row.
DateDimRow == NullSet("D_NULLS")
HouseholdRow == NullSet("HD_NULLS")
IncomeBandRow == NullSet("IB_NULLS")
ReasonRow == NullSet("R_NULLS")
TimeRow == NullSet("T_NULLS")

DateDimAllowance == Take(2, {"D_NULLS"})
HouseholdAllowance == Take(2, {"HD_NULLS"})
IncomeBandAllowance == Take(2, {"IB_NULLS"})
ReasonAllowance == Take(2, {"R_NULLS"})
TimeAllowance == Take(2, {"T_NULLS"})

DimensionTables ==
  [call_center  |-> [row |-> CallCenterRow, allowance |-> CallCenterAllowance],
   catalog_page |-> [row |-> CatalogPageRow, allowance |-> CatalogPageAllowance],
   item         |-> [row |-> ItemRow, allowance |-> ItemAllowance],
   promotion    |-> [row |-> PromotionRow, allowance |-> PromotionAllowance],
   ship_mode    |-> [row |-> ShipModeRow, allowance |-> ShipModeAllowance],
   store        |-> [row |-> StoreRow, allowance |-> StoreRowAllowance],
   warehouse    |-> [row |-> WarehouseRow, allowance |-> WarehouseAllowance],
   web_page     |-> [row |-> WebPageRow, allowance |-> WebPageAllowance],
   web_site     |-> [row |-> WebSiteRow, allowance |-> WebSiteAllowance],
   date_dim     |-> [row |-> DateDimRow, allowance |-> DateDimAllowance],
   household_demographics |-> [row |-> HouseholdRow, allowance |-> HouseholdAllowance],
   income_band  |-> [row |-> IncomeBandRow, allowance |-> IncomeBandAllowance],
   reason       |-> [row |-> ReasonRow, allowance |-> ReasonAllowance],
   time_dim     |-> [row |-> TimeRow, allowance |-> TimeAllowance]]

=============================================================================
