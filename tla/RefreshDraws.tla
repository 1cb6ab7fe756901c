---------------------------- MODULE RefreshDraws ----------------------------
(***************************************************************************)
(* dsdgen -UPDATE: the random numbers of a row of each table of a refresh  *)
(* set, and what streams.h allows for it.  An order has a fixed number of  *)
(* line items, and the streams of the three tables of a family are moved   *)
(* with its orders.                                                        *)
(***************************************************************************)
EXTENDS Draws

CatalogOrder(gift) ==
  Join1({"S_CORD_BILL_CUSTOMER_ID", "S_CORD_SHIP_MODE_ID"})
    (+) Take(1, {"S_CORD_ORDER_TIME", "S_CORD_SHIP_CUSTOMER_ID", "S_CLIN_ITEM_ID"})
    (+) Text(100, "S_CORD_COMMENT")
    (+) IF gift THEN Join1({"S_CORD_SHIP_CUSTOMER_ID"}) ELSE EmptyBag

CatalogLine ==
  Join1({"S_CLIN_PROMOTION_ID", "S_CLIN_WAREHOUSE_ID"}) (+) Join2({"S_CLIN_CATALOG_PAGE_ID"})
    (+) Take(1, {"S_CLIN_SHIP_DATE", "S_CLIN_IS_RETURNED"}) (+) SalesPricing("S_CLIN_PRICING")

CatalogLineReturn ==
  Join2({"S_CRET_TIME"}) (+) Take(1, {"S_CRET_DATE"})
    (+) Join1({"S_CRET_CALL_CENTER_ID", "S_CRET_REASON_ID", "S_CRET_SHIPMODE_ID",
               "S_CRET_WAREHOUSE_ID"})
    (+) RefreshReturnsPricing("S_CRET_PRICING")

CatalogOrderAllowance ==
  Take(1, {"S_CORD_BILL_CUSTOMER_ID", "S_CORD_ORDER_TIME", "S_CORD_SHIP_MODE_ID", "S_CLIN_ITEM_ID",
           "S_CLIN_PROMOTION_ID", "S_CLIN_WAREHOUSE_ID", "S_CLIN_SHIP_DATE",
           "S_CLIN_IS_RETURNED"})
    (+) Take(2, {"S_CORD_SHIP_CUSTOMER_ID", "S_CLIN_CATALOG_PAGE_ID"})
    (+) Take(8, {"S_CLIN_PRICING"})
    (+) Take(9, {"S_CRET_CALL_CENTER_ID", "S_CRET_DATE", "S_CRET_REASON_ID",
                 "S_CRET_SHIPMODE_ID", "S_CRET_WAREHOUSE_ID"})
    (+) Take(18, {"S_CRET_TIME"}) (+) Take(72, {"S_CRET_PRICING"})
    (+) Take(100, {"S_CORD_COMMENT"})

WebOrder(gift) ==
  Join1({"S_WORD_BILL_CUSTOMER_ID", "S_WORD_SHIP_MODE_ID", "S_WORD_WEB_SITE_ID"})
    (+) Take(1, {"S_WORD_ORDER_TIME", "S_WORD_SHIP_CUSTOMER_ID", "S_WLIN_ITEM_ID"})
    (+) Text(100, "S_WORD_COMMENT")
    (+) IF gift THEN Join1({"S_WORD_SHIP_CUSTOMER_ID"}) ELSE EmptyBag

WebLine ==
  Join1({"S_WLIN_PROMOTION_ID", "S_WLIN_WAREHOUSE_ID", "S_WLIN_WEB_PAGE_ID"})
    (+) Take(1, {"S_WLIN_SHIP_DATE", "S_WLIN_IS_RETURNED"}) (+) SalesPricing("S_WLIN_PRICING")

\* The reason is chosen twice.
WebLineReturn ==
  Join2({"S_WRET_RETURN_TIME"}) (+) Take(1, {"S_WRET_RETURN_DATE"})
    (+) Join1({"S_WRET_REASON_ID"}) (+) Join1({"S_WRET_REASON_ID"})
    (+) RefreshReturnsPricing("S_WRET_PRICING")

WebOrderAllowance ==
  Take(1, {"S_WORD_BILL_CUSTOMER_ID", "S_WORD_ORDER_TIME", "S_WORD_SHIP_MODE_ID",
           "S_WORD_WEB_SITE_ID", "S_WLIN_ITEM_ID"})
    (+) Take(2, {"S_WORD_SHIP_CUSTOMER_ID"})
    (+) Take(12, {"S_WLIN_PROMOTION_ID", "S_WLIN_WAREHOUSE_ID", "S_WLIN_SHIP_DATE",
                  "S_WLIN_WEB_PAGE_ID", "S_WLIN_IS_RETURNED", "S_WRET_RETURN_TIME",
                  "S_WRET_REASON_ID"})
    (+) Take(24, {"S_WRET_RETURN_DATE"}) (+) Take(84, {"S_WRET_PRICING"})
    (+) Take(96, {"S_WLIN_PRICING"}) (+) Take(100, {"S_WORD_COMMENT"})

Purchase ==
  Join1({"S_PURCHASE_STORE_ID", "S_PURCHASE_CUSTOMER_ID"})
    (+) Take(1, {"S_PURCHASE_REGISTER", "S_PURCHASE_CLERK", "S_PLINE_ITEM_ID"})
    (+) Text(100, "S_PURCHASE_COMMENT")

PurchaseLine ==
  Join1({"S_PLINE_PROMOTION_ID"}) (+) Take(1, {"S_PLINE_QUANTITY", "S_PLINE_IS_RETURNED"})
    (+) SalesPricing("S_PLINE_PRICING") (+) Text(100, "S_PLINE_COMMENT")

PurchaseReturn ==
  Join2({"S_SRET_RETURN_TIME"}) (+) Join1({"S_SRET_REASON_ID"})
    (+) Take(1, {"S_SRET_RETURN_DATE"}) (+) RefreshReturnsPricing("S_SRET_PRICING")

PurchaseAllowance ==
  Take(1, {"S_PURCHASE_STORE_ID", "S_PURCHASE_CUSTOMER_ID", "S_PURCHASE_REGISTER",
           "S_PURCHASE_CLERK", "S_PLINE_ITEM_ID"})
    (+) Take(12, {"S_PLINE_PROMOTION_ID", "S_PLINE_QUANTITY", "S_PLINE_IS_RETURNED",
                  "S_SRET_RETURN_TIME", "S_SRET_REASON_ID"})
    (+) Take(24, {"S_SRET_RETURN_DATE"}) (+) Take(84, {"S_SRET_PRICING"})
    (+) Take(96, {"S_PLINE_PRICING"}) (+) Take(100, {"S_PURCHASE_COMMENT"})
    (+) Take(1200, {"S_PLINE_COMMENT"})

RefreshOrders ==
  [s_catalog_order |-> [master |-> {CatalogOrder(gift) : gift \in BOOLEAN}, items |-> {9},
                        detail |-> CatalogLine, return |-> CatalogLineReturn,
                        allowance |-> CatalogOrderAllowance],
   s_web_order     |-> [master |-> {WebOrder(gift) : gift \in BOOLEAN}, items |-> {12},
                        detail |-> WebLine, return |-> WebLineReturn,
                        allowance |-> WebOrderAllowance],
   s_purchase      |-> [master |-> {Purchase}, items |-> {12},
                        detail |-> PurchaseLine, return |-> PurchaseReturn,
                        allowance |-> PurchaseAllowance]]

(* The customer, and the address that mk_w_customer_address() makes for it *)
(* from the streams of customer_address.                                   *)
RefreshCustomerRow ==
  Email("S_CUST_EMAIL") (+) Charset(13, "S_CUST_LOGIN")
    (+) Take(4, {"S_CUST_PRIMARY_MACHINE", "S_CUST_SECONDARY_MACHINE"})
    (+) Join1({"S_CUST_GENDER"})
    (+) Take(1, {"S_CUST_FIRST_NAME", "S_CUST_SALUTATION", "S_CUST_LAST_NAME",
                 "S_CUST_PREFERRED_FLAG", "S_CUST_BIRTH_DATE", "S_CUST_FIRST_PURCHASE_DATE",
                 "S_CUST_FIRST_SHIPTO_DATE", "S_CUST_LAST_LOGIN", "S_CUST_LAST_REVIEW",
                 "S_CUST_LOCATION_TYPE", "S_CUST_VEHICLE_CNT", "S_CUST_INCOME",
                 "S_CUST_PURCHASE_ESTIMATE"})
    (+) NullSet("CA_NULLS") (+) Take(1, {"CA_LOCATION_TYPE"}) (+) Address("CA_ADDRESS")

RefreshCustomerAllowance ==
  Take(1, {"S_CUST_GENDER", "S_CUST_FIRST_NAME", "S_CUST_SALUTATION", "S_CUST_LAST_NAME",
           "S_CUST_PREFERRED_FLAG", "S_CUST_BIRTH_DATE", "S_CUST_FIRST_PURCHASE_DATE",
           "S_CUST_FIRST_SHIPTO_DATE", "S_CUST_LAST_LOGIN", "S_CUST_LAST_REVIEW",
           "S_CUST_LOCATION_TYPE", "S_CUST_VEHICLE_CNT", "S_CUST_INCOME",
           "S_CUST_PURCHASE_ESTIMATE"})
    (+) Take(4, {"S_CUST_PRIMARY_MACHINE", "S_CUST_SECONDARY_MACHINE"})
    (+) Take(23, {"S_CUST_EMAIL"}) (+) Take(25, {"S_CUST_LOGIN"})

RefreshInventoryRow == Take(1, {"S_INVN_QUANTITY"})

RefreshInventoryAllowance == Take(1, {"S_INVN_QUANTITY"})

RefreshRows ==
  [s_customer  |-> [row |-> RefreshCustomerRow, allowance |-> RefreshCustomerAllowance],
   s_inventory |-> [row |-> RefreshInventoryRow, allowance |-> RefreshInventoryAllowance]]

=============================================================================
