----------------------------- MODULE MCPipeline -----------------------------
(***************************************************************************)
(* Pipeline with three of the 25 tables: call_center comes before          *)
(* store_sales in both orders, web_sales after it.                         *)
(***************************************************************************)
EXTENDS Pipeline

CONSTANTS call_center, store_sales, web_sales

MCTables == {call_center, store_sales, web_sales}

MCOrder == <<call_center, store_sales, web_sales>>
=============================================================================
