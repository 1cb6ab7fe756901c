-------------------------- MODULE MCParallelUpdate --------------------------
(***************************************************************************)
(* An update set for ParallelGen: s_purchase, whose builder also writes    *)
(* s_purchase_lineitem, whose rows bring with them s_store_returns.        *)
(***************************************************************************)
EXTENDS ParallelGen, TLC

CONSTANTS s_purchase_clerk, s_pline_nulls, s_sret_return_date

MCStreams == {s_purchase_clerk, s_pline_nulls, s_sret_return_date}

\* 1 s_purchase, 2 s_purchase_lineitem, 3 s_store_returns
MCRowsIn == <<4, 0, 0>>
MCChildOf == <<2, 3, 0>>

MCStreamTable == (s_purchase_clerk :> 1) @@ (s_pline_nulls :> 2) @@ (s_sret_return_date :> 3)
MCPerRow == (s_purchase_clerk :> 1) @@ (s_pline_nulls :> 2) @@ (s_sret_return_date :> 2)
MCDuplicateOf == [s \in MCStreams |-> s]
MCPurchase(returned) ==
  (s_purchase_clerk :> 1) @@ (s_pline_nulls :> 2) @@ (s_sret_return_date :> returned)
MCDraws == 1 :> {MCPurchase(0), MCPurchase(1), MCPurchase(2)}

\* Update sets take their dates from getUpdateDate(): no table walks.
MCDayRows == [d \in 0 .. 0 |-> 0]
MCDayEnd == [d \in 0 .. 0 |-> 1]
=============================================================================
