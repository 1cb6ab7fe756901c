--------------------------- MODULE MCParallelGen ---------------------------
(***************************************************************************)
(* A data set of four tables for ParallelGen: a small dimension (item)     *)
(* with a stream that duplicates one of the large dimension                *)
(* (customer_address), and sales with their returns (catalog_returns comes *)
(* before catalog_sales in the order of the tables, as in tables.h).       *)
(***************************************************************************)
EXTENDS ParallelGen, TLC

CONSTANTS ca_address, s_baddr, cs_order, cs_gift, cs_nulls, cr_nulls

MCStreams == {ca_address, s_baddr, cs_order, cs_gift, cs_nulls, cr_nulls}

\* 1 catalog_returns, 2 catalog_sales, 3 customer_address, 4 item
MCRowsIn == <<0, 6, 4, 2>>
MCChildOf == <<0, 1, 0, 0>>

MCStreamTable ==
  (ca_address :> 3) @@ (s_baddr :> 4) @@ (cs_order :> 2) @@ (cs_gift :> 2)
    @@ (cs_nulls :> 2) @@ (cr_nulls :> 1)
MCPerRow ==
  (ca_address :> 2) @@ (s_baddr :> 1) @@ (cs_order :> 1) @@ (cs_gift :> 2)
    @@ (cs_nulls :> 4) @@ (cr_nulls :> 4)
MCDuplicateOf ==
  (ca_address :> ca_address) @@ (s_baddr :> ca_address) @@ (cs_order :> cs_order)
    @@ (cs_gift :> cs_gift) @@ (cs_nulls :> cs_nulls) @@ (cr_nulls :> cr_nulls)

\* An order of one or two line items, some of them returned, sent as a gift or
\* not: what mk_w_catalog_sales() draws for it.
MCOrder(lines, returned, gift) ==
  (ca_address :> 0) @@ (s_baddr :> 0) @@ (cs_order :> 1) @@ (cs_gift :> gift)
    @@ (cs_nulls :> 2 * lines) @@ (cr_nulls :> 2 * returned)
MCAddress == [s \in MCStreams |-> IF s = ca_address THEN 2 ELSE 0]
MCItem == [s \in MCStreams |-> IF s = s_baddr THEN 1 ELSE 0]
MCDraws ==
  (2 :> {MCOrder(1, 0, 1), MCOrder(2, 1, 2)})
    @@ (3 :> {MCAddress}) @@ (4 :> {MCItem})

\* A day without sales first, and one in the middle.  Chunks of 6 rows begin at
\* rows 3, 4 and 5, and no day ends with one of them.
MCDayRows == [d \in 0 .. 5 |-> <<0, 1, 0, 4, 3, 4>>[d + 1]]
MCDayEnd == [d \in 0 .. 5 |-> <<1, 2, 2, 6, 9, 13>>[d + 1]]

\* Here day 3 ends with row 4, where the second of two chunks begins.
MCUnluckyDayRows == [d \in 0 .. 5 |-> <<0, 1, 0, 2, 5, 5>>[d + 1]]
MCUnluckyDayEnd == [d \in 0 .. 5 |-> <<1, 2, 2, 4, 9, 14>>[d + 1]]

ASSUME TwoGenerations /\ (DayEnd = MCDayEnd => NoDayEndsAtAChunk)

=============================================================================
