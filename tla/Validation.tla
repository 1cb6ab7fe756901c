------------------------------ MODULE Validation -----------------------------
(***************************************************************************)
(* dsdgen -validate: rows drawn at random, each built as though it had been *)
(* reached row by row (tools/validate.c, the vld_ functions of the tables   *)
(* and the branch of main() that calls them).  The builders keep memory     *)
(* from row to row (streams, the day of the catalog orders, the old values  *)
(* of a revision), so that what was validated before may show in the next.  *)
(* A number drawn is its position in its stream, which stands for its value.*)
(***************************************************************************)
EXTENDS Integers, Sequences, FiniteSets

CONSTANTS
  TableRows,   \* get_rowcount()
  OrdersOfDay, \* dateScaling(), the same for every day
  OrderLines,  \* the lines of an order of a refresh set, and the most of a sale
  LinesDrawn,  \* the lines of a sale, by the position of the number drawn
  ReturnedAt,  \* the positions that say a line is returned
  KeptAt,      \* the positions that keep the old value of a revision
  VCOUNT

ASSUME ValidationAssumption ==
  /\ {TableRows, OrdersOfDay, OrderLines} \subseteq Nat \ {0} /\ VCOUNT \in Nat
  /\ LinesDrawn \in [1 .. TableRows -> 1 .. OrderLines]

Sales == {"store", "catalog", "web"}
OrdersOfSet == {"s_purchase", "s_catalog_order", "s_web_order"}
Orders == Sales \union OrdersOfSet
ValidTables == {"generic", "history"} \union Orders

(* Numbers a row may draw from the streams of its table, of its lines and  *)
(* of their returns; those of s_catalog_order_lineitem are meant for one   *)
(* line, so that every order takes more.                                   *)
nUsedPerRow(t) ==
  [order |-> 1, line |-> IF t = "s_catalog_order" THEN 1 ELSE OrderLines,
   back |-> OrderLines]

(* A process that has built nothing: index is kNewDateIndex, 0 before the  *)
(* first order of the process.                                             *)
Untouched == [order |-> 0, line |-> 0, back |-> 0, day |-> 0, index |-> 0, item |-> 0, old |-> 0]

Skipped(t, m, orders, lines, backs) ==
  [m EXCEPT !.order = orders * nUsedPerRow(t).order, !.line = lines * nUsedPerRow(t).line,
            !.back = backs * nUsedPerRow(t).back]

(* row_skip() of a table, and of its children.                             *)
row_skips(t, m, n) == Skipped(t, m, n, IF t = "s_catalog_order" THEN n * OrderLines ELSE n, n)

\* row_stop() after a row that began at m0.
row_stopped(t, m0, m) ==
  LET Least(s) == LET least == m0[s] + nUsedPerRow(t)[s] IN IF m[s] < least THEN least ELSE m[s]
  IN  [m EXCEPT !.order = Least("order"), !.line = Least("line"), !.back = Least("back")]

-----------------------------------------------------------------------------
(* Builders, from memory to a row and memory.                              *)

\* setSCDKeys(): of every six rows, these are the first of an id.
FirstOfId(k) == k % 6 \in {1, 2, 4}

BuildDimension(t, m, k) ==
  LET draw == m.order + 1
      value == IF t = "generic" \/ FirstOfId(k) \/ draw \notin KeptAt THEN draw ELSE m.old
  IN  [row |-> [key |-> k, drawn |-> draw, value |-> value], m |-> [m EXCEPT !.order = draw, !.old = value]]

skipDays(m) == [m EXCEPT !.day = 0, !.index = OrdersOfDay + 1]

(* Only the day of a catalog order is that of the walk.  mk_master() of    *)
(* the stores has a kNewDateIndex of its own, which vld_w_store_sales()    *)
(* does not set.                                                           *)
Walked(m, k) ==
  LET begun == IF m.index = 0 THEN skipDays(m) ELSE m
      days == IF k > begun.index THEN (k - begun.index + OrdersOfDay - 1) \div OrdersOfDay ELSE 0
  IN  [begun EXCEPT !.day = @ + days, !.index = @ + days * OrdersOfDay]

mk_master(t, m, k) ==
  LET walked == IF t \in Sales THEN Walked(m, k) ELSE m
      draw == m.order + 1
  IN  [walked EXCEPT !.order = draw, !.item = draw]

(* mk_detail() and the return, as often as there are lines: each takes the *)
(* next item and a number, and a number of its returns' when it has one.   *)
LinesBuilt(m, n) ==
  LET last == m.line + n
  IN  [m EXCEPT !.line = last, !.item = @ + n,
                !.back = @ + Cardinality((m.line + 1 .. last) \intersect ReturnedAt)]

PrintedLine(t, k, m) ==
  [order |-> k, drawn |-> m.order, day |-> IF t = "catalog" THEN m.day ELSE 0, item |-> m.item,
   line |-> m.line, back |-> IF m.line \in ReturnedAt THEN m.back ELSE 0]

nLineitems(t, k, m) == IF t \in Sales THEN LinesDrawn[m.order] ELSE OrderLines

-----------------------------------------------------------------------------
VARIABLES
  vtable,    \* the table
  vleft,     \* kValidateCount: the rows still to validate, -1 before
  memory,    \* of the builders
  asBuilt,   \* the rows a serial build has written, and the lines of orders
  validated  \* the last row validated, which row it is, and the number printed with it

validVars == <<vtable, vleft, memory, asBuilt, validated>>

ValidInit ==
  vtable \in ValidTables /\ vleft = -1 /\ memory = Untouched /\ asBuilt = <<>> /\ validated = <<>>

(* gen_tbl() of the whole table.                                           *)
BuildAnother ==
  /\ vleft = -1 /\ Len(asBuilt) < TableRows
  /\ LET k == Len(asBuilt) + 1
     IN  IF vtable \notin Orders
         THEN LET b == BuildDimension(vtable, memory, k)
              IN  asBuilt' = Append(asBuilt, b.row) /\ memory' = row_stopped(vtable, memory, b.m)
         ELSE LET m == mk_master(vtable, memory, k)
                  n == nLineitems(vtable, k, m)
              IN  /\ asBuilt' = Append(asBuilt, [i \in 1 .. n |-> PrintedLine(vtable, k, LinesBuilt(m, i))])
                  /\ memory' = row_stopped(vtable, memory, LinesBuilt(m, n))
  /\ UNCHANGED <<vtable, vleft, validated>>

(* main() of another process with the same seed.                           *)
BeginValidation ==
  /\ vleft = -1 /\ Len(asBuilt) = TableRows
  /\ vleft' = IF VCOUNT > TableRows THEN TableRows ELSE VCOUNT
  /\ memory' = Untouched /\ UNCHANGED <<vtable, asBuilt, validated>>

(* Wrong variant of validateSCD: the row is built at once.                 *)
validateSCDAtOnce(m, k) == BuildDimension("history", row_skips("history", m, k - 1), k)

(* validateSCD(): back to the first row of the id, and from there forward. *)
validateSCD(m, k) ==
  LET First(j) == FirstOfId(j) \/ j = 1
      Build(before, j) == BuildDimension("history", row_skips("history", before, j - 1), j)
  IN  IF First(k) THEN Build(m, k)
      ELSE IF First(k - 1) THEN Build(Build(m, k - 1).m, k)
      ELSE Build(Build(Build(m, k - 2).m, k - 1).m, k)

validateGeneric(m, k) == BuildDimension("generic", row_skips("generic", m, k - 1), k)

(* The vld_ functions of orders before they build lines: the walk over the *)
(* days begins again.                                                      *)
vld_master(t, m, k) ==
  LET skipped == row_skips(t, m, k - 1)
      restarted == CASE t \in {"catalog", "web"} -> skipDays(skipped)
                     [] t = "store" -> [skipped EXCEPT !.day = 0]
                     [] OTHER -> skipped
  IN  mk_master(t, restarted, k)

(* A random number, brought into the range by its remainder.               *)
genrand_key(min, max) == {min + (drawn % (max - min + 1)) : drawn \in 0 .. 2 * max}

(* genrand_key(), validate() and the printed row: of an order one line,    *)
(* drawn from a stream no builder draws from.                              *)
ValidateRow ==
  /\ vleft > 0 /\ vleft' = vleft - 1
  /\ \E k \in genrand_key(1, TableRows) :
       \/ /\ vtable \notin Orders
          /\ LET b == IF vtable = "history" THEN validateSCD(memory, k) ELSE validateGeneric(memory, k)
             IN  validated' = [key |-> k, line |-> 0, number |-> k, row |-> b.row] /\ memory' = b.m
       \/ /\ vtable \in Orders
          /\ LET m == vld_master(vtable, memory, k) IN
             \E nLineitem \in 1 .. nLineitems(vtable, k, m) :
               LET last == LinesBuilt(m, nLineitem)
               IN  /\ validated' = [key |-> k, line |-> nLineitem, row |-> PrintedLine(vtable, k, last),
                                    number |-> (k - 1) * OrderLines + nLineitem]
                   /\ memory' = last
  /\ UNCHANGED <<vtable, asBuilt>>

ValidNext == BuildAnother \/ BeginValidation \/ ValidateRow

ValidSpec == ValidInit /\ [][ValidNext]_validVars

-----------------------------------------------------------------------------
LinesBefore(k) == Cardinality({p \in (1 .. k - 1) \X (1 .. OrderLines) : p[2] <= Len(asBuilt[p[1]])})

(* Whatever rows were validated before, a row is printed as a serial build *)
(* writes it: with its numbers from the streams, the day of its order and  *)
(* the values it keeps of earlier revisions; the number printed with a     *)
(* line of a refresh set is its place among the lines.                     *)
ValidatedAsBuilt ==
  validated # <<>> =>
    LET k == validated.key
        line == validated.line
    IN  /\ vtable \notin Orders => validated.row = asBuilt[k]
        /\ vtable \in Orders => line \in DOMAIN asBuilt[k] /\ validated.row = asBuilt[k][line]
        /\ vtable \in OrdersOfSet => validated.number = LinesBefore(k) + line

=============================================================================
