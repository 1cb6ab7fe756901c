----------------------------- MODULE SplitWork -----------------------------
(***************************************************************************)
(* How dsdgen divides the rows of a table between the processes of a       *)
(* parallel build: split_work() of tools/parallel.c.  Process c of p is    *)
(* started with PARALLEL = p and CHILD = c, and computes on its own which  *)
(* rows are its to build; the processes never talk to one another.         *)
(***************************************************************************)
EXTENDS Integers

CONSTANT SmallTable   \* 1000000: a table with fewer rows is not parallelised

ASSUME SmallTableAssumption == SmallTable \in Nat

Unset == 0            \* PARALLEL was not given on the command line

(* Both early returns of split_work: the table is small, or PARALLEL is    *)
(* not set.                                                                *)
IsSplit(n, p) == n >= SmallTable /\ p # Unset

RowsetSize(n, p) == (n - (n % p)) \div p

ExtraRows(n, p) == n % p

(* Variants of FirstRow and RowCount that are wrong: the extra rows of the *)
(* earlier children forgotten, the extra row of this child forgotten.      *)
FirstRowNoExtras(n, p, c) ==
  IF IsSplit(n, p) THEN 1 + (c - 1) * RowsetSize(n, p) ELSE 1

RowCountNoExtras(n, p, c) ==
  IF IsSplit(n, p) THEN RowsetSize(n, p)
  ELSE IF n < SmallTable /\ c > 1 THEN 0 ELSE n

(* *pkFirstRow and *pkRowCount for child c of p, of a table of n rows.     *)
FirstRow(n, p, c) ==
  IF IsSplit(n, p)
  THEN 1 + (c - 1) * RowsetSize(n, p)
         + (IF c - 1 < ExtraRows(n, p) THEN c - 1 ELSE ExtraRows(n, p))
  ELSE 1

RowCount(n, p, c) ==
  IF IsSplit(n, p)
  THEN RowsetSize(n, p) + (IF c <= ExtraRows(n, p) THEN 1 ELSE 0)
  ELSE IF n < SmallTable /\ c > 1 THEN 0 ELSE n

Chunk(n, p, c) == FirstRow(n, p, c) .. FirstRow(n, p, c) + RowCount(n, p, c) - 1

(* The processes a build consists of: validate_options() wants PARALLEL    *)
(* to be at least 2 and CHILD at least 1.                                  *)
Children(p) == IF p = Unset THEN {1} ELSE 1 .. p

=============================================================================
