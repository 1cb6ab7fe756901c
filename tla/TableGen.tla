------------------------------ MODULE TableGen ------------------------------
(***************************************************************************)
(* What a build of the data set promises, however many processes it is     *)
(* made of: every row of every table to be built appears, once, and is the *)
(* row that one process building the table from its first row to its last  *)
(* would have built.  The order in which rows appear is left open.         *)
(***************************************************************************)

CONSTANT SerialRows   \* the rows of a serial build of all tables

VARIABLES
  wanted,             \* the tables to build (-table names one of them)
  built               \* the rows built so far

vars == <<wanted, built>>

Missing == {r \in SerialRows : r.tbl \in wanted} \ built

Init == built = {}

Build == /\ \E r \in Missing : built' = built \union {r}
         /\ UNCHANGED wanted

Spec == Init /\ [][Build]_vars

(* And the build gets done.                                                *)
Completes == <>(Missing = {})

=============================================================================
