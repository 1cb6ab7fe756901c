---------------------------- MODULE MCIndexSetup ----------------------------
(***************************************************************************)
(* IndexSetup with seven indexes.                                          *)
(***************************************************************************)
EXTENDS IndexSetup

CONSTANTS u1, u2, w1, w2, k1, k2, c1

\* As in sql/: an index of 05, a later one, two kept ones, one only sql/15 has.
MCFullFile == <<u1, w1, k1, k2, u2, w2, c1>>
MCKeptFile == <<k1, k2>>
MCUnusedFile == <<u1, w1, w2, u2>>
MCUnrefFile == <<u1, u2>>

=============================================================================
