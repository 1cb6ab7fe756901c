----------------------------- MODULE MCGenRand -----------------------------
(***************************************************************************)
(* GenRand with the modulus 127 = 5 * 25 + 2 and three streams, from seeds *)
(* that init_rand() makes negative, zero, small, and too large for an int. *)
(***************************************************************************)
EXTENDS GenRand

MCRngSeeds == {-128, -3, 0, 1, 43, 126, 127}

(* Draws, one after another.                                               *)
MCSerial ==
  [s \in InitialSeeds |->
     LET after[k \in 0 .. MaxDraws] == IF k = 0 THEN s ELSE NextRandom(after[k - 1])
     IN  after]
=============================================================================
