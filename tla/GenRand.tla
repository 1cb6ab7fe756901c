------------------------------ MODULE GenRand ------------------------------
(***************************************************************************)
(* dsdgen: one random stream of genrand.c.  A builder draws its numbers    *)
(* one by one with next_random(); row_skip() moves it with skip_random()   *)
(* to where any number of draws would leave it.  ParallelGen takes a       *)
(* stream to be the count of its draws: this module says that a stream     *)
(* that was skipped goes on as one that was drawn from.                    *)
(***************************************************************************)
EXTENDS Integers

CONSTANTS
  MaxInt,     \* MAXINT, the modulus
  Mult,       \* the multiplier
  nQ, nR,     \* quotient and remainder of MAXINT / Mult
  MaxColumn,  \* MAX_COLUMN, the number of streams
  RngSeeds,   \* values of the option RNGSEED
  MaxDraws,   \* bound on the numbers of a stream
  Serial      \* for each initial seed, the seeds after 0, 1, 2 ... draws

ASSUME MultiplierAssumption ==
  /\ MaxInt \in Nat /\ Mult \in Nat \ {0} /\ nQ \in Nat /\ nR \in Nat \ {0}
  /\ MaxInt = Mult * nQ + nR
  /\ 2 * nR < nQ

\* MAXINT is a prime, 2^31 - 1, and so has inverses.
Invertible(m) == \E k \in 0 .. MaxInt - 1 : (k * m) % MaxInt = 1

ASSUME InverseAssumption == Invertible(Mult)

ASSUME BoundsAssumption ==
  /\ MaxColumn \in Nat \ {0} /\ MaxDraws \in Nat
  /\ RngSeeds \subseteq (-MaxInt - 1) .. MaxInt

(* C's integer division and remainder, which truncate towards zero.        *)
Quotient(a, b) == IF a >= 0 THEN a \div b ELSE -((-a) \div b)

Rest(a, b) == a - b * Quotient(a, b)

(* Wrong variant of NextRandom: negative results stay so.                  *)
NextRandomSigned(s) == Mult * Rest(s, nQ) - Quotient(s, nQ) * nR

(* next_random(): the product, without ever computing it.                  *)
NextRandom(s) ==
  LET t == Mult * Rest(s, nQ) - Quotient(s, nQ) * nR
  IN  IF t < 0 THEN t + MaxInt ELSE t

(* init_rand(): the streams are spaced evenly.  The sum is one of ints     *)
(* assigned to a long: where it exceeds an int, the build may wrap it or   *)
(* not.                                                                    *)
InitialSeeds ==
  LET spaced == {r + (MaxInt \div MaxColumn) * i : r \in RngSeeds, i \in 0 .. MaxColumn - 1}
  IN  spaced \union {k - 2 * (MaxInt + 1) : k \in {j \in spaced : j > MaxInt}}

(* What a seed can be, at first and later.                                 *)
Seeds == (-2 * MaxInt) .. (2 * MaxInt)

ASSUME SerialAssumption ==
  /\ Serial \in [InitialSeeds -> [0 .. MaxDraws -> Seeds]]
  /\ \A s \in InitialSeeds :
       /\ Serial[s][0] = s
       /\ \A k \in 0 .. MaxDraws - 1 : Serial[s][k + 1] = NextRandom(Serial[s][k])

VARIABLES
  initial,  \* nInitialSeed
  seed,     \* nSeed
  total,    \* how many numbers of the stream are behind it, or will be
  doing,    \* "skip" in the loop of skip_random(), else "draw"
  skipN, skipZ, skipM  \* N, Z and M of skip_random()

skipping == <<skipN, skipZ, skipM>>

randVars == <<initial, seed, total, doing, skipN, skipZ, skipM>>

RandInit ==
  /\ initial \in InitialSeeds /\ seed = initial
  /\ total = 0
  /\ doing = "draw"
  /\ skipN = 0 /\ skipZ = 0 /\ skipM = 0

Draw ==
  /\ doing = "draw" /\ total < MaxDraws
  /\ seed' = NextRandom(seed)
  /\ total' = total + 1
  /\ UNCHANGED <<initial, doing, skipping>>

(* A skip counts from the first seed, wherever the stream is.              *)
SkipRandom(count) ==
  /\ doing = "draw" /\ doing' = "skip"
  /\ skipN' = count /\ skipZ' = initial /\ skipM' = Mult
  /\ total' = count
  /\ UNCHANGED <<initial, seed>>

(* Wrong variant of SkipBit: the multiplier is squared first.              *)
SkipBitSquared ==
  /\ doing = "skip" /\ skipN > 0
  /\ skipM' = Rest(skipM * skipM, MaxInt)
  /\ skipZ' = IF skipN % 2 # 0 THEN Rest(skipM' * skipZ, MaxInt) ELSE skipZ
  /\ skipN' = skipN \div 2
  /\ UNCHANGED <<initial, seed, total, doing>>

(* One bit of N.                                                           *)
SkipBit ==
  /\ doing = "skip" /\ skipN > 0
  /\ skipZ' = IF skipN % 2 # 0 THEN Rest(skipM * skipZ, MaxInt) ELSE skipZ
  /\ skipN' = skipN \div 2
  /\ skipM' = Rest(skipM * skipM, MaxInt)
  /\ UNCHANGED <<initial, seed, total, doing>>

SkipEnd ==
  /\ doing = "skip" /\ skipN = 0 /\ doing' = "draw"
  /\ seed' = skipZ
  /\ skipZ' = 0 /\ skipM' = 0
  /\ UNCHANGED <<initial, total, skipN>>

RandNext ==
  \/ Draw
  \/ \E count \in 0 .. MaxDraws : SkipRandom(count)
  \/ SkipBit
  \/ SkipEnd

RandSpec == RandInit /\ [][RandNext]_randVars

-----------------------------------------------------------------------------
(* The types: after a skip a seed may be negative or above MaxInt, never by*)
(* more than init_rand() makes it.                                         *)
RandTypeOK ==
  /\ initial \in InitialSeeds
  /\ seed \in Seeds /\ skipZ \in Seeds
  /\ skipM \in 0 .. MaxInt - 1
  /\ total \in 0 .. MaxDraws /\ skipN \in 0 .. MaxDraws
  /\ doing \in {"draw", "skip"}

(* The next number of a stream is the one a stream has there that was only *)
(* drawn from: skip_random() and next_random() agree, whatever the seed,   *)
(* the count and what was drawn or skipped before.                         *)
SkipsAgree ==
  doing = "draw" => NextRandom(seed) = NextRandom(Serial[initial][total])

(* What is drawn is a number that genrand_integer() can reduce to a range, *)
(* and a stream goes dead only if init_rand() gave it a multiple of MaxInt.*)
DrawsInRange ==
  [][doing = "draw" /\ doing' = "draw" =>
       seed' \in IF initial % MaxInt = 0 THEN {0} ELSE 1 .. MaxInt - 1]_randVars

=============================================================================
