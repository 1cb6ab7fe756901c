--------------------------- MODULE GenRandProofs ---------------------------
(***************************************************************************)
(* skip_random() moves a stream to where as many calls of next_random()    *)
(* would.  Both multiply by the same number modulo MAXINT: the former by   *)
(* Schrage's method, the latter by squares of the multiplier, bit by bit.  *)
(* The invariant says of the skipping of skip_random() how many draws its  *)
(* variables stand for, so that no induction over the draws is needed.     *)
(* Another one says that its multipliers have inverses, so that no draw    *)
(* and no skip makes a multiple of MAXINT of a seed that is none.          *)
(* Builders that reach a row by such skips (Validation) build it as those  *)
(* do that come to it row by row: a row is a function of its number, in    *)
(* closed form, and the invariant says what the memory of a process holds  *)
(* between two rows.                                                       *)
(***************************************************************************)
EXTENDS GenRand, TLAPS, Validation, FiniteSetTheorems, WellFoundedInduction

-----------------------------------------------------------------------------

(* Division with remainder, for the divisors genrand.c has.                *)
LEMMA DivMod ==
  ASSUME NEW a \in Int, NEW b \in Nat \ {0}
  PROVE  /\ a \div b \in Int /\ a % b \in 0 .. b - 1
         /\ a = b * (a \div b) + (a % b)
  OBVIOUS

(* A number between 0 and b - 1 is the remainder of all b * q + r.         *)
LEMMA ModUnique ==
  ASSUME NEW b \in Nat \ {0}, NEW q \in Int, NEW r \in 0 .. b - 1
  PROVE  (b * q + r) % b = r
<1> DEFINE x == b * q + r
<1>1. x \in Int  OBVIOUS
<1>2. x \div b \in Int /\ x % b \in 0 .. b - 1 /\ x = b * (x \div b) + (x % b)
  BY <1>1, DivMod
<1> DEFINE d == x \div b   e == x % b
<1>3. d \in Int /\ e \in 0 .. b - 1 /\ b * q + r = b * d + e  BY <1>2
<1> HIDE DEF d, e
<1>4. b * (q - d) = e - r  BY <1>3
<1>5. ~(q - d >= 1)
  <2> SUFFICES ASSUME q - d >= 1 PROVE FALSE  OBVIOUS
  <2>1. b * (q - d) >= b  BY <1>3
  <2> QED BY <2>1, <1>3, <1>4
<1>6. ~(q - d <= -1)
  <2> SUFFICES ASSUME q - d <= -1 PROVE FALSE  OBVIOUS
  <2>1. b * (q - d) <= -b  BY <1>3
  <2> QED BY <2>1, <1>3, <1>4
<1>7. q - d = 0  BY <1>3, <1>5, <1>6
<1> QED BY <1>3, <1>4, <1>7 DEF e

(* A multiple of the modulus does not change a remainder.                  *)
LEMMA ModShift ==
  ASSUME NEW b \in Nat \ {0}, NEW q \in Int, NEW c \in Int
  PROVE  (b * q + c) % b = c % b
<1>1. c \div b \in Int /\ c % b \in 0 .. b - 1 /\ c = b * (c \div b) + (c % b)  BY DivMod
<1> DEFINE d == c \div b   e == c % b
<1>2. d \in Int /\ e \in 0 .. b - 1 /\ c = b * d + e  BY <1>1
<1> HIDE DEF d, e
<1>3. b * q + c = b * (q + d) + e  BY <1>2
<1>4. (b * (q + d) + e) % b = e  BY <1>2, ModUnique
<1> QED BY <1>3, <1>4 DEF e

(* A factor may be reduced before it is multiplied: skip_random() does so  *)
(* after every product.                                                    *)
LEMMA ModProduct ==
  ASSUME NEW b \in Nat \ {0}, NEW a \in Int, NEW c \in Int
  PROVE  (a * (c % b)) % b = (a * c) % b
<1>1. c \div b \in Int /\ c % b \in 0 .. b - 1 /\ c = b * (c \div b) + (c % b)  BY DivMod
<1> DEFINE d == c \div b   e == c % b
<1>2. d \in Int /\ e \in Int /\ c = b * d + e  BY <1>1
<1> HIDE DEF d, e
<1>3. a * c = b * (a * d) + a * e  BY <1>2
<1>4. a * d \in Int /\ a * e \in Int  BY <1>2
<1>5. (b * (a * d) + a * e) % b = (a * e) % b  BY <1>4, ModShift
<1> QED BY <1>3, <1>5 DEF e

(* C's / and % for a divisor above zero: the remainder has the sign of the *)
(* dividend.                                                               *)
LEMMA Truncation ==
  ASSUME NEW a \in Int, NEW b \in Nat \ {0}
  PROVE  /\ Quotient(a, b) \in Int /\ Rest(a, b) \in Int
         /\ a = b * Quotient(a, b) + Rest(a, b)
         /\ a >= 0 => Quotient(a, b) >= 0 /\ Rest(a, b) \in 0 .. b - 1
         /\ a < 0 => Quotient(a, b) <= 0 /\ Rest(a, b) \in (-b + 1) .. 0
<1>1. CASE a >= 0
  <2>1. a \div b \in Int /\ a % b \in 0 .. b - 1 /\ a = b * (a \div b) + (a % b)  BY DivMod
  <2> DEFINE d == a \div b   e == a % b
  <2>2. d \in Int /\ e \in 0 .. b - 1 /\ a = b * d + e  BY <2>1
  <2>3. Quotient(a, b) = d  BY <1>1 DEF Quotient
  <2>4. Rest(a, b) = a - b * d  BY <2>3 DEF Rest
  <2> HIDE DEF d, e
  <2>5. d >= 0
    <3> SUFFICES ASSUME d <= -1 PROVE FALSE  BY <2>2
    <3>1. b * d <= -b  BY <2>2
    <3> QED BY <3>1, <2>2, <1>1
  <2> QED BY <1>1, <2>2, <2>3, <2>4, <2>5
<1>2. CASE a < 0
  <2> DEFINE d == (-a) \div b   e == (-a) % b
  <2>1. -a \in Nat  BY <1>2
  <2>0. \A k \in Int : k \div b \in Int /\ k % b \in 0 .. b - 1 /\ k = b * (k \div b) + (k % b)
    BY DivMod
  <2>2. d \in Int /\ e \in 0 .. b - 1 /\ -a = b * d + e  BY <2>0, <2>1
  <2>3. Quotient(a, b) = -d  BY <1>2 DEF Quotient
  <2>4. Rest(a, b) = a - b * (-d)  BY <2>3 DEF Rest
  <2> HIDE DEF d, e
  <2>5. d >= 0
    <3> SUFFICES ASSUME d <= -1 PROVE FALSE  BY <2>2
    <3>1. b * d <= -b  BY <2>2
    <3> QED BY <3>1, <2>2, <2>1
  <2>6. b * (-d) = -(b * d)  BY <2>2
  <2> QED BY <1>2, <2>2, <2>3, <2>4, <2>5, <2>6
<1> QED BY <1>1, <1>2

(* The modulus is a divisor, and greater than the multiplier.              *)
LEMMA MaxPositive == MaxInt \in Nat \ {0} /\ nQ \in Nat \ {0} /\ Mult < MaxInt
<1>1. nQ \in Nat /\ nQ >= 3  BY MultiplierAssumption
<1>2. Mult * nQ >= Mult * 3  BY <1>1, MultiplierAssumption
<1> QED BY <1>1, <1>2, MultiplierAssumption

(* The % MAXINT of skip_random() leaves the residue and the sign as they   *)
(* are.                                                                    *)
LEMMA RestCongruent ==
  ASSUME NEW a \in Int
  PROVE  /\ Rest(a, MaxInt) \in (-MaxInt + 1) .. MaxInt - 1
         /\ a >= 0 => Rest(a, MaxInt) \in 0 .. MaxInt - 1
         /\ Rest(a, MaxInt) % MaxInt = a % MaxInt
<1> DEFINE q == Quotient(a, MaxInt)   r == Rest(a, MaxInt)
<1>1. /\ q \in Int /\ r \in Int /\ a = MaxInt * q + r
      /\ a >= 0 => r \in 0 .. MaxInt - 1
      /\ a < 0 => r \in (-MaxInt + 1) .. 0
  BY Truncation, MaxPositive
<1>2. (MaxInt * q + r) % MaxInt = r % MaxInt  BY <1>1, MaxPositive, ModShift
<1> HIDE DEF q, r
<1>3. r \in (-MaxInt + 1) .. MaxInt - 1  BY <1>1, MaxPositive
<1> QED BY <1>1, <1>2, <1>3 DEF r

(* next_random() computes Mult * s modulo MAXINT, also for the seeds that  *)
(* init_rand() makes negative or greater than MAXINT, and its result is    *)
(* not negative.                                                           *)
THEOREM SchrageMethod ==
  ASSUME NEW s \in Seeds
  PROVE  NextRandom(s) = (Mult * s) % MaxInt
<1> DEFINE d == Quotient(s, nQ)   r == Rest(s, nQ)
           t == Mult * r - d * nR
<1>1. s \in Int /\ nQ \in Nat \ {0} /\ MaxInt \in Nat \ {0}  BY MaxPositive DEF Seeds
<1>2. /\ d \in Int /\ r \in Int /\ s = nQ * d + r
      /\ s >= 0 => d >= 0 /\ r \in 0 .. nQ - 1
      /\ s < 0 => d <= 0 /\ r \in (-nQ + 1) .. 0
  BY <1>1, Truncation
<1>3. NextRandom(s) = IF t < 0 THEN t + MaxInt ELSE t  BY DEF NextRandom
<1> HIDE DEF d, r
<1>4. t \in Int  BY <1>2, MultiplierAssumption
<1>5. Mult * s = MaxInt * d + t
  <2>1. Mult * s = Mult * (nQ * d) + Mult * r  BY <1>1, <1>2, MultiplierAssumption
  <2>2. MaxInt * d = (Mult * nQ) * d + nR * d  BY <1>2, MultiplierAssumption
  <2>3. (Mult * nQ) * d = Mult * (nQ * d)  BY <1>1, <1>2, MultiplierAssumption
  <2>4. nR * d = d * nR  BY <1>2, MultiplierAssumption
  <2> QED BY <2>1, <2>2, <2>3, <2>4, <1>1, <1>2, MultiplierAssumption
<1>6. t < MaxInt /\ t >= -MaxInt
  <2>1. d <= 2 * Mult /\ d >= -2 * Mult
    <3>1. nQ * (2 * Mult + 1) > 2 * MaxInt
      <4>1. nQ * (2 * Mult + 1) = 2 * (Mult * nQ) + nQ  BY <1>1, MultiplierAssumption
      <4>2. Mult * nQ \in Int  BY <1>1, MultiplierAssumption
      <4> QED BY <4>1, <4>2, <1>1, MultiplierAssumption
    <3>2. ASSUME d >= 2 * Mult + 1 PROVE FALSE
      <4>1. nQ * d >= nQ * (2 * Mult + 1)  BY <3>2, <1>1, <1>2, MultiplierAssumption
      <4>2. s >= 0 
        <5> SUFFICES ASSUME s < 0 PROVE FALSE  BY <1>1
        <5> QED BY <1>2, <3>2, MultiplierAssumption
      <4>3. nQ * d \in Int /\ nQ * (2 * Mult + 1) \in Int  BY <1>1, <1>2, MultiplierAssumption
      <4> QED BY <3>1, <4>1, <4>2, <4>3, <1>1, <1>2 DEF Seeds
    <3>3. ASSUME d <= -2 * Mult - 1 PROVE FALSE
      <4>1. nQ * d <= nQ * (-(2 * Mult + 1))  BY <3>3, <1>1, <1>2, MultiplierAssumption
      <4>2. s < 0
        <5> SUFFICES ASSUME s >= 0 PROVE FALSE  BY <1>1
        <5> QED BY <1>2, <3>3, MultiplierAssumption
      <4>3. nQ * (-(2 * Mult + 1)) = -(nQ * (2 * Mult + 1))  BY <1>1, MultiplierAssumption
      <4>4. nQ * d \in Int /\ nQ * (2 * Mult + 1) \in Int  BY <1>1, <1>2, MultiplierAssumption
      <4> QED BY <3>1, <4>1, <4>2, <4>3, <4>4, <1>1, <1>2 DEF Seeds
    <3> QED BY <3>2, <3>3, <1>2, MultiplierAssumption
  <2>2. (2 * Mult) * nR < MaxInt
    <3>1. (2 * Mult) * nR = Mult * (2 * nR)  BY MultiplierAssumption
    <3>2. Mult * (2 * nR) <= Mult * nQ  BY MultiplierAssumption
    <3> QED BY <3>1, <3>2, MultiplierAssumption
  <2>3. d * nR <= (2 * Mult) * nR /\ d * nR >= -((2 * Mult) * nR)
    <3>1. d * nR <= (2 * Mult) * nR  BY <2>1, <1>2, MultiplierAssumption
    <3>2. (-d) * nR <= (2 * Mult) * nR  BY <2>1, <1>2, MultiplierAssumption
    <3>3. (-d) * nR = -(d * nR)  BY <1>2, MultiplierAssumption
    <3> QED BY <3>1, <3>2, <3>3, <1>2, MultiplierAssumption
  <2>4. Mult * (nQ - 1) < MaxInt
    BY <1>1, MultiplierAssumption
  <2>5. d * nR \in Int /\ Mult * r \in Int /\ (2 * Mult) * nR \in Int /\ Mult * (nQ - 1) \in Int
    BY <1>1, <1>2, MultiplierAssumption
  <2>6. CASE s >= 0
    <3>1. Mult * r >= 0 /\ Mult * r <= Mult * (nQ - 1)  BY <2>6, <1>1, <1>2, MultiplierAssumption
    <3>2. d * nR >= 0  BY <2>6, <1>2, MultiplierAssumption
    <3> QED BY <3>1, <3>2, <2>2, <2>3, <2>4, <2>5, <1>1
  <2>7. CASE s < 0
    <3>1. Mult * r <= 0  BY <2>7, <1>2, MultiplierAssumption
    <3>2. Mult * (-r) <= Mult * (nQ - 1)  BY <2>7, <1>1, <1>2, MultiplierAssumption
    <3>3. Mult * (-r) = -(Mult * r)  BY <1>2, MultiplierAssumption
    <3>4. d * nR <= 0  BY <2>7, <1>2, MultiplierAssumption
    <3> QED BY <3>1, <3>2, <3>3, <3>4, <2>2, <2>3, <2>4, <2>5, <1>1
  <2> QED BY <2>6, <2>7, <1>1
<1> HIDE DEF t
<1>7. (MaxInt * d + t) % MaxInt = t % MaxInt  BY <1>1, <1>2, <1>4, ModShift
<1>8. t % MaxInt = IF t < 0 THEN t + MaxInt ELSE t
  <2>1. CASE t < 0
    <3>1. t + MaxInt \in 0 .. MaxInt - 1  BY <2>1, <1>1, <1>4, <1>6
    <3>2. (MaxInt * (-1) + (t + MaxInt)) % MaxInt = t + MaxInt  BY <3>1, <1>1, ModUnique
    <3>3. MaxInt * (-1) + (t + MaxInt) = t  BY <1>1, <1>4
    <3> QED BY <2>1, <3>2, <3>3
  <2>2. CASE t >= 0
    <3>1. t \in 0 .. MaxInt - 1  BY <2>2, <1>1, <1>4, <1>6
    <3>2. (MaxInt * 0 + t) % MaxInt = t  BY <3>1, <1>1, ModUnique
    <3>3. MaxInt * 0 + t = t  BY <1>1, <1>4
    <3> QED BY <2>2, <3>2, <3>3, <1>4
  <2> QED BY <2>1, <2>2, <1>4
<1> QED BY <1>3, <1>5, <1>7, <1>8

-----------------------------------------------------------------------------
(* init_rand() makes no seed farther from zero than twice MAXINT.          *)
LEMMA InitialSeedsType == InitialSeeds \subseteq Seeds
<1> DEFINE gap == MaxInt \div MaxColumn
           spaced == {r + gap * i : r \in RngSeeds, i \in 0 .. MaxColumn - 1}
<1>1. gap \in Nat /\ gap * MaxColumn <= MaxInt
  <2>1. gap \in Int /\ MaxInt % MaxColumn \in 0 .. MaxColumn - 1 /\ MaxInt = MaxColumn * gap + (MaxInt % MaxColumn)
    BY DivMod, MaxPositive, BoundsAssumption
  <2> HIDE DEF gap
  <2>2. MaxColumn * gap = gap * MaxColumn /\ gap * MaxColumn \in Int  BY <2>1, BoundsAssumption
  <2>3. gap * MaxColumn <= MaxInt /\ gap * MaxColumn > -MaxColumn
    BY <2>1, <2>2, MaxPositive, BoundsAssumption
  <2>4. gap >= 0
    <3> SUFFICES ASSUME gap <= -1 PROVE FALSE  BY <2>1
    <3>1. gap * MaxColumn <= (-1) * MaxColumn  BY <2>1, BoundsAssumption
    <3> QED BY <3>1, <2>2, <2>3, MaxPositive, BoundsAssumption
  <2> QED BY <2>1, <2>3, <2>4
<1> HIDE DEF gap
<1>2. ASSUME NEW r \in RngSeeds, NEW i \in 0 .. MaxColumn - 1
      PROVE  r + gap * i \in (-MaxInt - 1) .. 2 * MaxInt
  <2>1. r \in (-MaxInt - 1) .. MaxInt  BY BoundsAssumption
  <2>2. gap * i >= 0 /\ gap * i <= gap * MaxColumn /\ gap * i \in Int /\ gap * MaxColumn \in Int
    BY <1>1, BoundsAssumption
  <2> DEFINE g == gap * i   h == gap * MaxColumn
  <2> HIDE DEF g, h
  <2>3. g \in Int /\ h \in Int /\ g >= 0 /\ g <= h /\ h <= MaxInt  BY <2>2, <1>1 DEF g, h
  <2>4. r \in Int /\ MaxInt \in Int /\ r >= -MaxInt - 1 /\ r <= MaxInt  BY <2>1, MaxPositive
  <2>5. r + g \in Int /\ r + g >= -MaxInt - 1 /\ r + g <= 2 * MaxInt  BY <2>3, <2>4
  <2>6. r + g \in (-MaxInt - 1) .. 2 * MaxInt  BY <2>4, <2>5
  <2> QED BY <2>6 DEF g
<1>3. ASSUME NEW k \in spaced  PROVE k \in (-MaxInt - 1) .. 2 * MaxInt
  <2>1. PICK r \in RngSeeds, i \in 0 .. MaxColumn - 1 : k = r + gap * i  BY <1>3
  <2> QED BY <2>1, <1>2
<1>4. ASSUME NEW s \in InitialSeeds  PROVE s \in Seeds
  <2>1. s \in spaced \/ \E k \in spaced : k > MaxInt /\ s = k - 2 * (MaxInt + 1)
    BY <1>4 DEF InitialSeeds, gap
  <2>2. CASE s \in spaced
    <3>1. s \in (-MaxInt - 1) .. 2 * MaxInt  BY <2>2, <1>3
    <3> QED BY <3>1, MaxPositive DEF Seeds
  <2>3. CASE \E k \in spaced : k > MaxInt /\ s = k - 2 * (MaxInt + 1)
    <3>1. PICK k \in spaced : k > MaxInt /\ s = k - 2 * (MaxInt + 1)  BY <2>3
    <3>2. k \in (-MaxInt - 1) .. 2 * MaxInt  BY <1>3
    <3> QED BY <3>1, <3>2, MaxPositive DEF Seeds
  <2> QED BY <2>1, <2>2, <2>3
<1> QED BY <1>4

(* Seeds that are followed by the same numbers.                            *)
SameSeed(x, y) == x % MaxInt = y % MaxInt

(* A residue has itself as its residue.                                    *)
LEMMA Reduced ==
  ASSUME NEW x \in Int
  PROVE  x % MaxInt \in 0 .. MaxInt - 1 /\ SameSeed(x % MaxInt, x)
<1>1. MaxInt \in Nat \ {0}  BY MaxPositive
<1>2. x % MaxInt \in 0 .. MaxInt - 1  BY <1>1, DivMod
<1>3. (MaxInt * 0 + (x % MaxInt)) % MaxInt = x % MaxInt  BY <1>1, <1>2, ModUnique
<1>4. MaxInt * 0 + (x % MaxInt) = x % MaxInt  BY <1>1, <1>2
<1> QED BY <1>2, <1>3, <1>4 DEF SameSeed

(* Seeds of one residue have multiples of one residue.                     *)
LEMMA SameProduct ==
  ASSUME NEW k \in Int, NEW x \in Int, NEW y \in Int, SameSeed(x, y)
  PROVE  SameSeed(k * x, k * y)
<1>1. MaxInt \in Nat \ {0}  BY MaxPositive
<1>2. (k * (x % MaxInt)) % MaxInt = (k * x) % MaxInt  BY <1>1, ModProduct
<1>3. (k * (y % MaxInt)) % MaxInt = (k * y) % MaxInt  BY <1>1, ModProduct
<1> QED BY <1>2, <1>3 DEF SameSeed

(* One draw multiplies the residue by Mult.                                *)
LEMMA SerialStep ==
  ASSUME NEW s \in InitialSeeds, NEW k \in 0 .. MaxDraws - 1
  PROVE  /\ Serial[s][k] \in Int
         /\ SameSeed(Serial[s][k + 1], Mult * Serial[s][k])
<1> DEFINE x == Serial[s][k]
<1>1. k \in 0 .. MaxDraws  BY BoundsAssumption
<1>2. x \in Seeds /\ Serial[s][k + 1] = NextRandom(x)  BY <1>1, SerialAssumption
<1> HIDE DEF x
<1>3. x \in Int /\ Mult * x \in Int  BY <1>2, MaxPositive, MultiplierAssumption DEF Seeds
<1>4. NextRandom(x) = (Mult * x) % MaxInt  BY <1>2, SchrageMethod
<1>5. SameSeed((Mult * x) % MaxInt, Mult * x)  BY <1>3, Reduced
<1> QED BY <1>2, <1>3, <1>4, <1>5 DEF x

-----------------------------------------------------------------------------
(* skipN * p of the total draws are left, skipZ is the seed after the      *)
(* others, and p draws multiply by skipM.                                  *)
SkipInv ==
  doing = "skip" =>
    \E p \in Nat \ {0} :
      /\ skipN * p <= total
      /\ SameSeed(skipZ, Serial[initial][total - skipN * p])
      /\ \A j \in 0 .. MaxDraws :
           j + p <= MaxDraws =>
             SameSeed(Serial[initial][j + p], skipM * Serial[initial][j])

(* The seed is that of a stream that was only drawn from, but for its      *)
(* representative.                                                         *)
DrawInv == doing = "draw" => SameSeed(seed, Serial[initial][total])

Inv == RandTypeOK /\ DrawInv /\ SkipInv

(* The invariant holds when init_rand() is done.                           *)
LEMMA InitInv == RandInit => Inv
<1> SUFFICES ASSUME RandInit PROVE Inv  OBVIOUS
<1>1. RandTypeOK  BY InitialSeedsType, MaxPositive, BoundsAssumption DEF RandInit, RandTypeOK, Seeds
<1>2. DrawInv  BY SerialAssumption DEF RandInit, DrawInv, SameSeed
<1>3. SkipInv  BY DEF RandInit, SkipInv
<1> QED BY <1>1, <1>2, <1>3 DEF Inv

(* next_random() preserves the invariant.                                  *)
LEMMA DrawStep == Inv /\ Draw => Inv'
<1> SUFFICES ASSUME Inv, Draw PROVE Inv'  OBVIOUS
<1> USE DEF Inv, Draw
<1>1. /\ MaxInt \in Nat \ {0} /\ Mult \in Int /\ MaxDraws \in Nat
      /\ seed \in Seeds /\ seed \in Int /\ total \in 0 .. MaxDraws - 1
      /\ initial \in InitialSeeds
  BY MaxPositive, MultiplierAssumption, BoundsAssumption DEF RandTypeOK, Seeds
<1>2. seed' = (Mult * seed) % MaxInt  BY <1>1, SchrageMethod
<1>3. seed' \in 0 .. MaxInt - 1 /\ SameSeed(seed', Mult * seed)  BY <1>1, <1>2, Reduced
<1>4. RandTypeOK'  BY <1>1, <1>3 DEF RandTypeOK, skipping, Seeds
<1>5. /\ Serial[initial][total] \in Int
      /\ SameSeed(Serial[initial][total + 1], Mult * Serial[initial][total])
  BY <1>1, SerialStep
<1>6. SameSeed(Mult * seed, Mult * Serial[initial][total])
  BY <1>1, <1>5, SameProduct DEF DrawInv
<1>7. DrawInv'  BY <1>3, <1>5, <1>6 DEF DrawInv, SameSeed
<1>8. SkipInv'  BY DEF SkipInv
<1> QED BY <1>4, <1>7, <1>8

(* So does the beginning of skip_random(): one draw is a multiplication by *)
(* Mult.                                                                   *)
LEMMA SkipStart ==
  ASSUME NEW count \in 0 .. MaxDraws, Inv, SkipRandom(count)
  PROVE  Inv'
<1> USE DEF Inv, SkipRandom
<1>1. /\ MaxInt \in Nat \ {0} /\ Mult \in 0 .. MaxInt - 1 /\ MaxDraws \in Nat
      /\ initial \in InitialSeeds
  BY MaxPositive, MultiplierAssumption, BoundsAssumption DEF RandTypeOK
<1>2. RandTypeOK'  BY <1>1, InitialSeedsType DEF RandTypeOK
<1>3. DrawInv'  BY DEF DrawInv
<1>4. Serial[initial][0] = initial  BY <1>1, SerialAssumption
<1>5. ASSUME NEW j \in 0 .. MaxDraws, j + 1 <= MaxDraws
      PROVE  SameSeed(Serial[initial][j + 1], Mult * Serial[initial][j])
  <2>1. j \in 0 .. MaxDraws - 1  BY <1>1, <1>5
  <2> QED BY <2>1, <1>1, SerialStep
<1>6. count * 1 <= count /\ count - count * 1 = 0  OBVIOUS
<1>7. SkipInv'  BY <1>4, <1>5, <1>6 DEF SkipInv, SameSeed
<1> QED BY <1>2, <1>3, <1>7

(* So does an iteration of its loop: if p draws multiply by skipM, 2 * p   *)
(* draws multiply by skipM * skipM, and an odd skipN takes p of those left.*)
LEMMA SkipLoop == Inv /\ SkipBit => Inv'
<1> SUFFICES ASSUME Inv, SkipBit PROVE Inv'  OBVIOUS
<1> USE DEF Inv, SkipBit
<1>1. /\ MaxInt \in Nat \ {0} /\ MaxDraws \in Nat
      /\ initial \in InitialSeeds /\ skipZ \in Seeds /\ skipZ \in Int
      /\ skipM \in 0 .. MaxInt - 1 /\ skipM \in Int /\ skipM * skipZ \in Int
      /\ total \in 0 .. MaxDraws /\ skipN \in 1 .. MaxDraws
  BY MaxPositive, BoundsAssumption DEF RandTypeOK, Seeds
<1>2. /\ skipN' \in 0 .. skipN - 1 /\ skipN = 2 * skipN' + (skipN % 2) /\ skipN % 2 \in {0, 1}
  BY <1>1
<1>3. skipM * skipM \in Nat  BY <1>1
<1>4. skipM' \in 0 .. MaxInt - 1 /\ SameSeed(skipM', skipM * skipM)
  BY <1>3, RestCongruent DEF SameSeed
<1>5. Rest(skipM * skipZ, MaxInt) \in (-MaxInt + 1) .. MaxInt - 1 /\ SameSeed(Rest(skipM * skipZ, MaxInt), skipM * skipZ)
  BY <1>1, RestCongruent DEF SameSeed
<1>6. skipZ' \in Seeds  BY <1>1, <1>5 DEF Seeds
<1>7. RandTypeOK'  BY <1>1, <1>2, <1>4, <1>6 DEF RandTypeOK
<1>8. DrawInv'  BY DEF DrawInv
<1>9. SkipInv'
  <2> DEFINE S(k) == Serial[initial][k]
  <2>1. PICK p \in Nat \ {0} :
          /\ skipN * p <= total
          /\ SameSeed(skipZ, S(total - skipN * p))
          /\ \A j \in 0 .. MaxDraws : j + p <= MaxDraws => SameSeed(S(j + p), skipM * S(j))
    BY DEF SkipInv
  <2>2. \A k \in 0 .. MaxDraws : S(k) \in Int
    BY <1>1, SerialAssumption DEF Seeds
  <2> HIDE DEF S
  <2>3. skipN * p \in Nat /\ skipN' * (2 * p) \in Nat
    BY <1>1, <1>2
  <2>4. skipN * p = skipN' * (2 * p) + (skipN % 2) * p
    BY <1>1, <1>2
  <2>5. skipN' * (2 * p) <= total
    BY <1>1, <1>2, <2>1, <2>3, <2>4
  <2>6. SameSeed(skipZ', S(total - skipN' * (2 * p)))
    <3>1. CASE skipN % 2 = 0
      BY <3>1, <2>1, <2>3, <2>4
    <3>2. CASE skipN % 2 = 1
      <4> DEFINE j == total - skipN * p
      <4>1. j \in 0 .. MaxDraws /\ j + p <= MaxDraws /\ j + p = total - skipN' * (2 * p)
        BY <3>2, <1>1, <2>1, <2>3, <2>4, <2>5
      <4>2. SameSeed(skipZ, S(j))  BY <2>1
      <4> HIDE DEF j
      <4>3. SameSeed(S(j + p), skipM * S(j))  BY <4>1, <2>1
      <4>4. SameSeed(skipM * skipZ, skipM * S(j))  BY <4>1, <4>2, <1>1, <2>2, SameProduct
      <4>5. SameSeed(skipZ', skipM * skipZ)  BY <3>2, <1>5
      <4> QED BY <4>1, <4>3, <4>4, <4>5 DEF SameSeed
    <3> QED BY <3>1, <3>2, <1>2
  <2>7. ASSUME NEW j \in 0 .. MaxDraws, j + 2 * p <= MaxDraws
        PROVE  SameSeed(S(j + 2 * p), skipM' * S(j))
    <3>1. /\ j + p \in 0 .. MaxDraws /\ (j + p) + p <= MaxDraws
          /\ (j + p) + p = j + 2 * p /\ j + p <= MaxDraws
      BY <2>7, <1>1
    <3> DEFINE x == S(j)   y == S(j + p)
    <3>2. x \in Int /\ y \in Int  BY <2>2, <3>1
    <3>3. SameSeed(S((j + p) + p), skipM * y)  BY <2>1, <3>1
    <3>4. SameSeed(y, skipM * x)  BY <2>1, <3>1
    <3> HIDE DEF x, y
    <3>5. skipM * x \in Int /\ skipM' \in Int  BY <1>1, <1>4, <3>2
    <3>6. SameSeed(skipM * y, skipM * (skipM * x))  BY <1>1, <3>2, <3>4, <3>5, SameProduct
    <3>7. SameSeed(x * skipM', x * (skipM * skipM))
      <4>1. \A a, b \in Int : SameSeed(a, b) => SameSeed(x * a, x * b)
        BY <3>2, SameProduct
      <4> QED BY <4>1, <1>3, <1>4, <3>5
    <3>8. skipM' * x = x * skipM' /\ x * (skipM * skipM) = skipM * (skipM * x)  BY <1>1, <3>2, <3>5
    <3> QED BY <3>1, <3>3, <3>6, <3>7, <3>8 DEF SameSeed, x
  <2>8. 2 * p \in Nat \ {0}  OBVIOUS
  <2> QED BY <2>5, <2>6, <2>7, <2>8 DEF SkipInv, S
<1> QED BY <1>7, <1>8, <1>9

(* So does its end: no draws are left.                                     *)
LEMMA SkipStop == Inv /\ SkipEnd => Inv'
<1> SUFFICES ASSUME Inv, SkipEnd PROVE Inv'  OBVIOUS
<1> USE DEF Inv, SkipEnd
<1>1. MaxInt \in Nat \ {0}  BY MaxPositive
<1>2. RandTypeOK'  BY <1>1 DEF RandTypeOK, Seeds
<1>3. DrawInv'
  <2>1. PICK p \in Nat \ {0} : SameSeed(skipZ, Serial[initial][total - skipN * p])
    BY DEF SkipInv
  <2>2. total - skipN * p = total  BY DEF RandTypeOK
  <2> QED BY <2>1, <2>2 DEF DrawInv, SameSeed
<1>4. SkipInv'  BY DEF SkipInv
<1> QED BY <1>2, <1>3, <1>4

(* Every step preserves the invariant.                                     *)
LEMMA NextInv == Inv /\ [RandNext]_randVars => Inv'
<1> SUFFICES ASSUME Inv, [RandNext]_randVars PROVE Inv'  OBVIOUS
<1>1. CASE Draw  BY <1>1, DrawStep
<1>2. ASSUME NEW count \in 0 .. MaxDraws, SkipRandom(count) PROVE Inv'
  BY <1>2, SkipStart
<1>3. CASE SkipBit  BY <1>3, SkipLoop
<1>4. CASE SkipEnd  BY <1>4, SkipStop
<1>5. CASE UNCHANGED randVars
  BY <1>5 DEF Inv, RandTypeOK, DrawInv, SkipInv, SameSeed, randVars
<1> QED BY <1>1, <1>2, <1>3, <1>4, <1>5 DEF RandNext

(* The invariant holds of every reachable state.                           *)
THEOREM AlwaysInv == RandSpec => []Inv
  BY InitInv, NextInv, PTL DEF RandSpec

(* The seeds, multipliers and counts of genrand.c stay in their ranges.    *)
THEOREM TypeCorrect == RandSpec => []RandTypeOK
<1>1. Inv => RandTypeOK  BY DEF Inv
<1> QED BY <1>1, AlwaysInv, PTL

(* skip_random() and next_random() agree: for every modulus and multiplier *)
(* that Schrage's method is fit for, every seed and every count, a stream  *)
(* that was moved goes on as a stream that was only drawn from.            *)
THEOREM SkipsAlwaysAgree == RandSpec => []SkipsAgree
<1>1. ASSUME Inv PROVE SkipsAgree
  <2> SUFFICES ASSUME doing = "draw" PROVE NextRandom(seed) = NextRandom(Serial[initial][total])
    BY DEF SkipsAgree
  <2> DEFINE x == Serial[initial][total]
  <2>1. seed \in Seeds /\ x \in Seeds /\ SameSeed(seed, x)
    BY <1>1, SerialAssumption DEF Inv, RandTypeOK, DrawInv
  <2> HIDE DEF x
  <2>2. seed \in Int /\ x \in Int /\ Mult \in Int
    BY <2>1, MaxPositive, MultiplierAssumption DEF Seeds
  <2>3. SameSeed(Mult * seed, Mult * x)  BY <2>1, <2>2, SameProduct
  <2> QED BY <2>1, <2>3, SchrageMethod DEF SameSeed, x
<1> QED BY <1>1, AlwaysInv, PTL

-----------------------------------------------------------------------------
(* A factor that has an inverse makes no multiple of MAXINT of a number    *)
(* that is none.                                                           *)
LEMMA NoneMadeZero ==
  ASSUME NEW m \in Int, NEW x \in Int, Invertible(m)
  PROVE  (m * x) % MaxInt = 0 <=> x % MaxInt = 0
<1>1. MaxInt \in Nat \ {0} /\ 0 % MaxInt = 0
  <2>1. MaxInt \in Nat \ {0}  BY MaxPositive
  <2>2. (MaxInt * 0 + 0) % MaxInt = 0 /\ MaxInt * 0 + 0 = 0  BY <2>1, ModUnique
  <2>3. QED  BY <2>1, <2>2
<1>2. PICK k \in 0 .. MaxInt - 1 : (k * m) % MaxInt = 1  BY DEF Invertible
<1>3. k \in Int /\ k * m \in Int /\ m * x \in Int /\ x * (k * m) \in Int  BY <1>1, <1>2
<1>4. ASSUME x % MaxInt = 0 PROVE (m * x) % MaxInt = 0
  <2>1. (m * (x % MaxInt)) % MaxInt = (m * x) % MaxInt  BY <1>1, ModProduct
  <2>2. m * (x % MaxInt) = 0  BY <1>4
  <2>3. QED  BY <1>1, <2>1, <2>2
<1>5. ASSUME (m * x) % MaxInt = 0 PROVE x % MaxInt = 0
  <2>1. (k * ((m * x) % MaxInt)) % MaxInt = (k * (m * x)) % MaxInt  BY <1>1, <1>3, ModProduct
  <2>2. k * ((m * x) % MaxInt) = 0  BY <1>3, <1>5
  <2>3. (k * (m * x)) % MaxInt = 0  BY <1>1, <2>1, <2>2
  <2>4. (x * ((k * m) % MaxInt)) % MaxInt = (x * (k * m)) % MaxInt  BY <1>1, <1>3, ModProduct
  <2>5. x * ((k * m) % MaxInt) = x  BY <1>2
  <2>6. k * (m * x) = x * (k * m)  BY <1>3
  <2>7. QED  BY <2>3, <2>4, <2>5, <2>6
<1>6. QED  BY <1>4, <1>5

(* The square of such a factor, reduced, is another.                       *)
LEMMA SquareInvertible ==
  ASSUME NEW m \in Int, NEW n \in Int, Invertible(m), SameSeed(n, m * m)
  PROVE  Invertible(n)
<1>1. MaxInt \in Nat \ {0}  BY MaxPositive
<1>2. PICK k \in 0 .. MaxInt - 1 : (k * m) % MaxInt = 1  BY DEF Invertible
<1> DEFINE c == k * m   l == (k * k) % MaxInt
<1>3. k \in Int /\ c \in Int /\ m * m \in Int /\ k * k \in Int  BY <1>1, <1>2
<1>4. l \in 0 .. MaxInt - 1 /\ SameSeed(l, k * k)  BY <1>3, Reduced
<1>5. (k * k) * (m * m) = c * c  BY <1>2, <1>3
<1>6. (c * c) % MaxInt = 1
  <2>1. (c * (c % MaxInt)) % MaxInt = (c * c) % MaxInt  BY <1>1, <1>3, ModProduct
  <2>2. c * (c % MaxInt) = c  BY <1>2, <1>3
  <2>3. QED  BY <1>2, <2>1, <2>2
<1> HIDE DEF c, l
<1>7. SameSeed((k * k) * n, (k * k) * (m * m))  BY <1>3, SameProduct
<1>8. SameSeed(n * l, n * (k * k))
  <2>1. l \in Int  BY <1>1, <1>4
  <2>2. QED  BY <1>3, <1>4, <2>1, SameProduct
<1>9. l * n = n * l /\ n * (k * k) = (k * k) * n  BY <1>1, <1>3, <1>4
<1>10. (l * n) % MaxInt = 1  BY <1>5, <1>6, <1>7, <1>8, <1>9 DEF SameSeed
<1>11. QED  BY <1>4, <1>10 DEF Invertible

(* A stream is dead from the first or never.                               *)
Alike(x) == x % MaxInt = 0 <=> initial % MaxInt = 0

LifeInv ==
  /\ doing = "draw" => Alike(seed)
  /\ doing = "skip" => Alike(skipZ) /\ Invertible(skipM)

\* A number that is drawn from a live stream is not zero.
LEMMA Drawn ==
  ASSUME RandTypeOK, LifeInv, Draw
  PROVE  /\ Alike(seed)' /\ doing' = "draw"
         /\ seed' \in IF initial % MaxInt = 0 THEN {0} ELSE 1 .. MaxInt - 1
<1>1. /\ MaxInt \in Nat \ {0} /\ Mult \in Int /\ seed \in Seeds /\ seed \in Int /\ Mult * seed \in Int
  BY MaxPositive, MultiplierAssumption DEF RandTypeOK, Seeds
<1>2. seed' = (Mult * seed) % MaxInt /\ initial' = initial /\ doing = "draw" /\ doing' = "draw"
  BY <1>1, SchrageMethod DEF Draw
<1>3. seed' \in 0 .. MaxInt - 1 /\ seed' % MaxInt = (Mult * seed) % MaxInt
  BY <1>1, <1>2, Reduced DEF SameSeed
<1>4. (Mult * seed) % MaxInt = 0 <=> seed % MaxInt = 0
  BY <1>1, NoneMadeZero, InverseAssumption
<1>5. seed % MaxInt = 0 <=> initial % MaxInt = 0  BY <1>2 DEF LifeInv, Alike
<1>6. Alike(seed)'  BY <1>2, <1>3, <1>4, <1>5 DEF Alike
<1>7. seed' = 0 <=> initial % MaxInt = 0  BY <1>2, <1>4, <1>5
<1>8. CASE initial % MaxInt = 0  BY <1>2, <1>6, <1>7, <1>8
<1>9. CASE initial % MaxInt # 0
  <2>1. seed' # 0  BY <1>7, <1>9
  <2>2. seed' \in 1 .. MaxInt - 1  BY <1>1, <1>3, <2>1
  <2>3. QED  BY <1>2, <1>6, <1>9, <2>2
<1>10. QED  BY <1>8, <1>9

LEMMA LifeNext == RandTypeOK /\ LifeInv /\ [RandNext]_randVars => LifeInv'
<1> SUFFICES ASSUME RandTypeOK, LifeInv, [RandNext]_randVars PROVE LifeInv'  OBVIOUS
<1>1. CASE Draw  BY <1>1, Drawn DEF LifeInv
<1>2. ASSUME NEW count \in 0 .. MaxDraws, SkipRandom(count) PROVE LifeInv'
  BY <1>2, InverseAssumption DEF SkipRandom, LifeInv, Alike
<1>3. CASE SkipBit
  <2>1. /\ skipM \in Int /\ skipZ \in Int /\ skipM * skipZ \in Int /\ skipM * skipM \in Nat
        /\ doing = "skip" /\ doing' = "skip" /\ initial' = initial
        /\ skipZ' = IF skipN % 2 # 0 THEN Rest(skipM * skipZ, MaxInt) ELSE skipZ
        /\ skipM' = Rest(skipM * skipM, MaxInt)
    BY <1>3, MaxPositive DEF SkipBit, RandTypeOK, Seeds
  <2>2. Alike(skipZ) /\ Invertible(skipM)  BY <2>1 DEF LifeInv
  <2>3. skipM' \in Int /\ SameSeed(skipM', skipM * skipM)
    BY <2>1, RestCongruent, MaxPositive DEF SameSeed
  <2>4. Invertible(skipM')  BY <2>1, <2>2, <2>3, SquareInvertible
  <2>5. Rest(skipM * skipZ, MaxInt) % MaxInt = (skipM * skipZ) % MaxInt  BY <2>1, RestCongruent
  <2>6. (skipM * skipZ) % MaxInt = 0 <=> skipZ % MaxInt = 0  BY <2>1, <2>2, NoneMadeZero
  <2>7. Alike(skipZ)'  BY <2>1, <2>2, <2>5, <2>6 DEF Alike
  <2>8. QED  BY <2>1, <2>4, <2>7 DEF LifeInv, Invertible
<1>4. CASE SkipEnd  BY <1>4 DEF SkipEnd, LifeInv, Alike
<1>5. CASE UNCHANGED randVars  BY <1>5 DEF LifeInv, Alike, Invertible, randVars
<1>6. QED  BY <1>1, <1>2, <1>3, <1>4, <1>5 DEF RandNext

(* No stream goes dead that init_rand() did not make so, however it is     *)
(* drawn from and skipped, and every number drawn is in the range that     *)
(* genrand_integer() and its kin expect.                                   *)
THEOREM DrawsAlwaysInRange == RandSpec => DrawsInRange
<1>1. RandInit => LifeInv  BY DEF RandInit, LifeInv, Alike
<1>2. RandTypeOK /\ LifeInv /\ [RandNext]_randVars =>
        [doing = "draw" /\ doing' = "draw" =>
           seed' \in IF initial % MaxInt = 0 THEN {0} ELSE 1 .. MaxInt - 1]_randVars
  <2> SUFFICES ASSUME RandTypeOK, LifeInv, RandNext, doing = "draw", doing' = "draw"
               PROVE  seed' \in IF initial % MaxInt = 0 THEN {0} ELSE 1 .. MaxInt - 1
    OBVIOUS
  <2>1. Draw  BY DEF RandNext, SkipRandom, SkipBit, SkipEnd
  <2>2. QED  BY <2>1, Drawn
<1>3. QED  BY <1>1, <1>2, LifeNext, TypeCorrect, PTL DEF RandSpec, DrawsInRange

-----------------------------------------------------------------------------
\* Validation

Memory == [order : Nat, line : Nat, back : Nat, day : Nat, index : Nat, item : Nat, old : Nat]

LEMMA ValidationConstants ==
  /\ TableRows \in Nat \ {0} /\ OrdersOfDay \in Nat \ {0} /\ OrderLines \in Nat \ {0} /\ VCOUNT \in Nat
  /\ LinesDrawn \in [1 .. TableRows -> 1 .. OrderLines]
  BY ValidationAssumption

(* How many days the walk is on when it comes to order k.                  *)
DaysUntil(k) ==
  IF k > OrdersOfDay + 1 THEN (k - (OrdersOfDay + 1) + OrdersOfDay - 1) \div OrdersOfDay ELSE 0

LEMMA MoreOf ==
  ASSUME NEW p \in Nat, NEW a \in Nat, NEW b \in Nat, a < b
  PROVE  p * a + p <= p * b /\ p * a \in Nat /\ p * b \in Nat
<1>1. p * (a + 1) <= p * b
  OBVIOUS
<1> QED
  BY <1>1

LEMMA DaysUntilIs ==
  ASSUME NEW k \in Nat \ {0}
  PROVE  /\ DaysUntil(k) \in Nat
         /\ \A d \in Nat : d = DaysUntil(k) <=> /\ k <= OrdersOfDay * d + OrdersOfDay + 1
                                                /\ d > 0 => OrdersOfDay * d + 1 < k
<1> DEFINE p == OrdersOfDay
           Of(d) == k <= p * d + p + 1 /\ (d > 0 => p * d + 1 < k)
<1>1. p \in Nat \ {0}
  BY ValidationConstants
<1> HIDE DEF p
<1>2. \A d, e \in Nat : Of(d) /\ Of(e) => ~(d < e)
  <2> SUFFICES ASSUME NEW d \in Nat, NEW e \in Nat, Of(d), Of(e), d < e PROVE FALSE
    OBVIOUS
  <2>1. p * d + p <= p * e /\ p * d \in Nat /\ p * e \in Nat
    BY <1>1, MoreOf
  <2>2. p * e + 1 < k /\ k <= p * d + p + 1
    OBVIOUS
  <2> QED  BY <1>1, <2>1, <2>2
<1>3. DaysUntil(k) \in Nat /\ Of(DaysUntil(k))
  <2>1. CASE k > p + 1
    <3> DEFINE q == (k - 2) \div p
    <3>1. k - 2 \in Nat /\ k - (p + 1) + p - 1 = k - 2
      BY <1>1, <2>1
    <3>2. q \in Int /\ (k - 2) % p \in 0 .. p - 1 /\ k - 2 = p * q + ((k - 2) % p)
      <4> DEFINE x == k - 2
      <4>1. x \in Int
        BY <3>1
      <4> HIDE DEF x
      <4>2. x \div p \in Int /\ x % p \in 0 .. p - 1 /\ x = p * (x \div p) + (x % p)
        BY <1>1, <4>1, DivMod
      <4> QED  BY <4>2 DEF x
    <3>3. DaysUntil(k) = q
      BY <2>1, <3>1 DEF DaysUntil, p
    <3> HIDE DEF q
    <3>4. p * q \in Int /\ p * q <= k - 2 /\ k - 2 < p * q + p
      BY <1>1, <3>1, <3>2
    <3>5. q \in Nat
      <4>1. SUFFICES ASSUME q <= -1 PROVE FALSE
        BY <3>2
      <4>2. p * q <= p * (-1)
        BY <1>1, <3>2, <4>1
      <4> QED  BY <1>1, <3>1, <3>4, <4>2
    <3> QED  BY <1>1, <3>3, <3>4, <3>5
  <2>2. CASE ~(k > p + 1)
    <3>1. DaysUntil(k) = 0
      BY <2>2 DEF DaysUntil, p
    <3>2. p * 0 = 0
      BY <1>1
    <3> QED  BY <1>1, <2>2, <3>1, <3>2
  <2> QED  BY <2>1, <2>2
<1>4. \A d \in Nat : Of(d) <=> d = DaysUntil(k)
  <2> HIDE DEF Of
  <2> QED  BY <1>2, <1>3
<1> QED
  BY <1>3, <1>4 DEF p

(* The walk comes to the same day from order to order as at once.          *)
LEMMA WalkOn ==
  ASSUME NEW k \in Nat \ {0}, NEW d \in Nat,
         k = 1 => d = 0, k > 1 => d = DaysUntil(k - 1)
  PROVE  LET index == OrdersOfDay + 1 + d * OrdersOfDay
             days == IF k > index THEN (k - index + OrdersOfDay - 1) \div OrdersOfDay ELSE 0
         IN  days \in Nat /\ d + days = DaysUntil(k)
<1> DEFINE p == OrdersOfDay
           index == p + 1 + d * p
           days == IF k > index THEN (k - index + p - 1) \div p ELSE 0
<1>1. p \in Nat \ {0}
  BY ValidationConstants
<1>2. d * p = p * d /\ p * d \in Nat
  BY <1>1
<1>3. k - 1 <= p * d + p + 1 /\ (d > 0 => p * d + 1 < k - 1)
  <2>1. CASE k = 1
    BY <1>1, <1>2, <2>1
  <2>2. CASE k > 1
    <3>1. k - 1 \in Nat \ {0} /\ d = DaysUntil(k - 1)
      BY <2>2
    <3> QED  BY <3>1, DaysUntilIs
  <2> QED  BY <2>1, <2>2
<1>4. CASE k > index
  <2>1. k - index + p - 1 = p
    BY <1>1, <1>2, <1>3, <1>4
  <2>2. days = 1
    BY <1>1, <1>4, <2>1
  <2>3. p * (d + 1) = p * d + p
    BY <1>1
  <2>4. k <= p * (d + 1) + p + 1 /\ p * (d + 1) + 1 < k
    BY <1>1, <1>2, <1>3, <1>4, <2>3
  <2>5. d + 1 = DaysUntil(k)
    BY <2>4, DaysUntilIs
  <2> QED  BY <2>2, <2>5
<1>5. CASE ~(k > index)
  <2>1. k <= p * d + p + 1 /\ (d > 0 => p * d + 1 < k)
    BY <1>1, <1>2, <1>3, <1>5
  <2>2. d = DaysUntil(k)
    BY <2>1, DaysUntilIs
  <2> QED  BY <1>5, <2>2
<1> QED
  BY <1>4, <1>5

(* The lines of an order take as many numbers, and no more of its returns. *)
LEMMA LinesTake ==
  ASSUME NEW m \in Memory, NEW n \in Nat
  PROVE  LET last == LinesBuilt(m, n)
             returned == Cardinality((m.line + 1 .. m.line + n) \intersect ReturnedAt)
         IN  /\ last \in Memory /\ returned \in 0 .. n
             /\ last.order = m.order /\ last.day = m.day /\ last.index = m.index
             /\ last.line = m.line + n /\ last.item = m.item + n /\ last.back = m.back + returned
<1> DEFINE a == m.line + 1
           b == m.line + n
           S == (a .. b) \intersect ReturnedAt
           returned == Cardinality(S)
<1>1. a \in Int /\ b \in Int /\ (IF a > b THEN 0 ELSE b - a + 1) = n
  BY DEF Memory
<1>2. IsFiniteSet(a .. b) /\ Cardinality(a .. b) = n
  <2> HIDE DEF a, b
  <2> QED  BY <1>1, FS_Interval
<1>3. S \in SUBSET (a .. b)
  OBVIOUS
<1>4. IsFiniteSet(S) /\ Cardinality(S) <= n
  <2> HIDE DEF S, a, b
  <2> QED  BY <1>2, <1>3, FS_Subset
<1>5. returned \in 0 .. n
  <2> HIDE DEF S
  <2> QED  BY <1>4, FS_CardinalityType
<1>6. LinesBuilt(m, n) = [m EXCEPT !.line = m.line + n, !.item = m.item + n, !.back = m.back + returned]
  BY DEF LinesBuilt
<1> HIDE DEF returned
<1>7. /\ LinesBuilt(m, n) \in Memory /\ LinesBuilt(m, n).order = m.order /\ LinesBuilt(m, n).day = m.day
      /\ LinesBuilt(m, n).index = m.index /\ LinesBuilt(m, n).line = m.line + n
      /\ LinesBuilt(m, n).item = m.item + n /\ LinesBuilt(m, n).back = m.back + returned
  <2> DEFINE x == m.line + n
             y == m.item + n
             z == m.back + returned
  <2>1. x \in Nat /\ y \in Nat /\ z \in Nat
    BY <1>5 DEF Memory
  <2> HIDE DEF x, y, z
  <2>2. LinesBuilt(m, n) = [m EXCEPT !.line = x, !.item = y, !.back = z]
    BY <1>6 DEF x, y, z
  <2>3. /\ LinesBuilt(m, n) \in Memory /\ LinesBuilt(m, n).order = m.order /\ LinesBuilt(m, n).day = m.day
        /\ LinesBuilt(m, n).index = m.index /\ LinesBuilt(m, n).line = x
        /\ LinesBuilt(m, n).item = y /\ LinesBuilt(m, n).back = z
    BY <2>1, <2>2 DEF Memory
  <2> QED  BY <2>3 DEF x, y, z
<1> QED
  BY <1>5, <1>7 DEF returned

(* A line of order k, wherever it is built.                                *)
NumberedLine(t, k, i) ==
  LET before == (k - 1) * OrderLines IN
  [order |-> k, drawn |-> k, day |-> IF t = "catalog" THEN DaysUntil(k) ELSE 0, item |-> k + i, line |-> before + i,
   back |-> IF before + i \in ReturnedAt
            THEN before + Cardinality((before + 1 .. before + i) \intersect ReturnedAt) ELSE 0]

LinesOfOrder(t, k) == IF t \in Sales THEN LinesDrawn[k] ELSE OrderLines

(* The streams are where order k begins.                                   *)
BeginsOrder(t, m, k) ==
  /\ m \in Memory /\ m.order = k /\ m.item = k
  /\ m.line = (k - 1) * OrderLines /\ m.back = (k - 1) * OrderLines
  /\ t = "catalog" => m.day = DaysUntil(k)

LEMMA OrderLinesDrawn ==
  ASSUME NEW t, NEW k \in 1 .. TableRows
  PROVE  LinesOfOrder(t, k) \in 1 .. OrderLines
  BY ValidationConstants DEF LinesOfOrder

LEMMA OrderBuilt ==
  ASSUME NEW t \in Orders, NEW m, NEW k \in 1 .. TableRows, BeginsOrder(t, m, k)
  PROVE  /\ nLineitems(t, k, m) = LinesOfOrder(t, k)
         /\ \A i \in Nat : PrintedLine(t, k, LinesBuilt(m, i)) = NumberedLine(t, k, i)
<1>1. nLineitems(t, k, m) = LinesOfOrder(t, k)
  BY DEF nLineitems, LinesOfOrder, BeginsOrder
<1>2. ASSUME NEW i \in Nat
      PROVE  PrintedLine(t, k, LinesBuilt(m, i)) = NumberedLine(t, k, i)
  <2> DEFINE last == LinesBuilt(m, i)
             before == (k - 1) * OrderLines
             returned == Cardinality((m.line + 1 .. m.line + i) \intersect ReturnedAt)
  <2>1. m \in Memory /\ m.order = k /\ m.item = k /\ m.line = before /\ m.back = before
        /\ (t = "catalog" => m.day = DaysUntil(k))
    BY DEF BeginsOrder
  <2>2. /\ last.order = m.order /\ last.day = m.day
        /\ last.line = m.line + i /\ last.item = m.item + i /\ last.back = m.back + returned
    BY <2>1, LinesTake
  <2>3. returned = Cardinality((before + 1 .. before + i) \intersect ReturnedAt)
    BY <2>1
  <2> HIDE DEF last, returned
  <2>4. PrintedLine(t, k, last) =
          [order |-> k, drawn |-> last.order, day |-> IF t = "catalog" THEN last.day ELSE 0, item |-> last.item,
           line |-> last.line, back |-> IF last.line \in ReturnedAt THEN last.back ELSE 0]
    BY DEF PrintedLine
  <2>5. NumberedLine(t, k, i) =
          [order |-> k, drawn |-> k, day |-> IF t = "catalog" THEN DaysUntil(k) ELSE 0, item |-> k + i,
           line |-> before + i, back |-> IF before + i \in ReturnedAt THEN before + returned ELSE 0]
    BY <2>3 DEF NumberedLine
  <2>6. PrintedLine(t, k, last) = NumberedLine(t, k, i)
    <3> HIDE DEF before
    <3> QED  BY <2>1, <2>2, <2>4, <2>5
  <2> QED  BY <2>6 DEF last
<1> QED
  BY <1>1, <1>2

(* The walk to an order, from the one before it or from the first day.     *)
OnTheWay(m, k) ==
  \/ m.index = 0
  \/ m.index = OrdersOfDay + 1 /\ m.day = 0
  \/ k > 1 /\ m.day = DaysUntil(k - 1) /\ m.index = OrdersOfDay + 1 + m.day * OrdersOfDay

LEMMA WalkedTo ==
  ASSUME NEW m \in Memory, NEW k \in Nat \ {0}
  PROVE  LET w == Walked(m, k)
         IN  /\ w \in Memory /\ w.order = m.order /\ w.line = m.line /\ w.back = m.back
             /\ OnTheWay(m, k) => /\ w.day = DaysUntil(k)
                                  /\ w.index = OrdersOfDay + 1 + w.day * OrdersOfDay
<1> DEFINE p == OrdersOfDay
           begun == IF m.index = 0 THEN skipDays(m) ELSE m
           days == IF k > begun.index THEN (k - begun.index + p - 1) \div p ELSE 0
<1>1. p \in Nat \ {0} /\ p + 1 \in Nat
  BY ValidationConstants
<1>2. /\ begun \in Memory /\ begun.order = m.order /\ begun.line = m.line /\ begun.back = m.back
      /\ m.index = 0 => begun.day = 0 /\ begun.index = p + 1
      /\ m.index # 0 => begun.day = m.day /\ begun.index = m.index
  BY <1>1 DEF skipDays, Memory
<1> HIDE DEF p, begun
<1>3. days \in Nat
  <2>1. begun.index \in Nat
    BY <1>2 DEF Memory
  <2>2. CASE k > begun.index
    <3> DEFINE x == k - begun.index + p - 1
    <3>1. x \in Nat
      BY <1>1, <2>1, <2>2
    <3> HIDE DEF x
    <3>2. x \div p \in Nat
      BY <1>1, <3>1
    <3> QED  BY <2>2, <3>2 DEF x
  <2> QED  BY <2>2
<1> DEFINE w == Walked(m, k)
<1>4. w = [begun EXCEPT !.day = begun.day + days, !.index = begun.index + days * p]
  BY DEF Walked, begun, p
<1> HIDE DEF days
<1>5. begun.day + days \in Nat /\ begun.index + days * p \in Nat
  <2>1. begun.day \in Nat /\ begun.index \in Nat
    BY <1>2 DEF Memory
  <2> QED  BY <1>1, <1>3, <2>1
<1> HIDE DEF w
<1>6. /\ w \in Memory /\ w.order = m.order /\ w.line = m.line /\ w.back = m.back
      /\ w.day = begun.day + days /\ w.index = begun.index + days * p
  BY <1>2, <1>4, <1>5 DEF Memory
<1>7. ASSUME OnTheWay(m, k)
      PROVE  w.day = DaysUntil(k) /\ w.index = p + 1 + w.day * p
  <2>1. /\ k = 1 => TRUE
        /\ \/ begun.day = 0 /\ begun.index = p + 1
           \/ k > 1 /\ begun.day = DaysUntil(k - 1) /\ begun.index = p + 1 + begun.day * p
    BY <1>2, <1>7 DEF OnTheWay, p
  <2>2. begun.day \in Nat
    BY <1>2 DEF Memory
  <2>3. CASE begun.day = 0 /\ begun.index = p + 1
    <3>1. days = DaysUntil(k) /\ days \in Nat
      BY <1>3, <2>3 DEF days, DaysUntil, p
    <3> QED  BY <1>1, <1>6, <2>3, <3>1
  <2>4. CASE k > 1 /\ begun.day = DaysUntil(k - 1) /\ begun.index = p + 1 + begun.day * p
    <3> DEFINE d == begun.day
    <3>1. d \in Nat /\ (k = 1 => d = 0) /\ (k > 1 => d = DaysUntil(k - 1)) /\ begun.index = p + 1 + d * p
      BY <2>2, <2>4
    <3>2. days = IF k > p + 1 + d * p THEN (k - (p + 1 + d * p) + p - 1) \div p ELSE 0
      BY <3>1 DEF days
    <3> HIDE DEF d
    <3>3. d + days = DaysUntil(k)
      BY <3>1, <3>2, WalkOn DEF p
    <3>4. w.day = d + days /\ w.index = (p + 1 + d * p) + days * p
      BY <1>6, <3>1 DEF d
    <3>5. (d + days) * p = d * p + days * p /\ d * p \in Nat /\ days * p \in Nat
      BY <1>1, <1>3, <3>1
    <3> QED  BY <1>1, <3>3, <3>4, <3>5
  <2> QED  BY <2>1, <2>3, <2>4
<1> QED
  BY <1>6, <1>7 DEF w, p

(* mk_master() draws the number of the order.                              *)
LEMMA MasterTakes ==
  ASSUME NEW t \in Orders, NEW m \in Memory, NEW k \in Nat \ {0},
         m.order = k - 1, m.line = (k - 1) * OrderLines, m.back = (k - 1) * OrderLines,
         t = "catalog" => OnTheWay(m, k)
  PROVE  /\ BeginsOrder(t, mk_master(t, m, k), k)
         /\ t = "catalog" => mk_master(t, m, k).index = OrdersOfDay + 1 + mk_master(t, m, k).day * OrdersOfDay
<1> DEFINE walked == IF t \in Sales THEN Walked(m, k) ELSE m
           master == mk_master(t, m, k)
<1>1. /\ walked \in Memory /\ walked.line = m.line /\ walked.back = m.back
      /\ t = "catalog" => /\ walked.day = DaysUntil(k)
                          /\ walked.index = OrdersOfDay + 1 + walked.day * OrdersOfDay
  BY WalkedTo DEF Sales
<1>2. m.order + 1 = k
  OBVIOUS
<1>3. master = [walked EXCEPT !.order = k, !.item = k]
  BY <1>2 DEF mk_master
<1> HIDE DEF walked, master
<1>4. /\ master \in Memory /\ master.order = k /\ master.item = k /\ master.line = walked.line
      /\ master.back = walked.back /\ master.day = walked.day /\ master.index = walked.index
  BY <1>1, <1>3 DEF Memory
<1> QED
  BY <1>1, <1>4 DEF BeginsOrder, master

(* Validation moves the streams to the order, from wherever they were.     *)
LEMMA MasterOfValidation ==
  ASSUME NEW t \in Orders, NEW m \in Memory, NEW k \in 1 .. TableRows
  PROVE  BeginsOrder(t, vld_master(t, m, k), k)
<1> DEFINE n == k - 1
           before == n * OrderLines
           skipped == row_skips(t, m, n)
<1>1. n \in Nat /\ k = n + 1 /\ k \in Nat \ {0}
  BY ValidationConstants
<1>2. before \in Nat
  BY <1>1, ValidationConstants
<1>3. skipped = [m EXCEPT !.order = n, !.line = before, !.back = before]
  <2>1. n * 1 = n /\ (n * OrderLines) * 1 = before
    BY <1>1, <1>2, ValidationConstants
  <2>2. row_skips(t, m, n) = [m EXCEPT !.order = n * 1,
                               !.line = IF t = "s_catalog_order" THEN (n * OrderLines) * 1 ELSE n * OrderLines,
                               !.back = n * OrderLines]
    BY DEF row_skips, Skipped, nUsedPerRow
  <2> HIDE DEF n
  <2> QED  BY <2>1, <2>2
<1> HIDE DEF n, before, skipped
<1>4. skipped \in Memory /\ skipped.order = n /\ skipped.line = before /\ skipped.back = before
  BY <1>1, <1>2, <1>3 DEF Memory
<1> DEFINE restarted == CASE t \in {"catalog", "web"} -> skipDays(skipped)
                          [] t = "store" -> [skipped EXCEPT !.day = 0]
                          [] OTHER -> skipped
<1>5. /\ restarted \in Memory /\ restarted.order = n /\ restarted.line = before /\ restarted.back = before
      /\ t = "catalog" => restarted.day = 0 /\ restarted.index = OrdersOfDay + 1
  <2>1. OrdersOfDay + 1 \in Nat
    BY ValidationConstants
  <2>2. CASE t \in {"catalog", "web"}
    BY <1>4, <2>1, <2>2 DEF skipDays, Memory
  <2>3. CASE t = "store"
    BY <1>4, <2>3 DEF Memory
  <2>4. CASE t \notin {"catalog", "web", "store"}
    BY <1>4, <2>4
  <2> QED  BY <2>2, <2>3, <2>4
<1>6. vld_master(t, m, k) = mk_master(t, restarted, k)
  BY DEF vld_master, skipped, n
<1> HIDE DEF restarted
<1>7. t = "catalog" => OnTheWay(restarted, k)
  BY <1>5 DEF OnTheWay
<1>8. restarted.order = k - 1 /\ restarted.line = (k - 1) * OrderLines /\ restarted.back = (k - 1) * OrderLines
  BY <1>5 DEF n, before
<1>9. BeginsOrder(t, mk_master(t, restarted, k), k)
  BY <1>1, <1>5, <1>7, <1>8, MasterTakes
<1> QED
  BY <1>6, <1>9

(* A row of a dimension keeps the value of its last revision that was new. *)
Fresh(k) == FirstOfId(k) \/ k \notin KeptAt

RowValue(t, k) == IF t = "generic" \/ Fresh(k) THEN k ELSE IF Fresh(k - 1) THEN k - 1 ELSE k - 2

NumberedRow(t, k) == [key |-> k, drawn |-> k, value |-> RowValue(t, k)]

LEMMA Sixths ==
  ASSUME NEW k \in Nat \ {0}
  PROVE  /\ FirstOfId(k) \/ FirstOfId(k - 1) \/ FirstOfId(k - 2)
         /\ ~FirstOfId(k) => k > 2
         /\ ~FirstOfId(k) /\ ~FirstOfId(k - 1) => k > 3
<1> DEFINE q == k \div 6
           r == k % 6
<1>1. q \in Int /\ r \in 0 .. 5 /\ k = 6 * q + r
  BY DivMod
<1> HIDE DEF q, r
<1>2. r = 3 \/ r = 5 => (k - 1) % 6 \in {2, 4}
  <2>1. r = 0 \/ (r - 1 \in 0 .. 5 /\ k - 1 = 6 * q + (r - 1))
    BY <1>1
  <2>2. r # 0 => (k - 1) % 6 = r - 1
    BY <1>1, <2>1, ModUnique
  <2> QED  BY <2>2
<1>3. r = 0 => (k - 2) % 6 = 4
  <2>1. r = 0 => k - 2 = 6 * (q - 1) + 4
    BY <1>1
  <2>2. (6 * (q - 1) + 4) % 6 = 4
    <3>1. q - 1 \in Int /\ 4 \in 0 .. 6 - 1 /\ 6 \in Nat \ {0}
      BY <1>1
    <3> QED  BY <3>1, ModUnique
  <2> QED  BY <2>1, <2>2
<1>4. r \in {1, 2, 4} <=> FirstOfId(k)
  BY DEF FirstOfId, r
<1>5. r \in {0, 1, 2, 3, 4, 5}
  BY <1>1
<1>6. FirstOfId(k) \/ FirstOfId(k - 1) \/ FirstOfId(k - 2)
  BY <1>2, <1>3, <1>4, <1>5 DEF FirstOfId
<1>7. ~FirstOfId(k) => k > 2
  <2>1. 1 % 6 = 1 /\ 2 % 6 = 2
    OBVIOUS
  <2>2. k = 1 \/ k = 2 \/ k > 2
    OBVIOUS
  <2> QED  BY <2>1, <2>2 DEF FirstOfId
<1>8. ~FirstOfId(k) /\ ~FirstOfId(k - 1) => k > 3
  <2>1. 2 % 6 = 2
    OBVIOUS
  <2>2. k = 3 => k - 1 = 2
    OBVIOUS
  <2> QED  BY <1>7, <2>1, <2>2 DEF FirstOfId
<1> QED
  BY <1>6, <1>7, <1>8

LEMMA ValueKept ==
  ASSUME NEW t \in {"generic", "history"}, NEW k \in Nat \ {0}
  PROVE  /\ RowValue(t, k) \in Nat
         /\ t = "history" /\ ~Fresh(k) => RowValue(t, k) = RowValue(t, k - 1)
<1>1. ~Fresh(k) => k > 2 /\ k - 1 \in Nat /\ k - 2 \in Nat
  BY Sixths DEF Fresh
<1>2. ~Fresh(k) /\ ~Fresh(k - 1) => Fresh(k - 2)
  BY Sixths DEF Fresh
<1>3. ~Fresh(k) => (k - 1) - 1 = k - 2
  OBVIOUS
<1> QED
  BY <1>1, <1>2, <1>3 DEF RowValue

LEMMA DimensionBuilt ==
  ASSUME NEW t \in {"generic", "history"}, NEW m \in Memory, NEW k \in Nat \ {0}, m.order = k - 1,
         t = "history" /\ ~FirstOfId(k) => m.old = RowValue(t, k - 1)
  PROVE  LET b == BuildDimension(t, m, k)
         IN  /\ b.row = NumberedRow(t, k)
             /\ b.m \in Memory /\ b.m.order = k /\ b.m.old = RowValue(t, k)
<1> DEFINE value == IF t = "generic" \/ FirstOfId(k) \/ k \notin KeptAt THEN k ELSE m.old
<1>1. m.order + 1 = k
  OBVIOUS
<1>2. BuildDimension(t, m, k) = [row |-> [key |-> k, drawn |-> k, value |-> value],
                                 m |-> [m EXCEPT !.order = k, !.old = value]]
  BY <1>1 DEF BuildDimension
<1>3. value = RowValue(t, k)
  BY ValueKept DEF RowValue, Fresh
<1>4. value \in Nat
  BY <1>3, ValueKept
<1> HIDE DEF value
<1> DEFINE b == BuildDimension(t, m, k)
<1>5. b.row = [key |-> k, drawn |-> k, value |-> value] /\ b.m = [m EXCEPT !.order = k, !.old = value]
  BY <1>2
<1> HIDE DEF b
<1>6. b.m \in Memory /\ b.m.order = k /\ b.m.old = value
  BY <1>4, <1>5 DEF Memory
<1> QED
  BY <1>3, <1>5, <1>6 DEF NumberedRow, b

LEMMA SkippedDimension ==
  ASSUME NEW t \in {"generic", "history"}, NEW m \in Memory, NEW k \in Nat \ {0}
  PROVE  LET s == row_skips(t, m, k - 1)
         IN  s \in Memory /\ s.order = k - 1 /\ s.old = m.old
<1> DEFINE n == k - 1
           before == n * OrderLines
<1>1. n \in Nat /\ n * 1 = n
  OBVIOUS
<1>2. before \in Nat
  BY <1>1, ValidationConstants
<1>3. row_skips(t, m, n) = [m EXCEPT !.order = n, !.line = before, !.back = before]
  BY <1>1 DEF row_skips, Skipped, nUsedPerRow
<1> HIDE DEF n, before
<1>4. row_skips(t, m, n) \in Memory /\ row_skips(t, m, n).order = n /\ row_skips(t, m, n).old = m.old
  BY <1>1, <1>2, <1>3 DEF Memory
<1> QED
  BY <1>4 DEF n

(* One row of a dimension that is built alone, after its earlier revision. *)
LEMMA BuiltAlone ==
  ASSUME NEW t \in {"generic", "history"}, NEW m \in Memory, NEW k \in Nat \ {0},
         t = "history" /\ ~FirstOfId(k) => m.old = RowValue(t, k - 1)
  PROVE  LET b == BuildDimension(t, row_skips(t, m, k - 1), k)
         IN  /\ b.row = NumberedRow(t, k)
             /\ b.m \in Memory /\ b.m.order = k /\ b.m.old = RowValue(t, k)
<1> DEFINE s == row_skips(t, m, k - 1)
<1>1. s \in Memory /\ s.order = k - 1 /\ s.old = m.old
  BY SkippedDimension
<1> HIDE DEF s
<1>2. t = "history" /\ ~FirstOfId(k) => s.old = RowValue(t, k - 1)
  BY <1>1
<1> QED
  BY <1>1, <1>2, DimensionBuilt DEF s

(* validateSCD() goes back as far as it takes.                             *)
LEMMA RevisionsBuilt ==
  ASSUME NEW m \in Memory, NEW k \in Nat \ {0}
  PROVE  validateSCD(m, k).row = NumberedRow("history", k) /\ validateSCD(m, k).m \in Memory
<1> DEFINE Build(before, j) == BuildDimension("history", row_skips("history", before, j - 1), j)
           First(j) == FirstOfId(j) \/ j = 1
<1>1. validateSCD(m, k) = IF First(k) THEN Build(m, k)
                          ELSE IF First(k - 1) THEN Build(Build(m, k - 1).m, k)
                          ELSE Build(Build(Build(m, k - 2).m, k - 1).m, k)
  BY DEF validateSCD
<1>2. ASSUME NEW j \in Nat \ {0}, NEW before \in Memory, ~FirstOfId(j) => before.old = RowValue("history", j - 1)
      PROVE  /\ Build(before, j).row = NumberedRow("history", j)
             /\ Build(before, j).m \in Memory /\ Build(before, j).m.old = RowValue("history", j)
  BY <1>2, BuiltAlone
<1>3. \A j \in Nat \ {0} : First(j) <=> FirstOfId(j)
  <2>1. 1 % 6 = 1
    OBVIOUS
  <2> QED  BY <2>1 DEF FirstOfId
<1> HIDE DEF Build, First
<1>4. CASE FirstOfId(k)
  BY <1>1, <1>2, <1>3, <1>4
<1>5. CASE ~FirstOfId(k) /\ FirstOfId(k - 1)
  <2>1. k - 1 \in Nat \ {0}
    BY <1>5, Sixths
  <2>2. Build(m, k - 1).m \in Memory /\ Build(m, k - 1).m.old = RowValue("history", k - 1)
    BY <1>2, <1>5, <2>1
  <2>3. validateSCD(m, k) = Build(Build(m, k - 1).m, k)
    BY <1>1, <1>3, <1>5, <2>1
  <2> QED  BY <1>2, <2>2, <2>3
<1>6. CASE ~FirstOfId(k) /\ ~FirstOfId(k - 1)
  <2>1. k - 1 \in Nat \ {0} /\ k - 2 \in Nat \ {0} /\ FirstOfId(k - 2) /\ (k - 1) - 1 = k - 2
    BY <1>6, Sixths
  <2> DEFINE a == Build(m, k - 2).m
             b == Build(a, k - 1).m
  <2>2. a \in Memory /\ a.old = RowValue("history", k - 2)
    BY <1>2, <2>1
  <2> HIDE DEF a
  <2>3. b \in Memory /\ b.old = RowValue("history", k - 1)
    BY <1>2, <2>1, <2>2
  <2>4. validateSCD(m, k) = Build(b, k)
    BY <1>1, <1>3, <1>6, <2>1 DEF a
  <2> HIDE DEF b
  <2> QED  BY <1>2, <2>3, <2>4
<1> QED
  BY <1>4, <1>5, <1>6

\* A row, or the lines of an order, as a build of the whole table writes it.
BuiltRow(t, k) ==
  IF t \in Orders THEN [i \in 1 .. LinesOfOrder(t, k) |-> NumberedLine(t, k, i)] ELSE NumberedRow(t, k)

\* The memory of a process that has built the first n rows.
HasBuilt(t, m, n) ==
  /\ m \in Memory /\ m.order = n
  /\ t \in Orders => m.line = n * OrderLines /\ m.back = n * OrderLines
  /\ t = "history" /\ n > 0 => m.old = RowValue("history", n)
  /\ t = "catalog" /\ n = 0 => m.index = 0
  /\ t = "catalog" /\ n > 0 => m.day = DaysUntil(n) /\ m.index = OrdersOfDay + 1 + m.day * OrdersOfDay

(* A row is built by its number alone, and so is one that is validated.    *)
ValidInv ==
  /\ vtable \in ValidTables /\ vleft \in Int /\ vleft >= -1
  /\ asBuilt \in Seq({BuiltRow(vtable, k) : k \in 1 .. TableRows}) /\ Len(asBuilt) <= TableRows
  /\ \A k \in 1 .. Len(asBuilt) : asBuilt[k] = BuiltRow(vtable, k)
  /\ vleft = -1 => HasBuilt(vtable, memory, Len(asBuilt)) /\ validated = <<>>
  /\ vleft # -1 => memory \in Memory /\ Len(asBuilt) = TableRows
  /\ validated # <<>> =>
       /\ validated.key \in 1 .. TableRows
       /\ vtable \notin Orders => validated.row = BuiltRow(vtable, validated.key)
       /\ vtable \in Orders => /\ validated.line \in 1 .. LinesOfOrder(vtable, validated.key)
                               /\ validated.row = NumberedLine(vtable, validated.key, validated.line)
                               /\ validated.number = (validated.key - 1) * OrderLines + validated.line

(* row_stop() after an order moves the streams on to the next one.         *)
LEMMA StoppedOrder ==
  ASSUME NEW t \in Orders, NEW m0, NEW m, NEW n \in Nat, NEW lines \in 1 .. OrderLines, NEW returned \in 0 .. lines,
         HasBuilt(t, m0, n), m \in Memory, m.order = n + 1, m.line = m0.line + lines, m.back = m0.back + returned,
         t \notin Sales => lines = OrderLines
  PROVE  LET s == row_stopped(t, m0, m)
         IN  /\ s \in Memory /\ s.order = n + 1
             /\ s.line = (n + 1) * OrderLines /\ s.back = (n + 1) * OrderLines
             /\ s.day = m.day /\ s.index = m.index
<1> DEFINE before == n * OrderLines
           s == row_stopped(t, m0, m)
<1>1. m0.order = n /\ m0.line = before /\ m0.back = before /\ before \in Nat /\ lines \in Nat
      /\ OrderLines \in Nat \ {0} /\ lines <= OrderLines /\ lines >= 1 /\ returned \in Nat /\ returned <= lines
  BY ValidationConstants DEF HasBuilt
<1>2. (n + 1) * OrderLines = before + OrderLines
  BY ValidationConstants
<1> HIDE DEF before
<1>3. /\ m0.order + nUsedPerRow(t).order = n + 1
      /\ m0.line + nUsedPerRow(t).line = IF t = "s_catalog_order" THEN before + 1 ELSE before + OrderLines
      /\ m0.back + nUsedPerRow(t).back = before + OrderLines
  BY <1>1 DEF nUsedPerRow
<1>4. s = [m EXCEPT !.order = IF m.order < m0.order + nUsedPerRow(t).order THEN m0.order + nUsedPerRow(t).order ELSE m.order,
                    !.line = IF m.line < m0.line + nUsedPerRow(t).line THEN m0.line + nUsedPerRow(t).line ELSE m.line,
                    !.back = IF m.back < m0.back + nUsedPerRow(t).back THEN m0.back + nUsedPerRow(t).back ELSE m.back]
  BY DEF row_stopped
<1>5. /\ (IF m.order < m0.order + nUsedPerRow(t).order THEN m0.order + nUsedPerRow(t).order ELSE m.order) = n + 1
      /\ (IF m.back < m0.back + nUsedPerRow(t).back THEN m0.back + nUsedPerRow(t).back ELSE m.back) = before + OrderLines
  BY <1>1, <1>3
<1>6. (IF m.line < m0.line + nUsedPerRow(t).line THEN m0.line + nUsedPerRow(t).line ELSE m.line) = before + OrderLines
  <2>1. CASE t = "s_catalog_order"
    <3>1. lines = OrderLines
      BY <2>1 DEF Sales
    <3> QED  BY <1>1, <1>3, <2>1, <3>1
  <2>2. CASE t # "s_catalog_order"
    BY <1>1, <1>3, <2>2
  <2> QED  BY <2>1, <2>2
<1> HIDE DEF s
<1> DEFINE after == before + OrderLines
           k == n + 1
<1>7. after \in Nat /\ k \in Nat
  BY <1>1
<1> HIDE DEF after, k
<1>8. s = [m EXCEPT !.order = k, !.line = after, !.back = after]
  BY <1>4, <1>5, <1>6 DEF after, k
<1>9. s \in Memory /\ s.order = k /\ s.line = after /\ s.back = after /\ s.day = m.day /\ s.index = m.index
  BY <1>7, <1>8 DEF Memory
<1> QED
  BY <1>2, <1>9 DEF s, after, k

(* And after a row of a dimension.                                         *)
LEMMA StoppedRow ==
  ASSUME NEW t \in {"generic", "history"}, NEW m0, NEW m \in Memory, NEW n \in Nat,
         HasBuilt(t, m0, n), m.order = n + 1, m.old = RowValue(t, n + 1)
  PROVE  HasBuilt(t, row_stopped(t, m0, m), n + 1)
<1> DEFINE s == row_stopped(t, m0, m)
           x == IF m.line < m0.line + OrderLines THEN m0.line + OrderLines ELSE m.line
           y == IF m.back < m0.back + OrderLines THEN m0.back + OrderLines ELSE m.back
           k == n + 1
<1>1. m0 \in Memory /\ m0.order = n /\ OrderLines \in Nat
  BY ValidationConstants DEF HasBuilt
<1>2. x \in Nat /\ y \in Nat /\ k \in Nat
  BY <1>1 DEF Memory
<1>3. (IF m.order < m0.order + 1 THEN m0.order + 1 ELSE m.order) = k
  BY <1>1
<1>4. s = [m EXCEPT !.order = k, !.line = x, !.back = y]
  BY <1>3 DEF row_stopped, nUsedPerRow
<1> HIDE DEF s, x, y, k
<1>5. s \in Memory /\ s.order = k /\ s.old = m.old
  BY <1>2, <1>4 DEF Memory
<1>6. t \notin Orders /\ t # "catalog"
  BY DEF Orders, Sales, OrdersOfSet
<1> QED
  BY <1>5, <1>6 DEF HasBuilt, s, k

LEMMA ValidStart == ValidInit => ValidInv
<1> SUFFICES ASSUME ValidInit PROVE ValidInv
  OBVIOUS
<1>1. /\ vtable \in ValidTables /\ vleft = -1 /\ memory = Untouched /\ asBuilt = <<>> /\ validated = <<>>
  BY DEF ValidInit
<1>2. Len(asBuilt) = 0 /\ asBuilt \in Seq({BuiltRow(vtable, k) : k \in 1 .. TableRows})
  BY <1>1
<1>3. 0 * OrderLines = 0 /\ 0 <= TableRows
  BY ValidationConstants
<1>4. Untouched \in Memory
  BY DEF Untouched, Memory
<1>5. HasBuilt(vtable, memory, 0)
  BY <1>1, <1>3, <1>4 DEF HasBuilt, Untouched
<1>6. /\ vleft \in Int /\ vleft >= -1 /\ ~(vleft # -1)
      /\ \A k \in 1 .. Len(asBuilt) : asBuilt[k] = BuiltRow(vtable, k)
  BY <1>1, <1>2
<1> QED
  BY <1>1, <1>2, <1>3, <1>5, <1>6 DEF ValidInv

(* The next row of the build, or the lines of the next order.              *)
LEMMA RowAppended ==
  ASSUME ValidInv, vleft = -1, Len(asBuilt) < TableRows, NEW row, row = BuiltRow(vtable, Len(asBuilt) + 1),
         HasBuilt(vtable, memory', Len(asBuilt) + 1), asBuilt' = Append(asBuilt, row),
         UNCHANGED <<vtable, vleft, validated>>
  PROVE  ValidInv'
<1> DEFINE rows == {BuiltRow(vtable, k) : k \in 1 .. TableRows}
           n == Len(asBuilt)
<1>1. /\ vtable \in ValidTables /\ asBuilt \in Seq(rows) /\ validated = <<>>
      /\ \A k \in 1 .. n : asBuilt[k] = BuiltRow(vtable, k)
  BY DEF ValidInv
<1>2. n \in Nat /\ n + 1 \in 1 .. TableRows
  BY <1>1, ValidationConstants
<1>3. row \in rows
  BY <1>2
<1> HIDE DEF rows
<1>4. /\ asBuilt' \in Seq(rows) /\ Len(asBuilt') = n + 1
      /\ \A k \in 1 .. n : asBuilt'[k] = asBuilt[k]
      /\ asBuilt'[n + 1] = row
  BY <1>1, <1>3
<1>5. \A k \in 1 .. Len(asBuilt') : asBuilt'[k] = BuiltRow(vtable, k)
  <2> TAKE k \in 1 .. Len(asBuilt')
  <2>1. k \in 1 .. n \/ k = n + 1
    BY <1>2, <1>4
  <2> QED  BY <1>1, <1>4, <2>1
<1>6. vtable' = vtable /\ vleft' = -1 /\ validated' = <<>>
  BY <1>1
<1>7. HasBuilt(vtable, memory', Len(asBuilt'))
  BY <1>4
<1>8. Len(asBuilt') <= TableRows
  BY <1>2, <1>4
<1>9. rows = {BuiltRow(vtable', k) : k \in 1 .. TableRows}
  BY <1>6 DEF rows
<1>10. HasBuilt(vtable, memory, Len(asBuilt))' 
  <2>1. HasBuilt(vtable', memory', Len(asBuilt'))
    BY <1>6, <1>7
  <2> QED  BY <2>1 DEF HasBuilt
<1>11. (\A k \in 1 .. Len(asBuilt) : asBuilt[k] = BuiltRow(vtable, k))'
  <2>1. \A k \in 1 .. Len(asBuilt') : asBuilt'[k] = BuiltRow(vtable', k)
    BY <1>5, <1>6
  <2> QED  BY <2>1 DEF BuiltRow, LinesOfOrder, NumberedLine, NumberedRow, RowValue, Fresh, DaysUntil
<1>12. (asBuilt \in Seq({BuiltRow(vtable, k) : k \in 1 .. TableRows}))'
  BY <1>4, <1>9
<1> QED
  BY <1>1, <1>6, <1>8, <1>10, <1>11, <1>12 DEF ValidInv

LEMMA RowBuilt ==
  ASSUME ValidInv, BuildAnother, vtable \notin Orders
  PROVE  ValidInv'
<1> DEFINE k == Len(asBuilt) + 1
           n == Len(asBuilt)
           b == BuildDimension(vtable, memory, k)
<1>1. /\ vleft = -1 /\ n < TableRows /\ asBuilt' = Append(asBuilt, b.row)
      /\ memory' = row_stopped(vtable, memory, b.m) /\ UNCHANGED <<vtable, vleft, validated>>
  BY DEF BuildAnother
<1>2. vtable \in {"generic", "history"} /\ n \in Nat /\ HasBuilt(vtable, memory, n)
  BY <1>1 DEF ValidInv, ValidTables
<1>3. memory \in Memory /\ memory.order = k - 1 /\ k \in Nat \ {0} /\ k - 1 = n
  BY <1>2 DEF HasBuilt
<1>4. vtable = "history" /\ ~FirstOfId(k) => memory.old = RowValue(vtable, k - 1)
  <2>1. n = 0 => k = 1
    OBVIOUS
  <2>2. FirstOfId(1)
    BY DEF FirstOfId
  <2>3. n > 0 \/ n = 0
    BY <1>2
  <2> QED  BY <1>2, <1>3, <2>1, <2>2, <2>3 DEF HasBuilt
<1> HIDE DEF n, k
<1>5. b.row = NumberedRow(vtable, k) /\ b.m \in Memory /\ b.m.order = k /\ b.m.old = RowValue(vtable, k)
  BY <1>2, <1>3, <1>4, DimensionBuilt
<1> HIDE DEF b
<1>6. k = n + 1
  BY DEF k, n
<1>7. HasBuilt(vtable, row_stopped(vtable, memory, b.m), n + 1)
  BY <1>2, <1>5, <1>6, StoppedRow
<1>8. NumberedRow(vtable, k) = BuiltRow(vtable, k)
  BY DEF BuiltRow
<1> QED
  BY <1>1, <1>5, <1>6, <1>7, <1>8, RowAppended DEF n

LEMMA OrderOfBuild ==
  ASSUME ValidInv, BuildAnother, vtable \in Orders
  PROVE  ValidInv'
<1> DEFINE n == Len(asBuilt)
           k == Len(asBuilt) + 1
           m == mk_master(vtable, memory, k)
           lines == nLineitems(vtable, k, m)
           last == LinesBuilt(m, lines)
           row == [i \in 1 .. lines |-> PrintedLine(vtable, k, LinesBuilt(m, i))]
<1>1. /\ vleft = -1 /\ n < TableRows /\ asBuilt' = Append(asBuilt, row)
      /\ memory' = row_stopped(vtable, memory, last) /\ UNCHANGED <<vtable, vleft, validated>>
  BY DEF BuildAnother
<1>2. n \in Nat /\ HasBuilt(vtable, memory, n)
  BY <1>1 DEF ValidInv
<1>3. k = n + 1 /\ k - 1 = n /\ k \in 1 .. TableRows /\ k \in Nat \ {0}
  BY <1>1, <1>2, ValidationConstants
<1>4. /\ memory \in Memory /\ memory.order = k - 1
      /\ memory.line = (k - 1) * OrderLines /\ memory.back = (k - 1) * OrderLines
  BY <1>2, <1>3 DEF HasBuilt
<1>5. vtable = "catalog" => OnTheWay(memory, k)
  <2>1. CASE n = 0
    BY <1>2, <2>1 DEF HasBuilt, OnTheWay
  <2>2. CASE n > 0
    BY <1>2, <1>3, <2>2 DEF HasBuilt, OnTheWay
  <2> QED  BY <1>2, <2>1, <2>2
<1> HIDE DEF n, k
<1>6. /\ BeginsOrder(vtable, m, k)
      /\ vtable = "catalog" => m.index = OrdersOfDay + 1 + m.day * OrdersOfDay
  BY <1>3, <1>4, <1>5, MasterTakes
<1> HIDE DEF m
<1>7. lines = LinesOfOrder(vtable, k) /\ \A i \in Nat : PrintedLine(vtable, k, LinesBuilt(m, i)) = NumberedLine(vtable, k, i)
  BY <1>3, <1>6, OrderBuilt
<1>8. lines \in 1 .. OrderLines /\ lines \in Nat /\ (vtable \notin Sales => lines = OrderLines)
  BY <1>3, <1>7, OrderLinesDrawn, ValidationConstants DEF LinesOfOrder
<1> HIDE DEF lines
<1>9. row = BuiltRow(vtable, k)
  <2>1. \A i \in 1 .. lines : PrintedLine(vtable, k, LinesBuilt(m, i)) = NumberedLine(vtable, k, i)
    BY <1>7
  <2> QED  BY <1>7, <2>1 DEF BuiltRow
<1> DEFINE returned == Cardinality((m.line + 1 .. m.line + lines) \intersect ReturnedAt)
<1>10. m \in Memory /\ m.order = k /\ m.line = memory.line /\ m.back = memory.back
       /\ (vtable = "catalog" => m.day = DaysUntil(k))
  BY <1>4, <1>6 DEF BeginsOrder
<1>11. /\ last \in Memory /\ returned \in 0 .. lines
       /\ last.order = m.order /\ last.day = m.day /\ last.index = m.index
       /\ last.line = m.line + lines /\ last.back = m.back + returned
  BY <1>8, <1>10, LinesTake
<1> HIDE DEF returned, last
<1> DEFINE s == row_stopped(vtable, memory, last)
<1>12. /\ s \in Memory /\ s.order = n + 1
       /\ s.line = (n + 1) * OrderLines /\ s.back = (n + 1) * OrderLines
       /\ s.day = last.day /\ s.index = last.index
  BY <1>2, <1>3, <1>8, <1>10, <1>11, StoppedOrder
<1> HIDE DEF s
<1>13. n + 1 > 0 /\ n + 1 # 0
  BY <1>2
<1>14. vtable # "history"
  BY DEF Orders, Sales, OrdersOfSet
<1>15. HasBuilt(vtable, s, n + 1)
  BY <1>3, <1>6, <1>10, <1>11, <1>12, <1>13, <1>14 DEF HasBuilt
<1> HIDE DEF row
<1> QED
  BY <1>1, <1>3, <1>9, <1>15, RowAppended DEF n, s

LEMMA ValidationBegun ==
  ASSUME ValidInv, BeginValidation
  PROVE  ValidInv'
<1>1. /\ vleft = -1 /\ Len(asBuilt) = TableRows /\ memory' = Untouched /\ validated = <<>>
      /\ vleft' = IF VCOUNT > TableRows THEN TableRows ELSE VCOUNT
      /\ vtable' = vtable /\ asBuilt' = asBuilt /\ validated' = validated
  BY DEF BeginValidation, ValidInv
<1>2. vleft' \in Nat
  BY <1>1, ValidationConstants
<1>3. memory' \in Memory
  BY <1>1 DEF Untouched, Memory
<1>4. (asBuilt \in Seq({BuiltRow(vtable, k) : k \in 1 .. TableRows}) /\ Len(asBuilt) <= TableRows)'
  BY <1>1 DEF ValidInv
<1>5. (\A k \in 1 .. Len(asBuilt) : asBuilt[k] = BuiltRow(vtable, k))'
  BY <1>1 DEF ValidInv
<1>6. vleft' \in Int /\ vleft' >= -1 /\ vleft' # -1 /\ validated' = <<>> /\ vtable' \in ValidTables /\ Len(asBuilt') = TableRows
  BY <1>1, <1>2 DEF ValidInv
<1> QED
  BY <1>3, <1>4, <1>5, <1>6 DEF ValidInv

\* What a row validated leaves behind.
ValidatedRow(t, v) ==
  /\ v.key \in 1 .. TableRows
  /\ t \notin Orders => v.row = BuiltRow(t, v.key)
  /\ t \in Orders => /\ v.line \in 1 .. LinesOfOrder(t, v.key)
                     /\ v.row = NumberedLine(t, v.key, v.line)
                     /\ v.number = (v.key - 1) * OrderLines + v.line

LEMMA KeyInRange == genrand_key(1, TableRows) \subseteq 1 .. TableRows
<1> DEFINE n == TableRows
<1>1. n \in Nat \ {0} /\ n - 1 + 1 = n
  BY ValidationConstants
<1> SUFFICES ASSUME NEW d \in 0 .. 2 * n PROVE 1 + (d % (n - 1 + 1)) \in 1 .. n
  BY DEF genrand_key
<1> HIDE DEF n
<1>2. d \in Int /\ n - 1 + 1 = n
  BY <1>1
<1>3. d % n \in 0 .. n - 1
  BY <1>1, <1>2, DivMod
<1>4. 1 + (d % n) \in 1 .. n
  BY <1>1, <1>3
<1> QED
  BY <1>2, <1>4

LEMMA RowValidated ==
  ASSUME ValidInv, ValidateRow
  PROVE  ValidatedRow(vtable, validated') /\ memory' \in Memory
<1>1. vleft > 0 /\ memory \in Memory /\ vtable \in ValidTables
  BY DEF ValidateRow, ValidInv
<1>2. ASSUME NEW k \in genrand_key(1, TableRows), vtable \notin Orders,
             LET b == IF vtable = "history" THEN validateSCD(memory, k) ELSE validateGeneric(memory, k)
             IN  validated' = [key |-> k, line |-> 0, number |-> k, row |-> b.row] /\ memory' = b.m
      PROVE  ValidatedRow(vtable, validated') /\ memory' \in Memory
  <2>1. k \in 1 .. TableRows /\ k \in Nat \ {0}
    BY KeyInRange, ValidationConstants
  <2>2. vtable \in {"generic", "history"}
    BY <1>1, <1>2 DEF ValidTables
  <2> DEFINE b == IF vtable = "history" THEN validateSCD(memory, k) ELSE validateGeneric(memory, k)
  <2>3. b.row = NumberedRow(vtable, k) /\ b.m \in Memory
    <3>1. CASE vtable = "history"
      BY <1>1, <2>1, <3>1, RevisionsBuilt
    <3>2. CASE vtable = "generic"
      BY <1>1, <2>1, <3>2, BuiltAlone DEF validateGeneric
    <3> QED  BY <2>2, <3>1, <3>2
  <2>4. validated' = [key |-> k, line |-> 0, number |-> k, row |-> b.row] /\ memory' = b.m
    BY <1>2
  <2> HIDE DEF b
  <2>5. validated'.key = k /\ validated'.row = NumberedRow(vtable, k)
    BY <2>3, <2>4
  <2>6. NumberedRow(vtable, k) = BuiltRow(vtable, k)
    BY <1>2 DEF BuiltRow
  <2> QED  BY <1>2, <2>1, <2>3, <2>4, <2>5, <2>6 DEF ValidatedRow
<1>3. ASSUME NEW k \in genrand_key(1, TableRows), vtable \in Orders,
             LET m == vld_master(vtable, memory, k) IN
             \E nLineitem \in 1 .. nLineitems(vtable, k, m) :
               LET last == LinesBuilt(m, nLineitem)
               IN  /\ validated' = [key |-> k, line |-> nLineitem, row |-> PrintedLine(vtable, k, last),
                                    number |-> (k - 1) * OrderLines + nLineitem]
                   /\ memory' = last
      PROVE  ValidatedRow(vtable, validated') /\ memory' \in Memory
  <2>1. k \in 1 .. TableRows
    BY KeyInRange
  <2> DEFINE m == vld_master(vtable, memory, k)
  <2>2. BeginsOrder(vtable, m, k)
    BY <1>1, <1>3, <2>1, MasterOfValidation
  <2>3. PICK i \in 1 .. nLineitems(vtable, k, m) :
               /\ validated' = [key |-> k, line |-> i, row |-> PrintedLine(vtable, k, LinesBuilt(m, i)),
                                number |-> (k - 1) * OrderLines + i]
               /\ memory' = LinesBuilt(m, i)
    BY <1>3
  <2> HIDE DEF m
  <2>4. nLineitems(vtable, k, m) = LinesOfOrder(vtable, k) /\ i \in Nat
        /\ PrintedLine(vtable, k, LinesBuilt(m, i)) = NumberedLine(vtable, k, i)
    <3>1. nLineitems(vtable, k, m) = LinesOfOrder(vtable, k)
      BY <1>3, <2>1, <2>2, OrderBuilt
    <3>2. i \in Nat
      BY <2>1, <3>1, OrderLinesDrawn, ValidationConstants
    <3> QED  BY <1>3, <2>1, <2>2, <3>1, <3>2, OrderBuilt
  <2>5. m \in Memory
    BY <2>2 DEF BeginsOrder
  <2>6. memory' \in Memory
    <3>1. LinesBuilt(m, i) \in Memory
      BY <2>4, <2>5, LinesTake
    <3> QED  BY <2>3, <3>1
  <2>7. /\ validated'.key = k /\ validated'.line = i /\ validated'.row = NumberedLine(vtable, k, i)
        /\ validated'.number = (k - 1) * OrderLines + i
    BY <2>3, <2>4
  <2> QED  BY <1>3, <2>1, <2>3, <2>4, <2>6, <2>7 DEF ValidatedRow
<1> QED
  BY <1>2, <1>3 DEF ValidateRow

LEMMA ValidationGoesOn ==
  ASSUME ValidInv, ValidateRow
  PROVE  ValidInv'
<1>1. ValidatedRow(vtable, validated') /\ memory' \in Memory
  BY RowValidated
<1>2. /\ vleft' \in Int /\ vleft' >= -1 /\ vleft' # -1 /\ vleft \in Int /\ vleft # -1
      /\ vtable' = vtable /\ asBuilt' = asBuilt
  BY DEF ValidateRow, ValidInv
<1>3. (asBuilt \in Seq({BuiltRow(vtable, k) : k \in 1 .. TableRows}) /\ Len(asBuilt) <= TableRows)'
  BY <1>2 DEF ValidInv
<1>4. (\A k \in 1 .. Len(asBuilt) : asBuilt[k] = BuiltRow(vtable, k))'
  BY <1>2 DEF ValidInv
<1>5. vtable' \in ValidTables /\ Len(asBuilt') = TableRows
  BY <1>2 DEF ValidInv
<1>6. ValidatedRow(vtable', validated')
  BY <1>1, <1>2
<1> QED
  BY <1>1, <1>2, <1>3, <1>4, <1>5, <1>6 DEF ValidInv, ValidatedRow

(* A row is built by its number alone, and so is one that is validated, of *)
(* every table, whatever the process has validated before.                 *)
THEOREM ValidInvariant == ValidSpec => []ValidInv
<1>1. ValidInv /\ [ValidNext]_validVars => ValidInv'
  <2> SUFFICES ASSUME ValidInv, [ValidNext]_validVars PROVE ValidInv'
    OBVIOUS
  <2>1. CASE BuildAnother
    BY <2>1, RowBuilt, OrderOfBuild
  <2>2. CASE BeginValidation
    BY <2>2, ValidationBegun
  <2>3. CASE ValidateRow
    BY <2>3, ValidationGoesOn
  <2>4. CASE UNCHANGED validVars
    <3>1. /\ vtable' = vtable /\ vleft' = vleft /\ memory' = memory /\ asBuilt' = asBuilt /\ validated' = validated
      BY <2>4 DEF validVars
    <3>2. HasBuilt(vtable, memory, Len(asBuilt))' <=> HasBuilt(vtable, memory, Len(asBuilt))
      BY <3>1 DEF HasBuilt
    <3> QED  BY <3>1, <3>2 DEF ValidInv
  <2> QED  BY <2>1, <2>2, <2>3, <2>4 DEF ValidNext
<1> QED
  BY <1>1, ValidStart, PTL DEF ValidSpec

(* The lines before an order of a refresh set: each order has as many.     *)
LEMMA LinesBeforeOrder ==
  ASSUME ValidInv, vtable \in OrdersOfSet, NEW k \in 1 .. TableRows, Len(asBuilt) = TableRows
  PROVE  LinesBefore(k) = (k - 1) * OrderLines
<1> DEFINE a == 1 .. k - 1
           b == 1 .. OrderLines
<1>1. vtable \in Orders /\ vtable \notin Sales
  BY DEF Orders, Sales, OrdersOfSet
<1>2. \A j \in 1 .. TableRows : Len(asBuilt[j]) = OrderLines
  <2> TAKE j \in 1 .. TableRows
  <2>1. asBuilt[j] = [i \in 1 .. OrderLines |-> NumberedLine(vtable, j, i)]
    BY <1>1 DEF ValidInv, BuiltRow, LinesOfOrder
  <2>2. OrderLines \in Nat
    BY ValidationConstants
  <2> QED  BY <2>1, <2>2
<1>3. {p \in a \X b : p[2] <= Len(asBuilt[p[1]])} = a \X b
  <2> SUFFICES ASSUME NEW p \in a \X b PROVE p[2] <= Len(asBuilt[p[1]])
    OBVIOUS
  <2>1. p[1] \in 1 .. TableRows /\ p[2] <= OrderLines
    BY ValidationConstants
  <2> QED  BY <1>2, <2>1
<1>4. IsFiniteSet(a) /\ Cardinality(a) = k - 1 /\ IsFiniteSet(b) /\ Cardinality(b) = OrderLines
  <2>1. 1 \in Int /\ k - 1 \in Int /\ OrderLines \in Int
        /\ (IF 1 > k - 1 THEN 0 ELSE k - 1 - 1 + 1) = k - 1 /\ (IF 1 > OrderLines THEN 0 ELSE OrderLines - 1 + 1) = OrderLines
    BY ValidationConstants
  <2>2. IsFiniteSet(a) /\ Cardinality(a) = IF 1 > k - 1 THEN 0 ELSE k - 1 - 1 + 1
    BY <2>1, FS_Interval
  <2>3. IsFiniteSet(b) /\ Cardinality(b) = IF 1 > OrderLines THEN 0 ELSE OrderLines - 1 + 1
    BY <2>1, FS_Interval
  <2> QED  BY <2>1, <2>2, <2>3
<1>5. Cardinality(a \X b) = Cardinality(a) * Cardinality(b)
  <2> HIDE DEF a, b
  <2> QED  BY <1>4, FS_Product
<1> QED
  BY <1>3, <1>4, <1>5 DEF LinesBefore

(* A row or a line that is validated is the one the whole build writes,    *)
(* and the number printed with a line of a refresh set is its place there, *)
(* for any number of rows and of orders a day, whatever the lines, the     *)
(* returns and the values kept that are drawn.                             *)
THEOREM AlwaysValidatedAsBuilt == ValidSpec => []ValidatedAsBuilt
<1>1. ValidInv => ValidatedAsBuilt
  <2> SUFFICES ASSUME ValidInv, validated # <<>> PROVE ValidatedAsBuilt
    BY DEF ValidatedAsBuilt
  <2> DEFINE k == validated.key
             line == validated.line
  <2>1. /\ k \in 1 .. TableRows /\ Len(asBuilt) = TableRows /\ asBuilt[k] = BuiltRow(vtable, k)
        /\ vtable \notin Orders => validated.row = BuiltRow(vtable, k)
        /\ vtable \in Orders => /\ line \in 1 .. LinesOfOrder(vtable, k)
                                /\ validated.row = NumberedLine(vtable, k, line)
                                /\ validated.number = (k - 1) * OrderLines + line
    BY DEF ValidInv
  <2>2. vtable \in Orders => line \in DOMAIN asBuilt[k] /\ validated.row = asBuilt[k][line]
    <3> SUFFICES ASSUME vtable \in Orders PROVE line \in DOMAIN asBuilt[k] /\ validated.row = asBuilt[k][line]
      OBVIOUS
    <3>1. asBuilt[k] = [i \in 1 .. LinesOfOrder(vtable, k) |-> NumberedLine(vtable, k, i)]
      BY <2>1 DEF BuiltRow
    <3> QED  BY <2>1, <3>1
  <2>3. vtable \in OrdersOfSet => validated.number = LinesBefore(k) + line
    BY <2>1, LinesBeforeOrder DEF Orders
  <2> QED  BY <2>1, <2>2, <2>3 DEF ValidatedAsBuilt
<1> QED
  BY <1>1, ValidInvariant, PTL

=============================================================================
