----------------------------- MODULE InputProofs -----------------------------
(***************************************************************************)
(* What the generators are given, and what they make of it: the templates  *)
(* of queries, the options and their files, the distributions.             *)
(* The queries of a stream (QueryGen) are in an order that is a            *)
(* permutation, shuffled from one that depends on nothing that was drawn:  *)
(* what shuffling does is defined by recursion over the entries, and that  *)
(* it permutes is shown by the least entry at which it would not.          *)
(* The options (Options) are at any time those that the rule of Precedence *)
(* has of the items and the lines that were read so far.                   *)
(* The distributions (Distributions) are in the file one after the other:  *)
(* where each part of each begins is a sum of sizes, the one the index     *)
(* says and the one that was written, and sums of sizes that are not zero  *)
(* differ.  What distcomp has in memory tells at any time what the         *)
(* statements said, and has space.                                         *)
(***************************************************************************)
EXTENDS TLAPS, QueryGen, Options, Distributions, FiniteSetTheorems, WellFoundedInduction

-----------------------------------------------------------------------------
\* QueryGen
(* What holds of 0 and goes on to the next number holds up to n.           *)
LEMMA Upwards ==
  ASSUME NEW n \in Nat, NEW T, 0 \in T, \A k \in 1 .. n : k - 1 \in T => k \in T
  PROVE  \A k \in 0 .. n : k \in T
<1> DEFINE R == OpToRel(<, Nat)
           Bad == {k \in 0 .. n : k \notin T}
<1>1. IsWellFoundedOn(R, Nat)
  BY NatLessThanWellFounded
<1>2. \A i, j \in Nat : i < j => <<i, j>> \in R
  BY DEF OpToRel
<1>3. Bad \subseteq Nat
  OBVIOUS
<1> HIDE DEF R
<1>4. SUFFICES ASSUME Bad # {} PROVE FALSE
  OBVIOUS
<1>5. PICK m \in Bad : \A i \in Bad : ~(<<i, m>> \in R)
  BY <1>1, <1>3, <1>4, WFMin
<1>6. m \in 1 .. n /\ m - 1 \in 0 .. n /\ m - 1 < m /\ m - 1 \in Nat
  BY <1>5
<1>7. m - 1 \notin T
  BY <1>5, <1>6
<1>8. <<m - 1, m>> \in R
  BY <1>2, <1>6
<1> QED
  BY <1>5, <1>6, <1>7, <1>8

Unfolds(f, n, S, first, G) ==
  f \in [0 .. n -> S] /\ f[0] = first /\ \A k \in 1 .. n : f[k] = G[k][f[k - 1]]

(* Steps that are taken one after the other, from S to S.                  *)
LEMMA Recursion ==
  ASSUME NEW S, NEW n \in Nat, NEW first \in S, NEW G \in [1 .. n -> [S -> S]]
  PROVE  \E f : Unfolds(f, n, S, first, G)
<1> DEFINE Upto(m, f) == f[0] = first /\ \A k \in 1 .. m : f[k] = G[k][f[k - 1]]
           T == {m \in 0 .. n : \E f \in [0 .. m -> S] : Upto(m, f)}
<1>1. 0 \in T
  <2> DEFINE f == [i \in 0 .. 0 |-> first]
  <2>1. f \in [0 .. 0 -> S] /\ Upto(0, f) /\ 0 \in 0 .. n
    OBVIOUS
  <2> HIDE DEF f, Upto
  <2> QED  BY <2>1
<1>2. ASSUME NEW m \in 1 .. n, m - 1 \in T PROVE m \in T
  <2>1. PICK f \in [0 .. m - 1 -> S] : Upto(m - 1, f)
    BY <1>2
  <2>2. f[m - 1] \in S
    BY <2>1
  <2> DEFINE last == G[m][f[m - 1]]
             g == [i \in 0 .. m |-> IF i = m THEN last ELSE f[i]]
  <2>3. last \in S
    BY <2>2
  <2>4. \A i \in 0 .. m - 1 : g[i] = f[i]
    OBVIOUS
  <2>5. g[m] = last
    OBVIOUS
  <2>6. g \in [0 .. m -> S]
    BY <2>3
  <2> HIDE DEF g
  <2>7. \A k \in 1 .. m - 1 : g[k] = G[k][g[k - 1]]
    <3> TAKE k \in 1 .. m - 1
    <3>1. k \in 0 .. m - 1 /\ k - 1 \in 0 .. m - 1  OBVIOUS
    <3>2. g[k] = f[k] /\ g[k - 1] = f[k - 1]  BY <2>4, <3>1
    <3> QED  BY <2>1, <3>2
  <2>8. g[m] = G[m][g[m - 1]]
    <3>1. m - 1 \in 0 .. m - 1  OBVIOUS
    <3> QED  BY <2>4, <2>5, <3>1
  <2>9. g[0] = first
    BY <2>1, <2>4
  <2>10. Upto(m, g)
    <3>1. \A k \in 1 .. m : k \in 1 .. m - 1 \/ k = m  OBVIOUS
    <3> QED  BY <2>7, <2>8, <2>9, <3>1
  <2>11. m \in 0 .. n
    OBVIOUS
  <2> HIDE DEF Upto
  <2> QED  BY <2>6, <2>10, <2>11
<1> HIDE DEF T
<1>3. \A m \in 0 .. n : m \in T
  BY <1>1, <1>2, Upwards
<1>4. n \in T
  BY <1>3
<1> QED  BY <1>4 DEF T, Unfolds

-----------------------------------------------------------------------------
(* Every value up to n once.                                               *)
Permutes(p, n) ==
  /\ p \in [1 .. n -> 1 .. n]
  /\ \A i, j \in 1 .. n : p[i] = p[j] => i = j
  /\ \A v \in 1 .. n : \E i \in 1 .. n : p[i] = v

Identity(n) == [i \in 1 .. n |-> i]

LEMMA IdentityPermutes == ASSUME NEW n \in Nat PROVE Permutes(Identity(n), n)
  BY DEF Permutes, Identity

LEMMA LenOf ==
  ASSUME NEW S, NEW n \in Nat, NEW p \in [1 .. n -> S]
  PROVE  p \in Seq(S) /\ Len(p) = n
  OBVIOUS

\* makePermutation(), exchange by exchange.
Exchanges(f, n, V, p, r) ==
  /\ f \in [0 .. n -> [1 .. n -> V]] /\ f[0] = p
  /\ \A k \in 1 .. n : f[k] = Exchanged(f[k - 1], k, r[k])

LEMMA ShuffleSteps ==
  ASSUME NEW n \in Nat, NEW V, NEW p \in [1 .. n -> V], NEW r \in [1 .. n -> 1 .. n]
  PROVE  \E f : Exchanges(f, n, V, p, r) /\ Shuffle(p, r) = f[n]
<1> DEFINE S == [1 .. n -> V]
           G == [k \in 1 .. n |-> [q \in S |-> Exchanged(q, k, r[k])]]
           Rule(f) == [i \in 0 .. n |-> IF i = 0 THEN p ELSE Exchanged(f[i - 1], i, r[i])]
<1>1. ASSUME NEW q \in S, NEW k \in 1 .. n PROVE Exchanged(q, k, r[k]) \in S
  BY DEF Exchanged
<1>2. G \in [1 .. n -> [S -> S]]
  <2> HIDE DEF S
  <2>1. ASSUME NEW k \in 1 .. n PROVE [q \in S |-> Exchanged(q, k, r[k])] \in [S -> S]
    BY <1>1
  <2> QED  BY <2>1
<1>3. \A k \in 1 .. n, q \in S : G[k][q] = Exchanged(q, k, r[k])
  <2> HIDE DEF S
  <2> QED  OBVIOUS
<1>4. p \in S
  OBVIOUS
<1> HIDE DEF S, G
<1>5. PICK f : Unfolds(f, n, S, p, G)
  BY <1>2, <1>4, Recursion
<1>6. \A k \in 1 .. n : f[k] = Exchanged(f[k - 1], k, r[k])
  <2> TAKE k \in 1 .. n
  <2>1. f[k - 1] \in S  BY <1>5 DEF Unfolds
  <2> QED  BY <1>3, <1>5, <2>1 DEF Unfolds
<1>7. f = Rule(f)
  BY <1>5, <1>6 DEF Unfolds
<1>8. Len(p) = n
  BY LenOf
<1> DEFINE after == CHOOSE g : g = Rule(g)
<1>9. Shuffle(p, r) = after[n]
  BY <1>8 DEF Shuffle
<1>10. after = Rule(after)
  <2> HIDE DEF Rule
  <2> QED  BY <1>7
<1>11. after \in [0 .. n -> S] /\ after[0] = p /\ \A k \in 1 .. n : after[k] = Exchanged(after[k - 1], k, r[k])
  <2> HIDE DEF after
  <2>1. after[0] = p /\ \A k \in 1 .. n : after[k] = Exchanged(after[k - 1], k, r[k])
    <3>1. \A i \in 0 .. n : Rule(after)[i] = IF i = 0 THEN p ELSE Exchanged(after[i - 1], i, r[i])
      OBVIOUS
    <3> HIDE DEF Rule
    <3>2. \A i \in 0 .. n : after[i] = IF i = 0 THEN p ELSE Exchanged(after[i - 1], i, r[i])
      BY <1>10, <3>1
    <3> QED  BY <3>2
  <2>2. after = [k \in 0 .. n |-> after[k]]
    <3>1. \A g : Rule(g) = [k \in 0 .. n |-> Rule(g)[k]]
      OBVIOUS
    <3> HIDE DEF Rule
    <3> QED  BY <1>10, <3>1
  <2> DEFINE T == {k \in 0 .. n : after[k] \in S}
  <2>3. 0 \in T  BY <1>4, <2>1
  <2>4. \A k \in 1 .. n : k - 1 \in T => k \in T
    BY <1>1, <2>1
  <2> HIDE DEF T
  <2>5. \A k \in 0 .. n : k \in T  BY <2>3, <2>4, Upwards
  <2> QED  BY <2>1, <2>2, <2>5 DEF T
<1> QED
  BY <1>9, <1>11 DEF S, Exchanges

Composed(q, p, s, n, V) == q \in [1 .. n -> V] /\ \A i \in 1 .. n : q[i] = p[s[i]]

(* The permutation that is drawn is applied to what is there, and has      *)
(* every value once.                                                       *)
LEMMA Shuffled ==
  ASSUME NEW n \in Nat, NEW V, NEW p \in [1 .. n -> V], NEW r \in [1 .. n -> 1 .. n]
  PROVE  /\ Permutes(Shuffle(Identity(n), r), n)
         /\ Composed(Shuffle(p, r), p, Shuffle(Identity(n), r), n, V)
<1>1. Permutes(Identity(n), n) /\ Identity(n) \in [1 .. n -> 1 .. n]
  BY IdentityPermutes DEF Permutes
<1>2. PICK f : Exchanges(f, n, V, p, r) /\ Shuffle(p, r) = f[n]
  BY ShuffleSteps
<1>3. PICK g : Exchanges(g, n, 1 .. n, Identity(n), r) /\ Shuffle(Identity(n), r) = g[n]
  BY <1>1, ShuffleSteps
<1> DEFINE T == {k \in 0 .. n : Permutes(g[k], n) /\ \A i \in 1 .. n : f[k][i] = p[g[k][i]]}
<1>4. 0 \in T
  <2>1. \A i \in 1 .. n : Identity(n)[i] = i  BY DEF Identity
  <2>2. f[0] = p /\ g[0] = Identity(n) /\ 0 \in 0 .. n
    BY <1>2, <1>3 DEF Exchanges
  <2> QED  BY <1>1, <2>1, <2>2
<1>5. ASSUME NEW k \in 1 .. n, k - 1 \in T PROVE k \in T
  <2> DEFINE a == f[k - 1]   b == g[k - 1]   m == r[k]
  <2>1. k - 1 \in 0 .. n /\ k \in 0 .. n  OBVIOUS
  <2>2. f[k] = [a EXCEPT ![k] = a[m], ![m] = a[k]]
    BY <1>2 DEF Exchanged, Exchanges
  <2>3. g[k] = [b EXCEPT ![k] = b[m], ![m] = b[k]]
    BY <1>3 DEF Exchanged, Exchanges
  <2>4. a \in [1 .. n -> V] /\ b \in [1 .. n -> 1 .. n] /\ m \in 1 .. n
    BY <1>2, <1>3, <2>1 DEF Exchanges
  <2>5. Permutes(b, n) /\ \A i \in 1 .. n : a[i] = p[b[i]]
    BY <1>5
  <2> DEFINE c == f[k]   d == g[k]
  <2> HIDE DEF a, b, m, c, d, T
  <2>6. /\ c[m] = a[k] /\ d[m] = b[k] /\ (k # m => c[k] = a[m] /\ d[k] = b[m])
        /\ \A i \in 1 .. n : i # k /\ i # m => c[i] = a[i] /\ d[i] = b[i]
    BY <2>2, <2>3, <2>4 DEF c, d
  <2>7. d \in [1 .. n -> 1 .. n]
    BY <2>3, <2>4 DEF d
  <2>8. \A i \in 1 .. n : c[i] = p[d[i]]
    BY <2>4, <2>5, <2>6
  <2>9. ASSUME NEW i \in 1 .. n, NEW j \in 1 .. n, d[i] = d[j] PROVE i = j
    <3> DEFINE old(x) == IF x = k THEN m ELSE IF x = m THEN k ELSE x
    <3>1. \A x \in 1 .. n : old(x) \in 1 .. n /\ d[x] = b[old(x)]
      BY <2>4, <2>6
    <3> HIDE DEF old
    <3>2. b[old(i)] = b[old(j)] /\ old(i) \in 1 .. n /\ old(j) \in 1 .. n
      BY <2>9, <3>1
    <3>3. old(i) = old(j)
      BY <2>5, <3>2 DEF Permutes
    <3> QED  BY <3>3 DEF old
  <2>10. ASSUME NEW v \in 1 .. n PROVE \E i \in 1 .. n : d[i] = v
    <3>1. PICK j \in 1 .. n : b[j] = v
      BY <2>5 DEF Permutes
    <3>2. CASE j = k  BY <2>4, <2>6, <3>1, <3>2
    <3>3. CASE j # k /\ j = m  BY <2>4, <2>6, <3>1, <3>3
    <3>4. CASE j # k /\ j # m  BY <2>4, <2>6, <3>1, <3>4
    <3> QED  BY <3>2, <3>3, <3>4
  <2>11. Permutes(d, n)
    BY <2>7, <2>9, <2>10 DEF Permutes
  <2> QED
    BY <2>1, <2>8, <2>11 DEF T, c, d
<1> HIDE DEF T
<1>6. \A k \in 0 .. n : k \in T
  BY <1>4, <1>5, Upwards
<1>7. Permutes(g[n], n) /\ \A i \in 1 .. n : f[n][i] = p[g[n][i]]
  <2>1. n \in T  BY <1>6
  <2> QED  BY <2>1 DEF T
<1> QED
  BY <1>2, <1>3, <1>7 DEF Exchanges, Composed

(* So what was a permutation is one.                                       *)
LEMMA StillPermutes ==
  ASSUME NEW n \in Nat, NEW p, Permutes(p, n), NEW r \in [1 .. n -> 1 .. n]
  PROVE  Permutes(Shuffle(p, r), n)
<1> DEFINE q == Shuffle(p, r)   s == Shuffle(Identity(n), r)
<1>1. p \in [1 .. n -> 1 .. n]
  BY DEF Permutes
<1>2. q \in [1 .. n -> 1 .. n] /\ Permutes(s, n) /\ \A i \in 1 .. n : q[i] = p[s[i]]
  <2>1. Permutes(s, n) /\ Composed(q, p, s, n, 1 .. n)
    BY <1>1, Shuffled
  <2> HIDE DEF q, s
  <2> QED  BY <2>1 DEF Composed
<1> HIDE DEF q, s
<1>3. \A i \in 1 .. n : s[i] \in 1 .. n
  BY <1>2 DEF Permutes
<1>4. ASSUME NEW i \in 1 .. n, NEW j \in 1 .. n, q[i] = q[j] PROVE i = j
  <2>1. p[s[i]] = p[s[j]] /\ s[i] \in 1 .. n /\ s[j] \in 1 .. n
    BY <1>2, <1>3, <1>4
  <2>2. s[i] = s[j]
    BY <2>1 DEF Permutes
  <2> QED  BY <1>2, <2>2 DEF Permutes
<1>5. ASSUME NEW v \in 1 .. n PROVE \E i \in 1 .. n : q[i] = v
  <2>1. PICK j \in 1 .. n : p[j] = v  BY DEF Permutes
  <2>2. PICK i \in 1 .. n : s[i] = j  BY <1>2 DEF Permutes
  <2> QED  BY <1>2, <2>1, <2>2
<1>6. Permutes(q, n)
  BY <1>2, <1>4, <1>5 DEF Permutes
<1> QED
  BY <1>6 DEF q


(* The order of the k-th stream is the permutation applied k times.        *)
LEMMA AppliedIs ==
  /\ Applied[0] = Identity(N)
  /\ \A k \in 1 .. STREAMS :
       Applied[k] = [i \in 1 .. N |-> Applied[k - 1][Shuffle(Identity(N), Shuffles)[i]]]
<1> DEFINE s == Shuffle(Identity(N), Shuffles)
           S == [1 .. N -> 1 .. N]
           H(q) == [i \in 1 .. N |-> q[s[i]]]
           G == [k \in 1 .. STREAMS |-> [q \in S |-> H(q)]]
           Rule(f) == [k \in 0 .. STREAMS |-> IF k = 0 THEN Identity(N) ELSE H(f[k - 1])]
<1>1. N \in Nat /\ STREAMS \in Nat /\ Shuffles \in [1 .. N -> 1 .. N]
  BY DefinitionAssumption
<1>2. Identity(N) \in [1 .. N -> 1 .. N] /\ Permutes(s, N)
  <2>1. Permutes(Identity(N), N)
    BY <1>1, IdentityPermutes
  <2>2. Identity(N) \in [1 .. N -> 1 .. N]
    BY <2>1 DEF Permutes
  <2> QED
    BY <1>1, <2>1, <2>2, Shuffled, Zenon
<1>3. s \in [1 .. N -> 1 .. N]
  BY <1>2 DEF Permutes
<1>4. ASSUME NEW q \in S PROVE H(q) \in S
  <2> HIDE DEF s
  <2> QED  BY <1>3
<1> HIDE DEF s, S, H
<1>5. G \in [1 .. STREAMS -> [S -> S]]
  <2>1. [q \in S |-> H(q)] \in [S -> S]  BY <1>4
  <2> QED  BY <2>1
<1>6. \A k \in 1 .. STREAMS, q \in S : G[k][q] = H(q)
  OBVIOUS
<1> HIDE DEF G
<1>7. Identity(N) \in S
  BY <1>2 DEF S
<1>8. PICK f : Unfolds(f, STREAMS, S, Identity(N), G)
  BY <1>1, <1>5, <1>7, Recursion
<1>9. \A k \in 1 .. STREAMS : f[k] = H(f[k - 1])
  <2> TAKE k \in 1 .. STREAMS
  <2>1. f[k - 1] \in S  BY <1>1, <1>8 DEF Unfolds
  <2> QED  BY <1>6, <1>8, <2>1 DEF Unfolds
<1>10. f = Rule(f)
  BY <1>1, <1>8, <1>9 DEF Unfolds
<1>11. Applied = CHOOSE g : g = Rule(g)
  BY DEF Applied, Identity, H, s
<1>12. Applied = Rule(Applied)
  <2> HIDE DEF Rule
  <2> QED  BY <1>10, <1>11
<1>13. \A k \in 0 .. STREAMS : Rule(Applied)[k] = IF k = 0 THEN Identity(N) ELSE H(Applied[k - 1])
  OBVIOUS
<1> HIDE DEF Rule
<1>14. \A k \in 0 .. STREAMS : Applied[k] = IF k = 0 THEN Identity(N) ELSE H(Applied[k - 1])
  BY <1>12, <1>13
<1>15. Applied[0] = Identity(N) /\ \A k \in 1 .. STREAMS : Applied[k] = H(Applied[k - 1])
  BY <1>1, <1>14
<1> QED
  BY <1>15 DEF H, s

-----------------------------------------------------------------------------
Texts == ToSet(TextOf)

\* A list of texts along a permutation, row by row.
Listed(f, n, p, m) ==
  /\ f \in [0 .. n -> Seq(Texts)] /\ f[0] = <<>>
  /\ \A k \in 1 .. n : f[k] = Adding(f[k - 1], TextOf[p[k]], m)

LEMMA TextOfRow ==
  ASSUME NEW row \in 1 .. Len(TextOf)
  PROVE  TextOf[row] \in Texts
  BY DefinitionAssumption DEF Texts, ToSet

LEMMA AddingType ==
  ASSUME NEW l \in Seq(Texts), NEW text \in Texts, NEW m
  PROVE  Adding(l, text, m) \in Seq(Texts)
  BY DEF Adding

LEMMA DistinctSteps ==
  ASSUME NEW p, Permutes(p, Len(TextOf)), NEW m
  PROVE  \E f : Listed(f, Len(TextOf), p, m) /\ Distinct(p, m) = f[Len(TextOf)]
<1> DEFINE n == Len(TextOf)
           S == Seq(Texts)
           H(l, k) == Adding(l, TextOf[p[k]], m)
           G == [k \in 1 .. n |-> [l \in S |-> H(l, k)]]
           Rule(f) == [k \in 0 .. n |-> IF k = 0 THEN <<>> ELSE H(f[k - 1], k)]
<1>1. n \in Nat
  BY DefinitionAssumption
<1>2. p \in [1 .. n -> 1 .. n]
  BY DEF Permutes
<1>3. Len(p) = n
  BY <1>1, <1>2, LenOf
<1>4. ASSUME NEW l \in S, NEW k \in 1 .. n PROVE H(l, k) \in S
  <2>1. p[k] \in 1 .. n  BY <1>2
  <2>2. TextOf[p[k]] \in Texts  BY <2>1, TextOfRow
  <2> QED  BY <2>2, AddingType
<1> HIDE DEF n
<1>5. Distinct(p, m) = (CHOOSE g : g = Rule(g))[n]
  BY <1>3 DEF Distinct
<1>6. <<>> \in S
  OBVIOUS
<1> HIDE DEF S, H
<1>7. G \in [1 .. n -> [S -> S]]
  <2>1. ASSUME NEW k \in 1 .. n PROVE [l \in S |-> H(l, k)] \in [S -> S]  BY <1>4
  <2> QED  BY <2>1
<1>8. \A k \in 1 .. n, l \in S : G[k][l] = H(l, k)
  OBVIOUS
<1> HIDE DEF G
<1>9. PICK f : Unfolds(f, n, S, <<>>, G)
  BY <1>1, <1>6, <1>7, Recursion
<1>10. \A k \in 1 .. n : f[k] = H(f[k - 1], k)
  <2> TAKE k \in 1 .. n
  <2>1. f[k - 1] \in S  BY <1>1, <1>9 DEF Unfolds
  <2> QED  BY <1>8, <1>9, <2>1 DEF Unfolds
<1>11. f = Rule(f)
  BY <1>1, <1>9, <1>10 DEF Unfolds
<1> DEFINE list == CHOOSE g : g = Rule(g)
<1>12. list = Rule(list)
  <2> HIDE DEF Rule
  <2> QED  BY <1>11
<1>13. \A k \in 0 .. n : Rule(list)[k] = IF k = 0 THEN <<>> ELSE H(list[k - 1], k)
  <2> HIDE DEF list
  <2> QED  OBVIOUS
<1>14. Rule(list) = [k \in 0 .. n |-> Rule(list)[k]]
  <2> HIDE DEF list
  <2> QED  OBVIOUS
<1> HIDE DEF Rule, list
<1>15. /\ list = [k \in 0 .. n |-> list[k]] /\ list[0] = <<>>
       /\ \A k \in 1 .. n : list[k] = H(list[k - 1], k)
  BY <1>1, <1>12, <1>13, <1>14
<1> DEFINE T == {k \in 0 .. n : list[k] \in S}
<1>16. 0 \in T /\ \A k \in 1 .. n : k - 1 \in T => k \in T
  <2>1. 0 \in T
    BY <1>1, <1>6, <1>15
  <2>2. ASSUME NEW k \in 1 .. n, k - 1 \in T PROVE k \in T
    <3>1. list[k - 1] \in S /\ k \in 0 .. n  BY <2>2
    <3>2. H(list[k - 1], k) \in S  BY <1>4, <3>1
    <3> QED  BY <1>15, <3>1, <3>2
  <2> HIDE DEF T
  <2> QED  BY <2>1, <2>2
<1> HIDE DEF T
<1>17. \A k \in 0 .. n : k \in T
  BY <1>1, <1>16, Upwards
<1>18. list \in [0 .. n -> S]
  BY <1>15, <1>17 DEF T
<1>19. Listed(list, n, p, m)
  BY <1>15, <1>18 DEF Listed, H, S
<1> QED
  BY <1>5, <1>19 DEF list, n

(* The texts of a list are all different, and as many as it asks for: as   *)
(* long as it is short of them it has every text there was.                *)
LEMMA DistinctIs ==
  ASSUME NEW p, Permutes(p, Len(TextOf)), NEW m \in 0 .. Cardinality(Texts)
  PROVE  Len(Distinct(p, m)) = m /\ IsInjective(Distinct(p, m))
<1> DEFINE n == Len(TextOf)
<1>1. n \in Nat /\ m \in Nat
  BY DefinitionAssumption
<1>2. PICK f : Listed(f, n, p, m) /\ Distinct(p, m) = f[n]
  BY DistinctSteps
<1> DEFINE Good(k) == /\ Len(f[k]) <= m
                      /\ \A i, j \in 1 .. Len(f[k]) : f[k][i] = f[k][j] => i = j
                      /\ Len(f[k]) < m => \A j \in 1 .. k : TextOf[p[j]] \in ToSet(f[k])
           T == {k \in 0 .. n : Good(k)}
<1> HIDE DEF n
<1>3. 0 \in T
  <2>1. f[0] = <<>> /\ Len(<<>>) = 0
    BY <1>2 DEF Listed
  <2> QED  BY <1>1, <2>1
<1>4. ASSUME NEW k \in 1 .. n, k - 1 \in T PROVE k \in T
  <2> DEFINE l == f[k - 1]   new == f[k]   text == TextOf[p[k]]
  <2>1. l \in Seq(Texts) /\ new = Adding(l, text, m) /\ k - 1 \in 0 .. n /\ k \in 0 .. n
    BY <1>1, <1>2 DEF Listed
  <2>2. p[k] \in 1 .. Len(TextOf)
    BY DEF Permutes, n
  <2>3. text \in Texts
    BY <2>2, TextOfRow
  <2>4. Good(k - 1)
    BY <1>4
  <2> HIDE DEF l, new, text, T
  <2>5. /\ Len(l) <= m /\ \A i, j \in 1 .. Len(l) : l[i] = l[j] => i = j
        /\ Len(l) < m => \A j \in 1 .. k - 1 : TextOf[p[j]] \in ToSet(l)
    BY <2>4 DEF l
  <2>6. CASE Len(l) < m /\ text \notin ToSet(l)
    <3>1. new = Append(l, text)
      BY <2>1, <2>6 DEF Adding
    <3>2. /\ Len(l) \in Nat /\ Len(new) = Len(l) + 1 /\ new[Len(l) + 1] = text
          /\ \A i \in 1 .. Len(l) : new[i] = l[i] /\ l[i] \in ToSet(l)
          /\ DOMAIN new = 1 .. Len(l) + 1 /\ DOMAIN l = 1 .. Len(l)
      BY <2>1, <2>3, <3>1 DEF ToSet
    <3>3. \A i, j \in 1 .. Len(new) : new[i] = new[j] => i = j
      <4> TAKE i, j \in 1 .. Len(new)
      <4>1. CASE i \in 1 .. Len(l) /\ j \in 1 .. Len(l)
        BY <2>5, <3>2, <4>1
      <4>2. CASE i = Len(l) + 1 /\ j = Len(l) + 1
        BY <4>2
      <4>3. CASE i \in 1 .. Len(l) /\ j = Len(l) + 1
        BY <2>6, <3>2, <4>3
      <4>4. CASE i = Len(l) + 1 /\ j \in 1 .. Len(l)
        BY <2>6, <3>2, <4>4
      <4> QED  BY <3>2, <4>1, <4>2, <4>3, <4>4
    <3>4. Len(new) <= m
      BY <1>1, <2>6, <3>2
    <3>5. ToSet(l) \subseteq ToSet(new) /\ text \in ToSet(new)
      <4>1. Len(l) + 1 \in DOMAIN new /\ \A i \in DOMAIN l : i \in DOMAIN new /\ new[i] = l[i]
        BY <3>2
      <4>2. text \in ToSet(new)
        BY <3>2, <4>1 DEF ToSet
      <4>3. \A i \in DOMAIN l : l[i] \in ToSet(new)
        BY <4>1 DEF ToSet
      <4> QED  BY <4>2, <4>3 DEF ToSet
    <3>6. \A j \in 1 .. k : TextOf[p[j]] \in ToSet(new)
      <4>1. \A j \in 1 .. k : j \in 1 .. k - 1 \/ j = k  OBVIOUS
      <4> QED  BY <2>5, <2>6, <3>5, <4>1 DEF text
    <3> QED  BY <2>1, <3>3, <3>4, <3>6 DEF T, new
  <2>7. CASE ~(Len(l) < m /\ text \notin ToSet(l))
    <3>1. new = l
      BY <2>1, <2>7 DEF Adding
    <3>2. ASSUME Len(l) < m PROVE \A j \in 1 .. k : TextOf[p[j]] \in ToSet(l)
      <4>1. text \in ToSet(l)  BY <2>7, <3>2
      <4>2. \A j \in 1 .. k : j \in 1 .. k - 1 \/ j = k  OBVIOUS
      <4> QED  BY <2>5, <3>2, <4>1, <4>2 DEF text
    <3> QED  BY <2>1, <2>5, <3>1, <3>2 DEF T, new
  <2> QED  BY <2>6, <2>7
<1> HIDE DEF T
<1>5. \A k \in 0 .. n : k \in T
  BY <1>1, <1>3, <1>4, Upwards
<1>6. n \in T
  BY <1>1, <1>5
<1> DEFINE l == f[n]
<1>7. Good(n) /\ l \in Seq(Texts) /\ DOMAIN l = 1 .. Len(l) /\ Len(l) \in Nat
  BY <1>1, <1>2, <1>6 DEF T, Listed
<1>8. ASSUME Len(l) < m PROVE FALSE
  <2>1. \A j \in 1 .. n : TextOf[p[j]] \in ToSet(l)
    BY <1>7, <1>8
  <2>2. ASSUME NEW text \in Texts PROVE \E i \in 1 .. Len(l) : l[i] = text
    <3>1. PICK row \in 1 .. n : TextOf[row] = text
      BY DefinitionAssumption DEF Texts, ToSet, n
    <3>2. PICK j \in 1 .. n : p[j] = row
      BY DEF Permutes, n
    <3>3. text \in ToSet(l)
      BY <2>1, <3>1, <3>2
    <3> QED  BY <1>7, <3>3 DEF ToSet
  <2>3. l \in [1 .. Len(l) -> Texts]
    BY <1>7
  <2>4. ExistsSurjection(1 .. Len(l), Texts)
    BY <2>2, <2>3 DEF ExistsSurjection, Surjection
  <2>5. Cardinality(Texts) <= Len(l)
    BY <1>7, <2>4, FS_SurjCardinalityBound
  <2>6. Cardinality(Texts) \in Nat
    <3>1. IsFiniteSet(1 .. Len(l))
      <4>1. 1 \in Int /\ Len(l) \in Int  BY <1>7
      <4> HIDE DEF l
      <4> QED  BY <4>1, FS_Interval
    <3>2. PICK g : g \in Surjection(1 .. Len(l), Texts)
      BY <2>4 DEF ExistsSurjection
    <3> QED  BY <3>1, <3>2, FS_Surjection, FS_CardinalityType
  <2> QED  BY <1>1, <1>7, <1>8, <2>5, <2>6
<1>9. Len(l) = m
  BY <1>1, <1>7, <1>8
<1>10. IsInjective(l)
  BY <1>7 DEF IsInjective
<1> QED
  BY <1>2, <1>9, <1>10

-----------------------------------------------------------------------------
(* What a substitution shows: a list its elements, in range and all        *)
(* different.                                                              *)
Shaped(s, parts) ==
  /\ Definition[s].kind = "ulist" /\ Definition[s].m <= Definition[s].n =>
       /\ Len(parts) = Definition[s].m /\ IsInjective(parts)
       /\ ToSet(parts) \subseteq 1 .. Definition[s].n
  /\ Definition[s].kind = "texts" => Len(parts) = Definition[s].m /\ IsInjective(parts)

(* The k-th substitution has had its turn.                                 *)
Evaluated(k) ==
  LET s == SubstitutionsOf[Template][k]
      d == Definition[s]
  IN  /\ d.kind = "member" => values[d.of].stamp = qcount /\ values[d.of].parts[d.element] = used[s]
      /\ d.kind # "member" => values[s].stamp = qcount

OrderInv ==
  /\ nStream \in 0 .. STREAMS /\ nQuery \in 1 .. N /\ turn \in Nat /\ qcount \in Nat \ {0}
  /\ order = Applied[nStream] /\ Permutes(order, N)

ListsInv ==
  /\ values = [s \in Names |-> values[s]] /\ permute = [s \in Names |-> permute[s]]
  /\ used = [s \in Names |-> used[s]]
  /\ \A s \in Names : Permutes(permute[s], Rows(s))
  /\ \A s \in Names : values[s].stamp # 0 => Shaped(s, values[s].parts)

TurnInv == \A k \in 1 .. Len(SubstitutionsOf[Template]) : k < turn => Evaluated(k)

QueryInv == OrderInv /\ ListsInv /\ TurnInv

LEMMA RowsType == \A s \in Names : Rows(s) \in Nat
  BY DefinitionAssumption DEF Rows

LEMMA TemplateType ==
  ASSUME OrderInv
  PROVE  /\ Template \in 1 .. N /\ SubstitutionsOf[Template] \in Seq(Names)
         /\ \A k \in 1 .. Len(SubstitutionsOf[Template]) : SubstitutionsOf[Template][k] \in Names
<1>1. N \in Nat \ {0} /\ SubstitutionsOf \in Seq(Seq(Names))
  BY DefinitionAssumption
<1>2. Template \in 1 .. N
  BY DEF OrderInv, Template, Permutes
<1>3. SubstitutionsOf[Template] \in Seq(Names)
  BY <1>1, <1>2 DEF N
<1> QED
  BY <1>2, <1>3

(* The numbers of a list that is not longer than what it is drawn from.    *)
LEMMA NumbersShaped ==
  ASSUME NEW n \in Nat \ {0}, NEW m \in Nat, m <= n, NEW p, Permutes(p, n), NEW parts \in Numbers(p, n, m)
  PROVE  Len(parts) = m /\ IsInjective(parts) /\ ToSet(parts) \subseteq 1 .. n
<1>1. PICK beyond \in [n + 1 .. m -> (1 - n) .. (n - 1)] :
        parts = [i \in 1 .. m |-> (IF i <= n THEN p[i] % n ELSE beyond[i]) + 1]
  BY DEF Numbers
<1>2. DOMAIN parts = 1 .. m /\ \A i \in 1 .. m : i \in 1 .. n /\ parts[i] = (p[i] % n) + 1
  BY <1>1
<1>3. \A i \in 1 .. n : p[i] \in 1 .. n
  BY DEF Permutes
<1> DEFINE rest(v) == v % n
<1>4. \A v \in 1 .. n : rest(v) \in 0 .. n - 1 /\ rest(v) = IF v = n THEN 0 ELSE v
  OBVIOUS
<1> HIDE DEF rest
<1>5. \A i \in 1 .. m : parts[i] \in 1 .. n
  <2> TAKE i \in 1 .. m
  <2>1. parts[i] = rest(p[i]) + 1 /\ p[i] \in 1 .. n
    BY <1>2, <1>3 DEF rest
  <2>2. rest(p[i]) \in 0 .. n - 1
    BY <1>4, <2>1
  <2> QED  BY <2>1, <2>2
<1>6. ASSUME NEW i \in 1 .. m, NEW j \in 1 .. m, parts[i] = parts[j] PROVE i = j
  <2>1. /\ p[i] \in 1 .. n /\ p[j] \in 1 .. n
        /\ parts[i] = rest(p[i]) + 1 /\ parts[j] = rest(p[j]) + 1
    BY <1>2, <1>3 DEF rest
  <2>2. rest(p[i]) \in 0 .. n - 1 /\ rest(p[j]) \in 0 .. n - 1
    BY <1>4, <2>1
  <2>3. rest(p[i]) = rest(p[j])
    <3> DEFINE x == rest(p[i])   y == rest(p[j])
    <3>1. x + 1 = y + 1
      BY <1>6, <2>1, Zenon
    <3>2. x \in Int /\ y \in Int
      BY <2>2
    <3> HIDE DEF x, y
    <3>3. x = y  BY <3>1, <3>2
    <3> QED  BY <3>3 DEF x, y
  <2> DEFINE a == p[i]   b == p[j]
  <2>5. a \in 1 .. n /\ b \in 1 .. n /\ rest(a) = rest(b)
    BY <2>1, <2>3
  <2> HIDE DEF a, b
  <2>6. rest(a) = (IF a = n THEN 0 ELSE a) /\ rest(b) = (IF b = n THEN 0 ELSE b)
    BY <1>4, <2>5
  <2>7. a = b
    <3> DEFINE x == rest(a)   y == rest(b)
    <3>1. x = y /\ x = (IF a = n THEN 0 ELSE a) /\ y = (IF b = n THEN 0 ELSE b)
      BY <2>5, <2>6
    <3>2. a \in 1 .. n /\ b \in 1 .. n
      BY <2>5
    <3>3. a # 0 /\ b # 0
      BY <3>2
    <3> HIDE DEF x, y
    <3>4. CASE a = n
      BY <3>1, <3>3, <3>4, Zenon
    <3>5. CASE a # n
      BY <3>1, <3>3, <3>5, Zenon
    <3> QED  BY <3>4, <3>5
  <2>4. p[i] = p[j]
    BY <2>7 DEF a, b
  <2> QED  BY <1>2, <2>4 DEF Permutes
<1>7. parts \in [1 .. m -> 1 .. n]
  BY <1>1, <1>2, <1>5
<1>8. Len(parts) = m
  BY <1>7, LenOf
<1> QED
  BY <1>2, <1>5, <1>6, <1>8 DEF IsInjective, ToSet

(* EvalExpr() leaves the other values alone.                               *)
LEMMA Evaluating ==
  ASSUME ListsInv, qcount \in Nat \ {0}, NEW s \in Names, Evaluate(s)
  PROVE  /\ Definition[s].kind # "member" => values'[s].stamp = qcount
         /\ \A t \in Names \ {s} : values'[t] = values[t]
         /\ values' = [t \in Names |-> values'[t]] /\ permute' = [t \in Names |-> permute'[t]]
         /\ \A t \in Names : Permutes(permute'[t], Rows(t))
         /\ \A t \in Names : values'[t].stamp # 0 => Shaped(t, values'[t].parts)
<1> DEFINE d == Definition[s]
           Set(parts) == values' = [values EXCEPT ![s] = [stamp |-> qcount, parts |-> parts]]
<1>1. ASSUME NEW parts, Set(parts), Shaped(s, parts)
      PROVE  /\ values'[s].stamp = qcount /\ \A t \in Names \ {s} : values'[t] = values[t]
             /\ values' = [t \in Names |-> values'[t]]
             /\ \A t \in Names : values'[t].stamp # 0 => Shaped(t, values'[t].parts)
  <2>1. values'[s] = [stamp |-> qcount, parts |-> parts] /\ \A t \in Names \ {s} : values'[t] = values[t]
    BY <1>1 DEF ListsInv
  <2>2. values' = [t \in Names |-> values'[t]]
    BY <1>1 DEF ListsInv
  <2>3. values'[s].stamp = qcount /\ values'[s].parts = parts
    BY <2>1
  <2>4. \A t \in Names : values'[t].stamp # 0 => Shaped(t, values'[t].parts)
    BY <1>1, <2>1, <2>3 DEF ListsInv
  <2> QED  BY <2>1, <2>2, <2>3, <2>4
<1>2. ASSUME NEW n, Rows(s) = n, NEW r \in [1 .. n -> 1 .. n],
             permute' = [permute EXCEPT ![s] = Shuffle(permute[s], r)]
      PROVE  /\ Permutes(permute'[s], n) /\ permute' = [t \in Names |-> permute'[t]]
             /\ \A t \in Names : Permutes(permute'[t], Rows(t))
  <2>1. Permutes(permute[s], n) /\ n \in Nat
    BY <1>2, RowsType DEF ListsInv
  <2>2. Permutes(Shuffle(permute[s], r), n)
    BY <2>1, StillPermutes
  <2>3. permute'[s] = Shuffle(permute[s], r) /\ \A t \in Names \ {s} : permute'[t] = permute[t]
    BY <1>2 DEF ListsInv
  <2>4. permute' = [t \in Names |-> permute'[t]]
    BY <1>2 DEF ListsInv
  <2> QED  BY <1>2, <2>2, <2>3, <2>4 DEF ListsInv
<1>3. CASE d.kind = "random" /\ UNCHANGED permute /\ \E v \in 1 .. d.n : Set(<<v>>)
  <2>1. PICK v \in 1 .. d.n : Set(<<v>>)
    BY <1>3
  <2>2. Shaped(s, <<v>>)
    BY <1>3 DEF Shaped
  <2> HIDE DEF Set
  <2>3. /\ values'[s].stamp = qcount /\ \A t \in Names \ {s} : values'[t] = values[t]
        /\ values' = [t \in Names |-> values'[t]]
        /\ \A t \in Names : values'[t].stamp # 0 => Shaped(t, values'[t].parts)
    BY <1>1, <2>1, <2>2
  <2> QED  BY <1>3, <2>3 DEF ListsInv
<1>4. CASE /\ d.kind = "ulist"
           /\ \E r \in [1 .. d.n -> 1 .. d.n] : permute' = [permute EXCEPT ![s] = Shuffle(@, r)]
           /\ \E parts \in Numbers(permute'[s], d.n, d.m) : Set(parts)
  <2>1. PICK r \in [1 .. d.n -> 1 .. d.n] : permute' = [permute EXCEPT ![s] = Shuffle(permute[s], r)]
    BY <1>4
  <2>2. PICK parts \in Numbers(permute'[s], d.n, d.m) : Set(parts)
    BY <1>4
  <2>3. Rows(s) = d.n /\ d.n \in Nat \ {0} /\ d.m \in Nat
    BY <1>4, DefinitionAssumption DEF Rows
  <2>4. /\ Permutes(permute'[s], d.n) /\ permute' = [t \in Names |-> permute'[t]]
        /\ \A t \in Names : Permutes(permute'[t], Rows(t))
    BY <1>2, <2>1, <2>3
  <2>5. Shaped(s, parts)
    BY <1>4, <2>2, <2>3, <2>4, NumbersShaped DEF Shaped
  <2> HIDE DEF Set
  <2>6. /\ values'[s].stamp = qcount /\ \A t \in Names \ {s} : values'[t] = values[t]
        /\ values' = [t \in Names |-> values'[t]]
        /\ \A t \in Names : values'[t].stamp # 0 => Shaped(t, values'[t].parts)
    BY <1>1, <2>2, <2>5
  <2> QED  BY <2>4, <2>6
<1>5. CASE /\ d.kind = "texts"
           /\ \E r \in [DOMAIN TextOf -> DOMAIN TextOf] : permute' = [permute EXCEPT ![s] = Shuffle(@, r)]
           /\ Set(Distinct(permute'[s], d.m))
  <2>1. DOMAIN TextOf = 1 .. Len(TextOf) /\ Rows(s) = Len(TextOf) /\ d.m \in 0 .. Cardinality(Texts)
    <3>1. DOMAIN TextOf = 1 .. Len(TextOf)
      BY DefinitionAssumption
    <3>2. Rows(s) = Len(TextOf)
      BY <1>5 DEF Rows
    <3>3. d.m \in 0 .. Cardinality(Texts)
      BY <1>5, DefinitionAssumption, Zenon DEF Texts
    <3> QED  BY <3>1, <3>2, <3>3
  <2>2. PICK r \in [DOMAIN TextOf -> DOMAIN TextOf] : permute' = [permute EXCEPT ![s] = Shuffle(permute[s], r)]
    BY <1>5
  <2>3. r \in [1 .. Len(TextOf) -> 1 .. Len(TextOf)]
    BY <2>1
  <2>4. /\ Permutes(permute'[s], Len(TextOf)) /\ permute' = [t \in Names |-> permute'[t]]
        /\ \A t \in Names : Permutes(permute'[t], Rows(t))
    BY <1>2, <2>1, <2>2, <2>3
  <2>5. Shaped(s, Distinct(permute'[s], d.m))
    BY <1>5, <2>1, <2>4, DistinctIs DEF Shaped
  <2>6. Set(Distinct(permute'[s], d.m))
    BY <1>5
  <2> HIDE DEF Set
  <2>7. /\ values'[s].stamp = qcount /\ \A t \in Names \ {s} : values'[t] = values[t]
        /\ values' = [t \in Names |-> values'[t]]
        /\ \A t \in Names : values'[t].stamp # 0 => Shaped(t, values'[t].parts)
    BY <1>1, <2>5, <2>6
  <2> QED  BY <2>4, <2>7
<1> QED
  BY <1>3, <1>4, <1>5 DEF Evaluate

LEMMA QueryStart == QueryInit => QueryInv
<1> SUFFICES ASSUME QueryInit PROVE QueryInv
  OBVIOUS
<1>1. N \in Nat \ {0} /\ STREAMS \in Nat
  BY DefinitionAssumption
<1>2. order = Identity(N) /\ nStream = 0 /\ nQuery = N /\ turn = 0 /\ qcount = 1
  BY DEF QueryInit, Identity
<1>3. Permutes(order, N) /\ order = Applied[nStream]
  BY <1>1, <1>2, IdentityPermutes, AppliedIs
<1>4. OrderInv
  BY <1>1, <1>2, <1>3 DEF OrderInv
<1>5. \A s \in Names : permute[s] = Identity(Rows(s)) /\ values[s].stamp = 0
  BY DEF QueryInit, Identity
<1>6. \A s \in Names : Permutes(permute[s], Rows(s))
  BY <1>5, RowsType, IdentityPermutes
<1>7. /\ values = [s \in Names |-> values[s]] /\ permute = [s \in Names |-> permute[s]]
      /\ used = [s \in Names |-> used[s]]
  BY DEF QueryInit
<1>8. ListsInv
  BY <1>5, <1>6, <1>7 DEF ListsInv
<1>9. TurnInv
  BY <1>2 DEF TurnInv
<1> QED
  BY <1>4, <1>8, <1>9 DEF QueryInv

LEMMA NextStreamKeeps == QueryInv /\ NextStream => QueryInv'
<1> SUFFICES ASSUME QueryInv, NextStream PROVE QueryInv'
  OBVIOUS
<1>1. N \in Nat \ {0} /\ STREAMS \in Nat /\ Shuffles \in [1 .. N -> 1 .. N]
  BY DefinitionAssumption
<1>2. /\ turn = 0 /\ turn' = 0 /\ nStream < STREAMS /\ nStream' = nStream + 1 /\ nQuery' = 1
      /\ order' = Shuffle(order, Shuffles) /\ UNCHANGED <<qualify, qcount, values, permute, used>>
  BY DEF NextStream
<1>3. Permutes(order, N) /\ order \in [1 .. N -> 1 .. N] /\ order = Applied[nStream] /\ nStream \in 0 .. STREAMS
  BY DEF QueryInv, OrderInv, Permutes
<1>4. Permutes(order', N)
  BY <1>1, <1>2, <1>3, StillPermutes
<1>5. Composed(order', order, Shuffle(Identity(N), Shuffles), N, 1 .. N)
  BY <1>1, <1>2, <1>3, Shuffled
<1>6. order' = [i \in 1 .. N |-> order[Shuffle(Identity(N), Shuffles)[i]]]
  BY <1>5 DEF Composed
<1>7. nStream' \in 1 .. STREAMS /\ nStream' - 1 = nStream
  <2>1. nStream \in 0 .. STREAMS /\ nStream < STREAMS /\ STREAMS \in Nat
    BY <1>1, <1>2, <1>3
  <2>2. nStream + 1 \in 1 .. STREAMS /\ (nStream + 1) - 1 = nStream
    BY <2>1
  <2> QED  BY <1>2, <2>2
<1>8. Applied[nStream'] = [i \in 1 .. N |-> Applied[nStream][Shuffle(Identity(N), Shuffles)[i]]]
  BY <1>7, AppliedIs
<1>9. order' = Applied[nStream']
  BY <1>3, <1>6, <1>8
<1>10. OrderInv'
  BY <1>1, <1>2, <1>4, <1>7, <1>9 DEF QueryInv, OrderInv
<1>11. ListsInv'
  BY <1>2 DEF QueryInv, ListsInv
<1>12. TurnInv'
  BY <1>2 DEF TurnInv
<1> QED
  BY <1>10, <1>11, <1>12 DEF QueryInv

LEMMA NextQueryKeeps == QueryInv /\ NextQuery => QueryInv'
<1> SUFFICES ASSUME QueryInv, NextQuery PROVE QueryInv'
  OBVIOUS
<1>1. /\ turn' = 1 /\ UNCHANGED <<order, qualify, nStream, qcount, values, permute>>
      /\ nQuery' = nQuery \/ (nQuery < N /\ nQuery' = nQuery + 1)
      /\ used' = [s \in Names |-> 0]
  BY DEF NextQuery
<1>2. OrderInv'
  <2>1. OrderInv
    BY DEF QueryInv
  <2>2. nQuery' \in 1 .. N /\ turn' \in Nat
    <3>1. N \in Nat
      BY DefinitionAssumption
    <3>2. nQuery \in 1 .. N
      BY <2>1 DEF OrderInv
    <3> QED
      BY <1>1, <3>1, <3>2
  <2> QED
    BY <1>1, <2>1, <2>2 DEF OrderInv
<1>3. ListsInv'
  BY <1>1 DEF QueryInv, ListsInv
<1>4. TurnInv'
  BY <1>1 DEF TurnInv
<1> QED
  BY <1>2, <1>3, <1>4 DEF QueryInv

(* What has had its turn is not touched by the evaluation of what has no   *)
(* value for this query yet.                                               *)
LEMMA OthersStay ==
  ASSUME QueryInv, NEW s \in Names, values[s].stamp # qcount,
         \A t \in Names \ {s} : values'[t] = values[t],
         qcount' = qcount, used' = used, Template' = Template,
         NEW k \in 1 .. Len(SubstitutionsOf[Template]), k < turn
  PROVE  Evaluated(k)'
<1> DEFINE t == SubstitutionsOf[Template][k]
<1>1. t \in Names /\ (Definition[t].kind = "member" => Definition[t].of \in Names)
  BY TemplateType, DefinitionAssumption DEF QueryInv
<1>2. Evaluated(k)
  BY DEF QueryInv, TurnInv
<1>3. CASE Definition[t].kind = "member"
  <2>1. Definition[t].of # s
    BY <1>2, <1>3 DEF Evaluated
  <2> QED  BY <1>1, <1>2, <1>3, <2>1 DEF Evaluated
<1>4. CASE Definition[t].kind # "member"
  <2>1. t # s
    BY <1>2, <1>4 DEF Evaluated
  <2> QED  BY <1>1, <1>2, <1>4, <2>1 DEF Evaluated
<1> QED
  BY <1>3, <1>4

(* A substitution in its turn, or one that is referred to.                 *)
LEMMA EvalPlainKeeps == QueryInv /\ EvalPlain => QueryInv'
<1> SUFFICES ASSUME QueryInv, EvalPlain PROVE QueryInv'
  OBVIOUS
<1> DEFINE list == SubstitutionsOf[Template]
           s == Current
<1>1. /\ turn \in 1 .. Len(list) /\ turn' = turn + 1 /\ Definition[s].kind # "member"
      /\ UNCHANGED <<order, qualify, nStream, nQuery, nCount, qcount, used>>
      /\ Template' = Template
  BY TemplateType DEF EvalPlain, QueryInv, OrderInv, Template
<1>2. s \in Names /\ s = list[turn] /\ Len(list) \in Nat /\ qcount \in Nat \ {0}
      /\ \A k \in 1 .. Len(list) : list[k] \in Names
  BY <1>1, TemplateType DEF QueryInv, OrderInv, Current
<1>3. OrderInv'
  BY <1>1, <1>2 DEF QueryInv, OrderInv
<1>4. CASE IsSet(s) /\ UNCHANGED <<values, permute>>
  <2>1. ListsInv'
    BY <1>1, <1>4 DEF QueryInv, ListsInv
  <2>2. \A k \in 1 .. Len(list) : k < turn' => Evaluated(k)'
    <3> TAKE k \in 1 .. Len(list)
    <3>1. CASE k < turn
      BY <1>1, <1>4, <3>1 DEF QueryInv, TurnInv, Evaluated
    <3>2. CASE k = turn
      BY <1>1, <1>2, <1>4, <3>2 DEF IsSet, Evaluated
    <3> QED  BY <1>1, <1>2, <3>1, <3>2
  <2> QED  BY <1>1, <1>3, <2>1, <2>2 DEF QueryInv, TurnInv
<1>5. CASE ~IsSet(s) /\ Evaluate(s)
  <2>1. /\ values'[s].stamp = qcount /\ \A t \in Names \ {s} : values'[t] = values[t]
        /\ values' = [t \in Names |-> values'[t]] /\ permute' = [t \in Names |-> permute'[t]]
        /\ \A t \in Names : Permutes(permute'[t], Rows(t))
        /\ \A t \in Names : values'[t].stamp # 0 => Shaped(t, values'[t].parts)
    BY <1>1, <1>2, <1>5, Evaluating DEF QueryInv
  <2>2. ListsInv'
    BY <1>1, <2>1 DEF QueryInv, ListsInv
  <2>3. values[s].stamp # qcount
    BY <1>5 DEF IsSet
  <2>4. \A k \in 1 .. Len(list) : k < turn' => Evaluated(k)'
    <3> TAKE k \in 1 .. Len(list)
    <3>1. CASE k < turn
      BY <1>1, <1>2, <2>1, <2>3, <3>1, OthersStay
    <3>2. CASE k = turn
      BY <1>1, <1>2, <2>1, <3>2 DEF Evaluated
    <3> QED  BY <1>1, <1>2, <3>1, <3>2
  <2> QED  BY <1>1, <1>3, <2>2, <2>4 DEF QueryInv, TurnInv
<1> QED
  BY <1>4, <1>5 DEF EvalPlain

LEMMA EvalReferenceKeeps == QueryInv /\ EvalReference => QueryInv'
<1> SUFFICES ASSUME QueryInv, EvalReference PROVE QueryInv'
  OBVIOUS
<1> DEFINE list == SubstitutionsOf[Template]
           s == Current
           d == Definition[s]
<1>1. /\ turn \in 1 .. Len(list) /\ d.kind = "member"
      /\ UNCHANGED <<order, qualify, nStream, nQuery, nCount, qcount>>
      /\ Template' = Template
  BY TemplateType DEF EvalReference, QueryInv, OrderInv, Template
<1>2. s \in Names /\ s = list[turn] /\ Len(list) \in Nat /\ qcount \in Nat \ {0}
      /\ \A k \in 1 .. Len(list) : list[k] \in Names
  BY <1>1, TemplateType DEF QueryInv, OrderInv, Current
<1>3. d.of \in Names /\ Definition[d.of].kind # "member"
  BY <1>1, <1>2, DefinitionAssumption
<1>4. CASE values[d.of].stamp # qcount /\ Evaluate(d.of) /\ UNCHANGED <<turn, used>>
  <2>1. /\ values'[d.of].stamp = qcount /\ \A t \in Names \ {d.of} : values'[t] = values[t]
        /\ values' = [t \in Names |-> values'[t]] /\ permute' = [t \in Names |-> permute'[t]]
        /\ \A t \in Names : Permutes(permute'[t], Rows(t))
        /\ \A t \in Names : values'[t].stamp # 0 => Shaped(t, values'[t].parts)
    BY <1>2, <1>3, <1>4, Evaluating DEF QueryInv
  <2>2. OrderInv' /\ ListsInv'
    BY <1>1, <1>4, <2>1 DEF QueryInv, OrderInv, ListsInv
  <2>3. \A k \in 1 .. Len(list) : k < turn' => Evaluated(k)'
    BY <1>1, <1>3, <1>4, <2>1, OthersStay
  <2> QED  BY <1>1, <2>2, <2>3 DEF QueryInv, TurnInv
<1>5. CASE /\ values[d.of].stamp = qcount /\ turn' = turn + 1
           /\ used' = [used EXCEPT ![s] = values[d.of].parts[d.element]]
           /\ UNCHANGED <<values, permute>>
  <2>1. used'[s] = values[d.of].parts[d.element] /\ \A t \in Names \ {s} : used'[t] = used[t]
    BY <1>2, <1>5 DEF QueryInv, ListsInv
  <2>2. used' = [t \in Names |-> used'[t]]
    BY <1>5 DEF QueryInv, ListsInv
  <2>3. OrderInv' /\ ListsInv'
    <3>1. OrderInv /\ ListsInv
      BY DEF QueryInv
    <3>2. OrderInv'
      BY <1>1, <1>5, <3>1 DEF OrderInv
    <3>3. ListsInv'
      BY <1>5, <2>2, <3>1 DEF ListsInv
    <3> QED
      BY <3>2, <3>3
  <2>4. \A k \in 1 .. Len(list) : k < turn' => Evaluated(k)'
    <3> TAKE k \in 1 .. Len(list)
    <3>1. CASE list[k] = s
      BY <1>1, <1>5, <2>1, <3>1 DEF Evaluated
    <3>2. CASE list[k] # s /\ k < turn
      <4>1. Evaluated(k) /\ list[k] \in Names
        BY <1>2, <3>2 DEF QueryInv, TurnInv
      <4> QED  BY <1>1, <1>5, <2>1, <3>2, <4>1 DEF Evaluated
    <3>3. k < turn' => k < turn \/ k = turn
      BY <1>1, <1>2, <1>5
    <3> QED  BY <1>2, <3>1, <3>2, <3>3
  <2> QED  BY <1>1, <2>3, <2>4 DEF QueryInv, TurnInv
<1> QED
  BY <1>4, <1>5 DEF EvalReference

LEMMA QueryNextKeeps == QueryInv /\ [QueryNext]_queryVars => QueryInv'
<1> SUFFICES ASSUME QueryInv, [QueryNext]_queryVars PROVE QueryInv'
  OBVIOUS
<1>1. CASE WriteQuery
  <2>1. turn' = 0 /\ qcount' = qcount + 1 /\ UNCHANGED <<order, qualify, nStream, nQuery, values, permute, used>>
    BY <1>1 DEF WriteQuery
  <2>2. OrderInv' /\ ListsInv'
    BY <2>1 DEF QueryInv, OrderInv, ListsInv
  <2>3. TurnInv'
    BY <2>1 DEF TurnInv
  <2> QED  BY <2>2, <2>3 DEF QueryInv
<1>2. CASE UNCHANGED queryVars
  <2>1. OrderInv' /\ ListsInv'
    BY <1>2 DEF queryVars, QueryInv, OrderInv, ListsInv
  <2>2. TurnInv'
    BY <1>2 DEF queryVars, QueryInv, TurnInv, Evaluated, Template
  <2> QED  BY <2>1, <2>2 DEF QueryInv
<1> QED
  BY <1>1, <1>2, NextStreamKeeps, NextQueryKeeps, EvalPlainKeeps, EvalReferenceKeeps DEF QueryNext

(* The orders of the streams and the values of the substitutions, whatever *)
(* templates, definitions and texts there are.                             *)
THEOREM QueryInvariant == QuerySpec => []QueryInv
  BY QueryStart, QueryNextKeeps, PTL DEF QuerySpec

(* The order of a stream is what its number makes it, and a query shows    *)
(* one draw of each of its substitutions, lists of different elements.     *)
THEOREM QueriesAlwaysFixed == QuerySpec => []QueriesFixed
<1>1. ASSUME QueryInv PROVE QueriesFixed
  <2>1. OrderFixed
    <3>1. Permutes(order, N) /\ order = Applied[nStream] /\ DOMAIN order = 1 .. N
      BY <1>1 DEF QueryInv, OrderInv, Permutes
    <3>2. IsInjective(order)
      BY <3>1 DEF Permutes, IsInjective
    <3>3. ToSet(order) = 1 .. N
      <4>1. \A i \in 1 .. N : order[i] \in 1 .. N
        BY <3>1 DEF Permutes
      <4>2. \A v \in 1 .. N : \E i \in 1 .. N : order[i] = v
        BY <3>1 DEF Permutes
      <4> QED  BY <3>1, <4>1, <4>2 DEF ToSet
    <3> QED  BY <3>1, <3>2, <3>3 DEF OrderFixed
  <2>2. ValuesAgree
    <3> SUFFICES ASSUME turn > Len(SubstitutionsOf[Template]), NEW k \in 1 .. Len(SubstitutionsOf[Template])
                 PROVE  LET s == SubstitutionsOf[Template][k]
                            d == Definition[s]
                            parts == values[s].parts
                        IN  /\ d.kind = "member" => values[d.of].parts[d.element] = used[s]
                            /\ d.kind # "member" => values[s].stamp = qcount
                            /\ d.kind = "ulist" /\ d.m <= d.n =>
                                 Len(parts) = d.m /\ IsInjective(parts) /\ ToSet(parts) \subseteq 1 .. d.n
                            /\ d.kind = "texts" => Len(parts) = d.m /\ IsInjective(parts)
      BY DEF ValuesAgree
    <3> DEFINE s == SubstitutionsOf[Template][k]
    <3>1. k < turn /\ s \in Names /\ qcount # 0
      BY <1>1, TemplateType DEF QueryInv, OrderInv
    <3>2. Evaluated(k)
      BY <1>1, <3>1 DEF QueryInv, TurnInv
    <3>3. Definition[s].kind # "member" => Shaped(s, values[s].parts)
      BY <1>1, <3>1, <3>2 DEF QueryInv, ListsInv, Evaluated
    <3> QED  BY <3>2, <3>3 DEF Evaluated, Shaped
  <2> QED  BY <2>1, <2>2 DEF QueriesFixed
<1> QED
  BY <1>1, QueryInvariant, PTL

-----------------------------------------------------------------------------
\* Options
(* The words of the first items are those of the items before and those of *)
(* the last of them.                                                       *)
LEMMA JoinedSteps ==
  ASSUME command \in Seq(CommandItems)
  PROVE  /\ Joined[0] = <<>>
         /\ \A k \in 1 .. Len(command) : Joined[k] = Joined[k - 1] \o command[k]
         /\ \A k \in 0 .. Len(command) : Joined[k] \in Seq(STRING)
<1> DEFINE n == Len(command)
           S == Seq(STRING)
           Rule(f) == [k \in 0 .. Len(command) |-> IF k = 0 THEN <<>> ELSE f[k - 1] \o command[k]]
           G == [k \in 1 .. n |-> [q \in S |-> q \o command[k]]]
<1>1. n \in Nat /\ DOMAIN command = 1 .. n /\ \A k \in 1 .. n : command[k] \in S
  BY OptionsAssumption
<1>2. G \in [1 .. n -> [S -> S]]
  <2>1. \A k \in 1 .. n : [q \in S |-> q \o command[k]] \in [S -> S]
    BY <1>1
  <2> QED  BY <2>1
<1>3. \A k \in 1 .. n, q \in S : G[k][q] = q \o command[k]
  OBVIOUS
<1>4. <<>> \in S
  OBVIOUS
<1> HIDE DEF G, S, n
<1>5. PICK f : Unfolds(f, n, S, <<>>, G)
  BY <1>1, <1>2, <1>4, Recursion
<1>6. \A k \in 1 .. n : f[k] = f[k - 1] \o command[k]
  <2> TAKE k \in 1 .. n
  <2>1. f[k - 1] \in S  BY <1>1, <1>5 DEF Unfolds
  <2> QED  BY <1>3, <1>5, <2>1 DEF Unfolds
<1>7. f = Rule(f)
  <2>1. f \in [0 .. n -> S] /\ f[0] = <<>>
    BY <1>5 DEF Unfolds
  <2>2. \A k \in 0 .. n : f[k] = IF k = 0 THEN <<>> ELSE f[k - 1] \o command[k]
    <3> TAKE k \in 0 .. n
    <3>1. CASE k = 0  BY <2>1, <3>1
    <3>2. CASE k # 0
      <4>1. k \in 1 .. n  BY <1>1, <3>2
      <4> QED  BY <1>6, <3>2, <4>1
    <3> QED  BY <3>1, <3>2
  <2>3. f = [k \in 0 .. n |-> IF k = 0 THEN <<>> ELSE f[k - 1] \o command[k]]
    BY <2>1, <2>2
  <2> QED  BY <2>3 DEF n
<1>8. Joined = CHOOSE g : g = Rule(g)
  BY DEF Joined
<1>9. Joined = Rule(Joined)
  <2> HIDE DEF Rule
  <2> QED  BY <1>7, <1>8
<1>10. \A k \in 0 .. n : Rule(Joined)[k] = IF k = 0 THEN <<>> ELSE Joined[k - 1] \o command[k]
  BY DEF n
<1> HIDE DEF Rule
<1>11. \A k \in 0 .. n : Joined[k] = IF k = 0 THEN <<>> ELSE Joined[k - 1] \o command[k]
  BY <1>9, <1>10
<1>12. Joined[0] = <<>> /\ \A k \in 1 .. n : Joined[k] = Joined[k - 1] \o command[k]
  <2>1. 0 \in 0 .. n /\ \A k \in 1 .. n : k \in 0 .. n /\ k # 0
    BY <1>1
  <2> QED  BY <1>11, <2>1
<1> DEFINE T == {k \in 0 .. n : Joined[k] \in S}
<1>13. 0 \in T
  BY <1>1, <1>4, <1>12
<1>14. ASSUME NEW k \in 1 .. n, k - 1 \in T PROVE k \in T
  <2>1. Joined[k - 1] \in S /\ command[k] \in S
    BY <1>1, <1>14
  <2>2. Joined[k - 1] \o command[k] \in S
    BY <2>1 DEF S
  <2>3. k \in 0 .. n
    BY <1>1
  <2>4. Joined[k] = Joined[k - 1] \o command[k]
    BY <1>12
  <2> QED  BY <2>2, <2>3, <2>4
<1> HIDE DEF T
<1>15. \A k \in 0 .. n : k \in T
  BY <1>1, <1>13, <1>14, Upwards
<1>16. \A k \in 0 .. n : Joined[k] \in S
  BY <1>15 DEF T
<1> QED
  BY <1>12, <1>16 DEF n, S

(* So they are the first words of the command line.                        *)
LEMMA ArgsBegin ==
  ASSUME command \in Seq(CommandItems), NEW m \in 0 .. Len(command)
  PROVE  Len(Joined[m]) <= Len(args) /\ \A i \in 1 .. Len(Joined[m]) : args[i] = Joined[m][i]
<1> DEFINE n == Len(command)
           T == {k \in 0 .. n - m : /\ Len(Joined[m]) <= Len(Joined[m + k])
                                    /\ \A i \in 1 .. Len(Joined[m]) : Joined[m + k][i] = Joined[m][i]}
<1>1. n \in Nat /\ m \in Nat /\ n - m \in Nat
  OBVIOUS
<1>2. \A k \in 0 .. n : Joined[k] \in Seq(STRING) /\ Len(Joined[k]) \in Nat
  BY JoinedSteps
<1>3. 0 \in T
  BY <1>1, <1>2
<1>4. ASSUME NEW k \in 1 .. n - m, k - 1 \in T PROVE k \in T
  <2>1. m + k \in 1 .. n /\ (m + k) - 1 = m + (k - 1)
    BY <1>1
  <2>2. Joined[m + k] = Joined[m + (k - 1)] \o command[m + k] /\ command[m + k] \in Seq(STRING)
    <3>1. \A i \in 1 .. n : Joined[i] = Joined[i - 1] \o command[i]
      BY JoinedSteps
    <3>2. command[m + k] \in CommandItems
      BY <2>1
    <3>3. Joined[m + k] = Joined[(m + k) - 1] \o command[m + k]
      BY <2>1, <3>1, Zenon
    <3> QED  BY <2>1, <3>2, <3>3, OptionsAssumption
  <2>3. /\ Len(Joined[m]) <= Len(Joined[m + (k - 1)])
        /\ \A i \in 1 .. Len(Joined[m]) : Joined[m + (k - 1)][i] = Joined[m][i]
    BY <1>4
  <2>4. Joined[m + (k - 1)] \in Seq(STRING) /\ Len(Joined[m]) \in Nat
    BY <1>1, <1>2, <2>1
  <2> DEFINE p == Joined[m + (k - 1)]
             q == Joined[m + k]
             r == Joined[m]
             c == command[m + k]
  <2>5. p \in Seq(STRING) /\ c \in Seq(STRING) /\ q = p \o c /\ Len(r) \in Nat /\ Len(r) <= Len(p)
        /\ \A i \in 1 .. Len(r) : p[i] = r[i]
    BY <2>2, <2>3, <2>4
  <2> HIDE DEF p, q, r, c
  <2>6. Len(r) <= Len(q) /\ \A i \in 1 .. Len(r) : q[i] = r[i]
    BY <2>5
  <2> QED  BY <1>1, <2>6 DEF q, r
<1> HIDE DEF T
<1>5. \A k \in 0 .. n - m : k \in T
  BY <1>1, <1>3, <1>4, Upwards
<1>6. n - m \in T /\ m + (n - m) = n
  BY <1>1, <1>5
<1> QED  BY <1>6 DEF T, args

(* The words of an item are where those of the items before it end.        *)
LEMMA ItemWords ==
  ASSUME command \in Seq(CommandItems), NEW k \in 1 .. Len(command)
  PROVE  /\ Len(Joined[k]) = Len(Joined[k - 1]) + Len(command[k])
         /\ Len(command[k]) \in {1, 2} /\ Len(Joined[k - 1]) \in Nat /\ Len(args) \in Nat
         /\ Len(Joined[k]) <= Len(args)
         /\ args[Len(Joined[k - 1]) + 1] = command[k][1]
         /\ Len(command[k]) = 2 => args[Len(Joined[k - 1]) + 2] = command[k][2]
<1>1. k \in 0 .. Len(command) /\ k - 1 \in 0 .. Len(command) /\ Len(command) \in 0 .. Len(command)
  OBVIOUS
<1>2. /\ Joined[k] = Joined[k - 1] \o command[k] /\ Joined[k - 1] \in Seq(STRING)
      /\ args \in Seq(STRING)
  BY <1>1, JoinedSteps DEF args
<1>3. command[k] \in Seq(STRING) /\ Len(command[k]) \in {1, 2}
  BY OptionsAssumption
<1>4. Len(Joined[k]) <= Len(args) /\ \A i \in 1 .. Len(Joined[k]) : args[i] = Joined[k][i]
  BY <1>1, ArgsBegin
<1> DEFINE p == Joined[k - 1]
           q == Joined[k]
           c == command[k]
<1>5. q = p \o c /\ p \in Seq(STRING) /\ c \in Seq(STRING) /\ Len(c) \in {1, 2}
  BY <1>2, <1>3
<1> HIDE DEF p, q, c
<1>6. /\ Len(q) = Len(p) + Len(c) /\ Len(p) \in Nat
      /\ q[Len(p) + 1] = c[1] /\ (Len(c) = 2 => q[Len(p) + 2] = c[2])
  BY <1>5
<1>7. Len(args) \in Nat
  BY <1>2
<1>8. /\ Len(p) + 1 \in 1 .. Len(q) /\ (Len(c) = 2 => Len(p) + 2 \in 1 .. Len(q))
  BY <1>5, <1>6
<1>9. /\ args[Len(p) + 1] = c[1] /\ (Len(c) = 2 => args[Len(p) + 2] = c[2])
  BY <1>4, <1>6, <1>8 DEF q
<1> QED
  BY <1>3, <1>4, <1>6, <1>7, <1>9 DEF p, q, c

(* Where words are left, items are.                                        *)
LEMMA MoreItems ==
  ASSUME command \in Seq(CommandItems), NEW n \in 0 .. Len(command)
  PROVE  /\ Len(Joined[n]) < Len(args) => n + 1 \in 1 .. Len(command)
         /\ n # Len(command) => Len(Joined[n]) < Len(args)
<1>1. Joined[n] \in Seq(STRING) /\ Len(Joined[n]) \in Nat
  BY JoinedSteps
<1>2. n = Len(command) => Len(Joined[n]) = Len(args)
  BY DEF args
<1>3. ASSUME n # Len(command) PROVE n + 1 \in 1 .. Len(command) /\ Len(Joined[n]) < Len(args)
  <2> DEFINE k == n + 1
  <2>1. k \in 1 .. Len(command) /\ k - 1 = n
    BY <1>3
  <2> HIDE DEF k
  <2>2. /\ Len(Joined[k]) = Len(Joined[n]) + Len(command[k]) /\ Len(command[k]) \in {1, 2}
        /\ Len(Joined[k]) <= Len(args) /\ Len(args) \in Nat
    BY <2>1, ItemWords
  <2>3. Len(Joined[n]) < Len(args)
    <3> DEFINE a == Len(Joined[n])   b == Len(Joined[k])   c == Len(args)
    <3>1. a \in Nat /\ c \in Nat /\ b <= c /\ (b = a + 1 \/ b = a + 2)
      BY <1>1, <2>2
    <3> HIDE DEF a, b, c
    <3>2. a < c  BY <3>1
    <3> QED  BY <3>2 DEF a, c
  <2> QED  BY <2>1, <2>3 DEF k
<1> QED  BY <1>1, <1>2, <1>3

-----------------------------------------------------------------------------
LastOf(S) == CHOOSE i \in S : \A j \in S : j <= i
FirstOf(S) == CHOOSE i \in S : \A j \in S : i <= j

\* Of the first n items, those that set an option.
SetBy(o, n) == {i \in Setting(o) : i <= n}

\* The next word is the first after those of n items; or it is the value of
\* the last of them, which its option, a flag, did not take.
Reached(n) ==
  \/ option_num = Len(Joined[n]) + 1
  \/ n > 0 /\ Len(command[n]) = 2 /\ option_num = Len(Joined[n]) /\ res = 1

ValueSoFar(o, n) ==
  /\ SetBy(o, n) # {} => o \in DOMAIN params /\ params[o] = ValueOf(o, ItemValue(LastOf(SetBy(o, n))))
  /\ SetBy(o, n) = {} /\ Lines(o) # {} =>
       o \in DOMAIN params /\ params[o] = ValueOf(o, seen[FirstOf(Lines(o))][2])
  /\ SetBy(o, n) = {} /\ Lines(o) = {} /\ o \in DOMAIN params => o = "PROG" /\ params[o] = options[o].dflt

ParamsSoFar(n) ==
  /\ SetBy("PARAMS", n) = {} => seen = <<>> /\ reading = <<>> /\ "PARAMS" \notin DOMAIN params
  /\ SetBy("PARAMS", n) # {} /\ reading = <<>> =>
       "PARAMS" \in DOMAIN params /\ params["PARAMS"] = ItemValue(LastOf(SetBy("PARAMS", n)))
  /\ SetBy("PARAMS", n) # {} /\ reading # <<>> =>
       reading[1].file = ItemValue(LastOf(SetBy("PARAMS", n)))

SoFar(n) ==
  /\ n \in 0 .. Len(command) /\ Reached(n) /\ ParamsSoFar(n)
  /\ \A o \in OptionNames \ {"PARAMS", "_SCALE_INDEX"} : ValueSoFar(o, n)

ScaleFits ==
  /\ "_SCALE_INDEX" \in DOMAIN params <=> "SCALE" \in DOMAIN params
  /\ "SCALE" \in DOMAIN params => params["_SCALE_INDEX"] = ScaleIndex(params["SCALE"])

\* What a file may hold was read, and what is open may be.
FilesRead ==
  /\ seen \in Seq(Seq(STRING))
  /\ \A i \in DOMAIN seen : fnd_param(seen[i][1]) \notin {"PROG", "_SCALE_INDEX"}
  /\ reading \in Seq([file : DOMAIN Files, next : Nat \ {0}])

\* After n of the items of the command line and the lines that were read, all
\* values are those that the rule of Precedence has of them; PARAMS is the
\* exception, which is set only when its file was read.
OptionInv ==
  /\ command \in Seq(CommandItems)
  /\ ostage # "failed" => FilesRead /\ ScaleFits /\ \E n \in 0 .. Len(command) : SoFar(n)
  /\ ostage = "go" => option_num > Len(args) /\ reading = <<>> /\ TablesToBuild # {}

(* Of the options: those that the parser treats in a way of their own.     *)
LEMMA OptionTypes ==
  /\ {"SCALE", "PARAMS", "PROG", "TABLE"} \subseteq OptionNames /\ NotFound \notin OptionNames
  /\ options["SCALE"].type # "flag" /\ options["PARAMS"].type # "flag"
  BY DEF OptionNames, options, Option, NotFound

LEMMA OptionFound == ASSUME NEW name PROVE fnd_param(name) \in OptionNames \union {NotFound}
  BY DEF fnd_param

LEMMA OutcomeParts ==
  ASSUME NEW p, NEW r, NEW f
  PROVE  Outcome(p, r, f).params = p /\ Outcome(p, r, f).reading = r /\ Outcome(p, r, f).failed = f
  BY DEF Outcome

\* q is p with o set to v, and the band with the scale.
SetTo(o, v, p, q) ==
  /\ DOMAIN q = DOMAIN p \union (IF o = "SCALE" THEN {o, "_SCALE_INDEX"} ELSE {o})
  /\ q[o] = v
  /\ o = "SCALE" => q["_SCALE_INDEX"] = ScaleIndex(v)
  /\ \A x \in DOMAIN p : x # o /\ ~(o = "SCALE" /\ x = "_SCALE_INDEX") => q[x] = p[x]

(* What set_option() does with an option other than PARAMS, and with that. *)
LEMMA OptionSet ==
  ASSUME NEW o \in OptionNames \ {"_SCALE_INDEX"}, NEW param, NEW open,
         ~set_option(o, param, open).failed
  PROVE  LET s == set_option(o, param, open) IN
         /\ o # "PARAMS" => SetTo(o, ValueOf(o, param), params, s.params) /\ s.reading = open
         /\ o = "PARAMS" => /\ s.params = params /\ Opens(param, open)
                            /\ s.reading = Append(open, [file |-> param, next |-> 1])
<1>1. CASE options[o].type = "flag"
  <2>1. o # "PARAMS" /\ o # "SCALE"  BY <1>1, OptionTypes
  <2>2. set_option(o, param, open) =
          Outcome(With(params, o, FlagValue(param)), open, o = "RELEASE" /\ FlagValue(param) = "Y")
    BY <1>1, <2>1 DEF set_option
  <2> QED  BY <1>1, <2>1, <2>2 DEF Outcome, With, SetTo, ValueOf
<1>2. CASE options[o].type # "flag" /\ param = Missing
  <2>1. set_option(o, param, open) = Outcome(params, open, TRUE)
    BY <1>2 DEF set_option
  <2> QED  BY <2>1 DEF Outcome
<1>3. CASE o = "SCALE" /\ param # Missing
  <2>1. options[o].type # "flag"  BY <1>3, OptionTypes
  <2> DEFINE q == With(With(params, "_SCALE_INDEX", ScaleIndex(param)), o, param)
  <2>2. set_option(o, param, open) = Outcome(q, open, FALSE)
    BY <1>3, <2>1 DEF set_option
  <2>3. SetTo(o, param, params, q)
    BY <1>3 DEF With, SetTo
  <2>4. ValueOf(o, param) = param
    BY <2>1 DEF ValueOf
  <2> HIDE DEF q
  <2> QED  BY <1>3, <2>2, <2>3, <2>4 DEF Outcome
<1>4. CASE o = "PARAMS" /\ param # Missing
  <2> DEFINE r == Append(open, [file |-> param, next |-> 1])
  <2>1. options[o].type # "flag"  BY <1>4, OptionTypes
  <2>2. set_option(o, param, open) = Outcome(params, r, ~Opens(param, open))
    BY <1>4, <2>1 DEF set_option
  <2> HIDE DEF r
  <2>3. CASE Opens(param, open)
    <3>1. set_option(o, param, open).params = params /\ set_option(o, param, open).reading = r
      BY <2>2 DEF Outcome
    <3> QED  BY <1>4, <2>3, <3>1 DEF r
  <2>4. CASE ~Opens(param, open)
    <3>1. set_option(o, param, open) = Outcome(params, r, TRUE)
      BY <2>2, <2>4
    <3> QED  BY <3>1 DEF Outcome
  <2> QED  BY <2>3, <2>4
<1>5. CASE o \notin {"SCALE", "PARAMS"} /\ options[o].type # "flag" /\ param # Missing
  <2>1. set_option(o, param, open) = Outcome(With(params, o, param), open, o = "HELP")
    BY <1>5 DEF set_option
  <2> QED  BY <1>5, <2>1 DEF Outcome, With, SetTo, ValueOf
<1> QED  BY <1>1, <1>2, <1>3, <1>4, <1>5

(* What sets an option of the first k items, and which of them is last.    *)
LEMMA NextItem ==
  ASSUME command \in Seq(CommandItems), NEW k \in 1 .. Len(command), NEW o
  PROVE  /\ fnd_param(Tail(command[k][1])) # o => SetBy(o, k) = SetBy(o, k - 1)
         /\ fnd_param(Tail(command[k][1])) = o => SetBy(o, k) # {} /\ LastOf(SetBy(o, k)) = k
<1>1. SetBy(o, k) = {i \in 1 .. Len(command) : fnd_param(Tail(command[i][1])) = o /\ i <= k}
  BY DEF SetBy, Setting
<1>2. SetBy(o, k - 1) = {i \in 1 .. Len(command) : fnd_param(Tail(command[i][1])) = o /\ i <= k - 1}
  BY DEF SetBy, Setting
<1> DEFINE P(i) == fnd_param(Tail(command[i][1])) = o
<1>3. /\ SetBy(o, k) = {i \in 1 .. Len(command) : P(i) /\ i <= k}
      /\ SetBy(o, k - 1) = {i \in 1 .. Len(command) : P(i) /\ i <= k - 1}
  BY <1>1, <1>2
<1> HIDE DEF P
<1>4. ~P(k) => SetBy(o, k) = SetBy(o, k - 1)
  BY <1>3
<1>5. ASSUME P(k) PROVE SetBy(o, k) # {} /\ LastOf(SetBy(o, k)) = k
  <2>1. k \in SetBy(o, k) /\ \A i \in SetBy(o, k) : i <= k /\ i \in Int
    BY <1>3, <1>5
  <2> QED  BY <2>1 DEF LastOf
<1> QED  BY <1>4, <1>5 DEF P

LEMMA SameCommand ==
  ASSUME command' = command
  PROVE  /\ Joined' = Joined /\ args' = args
         /\ \A o, n : (SetBy(o, n))' = SetBy(o, n)
         /\ \A i : (ItemValue(i))' = ItemValue(i)
<1>1. Joined' = Joined  BY DEF Joined
<1>2. args' = args  BY <1>1 DEF args
<1>3. \A o, n : (SetBy(o, n))' = SetBy(o, n)  BY DEF SetBy, Setting
<1>4. \A i : (ItemValue(i))' = ItemValue(i)  BY DEF ItemValue
<1> QED  BY <1>1, <1>2, <1>3, <1>4

LEMMA SameLines ==
  ASSUME seen' = seen
  PROVE  \A o : (Lines(o))' = Lines(o)
  BY DEF Lines

LEMMA ScaleKept ==
  ASSUME ScaleFits, NEW o, NEW v, o # "_SCALE_INDEX", SetTo(o, v, params, params')
  PROVE  ScaleFits'
<1>1. CASE o = "SCALE"  BY <1>1 DEF ScaleFits, SetTo
<1>2. CASE o # "SCALE"  BY <1>2 DEF ScaleFits, SetTo
<1> QED  BY <1>1, <1>2

(* Nothing is set before the first word.                                   *)
LEMMA OptionsBegin == ASSUME OptionInit PROVE OptionInv
<1>1. command \in Seq(CommandItems)
  <2>1. PICK n \in 0 .. MaxItems : command \in [1 .. n -> CommandItems]
    BY DEF OptionInit
  <2>2. n \in Nat  BY <2>1, OptionsAssumption
  <2> QED  BY <2>1, <2>2
<1>2. /\ option_num = 1 /\ res = 1 /\ reading = <<>> /\ seen = <<>> /\ ostage = "options"
      /\ params = [o \in {"PROG"} |-> options[o].dflt]
  BY DEF OptionInit
<1>3. FilesRead /\ ScaleFits
  BY <1>2 DEF FilesRead, ScaleFits
<1>4. \A o : SetBy(o, 0) = {} /\ Lines(o) = {}
  <2>1. DOMAIN command = 1 .. Len(command)
    BY <1>1
  <2> QED  BY <1>2, <2>1 DEF SetBy, Setting, Lines
<1>5. Reached(0)
  BY <1>1, <1>2, JoinedSteps DEF Reached
<1>6. ParamsSoFar(0)
  BY <1>2, <1>4 DEF ParamsSoFar
<1>7. \A o : ValueSoFar(o, 0)
  BY <1>2, <1>4 DEF ValueSoFar
<1>8. SoFar(0) /\ 0 \in 0 .. Len(command)
  BY <1>1, <1>5, <1>6, <1>7 DEF SoFar
<1> QED  BY <1>1, <1>2, <1>3, <1>8 DEF OptionInv

(* What process_options() makes of a word.                                 *)
LEMMA ProcessOption == ASSUME OptionInv, process_options PROVE OptionInv'
<1> DEFINE word == args[option_num]
           o == fnd_param(Tail(word))
           param == IF option_num = Len(args) THEN Missing ELSE args[option_num + 1]
           found == IF ~Begins("-", word) THEN Unchanged
                    ELSE IF o = NotFound THEN Fail ELSE set_option(o, param, reading)
<1>1. /\ ostage = "options" /\ reading = <<>> /\ option_num <= Len(args)
      /\ command' = command /\ seen' = seen
      /\ res' = IF ~Begins("-", word) \/ o = NotFound THEN res
                ELSE IF options[o].type = "flag" THEN 1 ELSE 2
      /\ option_num' = option_num + res'
      /\ Become(found)
  BY DEF process_options
<1>2. PICK n \in 0 .. Len(command) : SoFar(n)
  BY <1>1 DEF OptionInv
<1>3. command \in Seq(CommandItems) /\ FilesRead /\ ScaleFits
  BY <1>1 DEF OptionInv
<1>4. params' = found.params /\ reading' = found.reading /\ ostage' = IF found.failed THEN "failed" ELSE ostage
  BY <1>1 DEF Become
<1>5. Reached(n) /\ ParamsSoFar(n) /\ \A p \in OptionNames \ {"PARAMS", "_SCALE_INDEX"} : ValueSoFar(p, n)
  BY <1>2 DEF SoFar
<1> HIDE DEF found
<1>6. CASE found.failed
  BY <1>1, <1>3, <1>4, <1>6 DEF OptionInv
<1>7. ASSUME ~found.failed,
             FilesRead', ScaleFits',
             NEW k \in 0 .. Len(command), (Reached(k))', (ParamsSoFar(k))',
             \A p \in OptionNames \ {"PARAMS", "_SCALE_INDEX"} : (ValueSoFar(p, k))'
      PROVE  OptionInv'
  <2>1. ostage' = "options"  BY <1>1, <1>4, <1>7
  <2>2. (SoFar(k))'  BY <1>1, <1>7 DEF SoFar
  <2> QED  BY <1>1, <1>3, <1>7, <2>1, <2>2 DEF OptionInv
<1>8. /\ Joined' = Joined /\ \A p : (Lines(p))' = Lines(p)
      /\ \A p, m : (SetBy(p, m))' = SetBy(p, m)
      /\ \A i : (ItemValue(i))' = ItemValue(i)
  BY <1>1, SameCommand, SameLines
<1>9. Len(Joined[n]) \in Nat /\ Len(args) \in Nat
  <2>1. n \in 0 .. Len(command) /\ Len(command) \in 0 .. Len(command)  BY <1>3
  <2>2. Joined[n] \in Seq(STRING) /\ args \in Seq(STRING)
    BY <1>3, <2>1, JoinedSteps DEF args
  <2> QED  BY <2>2
<1>10. ASSUME ~found.failed, option_num = Len(Joined[n]) + 1 PROVE OptionInv'
  <2> DEFINE k == n + 1
             v == ValueOf(o, ItemValue(k))
  <2>1. k \in 1 .. Len(command) /\ k - 1 = n /\ k \in 0 .. Len(command)
    <3>1. Len(Joined[n]) < Len(args)  BY <1>1, <1>9, <1>10
    <3> QED  BY <1>2, <1>3, <3>1, MoreItems
  <2> HIDE DEF k
  <2>2. /\ Len(Joined[k]) = Len(Joined[n]) + Len(command[k]) /\ Len(command[k]) \in {1, 2}
        /\ Len(Joined[k]) <= Len(args)
        /\ word = command[k][1] /\ (Len(command[k]) = 2 => args[option_num + 1] = command[k][2])
    <3>1. /\ Len(Joined[k]) = Len(Joined[k - 1]) + Len(command[k]) /\ Len(command[k]) \in {1, 2}
          /\ Len(Joined[k]) <= Len(args)
          /\ args[Len(Joined[k - 1]) + 1] = command[k][1]
          /\ Len(command[k]) = 2 => args[Len(Joined[k - 1]) + 2] = command[k][2]
      BY <1>3, <2>1, ItemWords
    <3>2. Len(Joined[k - 1]) + 2 = option_num + 1
      BY <1>9, <1>10, <2>1
    <3> QED  BY <1>10, <2>1, <3>1, <3>2
  <2>3. command[k] \in CommandItems
    BY <1>3, <2>1
  <2>4. /\ Begins("-", word) /\ o # "_SCALE_INDEX"
        /\ Len(command[k]) = 1 /\ o # NotFound => options[o].type = "flag"
    BY <2>2, <2>3, ItemsAssumption, Zenon
  <2>5. o \in OptionNames \ {"_SCALE_INDEX"} /\ o # NotFound /\ found = set_option(o, param, reading)
    <3>1. o # NotFound
      <4>1. Fail.failed  BY DEF Fail, Outcome
      <4> QED  BY <1>10, <2>4, <4>1 DEF found
    <3>2. o \in OptionNames  BY <3>1, OptionFound
    <3>3. found = set_option(o, param, reading)
      BY <2>4, <3>1 DEF found
    <3> QED  BY <2>4, <3>1, <3>2, <3>3
  <2>6. ValueOf(o, param) = v /\ (Len(command[k]) = 2 => param = ItemValue(k))
    <3>1. CASE Len(command[k]) = 2
      <4>1. option_num # Len(args)
        BY <1>9, <1>10, <2>2, <3>1
      <4>2. param = ItemValue(k)
        BY <2>2, <3>1, <4>1 DEF ItemValue
      <4> QED  BY <4>2
    <3>2. CASE Len(command[k]) = 1
      <4>1. options[o].type = "flag" /\ ItemValue(k) = Missing
        BY <2>4, <2>5, <3>2 DEF ItemValue
      <4>2. FlagValue(Missing) = "Y"
        BY DEF FlagValue
      <4>3. CASE option_num = Len(args)
        BY <4>1, <4>3
      <4>4. CASE option_num # Len(args)
        <5>1. Len(Joined[k]) < Len(args) /\ Len(Joined[k]) = option_num
          BY <1>1, <1>9, <1>10, <2>2, <3>2, <4>4
        <5> DEFINE h == k + 1
        <5>2. h \in 1 .. Len(command) /\ h - 1 = k
          BY <1>3, <2>1, <5>1, MoreItems
        <5> HIDE DEF h
        <5>3. args[Len(Joined[h - 1]) + 1] = command[h][1]
          BY <1>3, <5>2, ItemWords
        <5>4. args[option_num + 1] = command[h][1] /\ command[h] \in CommandItems
          BY <1>3, <5>1, <5>2, <5>3
        <5>5. Begins("-", args[option_num + 1])
          BY <5>4, ItemsAssumption
        <5>6. FlagValue(param) = "Y"
          BY <4>4, <5>5 DEF FlagValue
        <5>7. ValueOf(o, param) = "Y" /\ ValueOf(o, Missing) = "Y"
          BY <4>1, <4>2, <5>6 DEF ValueOf
        <5> QED  BY <3>2, <4>1, <5>7
      <4> QED  BY <4>3, <4>4
    <3> QED  BY <2>2, <3>1, <3>2
  <2>7. /\ o # "PARAMS" => SetTo(o, v, params, params') /\ reading' = <<>>
        /\ o = "PARAMS" => /\ params' = params /\ param \in DOMAIN Files
                           /\ reading' = <<[file |-> param, next |-> 1]>>
    <3>1. ~set_option(o, param, reading).failed
      BY <1>10, <2>5
    <3> HIDE DEF param, o
    <3>2. /\ o # "PARAMS" => SetTo(o, ValueOf(o, param), params, params') /\ reading' = reading
          /\ o = "PARAMS" => /\ params' = params /\ Opens(param, reading)
                             /\ reading' = Append(reading, [file |-> param, next |-> 1])
      BY <1>4, <2>5, <3>1, OptionSet
    <3>3. o = "PARAMS" => param \in DOMAIN Files /\ reading' = <<[file |-> param, next |-> 1]>>
      BY <1>1, <3>2 DEF Opens
    <3> QED  BY <1>1, <2>6, <3>2, <3>3
  <2>8. (Reached(k))'
    <3>1. CASE Len(command[k]) = 1
      <4>1. res' = 1  BY <1>1, <2>4, <2>5, <3>1
      <4> QED  BY <1>1, <1>8, <1>9, <1>10, <2>2, <3>1, <4>1 DEF Reached
    <3>2. CASE Len(command[k]) = 2
      <4>1. res' \in {1, 2}  BY <1>1, <2>4, <2>5
      <4>2. option_num' = Len(Joined[k]) \/ option_num' = Len(Joined[k]) + 1
        <5>1. option_num' = option_num + res' /\ Len(Joined[k]) = option_num + 1
          BY <1>1, <1>9, <1>10, <2>2, <3>2
        <5> QED  BY <1>9, <1>10, <4>1, <5>1
      <4>3. option_num' = Len(Joined[k]) => res' = 1
        BY <1>1, <1>9, <1>10, <2>2, <3>2, <4>1
      <4> QED  BY <1>1, <1>8, <2>1, <3>2, <4>2, <4>3 DEF Reached
    <3> QED  BY <2>2, <3>1, <3>2
  <2>9. \A p : p # o => SetBy(p, k) = SetBy(p, n)
    BY <1>3, <2>1, <2>2, NextItem
  <2>10. SetBy(o, k) # {} /\ LastOf(SetBy(o, k)) = k
    BY <1>3, <2>1, <2>2, NextItem
  <2>11. ScaleFits'
    <3>1. CASE o = "PARAMS"  BY <1>3, <2>7, <3>1 DEF ScaleFits
    <3>2. CASE o # "PARAMS"  BY <1>3, <2>5, <2>7, <3>2, ScaleKept
    <3> QED  BY <3>1, <3>2
  <2>12. FilesRead'
    <3>1. reading' \in Seq([file : DOMAIN Files, next : Nat \ {0}])
      <4> DEFINE R == [file : DOMAIN Files, next : Nat \ {0}]   r == [file |-> param, next |-> 1]
      <4>1. CASE o # "PARAMS"
        BY <2>7, <4>1
      <4>2. CASE o = "PARAMS"
        <5>1. r \in R  BY <2>7, <4>2
        <5>2. reading' = <<r>>  BY <2>7, <4>2
        <5> HIDE DEF R, r
        <5>3. reading' \in Seq(R)  BY <5>1, <5>2
        <5> QED  BY <5>3 DEF R
      <4> QED  BY <4>1, <4>2
    <3> QED  BY <1>1, <1>3, <3>1 DEF FilesRead
  <2>13. (ParamsSoFar(k))'
    <3>1. CASE o = "PARAMS"
      <4>1. Len(command[k]) = 2
        BY <2>2, <2>4, <2>5, <3>1, OptionTypes
      <4>2. reading'[1].file = ItemValue(k) /\ reading' # <<>>
        <5>1. param = ItemValue(k)  BY <2>6, <4>1
        <5>2. reading' = <<[file |-> ItemValue(k), next |-> 1]>>  BY <2>7, <3>1, <5>1
        <5> QED  BY <5>2
      <4> QED  BY <1>8, <2>10, <3>1, <4>2 DEF ParamsSoFar
    <3>2. CASE o # "PARAMS"
      <4>1. "PARAMS" \in DOMAIN params' <=> "PARAMS" \in DOMAIN params
        BY <2>7, <3>2 DEF SetTo
      <4>2. "PARAMS" \in DOMAIN params => params'["PARAMS"] = params["PARAMS"]
        BY <2>7, <3>2 DEF SetTo
      <4>3. reading' = reading
        BY <1>1, <2>7, <3>2
      <4>4. SetBy("PARAMS", k) = SetBy("PARAMS", n)
        BY <2>9, <3>2
      <4> QED  BY <1>1, <1>5, <1>8, <4>1, <4>2, <4>3, <4>4 DEF ParamsSoFar
    <3> QED  BY <3>1, <3>2
  <2>14. ASSUME NEW p \in OptionNames \ {"PARAMS", "_SCALE_INDEX"} PROVE (ValueSoFar(p, k))'
    <3>1. CASE p = o
      <4>1. o \in DOMAIN params' /\ params'[o] = v
        BY <2>7, <2>14, <3>1 DEF SetTo
      <4> QED  BY <1>8, <2>10, <3>1, <4>1 DEF ValueSoFar
    <3>2. CASE p # o
      <4>1. SetBy(p, k) = SetBy(p, n)
        BY <2>9, <3>2
      <4>2. p \in DOMAIN params' <=> p \in DOMAIN params
        BY <2>7, <2>14, <3>2 DEF SetTo
      <4>3. p \in DOMAIN params => params'[p] = params[p]
        BY <2>7, <2>14, <3>2 DEF SetTo
      <4>4. ValueSoFar(p, n)
        BY <1>5
      <4> QED  BY <1>1, <1>8, <4>1, <4>2, <4>3, <4>4 DEF ValueSoFar
    <3> QED  BY <3>1, <3>2
  <2> QED  BY <1>7, <1>10, <2>1, <2>8, <2>11, <2>12, <2>13, <2>14
<1>11. ASSUME n > 0, Len(command[n]) = 2, option_num = Len(Joined[n]), res = 1 PROVE OptionInv'
  <2>1. n \in 1 .. Len(command)  BY <1>2, <1>11
  <2>2. word = command[n][2]
    <3>1. /\ Len(Joined[n]) = Len(Joined[n - 1]) + Len(command[n]) /\ Len(Joined[n - 1]) \in Nat
          /\ Len(command[n]) = 2 => args[Len(Joined[n - 1]) + 2] = command[n][2]
      BY <1>3, <2>1, ItemWords
    <3> QED  BY <1>11, <3>1
  <2>3. ~Begins("-", word)
    <3>1. command[n] \in CommandItems  BY <1>3, <2>1
    <3> QED  BY <1>11, <2>2, <3>1, ItemsAssumption
  <2>4. params' = params /\ reading' = reading /\ ~found.failed
    BY <1>4, <2>3 DEF found, Unchanged, Outcome
  <2>5. res' = 1 /\ option_num' = Len(Joined[n]) + 1
    BY <1>1, <1>11, <2>3
  <2>6. FilesRead' /\ ScaleFits'
    BY <1>1, <1>3, <2>4 DEF FilesRead, ScaleFits
  <2>7. (Reached(n))'
    BY <1>8, <2>5 DEF Reached
  <2>8. (ParamsSoFar(n))'
    BY <1>1, <1>5, <1>8, <2>4 DEF ParamsSoFar
  <2>9. ASSUME NEW p \in OptionNames \ {"PARAMS", "_SCALE_INDEX"} PROVE (ValueSoFar(p, n))'
    <3>1. ValueSoFar(p, n)  BY <1>5
    <3> QED  BY <1>1, <1>8, <2>4, <3>1 DEF ValueSoFar
  <2> QED  BY <1>2, <1>7, <2>4, <2>6, <2>7, <2>8, <2>9
<1> QED  BY <1>5, <1>6, <1>10, <1>11 DEF Reached

(* Of several entries there is a first.                                    *)
LEMMA FirstIn ==
  ASSUME NEW S \in SUBSET Nat, S # {}
  PROVE  FirstOf(S) \in S /\ \A i \in S : FirstOf(S) <= i
<1> DEFINE R == OpToRel(<, Nat)
<1>1. IsWellFoundedOn(R, Nat)
  BY NatLessThanWellFounded
<1>2. \A i, j \in Nat : i < j => <<i, j>> \in R
  BY DEF OpToRel
<1> HIDE DEF R
<1>3. PICK m \in S : \A i \in S : ~(<<i, m>> \in R)
  BY <1>1, WFMin
<1>4. \A i \in S : m <= i
  <2> TAKE i \in S
  <2>1. i \in Nat /\ m \in Nat /\ ~(i < m)
    BY <1>2, <1>3
  <2> QED  BY <2>1
<1> QED  BY <1>3, <1>4 DEF FirstOf

(* A later one does not replace it.                                        *)
LEMMA FirstStays ==
  ASSUME NEW n \in Nat, NEW S \in SUBSET (1 .. n), S # {}
  PROVE  FirstOf(S) \in S /\ FirstOf(S \union {n + 1}) = FirstOf(S)
<1> DEFINE m == FirstOf(S)
           U == S \union {n + 1}
           u == FirstOf(U)
<1>1. m \in S /\ \A i \in S : m <= i
  <2>1. S \in SUBSET Nat  OBVIOUS
  <2> QED  BY <2>1, FirstIn
<1>2. u \in U /\ \A i \in U : u <= i
  <2>1. U \in SUBSET Nat /\ U # {}  OBVIOUS
  <2> QED  BY <2>1, FirstIn
<1> HIDE DEF m, u
<1>3. m \in 1 .. n /\ m \in U
  BY <1>1
<1>4. u <= m /\ u \in S
  BY <1>2, <1>3
<1>5. m <= u
  BY <1>1, <1>4
<1>6. u \in Nat /\ m \in Nat
  BY <1>3, <1>4
<1>7. u = m
  BY <1>4, <1>5, <1>6
<1> QED  BY <1>1, <1>7 DEF m, u

(* What read_file() makes of a line: it never sets what was set.           *)
LEMMA ReadLine == ASSUME OptionInv, read_file PROVE OptionInv'
<1> DEFINE line == Files[Innermost.file][Innermost.next]
           o == fnd_param(line[1])
           here == [reading EXCEPT ![Len(reading)].next = @ + 1]
           ignored == o = NotFound \/ line[2] = "" \/ Overridden(o)
           found == IF ignored THEN Outcome(params, here, FALSE) ELSE set_option(o, line[2], here)
           E == [file : DOMAIN Files, next : Nat \ {0}]
<1>1. /\ ostage = "options" /\ reading # <<>> /\ ~AtEnd
      /\ command' = command /\ option_num' = option_num /\ res' = res
      /\ seen' = Append(seen, line)
      /\ Become(found)
  BY DEF read_file
<1>2. PICK n \in 0 .. Len(command) : SoFar(n)
  BY <1>1 DEF OptionInv
<1>3. command \in Seq(CommandItems) /\ FilesRead /\ ScaleFits
  BY <1>1 DEF OptionInv
<1>4. params' = found.params /\ reading' = found.reading /\ ostage' = IF found.failed THEN "failed" ELSE ostage
  BY <1>1 DEF Become
<1>5. Reached(n) /\ ParamsSoFar(n) /\ \A p \in OptionNames \ {"PARAMS", "_SCALE_INDEX"} : ValueSoFar(p, n)
  BY <1>2 DEF SoFar
<1> HIDE DEF found
<1>6. CASE found.failed
  BY <1>1, <1>3, <1>4, <1>6 DEF OptionInv
<1>7. /\ Joined' = Joined
      /\ \A p, m : (SetBy(p, m))' = SetBy(p, m)
      /\ \A i : (ItemValue(i))' = ItemValue(i)
  BY <1>1, SameCommand
<1>8. /\ reading \in Seq(E) /\ Len(reading) \in 1 .. Len(reading) /\ 1 \in 1 .. Len(reading)
      /\ Innermost = reading[Len(reading)] /\ Innermost \in E
  <2>1. reading \in Seq(E)  BY <1>3 DEF FilesRead
  <2> HIDE DEF E
  <2>2. Len(reading) \in 1 .. Len(reading) /\ 1 \in 1 .. Len(reading) /\ DOMAIN reading = 1 .. Len(reading)
    BY <1>1, <2>1
  <2>3. reading[Len(reading)] \in E
    BY <2>1, <2>2
  <2> QED  BY <2>1, <2>2, <2>3 DEF Innermost
<1>9. Innermost.file \in DOMAIN Files /\ Innermost.next \in DOMAIN Files[Innermost.file]
  <2>1. Innermost.file \in DOMAIN Files /\ Innermost.next \in Nat \ {0}
    BY <1>8
  <2>2. Files[Innermost.file] \in Seq(Seq(STRING))
    BY <2>1, OptionsAssumption
  <2>3. Innermost.next <= Len(Files[Innermost.file])
    BY <1>1, <2>1, <2>2 DEF AtEnd
  <2> QED  BY <2>1, <2>2, <2>3
<1>10. line \in Seq(STRING) /\ o \notin {"PROG", "_SCALE_INDEX"}
  <2>1. Files[Innermost.file] \in Seq(Seq(STRING))
    BY <1>9, OptionsAssumption
  <2>2. line \in Seq(STRING)
    BY <1>9, <2>1
  <2>3. fnd_param(Files[Innermost.file][Innermost.next][1]) \notin {"PROG", "_SCALE_INDEX"}
    BY <1>9, LinesAssumption, Zenon
  <2> QED  BY <2>2, <2>3
<1>11. /\ here \in Seq(E) /\ here # <<>> /\ Len(here) \in Nat \ {0} /\ here[1].file = reading[1].file
  <2> DEFINE r == [reading[Len(reading)] EXCEPT !.next = @ + 1]
  <2>1. r \in E /\ r.file = reading[Len(reading)].file
    BY <1>8
  <2>2. here = [reading EXCEPT ![Len(reading)] = r]
    OBVIOUS
  <2> HIDE DEF r, E
  <2>3. here \in Seq(E) /\ Len(here) = Len(reading)
    BY <1>8, <2>1, <2>2
  <2>4. here[1].file = reading[1].file
    <3>1. CASE Len(reading) = 1  BY <1>8, <2>1, <2>2, <3>1
    <3>2. CASE Len(reading) # 1  BY <1>8, <2>2, <3>2
    <3> QED  BY <3>1, <3>2
  <2> QED  BY <1>8, <2>3, <2>4
<1> HIDE DEF here, line, E, o
<1>12. ASSUME ~found.failed PROVE OptionInv'
  <2>1. \/ ignored /\ params' = params /\ reading' = here
        \/ /\ ~ignored /\ o # "PARAMS" /\ reading' = here
           /\ SetTo(o, ValueOf(o, line[2]), params, params')
        \/ /\ ~ignored /\ o = "PARAMS" /\ params' = params /\ line[2] \in DOMAIN Files
           /\ reading' = Append(here, [file |-> line[2], next |-> 1])
    <3>1. CASE ignored
      <4>1. found = Outcome(params, here, FALSE)  BY <3>1 DEF found
      <4> QED  BY <1>4, <3>1, <4>1 DEF Outcome
    <3>2. CASE ~ignored
      <4>1. found = set_option(o, line[2], here)  BY <3>2 DEF found
      <4>2. o \in OptionNames \ {"_SCALE_INDEX"}
        BY <1>10, <3>2, OptionFound DEF o
      <4>3. ~set_option(o, line[2], here).failed
        BY <1>12, <4>1
      <4> HIDE DEF ignored
      <4>4. /\ o # "PARAMS" => SetTo(o, ValueOf(o, line[2]), params, params') /\ reading' = here
            /\ o = "PARAMS" => /\ params' = params /\ Opens(line[2], here)
                               /\ reading' = Append(here, [file |-> line[2], next |-> 1])
        BY <1>4, <4>1, <4>2, <4>3, OptionSet
      <4> QED  BY <3>2, <4>4 DEF Opens
    <3> QED  BY <3>1, <3>2
  <2>2. reading' \in Seq(E) /\ reading' # <<>> /\ reading'[1].file = reading[1].file
    <3>1. CASE reading' = here
      BY <1>11, <3>1
    <3>2. CASE line[2] \in DOMAIN Files /\ reading' = Append(here, [file |-> line[2], next |-> 1])
      <4> DEFINE r == [file |-> line[2], next |-> 1]
      <4>1. r \in E  BY <3>2 DEF E
      <4>2. reading' = Append(here, r)  BY <3>2
      <4> HIDE DEF r
      <4>3. reading' \in Seq(E) /\ reading' # <<>> /\ reading'[1] = here[1]
        BY <1>11, <4>1, <4>2
      <4> QED  BY <1>11, <4>3
    <3> QED  BY <2>1, <3>1, <3>2
  <2>3. seen' \in Seq(Seq(STRING)) /\ Len(seen') = Len(seen) + 1 /\ Len(seen) \in Nat
        /\ seen'[Len(seen) + 1] = line /\ \A i \in 1 .. Len(seen) : seen'[i] = seen[i]
        /\ DOMAIN seen = 1 .. Len(seen) /\ DOMAIN seen' = 1 .. Len(seen) + 1
    <3> DEFINE S == Seq(STRING)
    <3>1. seen \in Seq(S) /\ line \in S  BY <1>3, <1>10 DEF FilesRead
    <3> HIDE DEF S
    <3>2. seen' \in Seq(S)  BY <1>1, <3>1
    <3>3. /\ Len(seen') = Len(seen) + 1 /\ Len(seen) \in Nat
          /\ seen'[Len(seen) + 1] = line /\ \A i \in 1 .. Len(seen) : seen'[i] = seen[i]
          /\ DOMAIN seen = 1 .. Len(seen) /\ DOMAIN seen' = 1 .. Len(seen) + 1
      BY <1>1, <3>1
    <3> QED  BY <3>2, <3>3 DEF S
  <2> DEFINE past == Len(seen)
  <2>11. DOMAIN seen = 1 .. past /\ DOMAIN seen' = 1 .. past + 1
    BY <2>3
  <2> HIDE DEF past
  <2>4. FilesRead'
    <3>1. \A i \in DOMAIN seen' : fnd_param(seen'[i][1]) \notin {"PROG", "_SCALE_INDEX"}
      <4> TAKE i \in DOMAIN seen'
      <4>1. i \in 1 .. Len(seen) \/ i = Len(seen) + 1
        BY <2>3
      <4>2. CASE i = Len(seen) + 1
        BY <1>10, <2>3, <4>2 DEF o
      <4>3. CASE i \in 1 .. Len(seen)
        <5>1. i \in DOMAIN seen /\ seen'[i] = seen[i]
          BY <1>3, <2>3, <4>3 DEF FilesRead
        <5> QED  BY <1>3, <5>1 DEF FilesRead
      <4> QED  BY <4>1, <4>2, <4>3
    <3> QED  BY <2>2, <2>3, <3>1 DEF FilesRead, E
  <2>5. ScaleFits'
    <3>1. CASE params' = params  BY <1>3, <3>1 DEF ScaleFits
    <3>2. CASE SetTo(o, ValueOf(o, line[2]), params, params')
      BY <1>3, <1>10, <3>2, ScaleKept
    <3> QED  BY <2>1, <3>1, <3>2
  <2>6. (Reached(n))'
    BY <1>1, <1>5, <1>7 DEF Reached
  <2>7. (ParamsSoFar(n))'
    <3>1. SetBy("PARAMS", n) # {} /\ reading[1].file = ItemValue(LastOf(SetBy("PARAMS", n)))
      BY <1>1, <1>5 DEF ParamsSoFar
    <3> QED  BY <1>7, <2>2, <3>1 DEF ParamsSoFar
  <2>8. ASSUME NEW p \in OptionNames \ {"PARAMS", "_SCALE_INDEX"} PROVE (ValueSoFar(p, n))'
    <3>1. ValueSoFar(p, n)  BY <1>5
    <3>2. /\ p # o \/ ignored => (p \in DOMAIN params' <=> p \in DOMAIN params)
          /\ (p # o \/ ignored) /\ p \in DOMAIN params => params'[p] = params[p]
          /\ p = o /\ ~ignored => p \in DOMAIN params' /\ params'[p] = ValueOf(p, line[2]) /\ p \notin DOMAIN params
      BY <2>1, <2>8 DEF SetTo, Overridden
    <3>3. /\ p # o \/ line[2] = "" => (Lines(p))' = Lines(p)
          /\ p = o /\ line[2] # "" => (Lines(p))' = Lines(p) \union {Len(seen) + 1}
      <4> DEFINE L(s, i) == fnd_param(s[i][1]) = p /\ s[i][2] # ""
      <4>1. /\ (Lines(p))' = {i \in 1 .. Len(seen) + 1 : L(seen', i)}
            /\ Lines(p) = {i \in 1 .. Len(seen) : L(seen, i)}
        BY <2>11 DEF Lines, past
      <4>2. \A i \in 1 .. Len(seen) : L(seen', i) <=> L(seen, i)
        BY <2>3
      <4>3. L(seen', Len(seen) + 1) <=> p = o /\ line[2] # ""
        BY <2>3 DEF o
      <4> DEFINE m == Len(seen)
      <4>4. m \in Nat  BY <2>3
      <4> HIDE DEF L, m
      <4>5. CASE p = o /\ line[2] # ""
        <5>1. L(seen', m + 1)  BY <4>3, <4>5 DEF m
        <5>2. {i \in 1 .. m + 1 : L(seen', i)} = {i \in 1 .. m : L(seen', i)} \union {m + 1}
          BY <4>4, <5>1
        <5>3. {i \in 1 .. m : L(seen', i)} = Lines(p)
          BY <4>1, <4>2 DEF m
        <5> QED  BY <4>1, <4>5, <5>2, <5>3 DEF m
      <4>6. CASE ~(p = o /\ line[2] # "")
        <5>1. ~L(seen', m + 1)  BY <4>3, <4>6 DEF m
        <5>2. {i \in 1 .. m + 1 : L(seen', i)} = {i \in 1 .. m : L(seen', i)}
          BY <4>4, <5>1
        <5>3. {i \in 1 .. m : L(seen', i)} = Lines(p)
          BY <4>1, <4>2 DEF m
        <5> QED  BY <4>1, <4>6, <5>2, <5>3 DEF m
      <4> QED  BY <4>5, <4>6
    <3>4. Lines(p) \subseteq 1 .. Len(seen)
      BY <2>11 DEF Lines, past
    <3>5. Lines(p) # {} => /\ FirstOf((Lines(p))') = FirstOf(Lines(p)) /\ FirstOf(Lines(p)) \in 1 .. Len(seen)
                           /\ (Lines(p))' # {}
      <4> HIDE DEF ignored
      <4> SUFFICES ASSUME Lines(p) # {}
                   PROVE  /\ FirstOf((Lines(p))') = FirstOf(Lines(p)) /\ FirstOf(Lines(p)) \in 1 .. Len(seen)
                          /\ (Lines(p))' # {}
        OBVIOUS
      <4>1. /\ FirstOf(Lines(p)) \in Lines(p)
            /\ FirstOf(Lines(p) \union {Len(seen) + 1}) = FirstOf(Lines(p))
        BY <2>3, <3>4, FirstStays
      <4>2. (Lines(p))' = Lines(p) \/ (Lines(p))' = Lines(p) \union {Len(seen) + 1}
        BY <3>3
      <4>3. FirstOf((Lines(p))') = FirstOf(Lines(p))
        BY <4>1, <4>2
      <4> QED  BY <3>4, <4>1, <4>2, <4>3
    <3>6. CASE SetBy(p, n) # {}
      <4>1. p \in DOMAIN params /\ params[p] = ValueOf(p, ItemValue(LastOf(SetBy(p, n))))
        BY <3>1, <3>6 DEF ValueSoFar
      <4>2. p \in DOMAIN params' /\ params'[p] = params[p]
        BY <3>2, <4>1
      <4> QED  BY <1>7, <3>6, <4>1, <4>2 DEF ValueSoFar
    <3>7. CASE SetBy(p, n) = {} /\ Lines(p) # {}
      <4>1. p \in DOMAIN params /\ params[p] = ValueOf(p, seen[FirstOf(Lines(p))][2])
        BY <3>1, <3>7 DEF ValueSoFar
      <4>2. p \in DOMAIN params' /\ params'[p] = params[p]
        BY <3>2, <4>1
      <4>3. seen'[FirstOf((Lines(p))')] = seen[FirstOf(Lines(p))]
        BY <2>3, <3>5, <3>7
      <4>4. params'[p] = ValueOf(p, seen'[FirstOf((Lines(p))')][2])
        BY <4>1, <4>2, <4>3
      <4> QED  BY <1>7, <3>5, <3>7, <4>2, <4>4 DEF ValueSoFar
    <3>8. CASE SetBy(p, n) = {} /\ Lines(p) = {} /\ p = o /\ line[2] # ""
      <4>1. p \notin DOMAIN params /\ p # NotFound
        BY <1>10, <3>1, <3>8, OptionTypes DEF ValueSoFar
      <4>2. ~ignored
        BY <3>8, <4>1 DEF Overridden
      <4>3. (Lines(p))' = {Len(seen) + 1}
        BY <3>3, <3>8
      <4>4. FirstOf((Lines(p))') = Len(seen) + 1
        BY <2>3, <4>3 DEF FirstOf
      <4>5. p \in DOMAIN params' /\ params'[p] = ValueOf(p, seen'[FirstOf((Lines(p))')][2])
        BY <2>3, <3>2, <3>8, <4>2, <4>4
      <4> QED  BY <1>7, <3>8, <4>3, <4>5 DEF ValueSoFar
    <3>9. CASE SetBy(p, n) = {} /\ Lines(p) = {} /\ (p # o \/ line[2] = "")
      <4>1. (Lines(p))' = {}  BY <3>3, <3>9
      <4>2. p # o \/ ignored  BY <3>9
      <4>3. p \in DOMAIN params' => p = "PROG" /\ params'[p] = options[p].dflt
        BY <3>1, <3>2, <3>9, <4>2 DEF ValueSoFar
      <4> QED  BY <1>7, <3>9, <4>1, <4>3 DEF ValueSoFar
    <3> QED  BY <3>6, <3>7, <3>8, <3>9
  <2>9. ostage' = "options"  BY <1>1, <1>4, <1>12
  <2>10. (SoFar(n))' BY <1>1, <1>2, <2>6, <2>7, <2>8 DEF SoFar
  <2> QED  BY <1>1, <1>2, <1>3, <2>4, <2>5, <2>9, <2>10 DEF OptionInv
<1> QED  BY <1>6, <1>12

(* What the end of a file changes: PARAMS, when it is the outermost.       *)
LEMMA FileClosed == ASSUME OptionInv, CloseFile PROVE OptionInv'
<1> DEFINE E == [file : DOMAIN Files, next : Nat \ {0}]
           q == With(params, "PARAMS", Innermost.file)
<1>1. /\ ostage = "options" /\ reading # <<>>
      /\ params' = q /\ reading' = SubSeq(reading, 1, Len(reading) - 1)
      /\ command' = command /\ option_num' = option_num /\ res' = res /\ seen' = seen
      /\ ostage' = ostage
  BY DEF CloseFile
<1>2. PICK n \in 0 .. Len(command) : SoFar(n)
  BY <1>1 DEF OptionInv
<1>3. command \in Seq(CommandItems) /\ FilesRead /\ ScaleFits
  BY <1>1 DEF OptionInv
<1>4. Reached(n) /\ ParamsSoFar(n) /\ \A p \in OptionNames \ {"PARAMS", "_SCALE_INDEX"} : ValueSoFar(p, n)
  BY <1>2 DEF SoFar
<1>5. /\ Joined' = Joined /\ \A p : (Lines(p))' = Lines(p)
      /\ \A p, m : (SetBy(p, m))' = SetBy(p, m)
      /\ \A i : (ItemValue(i))' = ItemValue(i)
  BY <1>1, SameCommand, SameLines
<1>6. /\ DOMAIN q = DOMAIN params \union {"PARAMS"} /\ q["PARAMS"] = Innermost.file
      /\ \A p \in DOMAIN params \ {"PARAMS"} : q[p] = params[p]
  BY DEF With
<1> HIDE DEF q, E
<1>7. reading \in Seq(E)
  BY <1>3 DEF FilesRead, E
<1>8. /\ reading' \in Seq(E)
      /\ Len(reading) = 1 => reading' = <<>> /\ Innermost = reading[1]
      /\ Len(reading) # 1 => reading' # <<>> /\ reading'[1] = reading[1]
  <2>1. Len(reading) \in Nat \ {0}
    BY <1>1, <1>7
  <2>2. Len(reading) - 1 \in 0 .. Len(reading)
    BY <2>1
  <2>3. /\ reading' \in Seq(E) /\ Len(reading') = Len(reading) - 1
        /\ \A i \in 1 .. Len(reading) - 1 : reading'[i] = reading[i]
    <3> DEFINE h == Len(reading) - 1
               r == SubSeq(reading, 1, h)
    <3>1. h \in Nat /\ \A i \in 1 .. h : reading[i] \in E
      BY <1>7, <2>1
    <3>2. reading' = r  BY <1>1
    <3> HIDE DEF h
    <3>3. r \in Seq(E)
      BY <3>1
    <3>4. Len(r) = h
      BY <3>1
    <3>5. \A i \in 1 .. h : r[i] = reading[i]
      BY <3>1
    <3> QED  BY <3>2, <3>3, <3>4, <3>5 DEF h
  <2>4. CASE Len(reading) = 1
    BY <2>3, <2>4 DEF Innermost
  <2>5. CASE Len(reading) # 1
    <3> DEFINE l == Len(reading)
    <3>1. l \in Nat \ {0} /\ l # 1  BY <2>1, <2>5
    <3> HIDE DEF l
    <3>2. 1 \in 1 .. l - 1  BY <3>1
    <3>3. 1 \in 1 .. Len(reading) - 1 /\ Len(reading) - 1 # 0
      BY <3>1, <3>2 DEF l
    <3>4. reading'[1] = reading[1] /\ Len(reading') # 0
      BY <2>3, <3>3
    <3>5. reading' # <<>>
      BY <3>4
    <3> QED  BY <2>3, <2>5, <3>4, <3>5
  <2> QED  BY <2>3, <2>4, <2>5
<1>9. FilesRead'
  <2>1. seen \in Seq(Seq(STRING)) /\ \A i \in DOMAIN seen : fnd_param(seen[i][1]) \notin {"PROG", "_SCALE_INDEX"}
    BY <1>3 DEF FilesRead
  <2> QED  BY <1>1, <1>8, <2>1 DEF FilesRead, E
<1>10. ScaleFits'
  BY <1>1, <1>3, <1>6 DEF ScaleFits
<1>11. (Reached(n))'
  BY <1>1, <1>4, <1>5 DEF Reached
<1>12. (ParamsSoFar(n))'
  <2>1. SetBy("PARAMS", n) # {} /\ reading[1].file = ItemValue(LastOf(SetBy("PARAMS", n)))
    BY <1>1, <1>4 DEF ParamsSoFar
  <2>2. reading' = <<>> => "PARAMS" \in DOMAIN params' /\ params'["PARAMS"] = reading[1].file
    BY <1>1, <1>6, <1>8
  <2>3. reading' # <<>> => reading'[1].file = reading[1].file
    BY <1>8
  <2> QED  BY <1>5, <2>1, <2>2, <2>3 DEF ParamsSoFar
<1>13. ASSUME NEW p \in OptionNames \ {"PARAMS", "_SCALE_INDEX"} PROVE (ValueSoFar(p, n))'
  <2>1. ValueSoFar(p, n)  BY <1>4
  <2>2. /\ p \in DOMAIN params' <=> p \in DOMAIN params
        /\ p \in DOMAIN params => params'[p] = params[p]
    BY <1>1, <1>6, <1>13
  <2> QED  BY <1>1, <1>5, <2>1, <2>2 DEF ValueSoFar
<1>14. (SoFar(n))'  BY <1>1, <1>2, <1>11, <1>12, <1>13 DEF SoFar
<1> QED  BY <1>1, <1>2, <1>3, <1>9, <1>10, <1>14 DEF OptionInv

LEMMA SameOptions ==
  ASSUME OptionInv, UNCHANGED <<command, option_num, res, params, reading, seen>>
  PROVE  /\ (command \in Seq(CommandItems))'
         /\ ostage # "failed" => FilesRead' /\ ScaleFits' /\ (\E n \in 0 .. Len(command) : SoFar(n))'
         /\ args' = args /\ TablesToBuild' = TablesToBuild
<1>1. /\ Joined' = Joined /\ args' = args /\ \A p : (Lines(p))' = Lines(p)
      /\ \A p, m : (SetBy(p, m))' = SetBy(p, m)
      /\ \A i : (ItemValue(i))' = ItemValue(i)
  BY SameCommand, SameLines
<1>2. TablesToBuild' = TablesToBuild
  BY DEF TablesToBuild, get_str
<1>3. ASSUME ostage # "failed" PROVE FilesRead' /\ ScaleFits' /\ (\E n \in 0 .. Len(command) : SoFar(n))'
  <2>1. FilesRead /\ ScaleFits /\ \E n \in 0 .. Len(command) : SoFar(n)
    BY <1>3 DEF OptionInv
  <2>2. FilesRead' /\ ScaleFits'
    BY <2>1 DEF FilesRead, ScaleFits
  <2>3. PICK n \in 0 .. Len(command) : SoFar(n)
    BY <2>1
  <2>4. (Reached(n))' /\ (ParamsSoFar(n))'
    BY <1>1, <2>3 DEF SoFar, Reached, ParamsSoFar
  <2>5. \A p \in OptionNames \ {"PARAMS", "_SCALE_INDEX"} : (ValueSoFar(p, n))'
    <3> TAKE p \in OptionNames \ {"PARAMS", "_SCALE_INDEX"}
    <3>1. ValueSoFar(p, n)  BY <2>3 DEF SoFar
    <3> QED  BY <1>1, <3>1 DEF ValueSoFar
  <2> QED  BY <2>2, <2>3, <2>4, <2>5 DEF SoFar
<1> QED  BY <1>1, <1>2, <1>3 DEF OptionInv

LEMMA OptionsValidated == ASSUME OptionInv, validate_options PROVE OptionInv'
<1>1. /\ ostage = "options" /\ reading = <<>> /\ option_num > Len(args)
      /\ UNCHANGED <<command, option_num, res, params, reading, seen>>
      /\ ostage' = "failed" \/ (ostage' = "go" /\ TablesToBuild # {})
  BY DEF validate_options
<1>2. /\ (command \in Seq(CommandItems))'
      /\ ostage # "failed" => FilesRead' /\ ScaleFits' /\ (\E n \in 0 .. Len(command) : SoFar(n))'
      /\ args' = args /\ TablesToBuild' = TablesToBuild
  BY <1>1, SameOptions
<1> QED  BY <1>1, <1>2 DEF OptionInv

LEMMA OptionsGoOn == OptionInv /\ [OptionNext]_optionVars => OptionInv'
<1> SUFFICES ASSUME OptionInv, [OptionNext]_optionVars PROVE OptionInv'
  OBVIOUS
<1>1. CASE process_options  BY <1>1, ProcessOption
<1>2. CASE read_file  BY <1>2, ReadLine
<1>3. CASE CloseFile  BY <1>3, FileClosed
<1>4. CASE validate_options  BY <1>4, OptionsValidated
<1>5. CASE UNCHANGED optionVars
  <2>1. UNCHANGED <<command, option_num, res, params, reading, seen>> /\ ostage' = ostage
    BY <1>5 DEF optionVars
  <2>2. /\ (command \in Seq(CommandItems))'
        /\ ostage # "failed" => FilesRead' /\ ScaleFits' /\ (\E n \in 0 .. Len(command) : SoFar(n))'
        /\ args' = args /\ TablesToBuild' = TablesToBuild
    BY <2>1, SameOptions
  <2>3. ostage = "go" => option_num > Len(args) /\ reading = <<>> /\ TablesToBuild # {}
    BY DEF OptionInv
  <2> QED  BY <2>1, <2>2, <2>3 DEF OptionInv
<1> QED  BY <1>1, <1>2, <1>3, <1>4, <1>5 DEF OptionNext

(* Which table its name, or the beginning of one, finds.                   *)
LEMMA TableFound ==
  ASSUME NEW tname, find_table(tname) # 0
  PROVE  /\ find_table(tname) \in DOMAIN TableNames /\ Begins(tname, TableNames[find_table(tname)])
         /\ \A i \in DOMAIN TableNames : TableNames[i] = tname => find_table(tname) = i
<1> DEFINE exact == {i \in DOMAIN TableNames : TableNames[i] = tname}
           begun == {i \in DOMAIN TableNames : Begins(tname, TableNames[i])}
<1>1. /\ exact # {} => find_table(tname) = FirstOf(exact)
      /\ exact = {} /\ begun # {} => find_table(tname) = FirstOf(begun)
      /\ exact = {} /\ begun = {} => find_table(tname) = 0
  <2>1. exact \subseteq begun  BY TextsAssumption
  <2> QED  BY <2>1 DEF find_table, FirstOf
<1>2. exact \subseteq Nat /\ begun \subseteq Nat
  BY OptionsAssumption
<1>3. CASE exact # {}
  <2>1. find_table(tname) \in exact  BY <1>1, <1>2, <1>3, FirstIn
  <2>2. \A i \in exact : i = find_table(tname)
    BY <2>1, OptionsAssumption
  <2> QED  BY <2>1, <2>2, TextsAssumption
<1>4. CASE exact = {}
  <2>1. find_table(tname) \in begun  BY <1>1, <1>2, <1>4, FirstIn
  <2> QED  BY <1>4, <2>1
<1> QED  BY <1>3, <1>4

LEMMA InvPrecedence == OptionInv => Precedence
<1> SUFFICES ASSUME OptionInv, ostage = "go"
             PROVE  /\ \A o \in OptionNames \ {"_SCALE_INDEX"} : get_str(o) = ByRule(o)
                    /\ ByRule("TABLE") # "ALL" =>
                         /\ Cardinality(TablesToBuild) = 1
                         /\ \A i \in TablesToBuild : Begins(ByRule("TABLE"), TableNames[i])
                         /\ \A i \in DOMAIN TableNames : TableNames[i] = ByRule("TABLE") => TablesToBuild = {i}
                    /\ get_str("_SCALE_INDEX") = ScaleIndex(get_str("SCALE"))
  BY DEF Precedence
<1>1. PICK n \in 0 .. Len(command) : SoFar(n)
  BY DEF OptionInv
<1>2. /\ command \in Seq(CommandItems) /\ FilesRead /\ ScaleFits
      /\ option_num > Len(args) /\ reading = <<>> /\ TablesToBuild # {}
  BY DEF OptionInv
<1>3. Reached(n) /\ ParamsSoFar(n) /\ \A p \in OptionNames \ {"PARAMS", "_SCALE_INDEX"} : ValueSoFar(p, n)
  BY <1>1 DEF SoFar
<1>4. n = Len(command)
  <2>1. Len(Joined[n]) \in Nat /\ Len(args) \in Nat
    <3>1. Len(command) \in 0 .. Len(command)  BY <1>2
    <3>2. Joined[n] \in Seq(STRING) /\ args \in Seq(STRING)
      BY <1>2, <3>1, JoinedSteps DEF args
    <3> QED  BY <3>2
  <2>2. option_num = Len(Joined[n]) + 1 \/ option_num = Len(Joined[n])
    BY <1>3 DEF Reached
  <2>3. ~(Len(Joined[n]) < Len(args))
    BY <1>2, <2>1, <2>2
  <2> QED  BY <1>2, <2>3, MoreItems
<1>5. \A o : SetBy(o, n) = Setting(o)
  <2>1. DOMAIN command = 1 .. n  BY <1>2, <1>4
  <2> QED  BY <1>4, <2>1 DEF SetBy, Setting
<1>6. /\ \A o : Setting(o) # {} => ByRule(o) = ValueOf(o, ItemValue(LastOf(Setting(o))))
      /\ \A o : Setting(o) = {} /\ Lines(o) # {} => ByRule(o) = ValueOf(o, seen[FirstOf(Lines(o))][2])
      /\ \A o : Setting(o) = {} /\ Lines(o) = {} => ByRule(o) = options[o].dflt
  BY DEF ByRule, LastOf, FirstOf
<1>7. ASSUME NEW o \in OptionNames \ {"_SCALE_INDEX"} PROVE get_str(o) = ByRule(o)
  <2>1. CASE o = "PARAMS"
    <3>1. CASE Setting(o) = {}
      <4>1. seen = <<>> /\ o \notin DOMAIN params
        BY <1>3, <1>5, <2>1, <3>1 DEF ParamsSoFar
      <4>2. Lines(o) = {}
        BY <4>1 DEF Lines
      <4> QED  BY <1>6, <3>1, <4>1, <4>2 DEF get_str
    <3>2. CASE Setting(o) # {}
      <4>1. o \in DOMAIN params /\ params[o] = ItemValue(LastOf(Setting(o)))
        BY <1>2, <1>3, <1>5, <2>1, <3>2 DEF ParamsSoFar
      <4>2. ByRule(o) = ItemValue(LastOf(Setting(o)))
        BY <1>6, <2>1, <3>2, OptionTypes DEF ValueOf
      <4> QED  BY <4>1, <4>2 DEF get_str
    <3> QED  BY <3>1, <3>2
  <2>2. CASE o # "PARAMS"
    <3>1. ValueSoFar(o, n)  BY <1>3, <2>2
    <3>2. CASE Setting(o) # {}
      BY <1>5, <1>6, <3>1, <3>2 DEF ValueSoFar, get_str
    <3>3. CASE Setting(o) = {} /\ Lines(o) # {}
      BY <1>5, <1>6, <3>1, <3>3 DEF ValueSoFar, get_str
    <3>4. CASE Setting(o) = {} /\ Lines(o) = {}
      BY <1>5, <1>6, <3>1, <3>4 DEF ValueSoFar, get_str
    <3> QED  BY <3>2, <3>3, <3>4
  <2> QED  BY <2>1, <2>2
<1>8. ASSUME ByRule("TABLE") # "ALL"
      PROVE  /\ Cardinality(TablesToBuild) = 1
             /\ \A i \in TablesToBuild : Begins(ByRule("TABLE"), TableNames[i])
             /\ \A i \in DOMAIN TableNames : TableNames[i] = ByRule("TABLE") => TablesToBuild = {i}
  <2> DEFINE t == ByRule("TABLE")
  <2>1. get_str("TABLE") = t
    BY <1>7, OptionTypes
  <2>2. TablesToBuild = {find_table(t)} \ {0}
    BY <1>8, <2>1 DEF TablesToBuild
  <2> HIDE DEF t
  <2>3. find_table(t) # 0 /\ TablesToBuild = {find_table(t)}
    BY <1>2, <2>2
  <2>4. Cardinality(TablesToBuild) = 1
    BY <2>3, FS_Singleton
  <2>5. /\ Begins(t, TableNames[find_table(t)])
        /\ \A i \in DOMAIN TableNames : TableNames[i] = t => find_table(t) = i
    BY <2>3, TableFound
  <2> QED  BY <2>3, <2>4, <2>5 DEF t
<1>9. get_str("_SCALE_INDEX") = ScaleIndex(get_str("SCALE"))
  <2>1. CASE "SCALE" \in DOMAIN params
    BY <1>2, <2>1 DEF ScaleFits, get_str
  <2>2. CASE "SCALE" \notin DOMAIN params
    BY <1>2, <2>2, TextsAssumption DEF ScaleFits, get_str
  <2> QED  BY <2>1, <2>2
<1> QED  BY <1>7, <1>8, <1>9

(* For every command line whose items are options with what they need, and *)
(* every parameter file: when dsdgen starts to generate, each option is    *)
(* that of the command line, or else that of the first line that sets it;  *)
(* the band is the scale's and the table the one that was named.           *)
THEOREM OptionsByRule == OptionSpec => []Precedence
<1>1. OptionInit => OptionInv  BY OptionsBegin
<1> QED  BY <1>1, OptionsGoOn, InvPrecedence, PTL DEF OptionSpec


-----------------------------------------------------------------------------
\* Distributions
\* The sums of the first numbers of s.
Sums(f, s, n) == f \in [0 .. n -> Nat] /\ f[0] = 0 /\ \A i \in 1 .. n : f[i] = f[i - 1] + s[i]

LEMMA SumsExist ==
  ASSUME NEW n \in Nat, NEW s, \A i \in 1 .. n : s[i] \in Nat
  PROVE  \E f : Sums(f, s, n)
<1> DEFINE G == [k \in 1 .. n |-> [q \in Nat |-> q + s[k]]]
<1>1. G \in [1 .. n -> [Nat -> Nat]]
  OBVIOUS
<1>2. \A k \in 1 .. n, q \in Nat : G[k][q] = q + s[k]
  OBVIOUS
<1> HIDE DEF G
<1>3. PICK f : Unfolds(f, n, Nat, 0, G)
  BY <1>1, Recursion
<1>4. f \in [0 .. n -> Nat] /\ f[0] = 0
  BY <1>3 DEF Unfolds
<1>5. \A i \in 1 .. n : f[i] = f[i - 1] + s[i]
  <2> TAKE i \in 1 .. n
  <2>1. f[i - 1] \in Nat  BY <1>4
  <2> QED  BY <1>2, <1>3, <2>1 DEF Unfolds
<1> QED  BY <1>4, <1>5 DEF Sums

LEMMA SumIs ==
  ASSUME NEW n \in Nat, NEW s, NEW f, Sums(f, s, n), NEW m \in 0 .. n
  PROVE  SumTo(s, m) = f[m]
<1> DEFINE Step(g) == [i \in 0 .. m |-> IF i = 0 THEN 0 ELSE g[i - 1] + s[i]]
           sum == CHOOSE g : g = Step(g)
           h == [i \in 0 .. m |-> f[i]]
<1>1. m \in Nat /\ m <= n
  OBVIOUS
<1>2. h = Step(h)
  <2>1. \A i \in 0 .. m : h[i] = IF i = 0 THEN 0 ELSE h[i - 1] + s[i]
    <3> TAKE i \in 0 .. m
    <3>1. CASE i = 0  BY <3>1 DEF Sums
    <3>2. CASE i # 0
      <4>1. i \in 1 .. n /\ i - 1 \in 0 .. m  BY <1>1, <3>2
      <4>2. h[i] = f[i] /\ h[i - 1] = f[i - 1]  BY <4>1
      <4>3. f[i] = f[i - 1] + s[i]  BY <4>1 DEF Sums
      <4> QED  BY <3>2, <4>2, <4>3
    <3> QED  BY <3>1, <3>2
  <2>2. h = [i \in 0 .. m |-> h[i]]
    OBVIOUS
  <2> HIDE DEF h
  <2> QED  BY <2>1, <2>2
<1>3. sum = Step(sum)
  <2> HIDE DEF Step, h
  <2> QED  BY <1>2
<1>4. \A i \in 0 .. m : Step(sum)[i] = IF i = 0 THEN 0 ELSE sum[i - 1] + s[i]
  OBVIOUS
<1>5. SumTo(s, m) = sum[m]
  BY DEF SumTo
<1> HIDE DEF sum, Step, h
<1>6. \A i \in 0 .. m : sum[i] = IF i = 0 THEN 0 ELSE sum[i - 1] + s[i]
  BY <1>3, <1>4
<1> DEFINE T == {i \in 0 .. m : sum[i] = f[i]}
<1>7. 0 \in T
  BY <1>1, <1>6 DEF Sums
<1>8. ASSUME NEW i \in 1 .. m, i - 1 \in T PROVE i \in T
  <2>1. i \in 0 .. m /\ i \in 1 .. n /\ i # 0  BY <1>1
  <2>2. sum[i] = sum[i - 1] + s[i]  BY <1>6, <2>1
  <2>3. f[i] = f[i - 1] + s[i]  BY <2>1 DEF Sums
  <2> QED  BY <1>8, <2>1, <2>2, <2>3
<1> HIDE DEF T
<1>9. \A i \in 0 .. m : i \in T
  BY <1>1, <1>7, <1>8, Upwards
<1>10. m \in T
  BY <1>1, <1>9
<1> QED  BY <1>5, <1>10 DEF T

(* A sum is that of the numbers before the last, and the last.             *)
LEMMA SumSteps ==
  ASSUME NEW n \in Nat, NEW s, \A i \in 1 .. n : s[i] \in Nat
  PROVE  /\ SumTo(s, 0) = 0
         /\ \A i \in 1 .. n : SumTo(s, i) = SumTo(s, i - 1) + s[i]
         /\ \A i \in 0 .. n : SumTo(s, i) \in Nat
<1>1. PICK f : Sums(f, s, n)
  BY SumsExist
<1>2. \A i \in 0 .. n : SumTo(s, i) = f[i]
  BY <1>1, SumIs
<1>3. f \in [0 .. n -> Nat] /\ f[0] = 0 /\ \A i \in 1 .. n : f[i] = f[i - 1] + s[i]
  BY <1>1 DEF Sums
<1>4. SumTo(s, 0) = 0
  BY <1>2, <1>3
<1>5. ASSUME NEW i \in 1 .. n PROVE SumTo(s, i) = SumTo(s, i - 1) + s[i]
  <2>1. i \in 0 .. n /\ i - 1 \in 0 .. n
    OBVIOUS
  <2> QED  BY <1>2, <1>3, <2>1
<1>6. \A i \in 0 .. n : SumTo(s, i) \in Nat
  BY <1>2, <1>3
<1> QED  BY <1>4, <1>5, <1>6

LEMMA SameSum ==
  ASSUME NEW n \in Nat, NEW s, NEW t, \A i \in 1 .. n : s[i] \in Nat /\ t[i] = s[i]
  PROVE  SumTo(t, n) = SumTo(s, n)
<1>1. PICK f : Sums(f, s, n)
  BY SumsExist
<1>2. Sums(f, t, n)
  BY <1>1 DEF Sums
<1>3. n \in 0 .. n
  OBVIOUS
<1> QED  BY <1>1, <1>2, <1>3, SumIs

(* A longer sum is not less, and more if what it adds is more than nothing.*)
LEMMA SumsGrow ==
  ASSUME NEW n \in Nat, NEW s, \A i \in 1 .. n : s[i] \in Nat, NEW i \in 0 .. n, NEW j \in i .. n
  PROVE  /\ SumTo(s, i) <= SumTo(s, j)
         /\ j > i /\ s[j] > 0 => SumTo(s, i) < SumTo(s, j)
         /\ j > i => SumTo(s, i) + s[j] <= SumTo(s, j)
<1> DEFINE d == j - i
           T == {k \in 0 .. d : SumTo(s, i) <= SumTo(s, i + k)}
<1>1. \A k \in 0 .. n : SumTo(s, k) \in Nat
  BY SumSteps
<1>2. 0 \in T
  BY <1>1
<1>3. ASSUME NEW k \in 1 .. d, k - 1 \in T PROVE k \in T
  <2>1. i + k \in 1 .. n /\ i + k \in 0 .. n /\ (i + k) - 1 = i + (k - 1) /\ i + (k - 1) \in 0 .. n
    OBVIOUS
  <2>2. SumTo(s, i + k) = SumTo(s, i + (k - 1)) + s[i + k]
    BY <2>1, SumSteps
  <2>3. SumTo(s, i + (k - 1)) \in Nat /\ s[i + k] \in Nat /\ SumTo(s, i) \in Nat
    BY <1>1, <2>1
  <2>4. SumTo(s, i) <= SumTo(s, i + (k - 1))
    BY <1>3
  <2>5. SumTo(s, i) <= SumTo(s, i + k)
    BY <2>2, <2>3, <2>4
  <2> QED  BY <1>3, <2>5
<1>4. d \in Nat
  OBVIOUS
<1> HIDE DEF T
<1>5. \A k \in 0 .. d : k \in T
  BY <1>2, <1>3, <1>4, Upwards
<1>6. \A k \in i .. n : k <= j => SumTo(s, i) <= SumTo(s, k)
  <2> TAKE k \in i .. n
  <2> HAVE k <= j
  <2>1. k - i \in 0 .. d /\ i + (k - i) = k
    OBVIOUS
  <2>2. k - i \in T
    BY <1>5, <2>1
  <2>3. SumTo(s, i) <= SumTo(s, i + (k - i))
    BY <2>2 DEF T
  <2> QED  BY <2>1, <2>3
<1>7. SumTo(s, i) <= SumTo(s, j)
  BY <1>6
<1>8. ASSUME j > i PROVE SumTo(s, i) + s[j] <= SumTo(s, j)
  <2>1. j \in 1 .. n /\ j - 1 \in i .. n /\ j - 1 <= j /\ j - 1 \in 0 .. n
    BY <1>8
  <2>2. SumTo(s, i) <= SumTo(s, j - 1)
    BY <1>6, <2>1
  <2>3. SumTo(s, j) = SumTo(s, j - 1) + s[j]
    BY <2>1, SumSteps
  <2>4. SumTo(s, j - 1) \in Nat /\ SumTo(s, i) \in Nat /\ s[j] \in Nat
    BY <1>1, <2>1
  <2> QED  BY <2>2, <2>3, <2>4
<1>9. SumTo(s, i) \in Nat /\ SumTo(s, j) \in Nat
  BY <1>1
<1>10. j > i /\ s[j] > 0 => SumTo(s, i) < SumTo(s, j)
  <2> SUFFICES ASSUME j > i, s[j] > 0 PROVE SumTo(s, i) < SumTo(s, j)
    OBVIOUS
  <2>1. j \in 1 .. n  OBVIOUS
  <2>2. s[j] \in Nat  BY <2>1
  <2> QED  BY <1>8, <1>9, <2>2
<1> QED  BY <1>7, <1>8, <1>10

bytesOf(items) == [j \in DOMAIN items |-> items[j].bytes]

\* All that is before block i, and the whole.
Flattens(f, B, m, T) ==
  /\ f \in [0 .. m -> Seq(T)] /\ f[0] = <<>> /\ \A i \in 1 .. m : f[i] = f[i - 1] \o B[i]
  /\ FlattenSeq(B) = f[m]

LEMMA FlattenIs ==
  ASSUME NEW T, NEW m \in Nat \ {0}, NEW B \in [1 .. m -> Seq(T)]
  PROVE  \E f : Flattens(f, B, m, T)
<1> DEFINE S == Seq(T)
           G == [k \in 1 .. m |-> [q \in S |-> q \o B[k]]]
<1>1. G \in [1 .. m -> [S -> S]]
  <2>1. \A k \in 1 .. m : [q \in S |-> q \o B[k]] \in [S -> S]
    OBVIOUS
  <2> QED  BY <2>1
<1>2. \A k \in 1 .. m, q \in S : G[k][q] = q \o B[k]
  OBVIOUS
<1>3. <<>> \in S /\ B \in [1 .. m -> S]
  OBVIOUS
<1>4. B \in Seq(S) /\ Len(B) = m
  OBVIOUS
<1>5. \A q \in S : <<>> \o q = q
  OBVIOUS
<1> HIDE DEF S, G
<1>6. PICK f : Unfolds(f, m, S, <<>>, G)
  BY <1>1, <1>3, Recursion
<1>7. \A k \in 1 .. m : f[k] = f[k - 1] \o B[k]
  <2> TAKE k \in 1 .. m
  <2>1. f[k - 1] \in S  BY <1>6 DEF Unfolds
  <2> QED  BY <1>2, <1>6, <2>1 DEF Unfolds
<1>8. f \in [0 .. m -> S] /\ f[0] = <<>>
  BY <1>6 DEF Unfolds
<1>20. f[1] = B[1]
  <2>1. 1 \in 1 .. m /\ 1 - 1 = 0
    OBVIOUS
  <2>2. f[1] = f[0] \o B[1] /\ B[1] \in S
    BY <1>3, <1>7, <2>1
  <2> QED  BY <1>5, <1>8, <2>2
<1> DEFINE Step(g) == [i \in 1 .. m |-> IF i = 1 THEN B[i] ELSE g[i - 1] \o B[i]]
           flatten == CHOOSE g : g = Step(g)
           h == [i \in 1 .. m |-> f[i]]
<1>9. h = Step(h)
  <2>1. \A i \in 1 .. m : h[i] = IF i = 1 THEN B[i] ELSE h[i - 1] \o B[i]
    <3> TAKE i \in 1 .. m
    <3>1. CASE i = 1
      BY <1>20, <3>1
    <3>2. CASE i # 1
      <4>1. i - 1 \in 1 .. m  BY <3>2
      <4> QED  BY <1>7, <3>2, <4>1
    <3> QED  BY <3>1, <3>2
  <2>2. h = [i \in 1 .. m |-> h[i]]
    OBVIOUS
  <2> HIDE DEF h
  <2> QED  BY <2>1, <2>2
<1>10. flatten = Step(flatten)
  <2> HIDE DEF Step, h
  <2> QED  BY <1>9
<1>11. \A i \in 1 .. m : Step(flatten)[i] = IF i = 1 THEN B[i] ELSE flatten[i - 1] \o B[i]
  OBVIOUS
<1>12. FlattenSeq(B) = flatten[m]
  BY <1>4 DEF FlattenSeq
<1> HIDE DEF flatten, Step, h
<1>13. \A i \in 1 .. m : flatten[i] = IF i = 1 THEN B[i] ELSE flatten[i - 1] \o B[i]
  BY <1>10, <1>11
<1> DEFINE P == {i \in 0 .. m : i > 0 => flatten[i] = f[i]}
<1>14. 0 \in P
  OBVIOUS
<1>15. ASSUME NEW i \in 1 .. m, i - 1 \in P PROVE i \in P
  <2>1. CASE i = 1
    <3>1. flatten[1] = B[1]  BY <1>13, <2>1
    <3> QED  BY <1>20, <2>1, <3>1
  <2>2. CASE i # 1
    <3>1. i - 1 > 0  BY <2>2
    <3>2. flatten[i - 1] = f[i - 1]  BY <1>15, <3>1
    <3>3. flatten[i] = flatten[i - 1] \o B[i]  BY <1>13, <2>2
    <3>4. flatten[i] = f[i]  BY <1>7, <3>2, <3>3
    <3> QED  BY <3>4
  <2> QED  BY <2>1, <2>2
<1> HIDE DEF P
<1>16. \A i \in 0 .. m : i \in P
  BY <1>14, <1>15, Upwards
<1>17. flatten[m] = f[m]
  BY <1>16 DEF P
<1> QED  BY <1>7, <1>8, <1>12, <1>17 DEF Flattens, S

(* The sum of numbers of which the last n are t.                           *)
LEMMA SumBehind ==
  ASSUME NEW k \in Nat, NEW n \in Nat, NEW s, NEW t,
         \A i \in 1 .. k + n : s[i] \in Nat, \A j \in 1 .. n : t[j] = s[k + j]
  PROVE  SumTo(s, k + n) = SumTo(s, k) + SumTo(t, n)
<1> DEFINE T == {j \in 0 .. n : SumTo(s, k + j) = SumTo(s, k) + SumTo(t, j)}
<1>1. \A j \in 1 .. n : t[j] \in Nat
  OBVIOUS
<1>2. SumTo(t, 0) = 0 /\ \A j \in 0 .. n : SumTo(t, j) \in Nat
  BY <1>1, SumSteps
<1>3. k + n \in Nat
  OBVIOUS
<1>4. \A i \in 0 .. k + n : SumTo(s, i) \in Nat
  BY <1>3, SumSteps
<1>5. 0 \in T
  BY <1>2, <1>4
<1>6. ASSUME NEW j \in 1 .. n, j - 1 \in T PROVE j \in T
  <2>1. k + j \in 1 .. k + n /\ (k + j) - 1 = k + (j - 1) /\ k + (j - 1) \in 0 .. k + n /\ j - 1 \in 0 .. n
    OBVIOUS
  <2>2. SumTo(s, k + j) = SumTo(s, k + (j - 1)) + s[k + j]
    <3>1. SumTo(s, k + j) = SumTo(s, (k + j) - 1) + s[k + j]
      BY <1>3, <2>1, SumSteps
    <3> QED  BY <2>1, <3>1
  <2>3. SumTo(t, j) = SumTo(t, j - 1) + t[j]
    BY <1>1, SumSteps
  <2>4. SumTo(s, k + (j - 1)) = SumTo(s, k) + SumTo(t, j - 1)
    BY <1>6
  <2>5. SumTo(s, k) \in Nat /\ SumTo(t, j - 1) \in Nat /\ t[j] \in Nat /\ t[j] = s[k + j]
    BY <1>1, <1>2, <1>4, <2>1
  <2>6. SumTo(s, k + j) = SumTo(s, k) + SumTo(t, j)
    BY <2>2, <2>3, <2>4, <2>5
  <2> QED  BY <1>6, <2>6
<1> HIDE DEF T
<1>7. \A j \in 0 .. n : j \in T
  BY <1>5, <1>6, Upwards
<1> QED  BY <1>7 DEF T

\* The bytes of all items of a block, and where item j of block i begins.
sizeOf(block) == SumTo(bytesOf(block), Len(block))
sizesOf(B) == [i \in DOMAIN B |-> sizeOf(B[i])]
At(B, i, j) == SumTo(sizesOf(B), i - 1) + SumTo(bytesOf(B[i]), j - 1)

\* Sequences of items.
Items0(T) == \A x \in T : x.bytes \in Nat

LEMMA BytesType ==
  ASSUME NEW T, Items0(T), NEW q \in Seq(T)
  PROVE  /\ Len(q) \in Nat /\ DOMAIN q = 1 .. Len(q)
         /\ \A j \in 1 .. Len(q) : bytesOf(q)[j] = q[j].bytes /\ bytesOf(q)[j] \in Nat /\ q[j] \in T
         /\ sizeOf(q) \in Nat /\ SumTo(bytesOf(q), 0) = 0
<1>1. Len(q) \in Nat /\ DOMAIN q = 1 .. Len(q) /\ \A j \in 1 .. Len(q) : q[j] \in T
  OBVIOUS
<1>2. \A j \in 1 .. Len(q) : bytesOf(q)[j] = q[j].bytes
  BY <1>1 DEF bytesOf
<1>3. \A j \in 1 .. Len(q) : bytesOf(q)[j] \in Nat
  BY <1>1, <1>2 DEF Items0
<1>4. SumTo(bytesOf(q), 0) = 0 /\ SumTo(bytesOf(q), Len(q)) \in Nat
  <2>1. Len(q) \in 0 .. Len(q)  BY <1>1
  <2> QED  BY <1>1, <1>3, <2>1, SumSteps
<1> QED  BY <1>1, <1>2, <1>3, <1>4 DEF sizeOf

(* What comes first stays first.                                           *)
LEMMA FlatBegins ==
  ASSUME NEW T, NEW m \in Nat \ {0}, NEW B \in [1 .. m -> Seq(T)], NEW f, Flattens(f, B, m, T), NEW i \in 0 .. m
  PROVE  Len(f[i]) <= Len(f[m]) /\ \A k \in 1 .. Len(f[i]) : f[m][k] = f[i][k]
<1> DEFINE d == m - i
           P == {k \in 0 .. d : /\ Len(f[i]) <= Len(f[i + k])
                                /\ \A h \in 1 .. Len(f[i]) : f[i + k][h] = f[i][h]}
<1>1. m \in Nat /\ i \in Nat /\ d \in Nat /\ i + d = m
  OBVIOUS
<1>2. f \in [0 .. m -> Seq(T)] /\ \A k \in 1 .. m : f[k] = f[k - 1] \o B[k]
  BY DEF Flattens
<1>3. \A k \in 0 .. m : f[k] \in Seq(T) /\ Len(f[k]) \in Nat
  BY <1>2
<1>4. 0 \in P
  BY <1>1, <1>3
<1>5. ASSUME NEW k \in 1 .. d, k - 1 \in P PROVE k \in P
  <2>1. i + k \in 1 .. m /\ (i + k) - 1 = i + (k - 1) /\ i + (k - 1) \in 0 .. m
    BY <1>1
  <2> DEFINE p == f[i + (k - 1)]
             q == f[i + k]
             r == f[i]
             c == B[i + k]
  <2>2. q = p \o c
    <3>1. f[i + k] = f[(i + k) - 1] \o B[i + k]  BY <1>2, <2>1, Zenon
    <3> QED  BY <2>1, <3>1
  <2>3. p \in Seq(T) /\ c \in Seq(T) /\ r \in Seq(T)
    BY <1>3, <2>1
  <2>4. Len(r) <= Len(p) /\ \A h \in 1 .. Len(r) : p[h] = r[h]
    BY <1>5
  <2> HIDE DEF p, q, r, c
  <2>5. Len(r) <= Len(q) /\ \A h \in 1 .. Len(r) : q[h] = r[h]
    BY <2>2, <2>3, <2>4
  <2> QED  BY <1>5, <2>5 DEF q, r
<1> HIDE DEF P
<1>6. \A k \in 0 .. d : k \in P
  BY <1>1, <1>4, <1>5, Upwards
<1>7. d \in P
  BY <1>1, <1>6
<1> QED  BY <1>1, <1>7 DEF P

LEMMA FlatSizes ==
  ASSUME NEW T, Items0(T), NEW m \in Nat \ {0}, NEW B \in [1 .. m -> Seq(T)], NEW f, Flattens(f, B, m, T),
         NEW i \in 0 .. m
  PROVE  sizeOf(f[i]) = SumTo(sizesOf(B), i)
<1> DEFINE P == {k \in 0 .. m : sizeOf(f[k]) = SumTo(sizesOf(B), k)}
<1>1. /\ f \in [0 .. m -> Seq(T)] /\ f[0] = <<>>
      /\ \A k \in 1 .. m : f[k] = f[k - 1] \o B[k]
  BY DEF Flattens
<1>2. \A k \in 1 .. m : sizesOf(B)[k] = sizeOf(B[k]) /\ sizesOf(B)[k] \in Nat
  <2> TAKE k \in 1 .. m
  <2>1. sizesOf(B)[k] = sizeOf(B[k])  BY DEF sizesOf
  <2> QED  BY <2>1, BytesType
<1>3. SumTo(sizesOf(B), 0) = 0 /\ \A k \in 1 .. m : SumTo(sizesOf(B), k) = SumTo(sizesOf(B), k - 1) + sizesOf(B)[k]
  BY <1>2, SumSteps
<1>4. 0 \in P
  <2>1. sizeOf(<<>>) = 0
    <3>1. <<>> \in Seq(T) /\ Len(<<>>) = 0  OBVIOUS
    <3> QED  BY <3>1, BytesType DEF sizeOf
  <2> QED  BY <1>1, <1>3, <2>1
<1>5. ASSUME NEW k \in 1 .. m, k - 1 \in P PROVE k \in P
  <2> DEFINE p == f[k - 1]
             q == f[k]
             c == B[k]
  <2>1. q = p \o c /\ p \in Seq(T) /\ c \in Seq(T)
    <3>1. k - 1 \in 0 .. m  OBVIOUS
    <3>2. f[k - 1] \in Seq(T)  BY <1>1, <3>1
    <3> QED  BY <1>1, <3>2
  <2>2. sizeOf(p) = SumTo(sizesOf(B), k - 1)
    BY <1>5
  <2>3. SumTo(sizesOf(B), k) = SumTo(sizesOf(B), k - 1) + sizeOf(c)
    BY <1>2, <1>3
  <2> HIDE DEF p, q, c
  <2>4. /\ q \in Seq(T) /\ Len(q) = Len(p) + Len(c) /\ Len(p) \in Nat /\ Len(c) \in Nat
        /\ \A j \in 1 .. Len(p) : q[j] = p[j]
        /\ \A j \in 1 .. Len(c) : q[Len(p) + j] = c[j]
    BY <2>1
  <2>5. /\ \A j \in 1 .. Len(q) : bytesOf(q)[j] = q[j].bytes /\ bytesOf(q)[j] \in Nat
        /\ \A j \in 1 .. Len(p) : bytesOf(p)[j] = p[j].bytes
        /\ \A j \in 1 .. Len(c) : bytesOf(c)[j] = c[j].bytes
    BY <2>1, <2>4, BytesType
  <2>6. \A j \in 1 .. Len(c) : bytesOf(c)[j] = bytesOf(q)[Len(p) + j]
    <3> TAKE j \in 1 .. Len(c)
    <3>1. Len(p) + j \in 1 .. Len(q)  BY <2>4
    <3> QED  BY <2>4, <2>5, <3>1
  <2>7. \A j \in 1 .. Len(p) : bytesOf(p)[j] = bytesOf(q)[j] /\ bytesOf(q)[j] \in Nat
    <3> TAKE j \in 1 .. Len(p)
    <3>1. j \in 1 .. Len(q)  BY <2>4
    <3> QED  BY <2>4, <2>5, <3>1
  <2>8. \A j \in 1 .. Len(p) + Len(c) : bytesOf(q)[j] \in Nat
    BY <2>4, <2>5
  <2>9. SumTo(bytesOf(q), Len(p) + Len(c)) = SumTo(bytesOf(q), Len(p)) + SumTo(bytesOf(c), Len(c))
    <3> DEFINE h == Len(p)   n == Len(c)   s == bytesOf(q)   t == bytesOf(c)
    <3>1. h \in Nat /\ n \in Nat /\ (\A j \in 1 .. h + n : s[j] \in Nat) /\ \A j \in 1 .. n : t[j] = s[h + j]
      BY <2>4, <2>6, <2>8
    <3> HIDE DEF h, n, s, t
    <3>2. SumTo(s, h + n) = SumTo(s, h) + SumTo(t, n)
      BY <3>1, SumBehind
    <3> QED  BY <3>2 DEF h, n, s, t
  <2>10. SumTo(bytesOf(p), Len(p)) = SumTo(bytesOf(q), Len(p))
    BY <2>4, <2>7, SameSum
  <2>11. sizeOf(q) = sizeOf(p) + sizeOf(c)
    BY <2>4, <2>9, <2>10 DEF sizeOf
  <2>12. sizeOf(q) = SumTo(sizesOf(B), k)
    BY <2>2, <2>3, <2>11
  <2> QED  BY <1>5, <2>12 DEF q
<1> HIDE DEF P
<1>6. \A k \in 0 .. m : k \in P
  BY <1>4, <1>5, Upwards
<1> QED  BY <1>6 DEF P

(* What is in a file up to a place within c, which comes behind p.         *)
LEMMA BytesBehind ==
  ASSUME NEW T, Items0(T), NEW p \in Seq(T), NEW c \in Seq(T), NEW file \in Seq(T), NEW n \in 0 .. Len(c),
         Len(p) + Len(c) <= Len(file), \A h \in 1 .. Len(p) : file[h] = p[h],
         \A h \in 1 .. Len(c) : file[Len(p) + h] = c[h]
  PROVE  SumTo(bytesOf(file), Len(p) + n) = sizeOf(p) + SumTo(bytesOf(c), n)
<1>1. Len(p) \in Nat /\ Len(c) \in Nat /\ Len(file) \in Nat /\ n \in Nat /\ n <= Len(c)
  OBVIOUS
<1>2. /\ \A j \in 1 .. Len(file) : bytesOf(file)[j] = file[j].bytes /\ bytesOf(file)[j] \in Nat
      /\ \A j \in 1 .. Len(p) : bytesOf(p)[j] = p[j].bytes
      /\ \A j \in 1 .. Len(c) : bytesOf(c)[j] = c[j].bytes
  BY BytesType
<1>3. \A h \in 1 .. Len(p) : bytesOf(p)[h] = bytesOf(file)[h] /\ bytesOf(file)[h] \in Nat
  <2> TAKE h \in 1 .. Len(p)
  <2>1. h \in 1 .. Len(file)  BY <1>1
  <2> QED  BY <1>2, <2>1
<1>4. \A h \in 1 .. n : bytesOf(c)[h] = bytesOf(file)[Len(p) + h]
  <2> TAKE h \in 1 .. n
  <2>1. h \in 1 .. Len(c) /\ Len(p) + h \in 1 .. Len(file)  BY <1>1
  <2> QED  BY <1>2, <2>1
<1>5. \A h \in 1 .. Len(p) + n : bytesOf(file)[h] \in Nat
  BY <1>1, <1>2
<1>6. SumTo(bytesOf(p), Len(p)) = SumTo(bytesOf(file), Len(p))
  BY <1>1, <1>3, SameSum
<1> DEFINE h == Len(p)   s == bytesOf(file)   t == bytesOf(c)
<1>7. h \in Nat /\ n \in Nat /\ (\A j \in 1 .. h + n : s[j] \in Nat) /\ \A j \in 1 .. n : t[j] = s[h + j]
  BY <1>1, <1>4, <1>5
<1> HIDE DEF h, s, t
<1>8. SumTo(s, h + n) = SumTo(s, h) + SumTo(t, n)
  BY <1>7, SumBehind
<1> QED  BY <1>6, <1>8 DEF h, s, t, sizeOf

(* Where item j of c is.                                                   *)
LEMMA ItemBehind ==
  ASSUME NEW T, Items0(T), NEW p \in Seq(T), NEW c \in Seq(T), NEW file \in Seq(T), NEW j \in 1 .. Len(c),
         Len(p) + Len(c) <= Len(file), \A h \in 1 .. Len(p) : file[h] = p[h],
         \A h \in 1 .. Len(c) : file[Len(p) + h] = c[h]
  PROVE  \E k \in 1 .. Len(file) : file[k] = c[j] /\ Begin(file, k) = sizeOf(p) + SumTo(bytesOf(c), j - 1)
<1> DEFINE n == j - 1   k == Len(p) + j
<1>1. Len(p) \in Nat /\ Len(c) \in Nat /\ Len(file) \in Nat
  OBVIOUS
<1>2. n \in 0 .. Len(c) /\ k \in 1 .. Len(file) /\ k - 1 = Len(p) + n
  BY <1>1
<1>3. file[k] = c[j]
  OBVIOUS
<1> HIDE DEF n, k
<1>4. SumTo(bytesOf(file), Len(p) + n) = sizeOf(p) + SumTo(bytesOf(c), n)
  BY <1>2, BytesBehind
<1>5. Begin(file, k) = SumTo(bytesOf(file), k - 1)
  BY DEF Begin, bytesOf
<1>6. Begin(file, k) = sizeOf(p) + SumTo(bytesOf(c), n)
  BY <1>2, <1>4, <1>5
<1> QED  BY <1>2, <1>3, <1>6 DEF n

\* The file begins with q; x is in the file at an offset.
FirstPart(file, q) == Len(q) <= Len(file) /\ \A h \in 1 .. Len(q) : file[h] = q[h]
IsAt(file, x, offset) == \E k \in DOMAIN file : file[k] = x /\ Begin(file, k) = offset

LEMMA ItemOfPart ==
  ASSUME NEW T, Items0(T), NEW p \in Seq(T), NEW c \in Seq(T), NEW file \in Seq(T), FirstPart(file, p \o c),
         NEW j \in 1 .. Len(c)
  PROVE  IsAt(file, c[j], sizeOf(p) + SumTo(bytesOf(c), j - 1))
<1> DEFINE q == p \o c
<1>1. /\ Len(q) = Len(p) + Len(c) /\ Len(p) \in Nat /\ Len(c) \in Nat
      /\ \A h \in 1 .. Len(p) : q[h] = p[h]
      /\ \A h \in 1 .. Len(c) : q[Len(p) + h] = c[h]
  OBVIOUS
<1>2. Len(q) <= Len(file) /\ \A h \in 1 .. Len(q) : file[h] = q[h]
  BY DEF FirstPart
<1> HIDE DEF q
<1>3. \A h \in 1 .. Len(p) : h \in 1 .. Len(q)
  BY <1>1
<1>4. \A h \in 1 .. Len(c) : Len(p) + h \in 1 .. Len(q)
  BY <1>1
<1>5. \A h \in 1 .. Len(p) : file[h] = p[h]
  BY <1>1, <1>2, <1>3
<1>6. \A h \in 1 .. Len(c) : file[Len(p) + h] = c[h]
  BY <1>1, <1>2, <1>4
<1>7. DOMAIN file = 1 .. Len(file) /\ Len(p) + Len(c) <= Len(file)
  BY <1>1, <1>2
<1>8. \E k \in 1 .. Len(file) : file[k] = c[j] /\ Begin(file, k) = sizeOf(p) + SumTo(bytesOf(c), j - 1)
  BY <1>5, <1>6, <1>7, ItemBehind
<1> QED  BY <1>7, <1>8 DEF IsAt

\* Item j of block i is in the file, at its place, and the file has all.
Placed(file, B) ==
  /\ Begin(file, Len(file) + 1) = SumTo(sizesOf(B), Len(B))
  /\ \A i \in DOMAIN B : \A j \in DOMAIN B[i] : IsAt(file, B[i][j], At(B, i, j))

LEMMA FlatPlaced ==
  ASSUME NEW T, Items0(T), NEW m \in Nat \ {0}, NEW B \in [1 .. m -> Seq(T)]
  PROVE  FlattenSeq(B) \in Seq(T) /\ Placed(FlattenSeq(B), B)
<1> DEFINE file == FlattenSeq(B)
<1>1. PICK f : Flattens(f, B, m, T)
  BY FlattenIs
<1>2. f \in [0 .. m -> Seq(T)] /\ file = f[m] /\ \A k \in 1 .. m : f[k] = f[k - 1] \o B[k]
  BY <1>1 DEF Flattens
<1>3. file \in Seq(T) /\ Len(file) \in Nat /\ DOMAIN file = 1 .. Len(file)
  BY <1>2
<1>4. \A j \in 1 .. Len(file) : bytesOf(file)[j] = file[j].bytes /\ bytesOf(file)[j] \in Nat
  BY <1>3, BytesType
<1>5. \A k : Begin(file, k) = SumTo(bytesOf(file), k - 1)
  BY DEF Begin, bytesOf
<1>11. \A i \in 0 .. m : sizeOf(f[i]) = SumTo(sizesOf(B), i)
  <2> TAKE i \in 0 .. m
  <2> QED  BY <1>1, FlatSizes
<1>10. \A i \in 0 .. m : FirstPart(f[m], f[i])
  <2> TAKE i \in 0 .. m
  <2> QED  BY <1>1, FlatBegins DEF FirstPart
<1> HIDE DEF file
<1>6. Begin(file, Len(file) + 1) = SumTo(sizesOf(B), Len(B))
  <2>1. (Len(file) + 1) - 1 = Len(file) /\ m \in 0 .. m /\ Len(B) = m
    BY <1>3
  <2>2. sizeOf(f[m]) = SumTo(sizesOf(B), m)
    BY <1>11, <2>1
  <2> QED  BY <1>2, <1>5, <2>1, <2>2 DEF sizeOf
<1>7. ASSUME NEW i \in 1 .. m, NEW j \in 1 .. Len(B[i])
      PROVE  IsAt(file, B[i][j], At(B, i, j))
  <2> DEFINE p == f[i - 1]
             c == B[i]
  <2>1. f[i] = p \o c /\ p \in Seq(T) /\ c \in Seq(T) /\ i - 1 \in 0 .. m /\ i \in 0 .. m /\ j \in 1 .. Len(c)
    <3>1. i - 1 \in 0 .. m /\ i \in 0 .. m
      OBVIOUS
    <3>2. f[i] = p \o c
      BY <1>2
    <3>3. p \in Seq(T)
      BY <1>2, <3>1
    <3>4. c \in Seq(T) /\ j \in 1 .. Len(c)
      OBVIOUS
    <3> QED  BY <3>1, <3>2, <3>3, <3>4
  <2>2. FirstPart(file, p \o c)
    <3>1. FirstPart(f[m], f[i])
      BY <1>10, <2>1, Zenon
    <3> QED  BY <1>2, <2>1, <3>1
  <2>3. sizeOf(p) = SumTo(sizesOf(B), i - 1)
    <3>1. \A l \in 0 .. m : sizeOf(f[l]) = SumTo(sizesOf(B), l)
      BY <1>11
    <3> QED  BY <2>1, <3>1
  <2>4. At(B, i, j) = sizeOf(p) + SumTo(bytesOf(c), j - 1)
    BY <2>3 DEF At
  <2>5. B[i][j] = c[j]
    OBVIOUS
  <2> HIDE DEF p, c
  <2>6. IsAt(file, c[j], sizeOf(p) + SumTo(bytesOf(c), j - 1))
    BY <1>3, <2>1, <2>2, ItemOfPart
  <2> QED  BY <2>4, <2>5, <2>6
<1>8. DOMAIN B = 1 .. m /\ \A i \in 1 .. m : DOMAIN B[i] = 1 .. Len(B[i])
  OBVIOUS
<1>9. Placed(file, B)
  BY <1>6, <1>7, <1>8 DEF Placed
<1> QED  BY <1>3, <1>9 DEF file

diskOf(items) == {<<Begin(items, i), items[i].item>> : i \in {k \in DOMAIN items : items[k].bytes > 0}}

(* No two items that take bytes begin at the same offset.                  *)
LEMMA ReadItem ==
  ASSUME NEW T, Items0(T), NEW file \in Seq(T), disk = diskOf(file), NEW k \in DOMAIN file, file[k].bytes > 0,
         NEW n \in Nat, n = file[k].bytes
  PROVE  ReadAt(Begin(file, k), n) = file[k].item
<1>1. Len(file) \in Nat /\ DOMAIN file = 1 .. Len(file) /\ k \in 1 .. Len(file)
  OBVIOUS
<1>2. \A j \in 1 .. Len(file) : bytesOf(file)[j] = file[j].bytes /\ bytesOf(file)[j] \in Nat
  BY BytesType
<1>3. \A j : Begin(file, j) = SumTo(bytesOf(file), j - 1)
  BY DEF Begin, bytesOf
<1>4. \A j \in 0 .. Len(file) : SumTo(bytesOf(file), j) \in Nat
  BY <1>1, <1>2, SumSteps
<1>5. ASSUME NEW i \in 1 .. Len(file), NEW j \in 1 .. Len(file), i < j, file[i].bytes > 0
      PROVE  Begin(file, i) < Begin(file, j)
  <2>1. i - 1 \in 0 .. Len(file) /\ j - 1 \in 0 .. Len(file) /\ i \in 0 .. Len(file)
        /\ i \in i - 1 .. Len(file) /\ i > i - 1 /\ j - 1 \in i .. Len(file)
    BY <1>1, <1>5
  <2>2. SumTo(bytesOf(file), i - 1) < SumTo(bytesOf(file), i)
    BY <1>1, <1>2, <1>5, <2>1, SumsGrow
  <2>3. SumTo(bytesOf(file), i) <= SumTo(bytesOf(file), j - 1)
    BY <1>1, <1>2, <2>1, SumsGrow
  <2>4. SumTo(bytesOf(file), i - 1) \in Nat /\ SumTo(bytesOf(file), i) \in Nat /\ SumTo(bytesOf(file), j - 1) \in Nat
    BY <1>4, <2>1
  <2>5. SumTo(bytesOf(file), i - 1) < SumTo(bytesOf(file), j - 1)
    BY <2>2, <2>3, <2>4
  <2> QED  BY <1>3, <2>5
<1>6. ASSUME NEW i \in 1 .. Len(file), file[i].bytes > 0, Begin(file, i) = Begin(file, k) PROVE i = k
  <2>1. CASE i < k
    <3>1. Begin(file, i) < Begin(file, k)  BY <1>1, <1>5, <1>6, <2>1
    <3>2. Begin(file, k) \in Nat
      <4>1. k - 1 \in 0 .. Len(file)  BY <1>1
      <4> QED  BY <1>3, <1>4, <4>1
    <3> QED  BY <1>6, <3>1, <3>2
  <2>2. CASE k < i
    <3>1. Begin(file, k) < Begin(file, i)  BY <1>1, <1>5, <2>2
    <3>2. Begin(file, k) \in Nat
      <4>1. k - 1 \in 0 .. Len(file)  BY <1>1
      <4> QED  BY <1>3, <1>4, <4>1
    <3> QED  BY <1>6, <3>1, <3>2
  <2> QED  BY <1>1, <2>1, <2>2
<1> DEFINE me == <<Begin(file, k), file[k].item>>
<1>7. me \in disk /\ me[1] = Begin(file, k)
  BY DEF diskOf
<1>8. \A p \in disk : p[1] = Begin(file, k) => p = me
  <2> TAKE p \in disk
  <2>1. PICK i \in 1 .. Len(file) : file[i].bytes > 0 /\ p = <<Begin(file, i), file[i].item>>
    BY <1>1 DEF diskOf
  <2> QED  BY <1>6, <2>1
<1> HIDE DEF me
<1>9. (CHOOSE p \in disk : p[1] = Begin(file, k)) = me
  BY <1>7, <1>8
<1>10. ReadAt(Begin(file, k), n) = me[2]
  BY <1>7, <1>9 DEF ReadAt
<1> QED  BY <1>10 DEF me

\* What may be in a file that is made of the members of a set.
Stored(I) == {InFile(x, b) : x \in I, b \in Nat}

LEMMA StoredParts ==
  ASSUME NEW I
  PROVE  /\ Items0(Stored(I))
         /\ \A x \in I, b \in Nat : InFile(x, b) \in Stored(I)
         /\ \A x, b : InFile(x, b).item = x /\ InFile(x, b).bytes = b
  BY DEF Stored, InFile, Items0

\* The parts of a distribution that are stored, as long as they say.
EntryParts(e) ==
  {ProcessTypes(e.v_width), e.names, e.strings}
    \union {e.weight_sets[k] : k \in 1 .. e.w_width} \union {e.value_sets[k] : k \in 1 .. e.v_width}

EntryFits(e) ==
  /\ e.length \in Nat /\ e.v_width \in Nat /\ e.w_width \in Nat /\ e.str_space \in Nat
  /\ e.weight_sets \in [1 .. e.w_width -> Seq(Nat)] /\ \A k \in 1 .. e.w_width : Len(e.weight_sets[k]) = e.length
  /\ e.value_sets \in [1 .. e.v_width -> Seq(Nat)] /\ \A k \in 1 .. e.v_width : Len(e.value_sets[k]) = e.length
  /\ NameSpace(e) \in Nat /\ (NameSpace(e) = 0 => e.names = <<>>)
  /\ e.str_space = 0 => e.strings = <<>>

LEMMA TwoParts ==
  ASSUME NEW T, NEW a \in Seq(T), NEW b \in Seq(T)
  PROVE  /\ a \o b \in Seq(T) /\ Len(a \o b) = Len(a) + Len(b) /\ Len(a) \in Nat /\ Len(b) \in Nat
         /\ \A k \in 1 .. Len(a) : (a \o b)[k] = a[k]
         /\ \A k \in 1 .. Len(b) : (a \o b)[Len(a) + k] = b[k]
  OBVIOUS

LEMMA FourParts ==
  ASSUME NEW T, NEW a \in Seq(T), NEW b \in Seq(T), NEW c \in Seq(T), NEW d \in Seq(T), NEW q, q = a \o b \o c \o d
  PROVE  /\ q \in Seq(T) /\ Len(q) = Len(a) + Len(b) + Len(c) + Len(d)
         /\ \A k \in 1 .. Len(a) : q[k] = a[k]
         /\ \A k \in 1 .. Len(b) : q[Len(a) + k] = b[k]
         /\ \A k \in 1 .. Len(c) : q[Len(a) + Len(b) + k] = c[k]
         /\ \A k \in 1 .. Len(d) : q[Len(a) + Len(b) + Len(c) + k] = d[k]
<1> DEFINE x == a \o b   y == x \o c
<1>1. /\ x \in Seq(T) /\ Len(x) = Len(a) + Len(b) /\ Len(a) \in Nat /\ Len(b) \in Nat
      /\ \A k \in 1 .. Len(a) : x[k] = a[k]
      /\ \A k \in 1 .. Len(b) : x[Len(a) + k] = b[k]
  BY TwoParts
<1>2. q = y \o d
  OBVIOUS
<1> HIDE DEF x
<1>3. /\ y \in Seq(T) /\ Len(y) = Len(x) + Len(c) /\ Len(c) \in Nat
      /\ \A k \in 1 .. Len(x) : y[k] = x[k]
      /\ \A k \in 1 .. Len(c) : y[Len(x) + k] = c[k]
  <2>1. x \in Seq(T)  BY <1>1
  <2> QED  BY <2>1, TwoParts
<1> HIDE DEF y
<1>4. /\ q \in Seq(T) /\ Len(q) = Len(y) + Len(d) /\ Len(d) \in Nat
      /\ \A k \in 1 .. Len(y) : q[k] = y[k]
      /\ \A k \in 1 .. Len(d) : q[Len(y) + k] = d[k]
  <2>1. y \in Seq(T)  BY <1>3
  <2> QED  BY <1>2, <2>1, TwoParts
<1>5. Len(q) = Len(a) + Len(b) + Len(c) + Len(d)
  BY <1>1, <1>3, <1>4
<1>6. ASSUME NEW k \in 1 .. Len(a) PROVE q[k] = a[k]
  <2>1. k \in 1 .. Len(x) /\ k \in 1 .. Len(y)  BY <1>1, <1>3
  <2> QED  BY <1>1, <1>3, <1>4, <2>1
<1>7. ASSUME NEW k \in 1 .. Len(b) PROVE q[Len(a) + k] = b[k]
  <2>1. Len(a) + k \in 1 .. Len(x) /\ Len(a) + k \in 1 .. Len(y)  BY <1>1, <1>3
  <2> QED  BY <1>1, <1>3, <1>4, <2>1
<1>8. ASSUME NEW k \in 1 .. Len(c) PROVE q[Len(a) + Len(b) + k] = c[k]
  <2>1. Len(a) + Len(b) + k = Len(x) + k /\ Len(x) + k \in 1 .. Len(y)  BY <1>1, <1>3
  <2> QED  BY <1>3, <1>4, <2>1
<1>9. ASSUME NEW k \in 1 .. Len(d) PROVE q[Len(a) + Len(b) + Len(c) + k] = d[k]
  <2>1. Len(a) + Len(b) + Len(c) + k = Len(y) + k  BY <1>1, <1>3
  <2> QED  BY <1>4, <2>1
<1> QED  BY <1>4, <1>5, <1>6, <1>7, <1>8, <1>9

\* Where the parts are in a body.
BodyIs(e, b) ==
  /\ Len(b) = e.w_width + e.v_width + 3
  /\ b[1] = InFile(ProcessTypes(e.v_width), Integer * e.v_width)
  /\ \A k \in 1 .. e.w_width : b[1 + k] = InFile(e.weight_sets[k], Integer * e.length)
  /\ \A k \in 1 .. e.v_width : b[1 + e.w_width + k] = InFile(e.value_sets[k], Integer * e.length)
  /\ b[e.w_width + e.v_width + 2] = InFile(e.names, NameSpace(e))
  /\ b[e.w_width + e.v_width + 3] = InFile(e.strings, e.str_space)

LEMMA BodyParts ==
  ASSUME NEW e, EntryFits(e), NEW I, EntryParts(e) \subseteq I
  PROVE  Body(e) \in Seq(Stored(I)) /\ BodyIs(e, Body(e))
<1> DEFINE T == Stored(I)
           v == e.v_width
           w == e.w_width
           set == Integer * e.length
           types == InFile(ProcessTypes(v), Integer * v)
           names == InFile(e.names, NameSpace(e))
           strings == InFile(e.strings, e.str_space)
           a == <<types>>
           b == Sets(e.weight_sets, e.length)
           c == Sets(e.value_sets, e.length)
           d == <<names, strings>>
           q == Body(e)
<1>1. v \in Nat /\ w \in Nat /\ set \in Nat /\ Integer * v \in Nat /\ NameSpace(e) \in Nat /\ e.str_space \in Nat
  BY DEF EntryFits, Integer
<1>2. types \in T /\ names \in T /\ strings \in T
  BY <1>1, StoredParts DEF EntryParts
<1>3. /\ DOMAIN e.weight_sets = 1 .. w /\ \A k \in 1 .. w : e.weight_sets[k] \in I
      /\ DOMAIN e.value_sets = 1 .. v /\ \A k \in 1 .. v : e.value_sets[k] \in I
  BY DEF EntryFits, EntryParts
<1>4. b = [k \in 1 .. w |-> InFile(e.weight_sets[k], set)] /\ c = [k \in 1 .. v |-> InFile(e.value_sets[k], set)]
  BY <1>3 DEF Sets
<1>5. /\ \A k \in 1 .. w : InFile(e.weight_sets[k], set) \in T
      /\ \A k \in 1 .. v : InFile(e.value_sets[k], set) \in T
  BY <1>1, <1>3, StoredParts
<1>6. q = a \o b \o c \o d
  BY DEF Body
<1> HIDE DEF T, types, names, strings, b, c, q, v, w, set
<1>7. b \in Seq(T) /\ Len(b) = w /\ \A k \in 1 .. w : b[k] = InFile(e.weight_sets[k], set)
  BY <1>1, <1>4, <1>5
<1>8. c \in Seq(T) /\ Len(c) = v /\ \A k \in 1 .. v : c[k] = InFile(e.value_sets[k], set)
  BY <1>1, <1>4, <1>5
<1>9. a \in Seq(T) /\ Len(a) = 1 /\ a[1] = types /\ d \in Seq(T) /\ Len(d) = 2 /\ d[1] = names /\ d[2] = strings
  BY <1>2
<1> HIDE DEF a, d
<1>10. /\ q \in Seq(T) /\ Len(q) = Len(a) + Len(b) + Len(c) + Len(d)
       /\ \A k \in 1 .. Len(a) : q[k] = a[k]
       /\ \A k \in 1 .. Len(b) : q[Len(a) + k] = b[k]
       /\ \A k \in 1 .. Len(c) : q[Len(a) + Len(b) + k] = c[k]
       /\ \A k \in 1 .. Len(d) : q[Len(a) + Len(b) + Len(c) + k] = d[k]
  <2>1. a \in Seq(T) /\ b \in Seq(T) /\ c \in Seq(T) /\ d \in Seq(T)
    BY <1>7, <1>8, <1>9
  <2> QED  BY <1>6, <2>1, FourParts
<1>11. Len(q) = w + v + 3
  BY <1>1, <1>7, <1>8, <1>9, <1>10
<1>12. q[1] = types
  <2>1. 1 \in 1 .. Len(a)  BY <1>9
  <2> QED  BY <1>9, <1>10, <2>1
<1>13. \A k \in 1 .. w : q[1 + k] = InFile(e.weight_sets[k], set)
  BY <1>7, <1>9, <1>10
<1>14. \A k \in 1 .. v : q[1 + w + k] = InFile(e.value_sets[k], set)
  BY <1>7, <1>8, <1>9, <1>10
<1>15. q[w + v + 2] = names
  <2>1. 1 \in 1 .. Len(d) /\ Len(a) + Len(b) + Len(c) + 1 = w + v + 2  BY <1>1, <1>7, <1>8, <1>9
  <2> QED  BY <1>9, <1>10, <2>1
<1>16. q[w + v + 3] = strings
  <2>1. 2 \in 1 .. Len(d) /\ Len(a) + Len(b) + Len(c) + 2 = w + v + 3  BY <1>1, <1>7, <1>8, <1>9
  <2> QED  BY <1>9, <1>10, <2>1
<1>17. BodyIs(e, q)
  BY <1>11, <1>12, <1>13, <1>14, <1>15, <1>16 DEF BodyIs, types, names, strings, v, w, set
<1> QED  BY <1>10, <1>17 DEF q, T

LEMMA EqualSum ==
  ASSUME NEW n \in Nat, NEW s, NEW c \in Nat, \A i \in 1 .. n : s[i] = c
  PROVE  SumTo(s, n) = c * n
<1> DEFINE T == {k \in 0 .. n : SumTo(s, k) = c * k}
<1>1. SumTo(s, 0) = 0 /\ \A i \in 1 .. n : SumTo(s, i) = SumTo(s, i - 1) + s[i]
  BY SumSteps
<1>2. 0 \in T
  BY <1>1
<1>3. ASSUME NEW k \in 1 .. n, k - 1 \in T PROVE k \in T
  <2>1. SumTo(s, k) = c * (k - 1) + c
    BY <1>1, <1>3
  <2>2. c * (k - 1) + c = c * k
    OBVIOUS
  <2> QED  BY <2>1, <2>2
<1> HIDE DEF T
<1>4. \A k \in 0 .. n : k \in T
  BY <1>2, <1>3, Upwards
<1> QED  BY <1>4 DEF T

(* Where the parts of a distribution begin, from its beginning on.         *)
LEMMA BodyPlaces ==
  ASSUME NEW e, EntryFits(e), NEW I, EntryParts(e) \subseteq I
  PROVE  LET b == Body(e)
             set == Integer * e.length
             first == Integer * e.v_width
         IN /\ SumTo(bytesOf(b), 0) = 0
            /\ \A k \in 0 .. e.w_width + e.v_width : SumTo(bytesOf(b), 1 + k) = first + set * k
            /\ SumTo(bytesOf(b), e.w_width + e.v_width + 2)
                 = first + set * (e.w_width + e.v_width) + NameSpace(e)
            /\ sizeOf(b) = BodySize(e)
<1> DEFINE b == Body(e)
           v == e.v_width
           w == e.w_width
           set == Integer * e.length
           first == Integer * v
           names == NameSpace(e)
           strings == e.str_space
           s == bytesOf(b)
           n == w + v
<1>1. v \in Nat /\ w \in Nat /\ set \in Nat /\ first \in Nat /\ names \in Nat /\ strings \in Nat
  BY DEF EntryFits, Integer
<1>2. b \in Seq(Stored(I)) /\ BodyIs(e, b)
  BY BodyParts
<1>3. /\ Len(b) \in Nat /\ \A j \in 1 .. Len(b) : s[j] = b[j].bytes /\ s[j] \in Nat
  <2> HIDE DEF b
  <2> QED  BY <1>2, BytesType, StoredParts
<1>4. Len(b) = n + 3
  BY <1>2 DEF BodyIs
<1>5. s[1] = first /\ s[n + 2] = names /\ s[n + 3] = strings
  <2>1. 1 \in 1 .. Len(b) /\ n + 2 \in 1 .. Len(b) /\ n + 3 \in 1 .. Len(b)
    BY <1>1, <1>4
  <2>2. b[1].bytes = first /\ b[n + 2].bytes = names /\ b[n + 3].bytes = strings
    BY <1>2, StoredParts DEF BodyIs
  <2> QED  BY <1>3, <2>1, <2>2
<1>6. \A k \in 1 .. n : s[1 + k] = set
  <2> TAKE k \in 1 .. n
  <2>1. 1 + k \in 1 .. Len(b)
    BY <1>1, <1>4
  <2>2. b[1 + k].bytes = set
    <3>1. CASE k <= w
      <4>1. k \in 1 .. w  BY <1>1, <3>1
      <4> QED  BY <1>2, <4>1, StoredParts DEF BodyIs
    <3>2. CASE k > w
      <4>1. k - w \in 1 .. v /\ 1 + w + (k - w) = 1 + k  BY <1>1, <3>2
      <4>2. b[1 + w + (k - w)] = InFile(e.value_sets[k - w], set)  BY <1>2, <4>1 DEF BodyIs
      <4> QED  BY <4>1, <4>2, StoredParts
    <3> QED  BY <1>1, <3>1, <3>2
  <2> QED  BY <1>3, <2>1, <2>2
<1>7. n \in Nat /\ \A j \in 1 .. n + 3 : s[j] \in Nat
  BY <1>1, <1>3, <1>4
<1>8. sizeOf(b) = SumTo(s, n + 3)
  BY <1>4 DEF sizeOf
<1>9. BodySize(e) = (first + set * n) + names + strings
  <2> DEFINE length == e.length
  <2>1. length \in Nat
    BY DEF EntryFits
  <2>2. Integer * (v + n * length) = Integer * v + (Integer * length) * n
    <3> HIDE DEF length, v, n
    <3>1. n \in Nat /\ v \in Nat
      BY <1>1, <1>7
    <3> QED  BY <2>1, <3>1 DEF Integer
  <2>3. n = v + w
    BY <1>1
  <2>4. BodySize(e) = Integer * (v + (v + w) * length) + names + strings
    BY DEF BodySize
  <2>5. BodySize(e) = Integer * (v + n * length) + names + strings
    <3> HIDE DEF n
    <3> QED  BY <2>3, <2>4
  <2> QED  BY <2>2, <2>5
<1> HIDE DEF b, s, n, first, names, strings, set
<1>10. /\ SumTo(s, 0) = 0 /\ \A j \in 1 .. n + 3 : SumTo(s, j) = SumTo(s, j - 1) + s[j]
       /\ \A j \in 0 .. n + 3 : SumTo(s, j) \in Nat
  <2>1. n + 3 \in Nat  BY <1>7
  <2> QED  BY <1>7, <2>1, SumSteps
<1>11. SumTo(s, 1) = first
  <2>1. 1 \in 1 .. n + 3 /\ 1 - 1 = 0  BY <1>7
  <2>2. SumTo(s, 1) = SumTo(s, 1 - 1) + s[1]  BY <1>10, <2>1
  <2> QED  BY <1>1, <1>5, <1>10, <2>1, <2>2
<1>12. ASSUME NEW k \in 0 .. n PROVE SumTo(s, 1 + k) = first + set * k
  <2> DEFINE t == [i \in 1 .. k |-> set]
  <2>1. \A i \in 1 .. k : t[i] = set /\ t[i] = s[1 + i]
    BY <1>6, <1>7
  <2>2. k \in Nat /\ 1 \in Nat /\ \A i \in 1 .. 1 + k : s[i] \in Nat
    BY <1>7
  <2> HIDE DEF t
  <2>3. SumTo(t, k) = set * k
    BY <1>1, <2>1, <2>2, EqualSum
  <2>4. SumTo(s, 1 + k) = SumTo(s, 1) + SumTo(t, k)
    BY <2>1, <2>2, SumBehind
  <2> QED  BY <1>11, <2>3, <2>4
<1>13. SumTo(s, n + 2) = (first + set * n) + names
  <2>1. n \in 0 .. n /\ n + 2 \in 1 .. n + 3 /\ (n + 2) - 1 = 1 + n  BY <1>7
  <2>2. SumTo(s, n + 2) = SumTo(s, (n + 2) - 1) + s[n + 2]  BY <1>10, <2>1
  <2>3. SumTo(s, 1 + n) = first + set * n  BY <1>12, <2>1
  <2> QED  BY <1>5, <2>1, <2>2, <2>3
<1>14. SumTo(s, n + 3) = (first + set * n) + names + strings
  <2>1. n + 3 \in 1 .. n + 3 /\ (n + 3) - 1 = n + 2  BY <1>7
  <2>2. SumTo(s, n + 3) = SumTo(s, (n + 3) - 1) + s[n + 3]  BY <1>10, <2>1
  <2> QED  BY <1>5, <1>13, <2>1, <2>2
<1>15. sizeOf(b) = BodySize(e)
  BY <1>8, <1>9, <1>14
<1> QED  BY <1>10, <1>12, <1>13, <1>15 DEF b, s, n, first, names, set

\* What the file is made of.
EntryAt(n) == IndexEntry(entries[n], Integer + SumTo([i \in DOMAIN entries |-> BodySize(entries[i])], n - 1))
Bodies == [n \in DOMAIN entries |-> Body(entries[n])]
Index == [n \in DOMAIN entries |-> InFile(EntryAt(n), IDX_SIZE)]
FileBlocks == <<<<InFile(CurrentEntry, Integer)>>>> \o Bodies \o <<Index>>
FileParts ==
  {CurrentEntry} \union {EntryAt(n) : n \in DOMAIN entries} \union UNION {EntryParts(entries[n]) : n \in DOMAIN entries}

EntriesFit ==
  /\ Len(entries) \in Nat \ {0} /\ DOMAIN entries = 1 .. Len(entries)
  /\ \A n \in DOMAIN entries : EntryFits(entries[n])

LEMMA ItemsAre == WrittenItems = FlattenSeq(FileBlocks)
  BY DEF WrittenItems, FileBlocks, Bodies, Index, EntryAt

LEMMA BlocksAre ==
  ASSUME EntriesFit
  PROVE  LET n == Len(entries)
         IN /\ FileBlocks \in [1 .. n + 2 -> Seq(Stored(FileParts))] /\ Len(FileBlocks) = n + 2
            /\ FileBlocks[1] = <<InFile(n, Integer)>>
            /\ \A i \in 1 .. n : FileBlocks[1 + i] = Body(entries[i])
            /\ FileBlocks[n + 2] = Index
<1> DEFINE n == Len(entries)
           U == Seq(Stored(FileParts))
           first == <<InFile(n, Integer)>>
           a == <<first>>
           c == <<Index>>
<1>1. n \in Nat \ {0} /\ DOMAIN entries = 1 .. n
  BY DEF EntriesFit
<1>2. first \in U
  <2>1. InFile(n, Integer) \in Stored(FileParts)
    <3>1. n \in FileParts /\ Integer \in Nat  BY DEF FileParts, CurrentEntry, Integer
    <3> QED  BY <3>1, StoredParts
  <2> QED  BY <2>1
<1>3. \A i \in 1 .. n : Body(entries[i]) \in U
  <2> TAKE i \in 1 .. n
  <2>1. EntryFits(entries[i]) /\ EntryParts(entries[i]) \subseteq FileParts
    BY <1>1 DEF EntriesFit, FileParts
  <2> QED  BY <2>1, BodyParts
<1>4. Index \in U
  <2>1. \A i \in 1 .. n : InFile(EntryAt(i), IDX_SIZE) \in Stored(FileParts)
    <3> TAKE i \in 1 .. n
    <3>1. EntryAt(i) \in FileParts /\ IDX_SIZE \in Nat
      BY <1>1 DEF FileParts, IDX_SIZE, D_NAME_LEN, Integer
    <3> QED  BY <3>1, StoredParts
  <2>2. Index = [i \in 1 .. n |-> InFile(EntryAt(i), IDX_SIZE)]
    BY <1>1 DEF Index
  <2> HIDE DEF n
  <2> QED  BY <1>1, <2>1, <2>2
<1>5. Bodies = [i \in 1 .. n |-> Body(entries[i])]
  BY <1>1 DEF Bodies
<1>6. FileBlocks = a \o Bodies \o c
  BY DEF FileBlocks, CurrentEntry
<1> HIDE DEF n, U, first
<1>7. a \in Seq(U) /\ Len(a) = 1 /\ a[1] = first /\ c \in Seq(U) /\ Len(c) = 1 /\ c[1] = Index
  BY <1>2, <1>4
<1>8. Bodies \in Seq(U) /\ Len(Bodies) = n /\ \A i \in 1 .. n : Bodies[i] = Body(entries[i])
  BY <1>1, <1>3, <1>5
<1> HIDE DEF a, c
<1> DEFINE x == a \o Bodies
           y == x \o c
<1>9. /\ x \in Seq(U) /\ Len(x) = n + 1 /\ x[1] = first /\ \A i \in 1 .. n : x[1 + i] = Body(entries[i])
  <2>1. /\ x \in Seq(U) /\ Len(x) = Len(a) + Len(Bodies)
        /\ \A k \in 1 .. Len(a) : x[k] = a[k]
        /\ \A k \in 1 .. Len(Bodies) : x[Len(a) + k] = Bodies[k]
    <3>1. a \in Seq(U) /\ Bodies \in Seq(U)  BY <1>7, <1>8
    <3> QED  BY <3>1, TwoParts
  <2> HIDE DEF x
  <2> QED  BY <1>1, <1>7, <1>8, <2>1
<1>10. /\ y \in Seq(U) /\ Len(y) = n + 2 /\ y[1] = first /\ y[n + 2] = Index
       /\ \A i \in 1 .. n : y[1 + i] = Body(entries[i])
  <2> HIDE DEF x
  <2>1. /\ y \in Seq(U) /\ Len(y) = Len(x) + Len(c)
        /\ \A k \in 1 .. Len(x) : y[k] = x[k]
        /\ \A k \in 1 .. Len(c) : y[Len(x) + k] = c[k]
    <3>1. x \in Seq(U) /\ c \in Seq(U)  BY <1>7, <1>9
    <3> QED  BY <3>1, TwoParts
  <2> HIDE DEF y
  <2>2. Len(y) = n + 2 /\ y[1] = first
    BY <1>1, <1>7, <1>9, <2>1
  <2>3. y[n + 2] = Index
    <3>1. 1 \in 1 .. Len(c) /\ Len(x) + 1 = n + 2  BY <1>1, <1>7, <1>9
    <3> QED  BY <1>7, <2>1, <3>1
  <2>4. \A i \in 1 .. n : y[1 + i] = Body(entries[i])
    <3> TAKE i \in 1 .. n
    <3>1. 1 + i \in 1 .. Len(x)  BY <1>1, <1>9
    <3> QED  BY <1>9, <2>1, <3>1
  <2> QED  BY <2>1, <2>2, <2>3, <2>4
<1>11. y \in [1 .. n + 2 -> U]
  <2> HIDE DEF x, y
  <2> QED  BY <1>1, <1>10
<1> QED  BY <1>6, <1>10, <1>11 DEF n, U, first

\* The space of the first n distributions.
Space(n) == SumTo([i \in DOMAIN entries |-> BodySize(entries[i])], n)

(* Where the blocks begin.                                                 *)
LEMMA BlockPlaces ==
  ASSUME EntriesFit
  PROVE  LET n == Len(entries)
         IN /\ SumTo(sizesOf(FileBlocks), 0) = 0
            /\ \A i \in 0 .. n : SumTo(sizesOf(FileBlocks), 1 + i) = Integer + Space(i) /\ Space(i) \in Nat
            /\ SumTo(sizesOf(FileBlocks), n + 2) = Integer + Space(n) + IDX_SIZE * n
            /\ \A i \in 0 .. n : SumTo(bytesOf(Index), i) = IDX_SIZE * i
<1> DEFINE n == Len(entries)
           B == FileBlocks
           s == sizesOf(B)
           t == [i \in DOMAIN entries |-> BodySize(entries[i])]
<1>1. n \in Nat \ {0} /\ DOMAIN entries = 1 .. n
  BY DEF EntriesFit
<1>2. /\ B \in [1 .. n + 2 -> Seq(Stored(FileParts))] /\ B[1] = <<InFile(n, Integer)>> /\ B[n + 2] = Index
      /\ \A i \in 1 .. n : B[1 + i] = Body(entries[i])
  BY BlocksAre
<1>3. \A i \in 1 .. n + 2 : s[i] = sizeOf(B[i]) /\ s[i] \in Nat
  <2> HIDE DEF B, n
  <2> TAKE i \in 1 .. n + 2
  <2>1. B[i] \in Seq(Stored(FileParts)) /\ s[i] = sizeOf(B[i])
    BY <1>2 DEF sizesOf
  <2> QED  BY <2>1, BytesType, StoredParts
<1>4. \A i \in 0 .. n : SumTo(bytesOf(Index), i) = IDX_SIZE * i
  <2> TAKE i \in 0 .. n
  <2>1. \A j \in 1 .. i : bytesOf(Index)[j] = IDX_SIZE
    <3>1. DOMAIN Index = 1 .. n /\ \A j \in 1 .. n : Index[j].bytes = IDX_SIZE
      BY <1>1, StoredParts DEF Index
    <3> QED  BY <1>1, <3>1 DEF bytesOf
  <2>2. IDX_SIZE \in Nat /\ i \in Nat
    BY <1>1 DEF IDX_SIZE, D_NAME_LEN, Integer
  <2> HIDE DEF n
  <2> QED  BY <2>1, <2>2, EqualSum
<1>5. s[1] = Integer
  <2> DEFINE q == <<InFile(n, Integer)>>
  <2>1. Len(q) = 1 /\ bytesOf(q)[1] = Integer /\ Integer \in Nat
    BY StoredParts DEF bytesOf, Integer
  <2>2. sizeOf(q) = Integer
    <3> HIDE DEF q
    <3>1. SumTo(bytesOf(q), 1) = Integer * 1
      <4>1. \A i \in 1 .. 1 : bytesOf(q)[i] = Integer  BY <2>1
      <4> QED  BY <2>1, <4>1, EqualSum
    <3> QED  BY <2>1, <3>1 DEF sizeOf, Integer
  <2>3. 1 \in 1 .. n + 2
    BY <1>1
  <2> QED  BY <1>2, <1>3, <2>2, <2>3
<1>6. \A i \in 1 .. n : s[1 + i] = t[i]
  <2> TAKE i \in 1 .. n
  <2>1. s[1 + i] = sizeOf(Body(entries[i]))
    <3>1. 1 + i \in 1 .. n + 2  BY <1>1
    <3> QED  BY <1>2, <1>3, <3>1
  <2>2. EntryFits(entries[i]) /\ EntryParts(entries[i]) \subseteq FileParts
    BY <1>1 DEF EntriesFit, FileParts
  <2>3. sizeOf(Body(entries[i])) = BodySize(entries[i])
    BY <2>2, BodyPlaces
  <2> QED  BY <1>1, <2>1, <2>3
<1>7. s[n + 2] = IDX_SIZE * n
  <2>1. s[n + 2] = sizeOf(Index)
    <3>1. n + 2 \in 1 .. n + 2  BY <1>1
    <3> QED  BY <1>2, <1>3, <3>1
  <2>2. Len(Index) = n
    BY <1>1 DEF Index
  <2>3. n \in 0 .. n
    BY <1>1
  <2> QED  BY <1>4, <2>1, <2>2, <2>3 DEF sizeOf
<1>8. \A i \in 0 .. n : Space(i) = SumTo(t, i)
  BY DEF Space
<1> HIDE DEF n, B, s, t
<1>9. /\ SumTo(s, 0) = 0 /\ \A i \in 1 .. n + 2 : SumTo(s, i) = SumTo(s, i - 1) + s[i]
      /\ \A i \in 0 .. n + 2 : SumTo(s, i) \in Nat
  <2>1. n + 2 \in Nat  BY <1>1
  <2> QED  BY <1>3, <2>1, SumSteps
<1>10. SumTo(s, 1) = Integer
  <2>1. 1 \in 1 .. n + 2 /\ 1 - 1 = 0  BY <1>1
  <2>2. SumTo(s, 1) = SumTo(s, 1 - 1) + s[1]  BY <1>9, <2>1
  <2> QED  BY <1>5, <1>9, <2>1, <2>2 DEF Integer
<1>11. ASSUME NEW i \in 0 .. n PROVE SumTo(s, 1 + i) = Integer + Space(i) /\ Space(i) \in Nat
  <2>1. i \in Nat /\ 1 \in Nat /\ (\A j \in 1 .. 1 + i : s[j] \in Nat) /\ \A j \in 1 .. i : t[j] = s[1 + j]
    BY <1>1, <1>3, <1>6
  <2>2. SumTo(s, 1 + i) = SumTo(s, 1) + SumTo(t, i)
    BY <2>1, SumBehind
  <2>3. \A j \in 1 .. i : t[j] \in Nat
    BY <2>1
  <2>4. SumTo(t, i) \in Nat
    <3>1. i \in 0 .. i  BY <2>1
    <3> QED  BY <2>1, <2>3, <3>1, SumSteps
  <2> QED  BY <1>8, <1>10, <2>2, <2>4
<1>12. SumTo(s, n + 2) = Integer + Space(n) + IDX_SIZE * n
  <2>1. n \in 0 .. n /\ n + 2 \in 1 .. n + 2 /\ (n + 2) - 1 = 1 + n  BY <1>1
  <2>2. SumTo(s, n + 2) = SumTo(s, (n + 2) - 1) + s[n + 2]  BY <1>9, <2>1
  <2>3. SumTo(s, 1 + n) = Integer + Space(n)  BY <1>11, <2>1
  <2> QED  BY <1>7, <2>1, <2>2, <2>3
<1> QED  BY <1>4, <1>9, <1>11, <1>12 DEF n, B, s

(* What takes bytes is read where it was placed.                           *)
LEMMA ReadPart ==
  ASSUME EntriesFit, disk = diskOf(WrittenItems), NEW i \in 1 .. Len(entries) + 2, NEW j \in 1 .. Len(FileBlocks[i]),
         NEW x, NEW bytes \in Nat \ {0}, FileBlocks[i][j] = InFile(x, bytes)
  PROVE  ReadAt(At(FileBlocks, i, j), bytes) = x
<1> DEFINE n == Len(entries)
           B == FileBlocks
           T == Stored(FileParts)
           file == FlattenSeq(B)
           m == n + 2
<1>1. n \in Nat \ {0} /\ B \in [1 .. n + 2 -> Seq(T)]
  BY BlocksAre DEF EntriesFit
<1>2. m \in Nat \ {0} /\ B \in [1 .. m -> Seq(T)] /\ Items0(T)
  <2> HIDE DEF n
  <2> QED  BY <1>1, StoredParts
<1>3. disk = diskOf(file)
  BY ItemsAre
<1>4. i \in DOMAIN B /\ j \in DOMAIN B[i] /\ B[i][j].item = x /\ B[i][j].bytes = bytes
  <2>1. i \in DOMAIN B /\ j \in DOMAIN B[i]
    <3> HIDE DEF B
    <3> QED  BY <1>2 DEF m, B
  <2> QED  BY <2>1, StoredParts
<1> HIDE DEF n, B, T, m, file
<1>5. file \in Seq(T) /\ Placed(file, B)
  BY <1>2, FlatPlaced DEF file
<1>6. IsAt(file, B[i][j], At(B, i, j))
  BY <1>4, <1>5 DEF Placed
<1>7. PICK k \in DOMAIN file : file[k] = B[i][j] /\ Begin(file, k) = At(B, i, j)
  BY <1>6 DEF IsAt
<1>8. ReadAt(Begin(file, k), bytes) = file[k].item
  <2>1. file[k].bytes = bytes /\ bytes > 0 /\ bytes \in Nat
    BY <1>4, <1>7
  <2> QED  BY <1>2, <1>3, <1>5, <2>1, ReadItem
<1> QED  BY <1>4, <1>7, <1>8 DEF B

OnDisk == disk = diskOf(WrittenItems) /\ fileSize = Begin(WrittenItems, Len(WrittenItems) + 1)

(* How long the file gets.                                                 *)
LEMMA FileEnd ==
  ASSUME EntriesFit
  PROVE  Begin(WrittenItems, Len(WrittenItems) + 1) = Integer + Space(Len(entries)) + IDX_SIZE * Len(entries)
<1> DEFINE n == Len(entries)
           m == n + 2
           T == Stored(FileParts)
           B == FileBlocks
<1>1. n \in Nat \ {0} /\ B \in [1 .. n + 2 -> Seq(T)] /\ Len(B) = n + 2
  BY BlocksAre DEF EntriesFit
<1>2. m \in Nat \ {0} /\ B \in [1 .. m -> Seq(T)] /\ Items0(T)
  <2> HIDE DEF n
  <2> QED  BY <1>1, StoredParts
<1>3. SumTo(sizesOf(B), Len(B)) = Integer + Space(n) + IDX_SIZE * n
  BY <1>1, BlockPlaces
<1> HIDE DEF n, m, T, B
<1>4. Placed(FlattenSeq(B), B)
  BY <1>2, FlatPlaced
<1> QED  BY <1>3, <1>4, ItemsAre DEF Placed, B, n

LEMMA FileSizeIs ==
  ASSUME EntriesFit, OnDisk
  PROVE  fileSize = Integer + Space(Len(entries)) + IDX_SIZE * Len(entries)
  BY FileEnd DEF OnDisk

LEMMA ReadCount ==
  ASSUME EntriesFit, OnDisk
  PROVE  ReadAt(0, Integer) = Len(entries)
<1> DEFINE n == Len(entries)
<1>1. n \in Nat \ {0} /\ FileBlocks[1] = <<InFile(n, Integer)>> /\ Integer \in Nat \ {0}
  BY BlocksAre DEF EntriesFit, Integer
<1>2. Len(FileBlocks[1]) = 1 /\ FileBlocks[1][1] = InFile(n, Integer)
  BY <1>1
<1>3. FileBlocks[1] \in Seq(Stored(FileParts)) /\ 1 \in 1 .. n + 2
  <2>1. FileBlocks \in [1 .. n + 2 -> Seq(Stored(FileParts))]
    BY BlocksAre
  <2>2. 1 \in 1 .. n + 2
    BY <1>1
  <2> HIDE DEF n
  <2> QED  BY <2>1, <2>2
<1> HIDE DEF n
<1>4. SumTo(bytesOf(FileBlocks[1]), 0) = 0
  BY <1>3, BytesType, StoredParts
<1>5. At(FileBlocks, 1, 1) = 0
  <2>1. 1 - 1 = 0  OBVIOUS
  <2> QED  BY <1>4, <2>1, BlockPlaces DEF At
<1>6. 1 \in 1 .. Len(FileBlocks[1])
  BY <1>2
<1>7. ReadAt(At(FileBlocks, 1, 1), Integer) = n
  <2>1. disk = diskOf(WrittenItems)
    BY DEF OnDisk
  <2>2. 1 \in 1 .. Len(entries) + 2
    BY <1>3 DEF n
  <2>3. Integer \in Nat \ {0} /\ FileBlocks[1][1] = InFile(n, Integer)
    BY <1>1, <1>2
  <2> QED  BY <1>6, <2>1, <2>2, <2>3, ReadPart
<1> QED  BY <1>5, <1>7 DEF n

LEMMA ReadEntry ==
  ASSUME EntriesFit, OnDisk, NEW i \in 1 .. Len(entries), NEW k, k = (Len(entries) - i) + 1
  PROVE  ReadAt(fileSize - IDX_SIZE * i, IDX_SIZE) = EntryAt(k)
<1> DEFINE n == Len(entries)
<1>1. n \in Nat \ {0} /\ FileBlocks[n + 2] = Index /\ DOMAIN entries = 1 .. n /\ k \in 1 .. n /\ IDX_SIZE = 48
  BY BlocksAre DEF EntriesFit, IDX_SIZE, D_NAME_LEN, Integer
<1>2. Len(Index) = n /\ Index[k] = InFile(EntryAt(k), IDX_SIZE)
  BY <1>1 DEF Index
<1>3. At(FileBlocks, n + 2, k) = Integer + Space(n) + IDX_SIZE * (k - 1) /\ Space(n) \in Nat
  <2>1. (n + 2) - 1 = 1 + n /\ n \in 0 .. n /\ k - 1 \in 0 .. n
    BY <1>1
  <2>2. SumTo(sizesOf(FileBlocks), 1 + n) = Integer + Space(n) /\ Space(n) \in Nat
    BY <2>1, BlockPlaces
  <2>3. SumTo(bytesOf(Index), k - 1) = IDX_SIZE * (k - 1)
    BY <2>1, BlockPlaces
  <2> QED  BY <1>1, <2>1, <2>2, <2>3 DEF At
<1>4. fileSize = Integer + Space(n) + IDX_SIZE * n
  BY FileSizeIs
<1>5. At(FileBlocks, n + 2, k) = fileSize - IDX_SIZE * i
  <2> DEFINE space == Space(n)
  <2> HIDE DEF n, space
  <2>1. n \in Nat /\ i \in Nat /\ k = (n - i) + 1 /\ Integer \in Nat
    BY DEF n, EntriesFit, Integer
  <2>2. IDX_SIZE * (k - 1) = IDX_SIZE * n - IDX_SIZE * i
    BY <1>1, <2>1
  <2> QED  BY <1>1, <1>3, <1>4, <2>1, <2>2 DEF space
<1>6. n + 2 \in 1 .. Len(entries) + 2 /\ k \in 1 .. Len(FileBlocks[n + 2]) /\ IDX_SIZE \in Nat \ {0}
  BY <1>1, <1>2
<1>7. FileBlocks[n + 2][k] = InFile(EntryAt(k), IDX_SIZE)
  BY <1>1, <1>2
<1> HIDE DEF n
<1>8. ReadAt(At(FileBlocks, n + 2, k), IDX_SIZE) = EntryAt(k)
  <2>1. disk = diskOf(WrittenItems)
    BY DEF OnDisk
  <2> HIDE DEF n
  <2> QED  BY <1>6, <1>7, <2>1, ReadPart
<1> QED  BY <1>5, <1>8

NamesDiffer == \A i, j \in DOMAIN entries : entries[i].name = entries[j].name => i = j

LEMMA FindDist ==
  ASSUME EntriesFit, OnDisk, NamesDiffer, NEW k \in DOMAIN entries
  PROVE  find_dist(entries[k].name) = EntryAt(k)
<1> DEFINE n == Len(entries)
           count == ReadAt(0, Integer)
           found == {ReadAt(fileSize - IDX_SIZE * i, IDX_SIZE) : i \in 1 .. count}
<1>1. n \in Nat \ {0} /\ DOMAIN entries = 1 .. n /\ count = n
  BY ReadCount DEF EntriesFit
<1>2. \A j : EntryAt(j).name = entries[j].name
  BY DEF EntryAt, IndexEntry
<1>3. EntryAt(k) \in found
  <2> DEFINE i == (n - k) + 1
  <2>1. i \in 1 .. n /\ k = (n - i) + 1
    BY <1>1
  <2> HIDE DEF i
  <2>2. ReadAt(fileSize - IDX_SIZE * i, IDX_SIZE) = EntryAt(k)
    BY <2>1, ReadEntry
  <2> QED  BY <1>1, <2>1, <2>2
<1>4. \A d \in found : \E j \in 1 .. n : d = EntryAt(j)
  <2> TAKE d \in found
  <2>1. PICK i \in 1 .. n : d = ReadAt(fileSize - IDX_SIZE * i, IDX_SIZE)
    BY <1>1
  <2> DEFINE j == (n - i) + 1
  <2>2. j \in 1 .. n /\ j = (n - i) + 1
    BY <1>1
  <2> HIDE DEF j
  <2>3. d = EntryAt(j)
    BY <2>1, <2>2, ReadEntry
  <2> QED  BY <2>2, <2>3
<1>5. \A d \in found : d.name = entries[k].name => d = EntryAt(k)
  <2> TAKE d \in found
  <2> HAVE d.name = entries[k].name
  <2>1. PICK j \in 1 .. n : d = EntryAt(j)
    BY <1>4
  <2>2. j = k
    BY <1>1, <1>2, <2>1 DEF NamesDiffer
  <2> QED  BY <2>1, <2>2
<1>6. find_dist(entries[k].name) = CHOOSE d \in found : d.name = entries[k].name
  BY DEF find_dist
<1> HIDE DEF found
<1> QED  BY <1>2, <1>3, <1>5, <1>6

(* Part j of a distribution is read from behind the parts before it.       *)
LEMMA ReadOfBody ==
  ASSUME EntriesFit, OnDisk, NEW k \in DOMAIN entries, NEW j \in 1 .. Len(Body(entries[k])), NEW x, NEW bytes \in Nat,
         Body(entries[k])[j] = InFile(x, bytes), bytes = 0 => x = <<>>,
         NEW place, place = SumTo(bytesOf(Body(entries[k])), j - 1)
  PROVE  ReadAt(EntryAt(k).offset + place, bytes) = x
<1>1. CASE bytes = 0
  BY <1>1 DEF ReadAt
<1>2. CASE bytes # 0
  <2> DEFINE n == Len(entries)   i == 1 + k
  <2>1. n \in Nat \ {0} /\ k \in 1 .. n /\ i \in 1 .. Len(entries) + 2 /\ bytes \in Nat \ {0} /\ k - 1 \in 0 .. n
        /\ i - 1 = 1 + (k - 1)
    BY <1>2 DEF EntriesFit
  <2>2. FileBlocks[i] = Body(entries[k])
    BY <2>1, BlocksAre
  <2>3. EntryAt(k).offset = Integer + Space(k - 1)
    BY DEF EntryAt, IndexEntry, Space
  <2>4. SumTo(sizesOf(FileBlocks), i - 1) = Integer + Space(k - 1)
    BY <2>1, BlockPlaces
  <2>5. At(FileBlocks, i, j) = EntryAt(k).offset + place
    BY <2>2, <2>3, <2>4 DEF At
  <2> HIDE DEF i
  <2>6. ReadAt(At(FileBlocks, i, j), bytes) = x
    <3>1. disk = diskOf(WrittenItems)
      BY DEF OnDisk
    <3> QED  BY <2>1, <2>2, <3>1, ReadPart
  <2> QED  BY <2>5, <2>6
<1> QED  BY <1>1, <1>2

\* What is to be loaded.
Cumulated(weights) == [row \in DOMAIN weights |-> SumTo(weights, row)]
Loaded(e) ==
  [length |-> e.length, v_width |-> e.v_width, w_width |-> e.w_width,
   weight_sets |-> [i \in 1 .. e.w_width |-> Cumulated(e.weight_sets[i])],
   value_sets |-> [i \in 1 .. e.v_width |-> e.value_sets[i]],
   names |-> e.names, strings |-> e.strings]

LEMMA EmptyOrNot ==
  ASSUME NEW s \in Seq(Nat), NEW length \in Nat, Len(s) = length
  PROVE  Integer * length = 0 => s = <<>>
<1>1. Integer * length = 0 => length = 0
  BY DEF Integer
<1> QED  BY <1>1

(* load_dist() finds each part where WriteIndex() put it.                  *)
LEMMA LoadDist ==
  ASSUME EntriesFit, OnDisk, NEW k \in DOMAIN entries
  PROVE  load_dist(EntryAt(k)) = Loaded(entries[k])
<1> DEFINE e == entries[k]
           b == Body(e)
           d == EntryAt(k)
           v == e.v_width
           w == e.w_width
           set == Integer * e.length
           first == Integer * v
           named == NameSpace(e)
           weights == d.offset + first
           vals == weights + set * w
           names == vals + set * v
<1>1. EntryFits(e) /\ EntryParts(e) \subseteq FileParts
  BY DEF EntriesFit, FileParts
<1>2. BodyIs(e, b)
  BY <1>1, BodyParts
<1>3. /\ d.length = e.length /\ d.v_width = v /\ d.w_width = w /\ d.name_space = named /\ d.str_space = e.str_space
      /\ d.offset = Integer + Space(k - 1)
  BY DEF EntryAt, IndexEntry, Space
<1>4. v \in Nat /\ w \in Nat /\ set \in Nat /\ first \in Nat /\ named \in Nat /\ e.length \in Nat /\ d.offset \in Nat
  <2>1. k - 1 \in 0 .. Len(entries)
    BY DEF EntriesFit
  <2>2. Space(k - 1) \in Nat
    BY <2>1, BlockPlaces
  <2> QED  BY <1>1, <1>3, <2>2 DEF EntryFits, Integer
<1>5. /\ \A i \in 0 .. w + v : SumTo(bytesOf(b), 1 + i) = first + set * i
      /\ SumTo(bytesOf(b), w + v + 2) = first + set * (w + v) + named
  BY <1>1, BodyPlaces
<1>6. Len(b) = w + v + 3
  BY <1>2 DEF BodyIs
<1>7. ASSUME NEW i \in 1 .. w PROVE ReadAt(weights + set * (i - 1), set) = e.weight_sets[i]
  <2> DEFINE j == 1 + i   x == e.weight_sets[i]   place == first + set * (i - 1)
  <2>1. b[j] = InFile(x, set)
    BY <1>2 DEF BodyIs
  <2>2. set = 0 => x = <<>>
    BY <1>1, EmptyOrNot DEF EntryFits
  <2>3. j \in 1 .. Len(b) /\ j - 1 = 1 + (i - 1) /\ i - 1 \in 0 .. w + v
    BY <1>4, <1>6
  <2>4. place = SumTo(bytesOf(b), j - 1)
    <3>1. SumTo(bytesOf(b), 1 + (i - 1)) = first + set * (i - 1)
      BY <1>5, <2>3
    <3> HIDE DEF b, first, set, j
    <3> QED  BY <2>3, <3>1
  <2>5. weights + set * (i - 1) = d.offset + place
    <3> DEFINE o == d.offset   y == set * (i - 1)
    <3>1. y \in Nat
      <4>1. i - 1 \in Nat /\ set \in Nat
        BY <1>4, <2>3
      <4> HIDE DEF set
      <4> QED  BY <4>1
    <3> HIDE DEF first, o, y
    <3> QED  BY <1>4, <3>1 DEF o
  <2> HIDE DEF j, x, place, set
  <2>6. ReadAt(d.offset + place, set) = x
    BY <1>4, <2>1, <2>2, <2>3, <2>4, ReadOfBody
  <2> QED  BY <2>5, <2>6 DEF x
<1>8. ASSUME NEW i \in 1 .. v PROVE ReadAt(vals + set * (i - 1), set) = e.value_sets[i]
  <2> DEFINE j == 1 + w + i   x == e.value_sets[i]   place == first + set * (w + (i - 1))
  <2>1. b[j] = InFile(x, set)
    BY <1>2 DEF BodyIs
  <2>2. set = 0 => x = <<>>
    BY <1>1, EmptyOrNot DEF EntryFits
  <2>3. j \in 1 .. Len(b) /\ j - 1 = 1 + (w + (i - 1)) /\ w + (i - 1) \in 0 .. w + v
    <3>1. i \in 1 .. v /\ v \in Nat /\ w \in Nat /\ Len(b) = w + v + 3
      BY <1>4, <1>6
    <3> HIDE DEF v, w, b
    <3> QED  BY <3>1
  <2>4. place = SumTo(bytesOf(b), j - 1)
    <3>1. SumTo(bytesOf(b), 1 + (w + (i - 1))) = first + set * (w + (i - 1))
      BY <1>5, <2>3
    <3> HIDE DEF b, first, set, j, w
    <3> QED  BY <2>3, <3>1
  <2>5. vals + set * (i - 1) = d.offset + place
    <3> DEFINE o == d.offset
    <3> HIDE DEF first, o, set, w
    <3>1. set * (w + (i - 1)) = set * w + set * (i - 1) /\ set * w \in Nat /\ set * (i - 1) \in Nat
      BY <1>4
    <3> DEFINE y == set * w   z == set * (i - 1)   u == set * (w + (i - 1))
    <3> HIDE DEF y, z, u
    <3>2. u = y + z /\ y \in Nat /\ z \in Nat
      BY <3>1 DEF y, z, u
    <3>3. ((o + first) + y) + z = o + (first + u)
      BY <1>4, <3>2 DEF o
    <3> QED  BY <3>3 DEF y, z, u, o
  <2> HIDE DEF j, x, place, set
  <2>6. ReadAt(d.offset + place, set) = x
    BY <1>4, <2>1, <2>2, <2>3, <2>4, ReadOfBody
  <2> QED  BY <2>5, <2>6 DEF x
<1>9. /\ names = d.offset + (first + set * (w + v))
      /\ names + named = d.offset + (first + set * (w + v) + named)
  <2> DEFINE o == d.offset
  <2> HIDE DEF first, o, set, w, v, named
  <2>1. set * (w + v) = set * w + set * v /\ set * w \in Nat /\ set * v \in Nat
    BY <1>4
  <2> DEFINE y == set * w   z == set * v   u == set * (w + v)
  <2> HIDE DEF y, z, u
  <2>2. u = y + z /\ y \in Nat /\ z \in Nat
    BY <2>1 DEF y, z, u
  <2>3. ((o + first) + y) + z = o + (first + u) /\ (((o + first) + y) + z) + named = o + ((first + u) + named)
    BY <1>4, <2>2 DEF o
  <2> QED  BY <2>3 DEF y, z, u, o
<1>10. ReadAt(names, named) = e.names
  <2> DEFINE j == w + v + 2   x == e.names   place == first + set * (w + v)
  <2>1. b[j] = InFile(x, named)
    BY <1>2 DEF BodyIs
  <2>2. named = 0 => x = <<>>
    BY <1>1 DEF EntryFits
  <2>3. j \in 1 .. Len(b) /\ j - 1 = 1 + (w + v) /\ w + v \in 0 .. w + v
    <3>1. v \in Nat /\ w \in Nat /\ Len(b) = w + v + 3
      BY <1>4, <1>6
    <3> HIDE DEF v, w, b
    <3> QED  BY <3>1
  <2>4. place = SumTo(bytesOf(b), j - 1)
    BY <1>5, <2>3
  <2> HIDE DEF j, x, place, named
  <2>5. ReadAt(d.offset + place, named) = x
    BY <1>4, <2>1, <2>2, <2>3, <2>4, ReadOfBody
  <2> QED  BY <1>9, <2>5 DEF x, place
<1>11. ReadAt(names + named, e.str_space) = e.strings
  <2> DEFINE j == w + v + 3   x == e.strings   place == first + set * (w + v) + named
             space == e.str_space
  <2>1. b[j] = InFile(x, space)
    BY <1>2 DEF BodyIs
  <2>2. (space = 0 => x = <<>>) /\ space \in Nat
    BY <1>1 DEF EntryFits
  <2>3. j \in 1 .. Len(b) /\ j - 1 = w + v + 2
    BY <1>4, <1>6
  <2>4. place = SumTo(bytesOf(b), j - 1)
    BY <1>5, <2>3
  <2> HIDE DEF j, x, place, space
  <2>5. ReadAt(d.offset + place, space) = x
    BY <2>1, <2>2, <2>3, <2>4, ReadOfBody
  <2> QED  BY <1>9, <2>5 DEF x, place, space
<1>12. load_dist(d) =
         [length |-> e.length, v_width |-> v, w_width |-> w,
          weight_sets |-> [i \in 1 .. w |-> Cumulated(ReadAt(weights + set * (i - 1), set))],
          value_sets |-> [i \in 1 .. v |-> ReadAt(vals + set * (i - 1), set)],
          names |-> ReadAt(names, named),
          strings |-> ReadAt(names + named, e.str_space)]
  BY <1>3 DEF load_dist, Cumulated
<1> HIDE DEF weights, vals, names
<1>13. [i \in 1 .. w |-> Cumulated(ReadAt(weights + set * (i - 1), set))] = [i \in 1 .. w |-> Cumulated(e.weight_sets[i])]
  BY <1>7
<1>14. [i \in 1 .. v |-> ReadAt(vals + set * (i - 1), set)] = [i \in 1 .. v |-> e.value_sets[i]]
  BY <1>8
<1> QED  BY <1>10, <1>11, <1>12, <1>13, <1>14 DEF Loaded

\* The row has a weight, and as many random numbers stand for it.
WeighsAs(dist, w, row, weight) ==
  /\ dist_weight(dist, row, w) = weight
  /\ Cardinality({level \in 1 .. dist_max(dist, w) : pick_distribution(dist, w, level) = row}) = weight

(* Of all random numbers each row gets as many as its weight says.         *)
LEMMA PicksAreWeights ==
  ASSUME NEW dist, NEW w, NEW s \in Seq(Nat), dist.length = Len(s), dist.weight_sets[w] = Cumulated(s),
         NEW row \in 1 .. Len(s)
  PROVE  WeighsAs(dist, w, row, s[row])
<1> DEFINE n == Len(s)
           c == dist.weight_sets[w]
           Picked(level, r) == level <= c[r] /\ \A q \in 1 .. r - 1 : level > c[q]
           pick(level) == CHOOSE r \in 1 .. n : Picked(level, r)
           before == SumTo(s, row - 1)
           up == SumTo(s, row)
           all == SumTo(s, n)
<1>1. n \in Nat /\ n >= 1 /\ row \in 1 .. n /\ row \in Nat /\ \A i \in 1 .. n : s[i] \in Nat
  OBVIOUS
<1>2. \A r \in 1 .. n : c[r] = SumTo(s, r)
  BY DEF Cumulated
<1>3. /\ SumTo(s, 0) = 0 /\ \A i \in 1 .. n : SumTo(s, i) = SumTo(s, i - 1) + s[i]
      /\ \A i \in 0 .. n : SumTo(s, i) \in Nat
  <2> HIDE DEF n, c
  <2> QED  BY <1>1, SumSteps
<1>4. \A i \in 0 .. n, j \in 0 .. n : i <= j => SumTo(s, i) <= SumTo(s, j)
  <2> TAKE i \in 0 .. n, j \in 0 .. n
  <2> HAVE i <= j
  <2>1. j \in i .. n  BY <1>1
  <2> HIDE DEF n, c
  <2> QED  BY <1>1, <2>1, SumsGrow
<1>5. dist_max(dist, w) = all
  <2>1. n \in 1 .. n /\ n # 0  BY <1>1
  <2> QED  BY <1>2, <2>1 DEF dist_max
<1>6. \A level : pick_distribution(dist, w, level) = pick(level)
  BY DEF pick_distribution
<1>7. dist_weight(dist, row, w) = c[row] - (IF row > 1 THEN c[row - 1] ELSE 0)
  BY DEF dist_weight
<1> HIDE DEF n, c
<1>8. before \in Nat /\ up \in Nat /\ all \in Nat /\ up = before + s[row] /\ s[row] \in Nat /\ up <= all
  <2>1. row - 1 \in 0 .. n /\ row \in 0 .. n /\ n \in 0 .. n /\ row <= n  BY <1>1
  <2> QED  BY <1>1, <1>3, <1>4, <2>1
<1>9. dist_weight(dist, row, w) = s[row]
  <2>1. CASE row > 1
    <3>1. row - 1 \in 1 .. n  BY <1>1, <2>1
    <3>2. c[row] = up /\ c[row - 1] = before  BY <1>1, <1>2, <3>1
    <3> HIDE DEF up, before
    <3> QED  BY <1>7, <1>8, <2>1, <3>2
  <2>2. CASE ~(row > 1)
    <3>1. row = 1 /\ row - 1 = 0  BY <1>1, <2>2
    <3>2. c[row] = up /\ before = 0  BY <1>1, <1>2, <1>3, <3>1
    <3> HIDE DEF up, before
    <3> QED  BY <1>7, <1>8, <2>2, <3>2
  <2> QED  BY <2>1, <2>2
<1>10. ASSUME NEW level \in 1 .. all PROVE pick(level) \in 1 .. n /\ Picked(level, pick(level))
  <2> DEFINE S == {r \in 1 .. n : level <= c[r]}
             r == FirstOf(S)
  <2>1. S \in SUBSET Nat /\ S # {}
    <3>1. n \in 1 .. n /\ c[n] = all  BY <1>1, <1>2
    <3> QED  BY <1>8, <3>1
  <2>2. r \in S /\ \A q \in S : r <= q
    <3> HIDE DEF S
    <3> QED  BY <2>1, FirstIn
  <2> HIDE DEF r
  <2>3. r \in 1 .. n /\ level <= c[r]
    BY <2>2
  <2>4. ASSUME NEW q \in 1 .. r - 1 PROVE level > c[q]
    <3>0. q \in 1 .. n /\ q \in 0 .. n /\ ~(r <= q)  BY <1>1, <2>3
    <3>1. q \in 1 .. n /\ ~(r <= q) /\ c[q] \in Nat  BY <1>2, <1>3, <3>0
    <3>2. ~(level <= c[q])  BY <2>2, <3>1
    <3>3. level \in Nat  BY <1>8
    <3> QED  BY <3>1, <3>2, <3>3
  <2>5. \E x \in 1 .. n : Picked(level, x)
    BY <2>3, <2>4
  <2> HIDE DEF Picked
  <2> QED  BY <2>5
<1>11. ASSUME NEW level \in 1 .. all, before < level, level <= up PROVE pick(level) = row
  <2> DEFINE r == pick(level)
  <2>1. r \in 1 .. n /\ level <= c[r] /\ \A q \in 1 .. r - 1 : level > c[q]
    BY <1>10
  <2> HIDE DEF r
  <2>2. level \in Nat /\ row \in Nat /\ r \in Nat /\ row - 1 \in 0 .. n
    BY <1>1, <1>8, <2>1
  <2>3. ~(row < r)
    <3> SUFFICES ASSUME row < r PROVE FALSE  OBVIOUS
    <3>1. row \in 1 .. r - 1  BY <1>1, <2>1, <2>2
    <3>2. level > up  BY <1>1, <1>2, <2>1, <3>1
    <3> QED  BY <1>8, <1>11, <2>2, <3>2
  <2>4. ~(r < row)
    <3> SUFFICES ASSUME r < row PROVE FALSE  OBVIOUS
    <3>1. r \in 0 .. n /\ r <= row - 1  BY <1>1, <2>1, <2>2
    <3>2. SumTo(s, r) <= before  BY <1>4, <2>2, <3>1
    <3>3. level <= SumTo(s, r) /\ SumTo(s, r) \in Nat  BY <1>2, <1>3, <2>1, <3>1
    <3> QED  BY <1>8, <1>11, <2>2, <3>2, <3>3
  <2>5. r = row
    BY <2>2, <2>3, <2>4
  <2> QED  BY <2>5 DEF r
<1>12. ASSUME NEW level \in 1 .. all, pick(level) = row PROVE before < level /\ level <= up
  <2>1. level <= c[row] /\ \A q \in 1 .. row - 1 : level > c[q]
    BY <1>10, <1>12
  <2>2. level <= up
    BY <1>1, <1>2, <2>1
  <2>3. before < level
    <3>1. CASE row = 1
      <4>1. before = 0  BY <1>3, <3>1
      <4> QED  BY <1>8, <4>1
    <3>2. CASE row # 1
      <4>1. row - 1 \in 1 .. row - 1 /\ row - 1 \in 1 .. n  BY <1>1, <3>2
      <4>2. level > before  BY <1>2, <2>1, <4>1
      <4> QED  BY <1>8, <4>2
    <3> QED  BY <3>1, <3>2
  <2> QED  BY <2>2, <2>3
<1> HIDE DEF before, up, all, pick
<1>13. {level \in 1 .. all : pick(level) = row} = (before + 1) .. up
  <2>1. ASSUME NEW level \in 1 .. all, pick(level) = row PROVE level \in (before + 1) .. up
    <3>1. before < level /\ level <= up  BY <1>12, <2>1
    <3> QED  BY <1>8, <3>1
  <2>2. ASSUME NEW level \in (before + 1) .. up PROVE level \in 1 .. all /\ pick(level) = row
    <3>1. level \in 1 .. all /\ before < level /\ level <= up  BY <1>8
    <3> QED  BY <1>11, <3>1
  <2> QED  BY <2>1, <2>2
<1>14. Cardinality((before + 1) .. up) = s[row]
  <2>1. before + 1 \in Int /\ up \in Int  BY <1>8
  <2>2. Cardinality((before + 1) .. up) = IF before + 1 > up THEN 0 ELSE (up - (before + 1)) + 1
    BY <2>1, FS_Interval
  <2> QED  BY <1>8, <2>2
<1>15. {level \in 1 .. dist_max(dist, w) : pick_distribution(dist, w, level) = row} = {level \in 1 .. all : pick(level) = row}
  BY <1>5, <1>6
<1> QED  BY <1>9, <1>13, <1>14, <1>15 DEF WeighsAs

\* DistNameIndex() in two steps: which name it is, and of which set.
AliasNumber(dist, alias) ==
  LET found == {j \in DOMAIN dist.names : dist.names[j] = alias}
  IN  IF found = {} THEN dist.v_width + dist.w_width ELSE (CHOOSE j \in found : \A k \in found : j <= k) - 1

SetNumbered(dist, type, number) ==
  CASE dist.names = <<>> -> -1
    [] dist.names # <<>> /\ type = "value" /\ number < dist.v_width -> number + 1
    [] dist.names # <<>> /\ type = "weight" /\ number > dist.v_width -> number - dist.v_width + 1
    [] OTHER -> -1

LEMMA TwoSteps ==
  ASSUME NEW dist, NEW type, NEW alias
  PROVE  DistNameIndex(dist, type, alias) = SetNumbered(dist, type, AliasNumber(dist, alias))
  BY DEF DistNameIndex, SetNumbered, AliasNumber

LEMMA SetOfNumber ==
  ASSUME NEW dist, NEW v \in Nat, dist.v_width = v, dist.names # <<>>, NEW number \in Int
  PROVE  /\ number < v => SetNumbered(dist, "value", number) = number + 1
         /\ number > v => SetNumbered(dist, "weight", number) = (number - v) + 1
<1>1. number < v => SetNumbered(dist, "value", number) = number + 1
  BY DEF SetNumbered
<1>2. number > v => SetNumbered(dist, "weight", number) = (number - v) + 1
  BY DEF SetNumbered
<1> QED  BY <1>1, <1>2

\* The alias is found to be that of set i.
AliasTells(dist, v, i, alias) ==
  /\ i <= v => DistNameIndex(dist, "value", alias) = i
  /\ i > v + 1 => DistNameIndex(dist, "weight", alias) = i - v

(* The alias of a set, except that of the first weight set, tells which it *)
(* is.                                                                     *)
LEMMA AliasOf ==
  ASSUME NEW dist, NEW v \in Nat, NEW w \in Nat, dist.v_width = v, dist.w_width = w, v + w <= Len(Aliases),
         dist.names = SubSeq(Aliases, 1, v + w), NEW i \in 1 .. v + w
  PROVE  AliasTells(dist, v, i, dist.names[i])
<1> DEFINE n == v + w
           names == dist.names
           found == {j \in DOMAIN names : names[j] = names[i]}
           number == IF found = {} THEN v + w ELSE (CHOOSE j \in found : \A k \in found : j <= k) - 1
<1>1. Aliases \in Seq(STRING) /\ n \in Nat /\ n <= Len(Aliases) /\ i \in 1 .. n
      /\ \A j, k \in 1 .. Len(Aliases) : Aliases[j] = Aliases[k] => j = k
  BY DistributionsAssumption
<1>2. names \in Seq(STRING) /\ DOMAIN names = 1 .. n /\ \A j \in 1 .. n : names[j] = Aliases[j]
  <2> HIDE DEF n
  <2>1. names = SubSeq(Aliases, 1, n)  BY DEF n
  <2> HIDE DEF names
  <2> QED  BY <1>1, <2>1
<1>3. found = {i}
  <2>1. \A j \in 1 .. n : names[j] = names[i] => j = i
    <3> HIDE DEF n, names
    <3> TAKE j \in 1 .. n
    <3>1. j \in 1 .. Len(Aliases) /\ i \in 1 .. Len(Aliases)  BY <1>1
    <3> QED  BY <1>1, <1>2, <3>1
  <2> QED  BY <1>1, <1>2, <2>1
<1>4. number = i - 1
  <2>1. (CHOOSE j \in found : \A k \in found : j <= k) = i
    <3>1. \A j \in found : j = i  BY <1>3
    <3>2. i \in found /\ \A k \in found : i <= k  BY <1>1, <1>3
    <3> HIDE DEF found
    <3> QED  BY <3>1, <3>2
  <2> HIDE DEF found
  <2> QED  BY <1>3, <2>1
<1>5. names # <<>>
  <2> HIDE DEF names, n
  <2> QED  BY <1>1, <1>2
<1>6. AliasNumber(dist, names[i]) = number
  BY DEF AliasNumber
<1> HIDE DEF number
<1>7. number \in Int /\ dist.names # <<>>
  BY <1>1, <1>4, <1>5
<1>8. /\ number < v => DistNameIndex(dist, "value", names[i]) = number + 1
      /\ number > v => DistNameIndex(dist, "weight", names[i]) = (number - v) + 1
  <2> HIDE DEF names
  <2> QED  BY <1>6, <1>7, TwoSteps, SetOfNumber
<1> HIDE DEF names
<1> QED  BY <1>1, <1>4, <1>8 DEF names, AliasTells

IsList(s) == \E T : s \in Seq(T)

LEMMA ListParts ==
  ASSUME NEW s, IsList(s)
  PROVE  Len(s) \in Nat /\ DOMAIN s = 1 .. Len(s)
  BY DEF IsList

\* t is s with x behind it, and with x as its n-th.
Appended(s, x, t) ==
  /\ IsList(t) /\ Len(t) = Len(s) + 1 /\ Len(s) \in Nat /\ DOMAIN t = 1 .. Len(t) /\ t[Len(t)] = x
  /\ \A i \in 1 .. Len(s) : t[i] = s[i]

ReplacedAt(s, n, x, t) ==
  /\ IsList(t) /\ Len(t) = Len(s) /\ Len(s) \in Nat /\ t[n] = x
  /\ \A i \in 1 .. Len(s) : i # n => t[i] = s[i]

LEMMA ListAppend ==
  ASSUME NEW s, IsList(s), NEW x
  PROVE  Appended(s, x, Append(s, x))
<1> DEFINE t == Append(s, x)
<1>1. PICK T : s \in Seq(T)
  BY DEF IsList
<1> DEFINE U == T \union {x}
<1>2. s \in Seq(U) /\ x \in U
  BY <1>1
<1> HIDE DEF U
<1>3. /\ t \in Seq(U) /\ Len(t) = Len(s) + 1 /\ Len(s) \in Nat /\ t[Len(s) + 1] = x
      /\ \A i \in 1 .. Len(s) : t[i] = s[i]
  BY <1>2
<1> QED  BY <1>3 DEF IsList, Appended

LEMMA ListExcept ==
  ASSUME NEW s, IsList(s), NEW n \in 1 .. Len(s), NEW x
  PROVE  ReplacedAt(s, n, x, [s EXCEPT ![n] = x])
<1> DEFINE t == [s EXCEPT ![n] = x]
<1>1. PICK T : s \in Seq(T)
  BY DEF IsList
<1> DEFINE U == T \union {x}
<1>2. s \in Seq(U) /\ x \in U
  BY <1>1
<1> HIDE DEF U
<1>3. t \in Seq(U) /\ Len(t) = Len(s) /\ Len(s) \in Nat /\ t[n] = x /\ \A i \in 1 .. Len(s) : i # n => t[i] = s[i]
  BY <1>2
<1> QED  BY <1>3 DEF IsList, ReplacedAt

\* What a distribution is and was said to be, at any time.
Fields(e) ==
  DOMAIN e = {"name", "index", "length", "v_width", "w_width", "weight_sets", "value_sets", "names", "strings",
              "str_space"}

SetsFit(e) ==
  /\ e.length \in Nat /\ e.v_width \in Nat /\ e.w_width \in Nat /\ e.str_space \in Nat
  /\ e.weight_sets \in [1 .. e.w_width -> Seq(Nat)] /\ \A k \in 1 .. e.w_width : Len(e.weight_sets[k]) = e.length
  /\ e.value_sets \in [1 .. e.v_width -> Seq(Nat)] /\ \A k \in 1 .. e.v_width : Len(e.value_sets[k]) = e.length

ShapeFits(e) ==
  /\ e.v_width # 0 => \E shape \in Shapes : shape[1] = e.v_width
  /\ e.w_width # 0 => \E shape \in Shapes : shape[2] = e.w_width
  /\ e.v_width # 0 /\ e.w_width # 0 => \E shape \in Shapes : shape[1] = e.v_width /\ shape[2] = e.w_width
  /\ e.names # <<>> =>
       e.v_width # 0 /\ e.w_width # 0 /\ e.names = SubSeq(Aliases, 1, e.v_width + e.w_width)
  /\ e.length # 0 => e.v_width # 0 /\ e.w_width # 0

\* No two words begin in the same place.
OneWordEach(strings) ==
  \A k, l \in DOMAIN strings : strings[k].at = strings[l].at => strings[k].word = strings[l].word

StringsFit(e) ==
  /\ e.strings \in Seq([at : Nat, word : Values])
  /\ \A k \in DOMAIN e.strings : e.strings[k].at < e.str_space
  /\ OneWordEach(e.strings)

Holds(strings, at, word) == \E k \in DOMAIN strings : strings[k].at = at /\ strings[k].word = word

RowTold(e, row, r) ==
  /\ row.values \in [1 .. e.v_width -> Values] /\ row.weights \in [1 .. e.w_width -> Nat]
  /\ \A i \in 1 .. e.w_width : e.weight_sets[i][r] = row.weights[i]
  /\ \A i \in 1 .. e.v_width : Holds(e.strings, e.value_sets[i][r], row.values[i])

Told(e, s) ==
  /\ DOMAIN s = {"name", "aliases", "rows"}
  /\ e.name = s.name /\ e.names = s.aliases /\ IsList(s.rows) /\ Len(s.rows) = e.length
  /\ \A r \in 1 .. e.length : RowTold(e, s.rows[r], r)

EntryInv(e, s, c) ==
  /\ Fields(e) /\ SetsFit(e) /\ ShapeFits(e) /\ StringsFit(e) /\ Told(e, s)
  /\ c.rows \in Nat /\ c.strings \in Nat /\ e.length <= c.rows

\* All of that, for each distribution; the last is the one statements go to.
ListsFit ==
  /\ IsList(entries) /\ IsList(capacity) /\ IsList(stated)
  /\ Len(capacity) = Len(entries) /\ Len(stated) = Len(entries)
  /\ \A k \in 1 .. Len(entries) : EntryInv(entries[k], stated[k], capacity[k])

\* The scratch arrays have space for a row of the last distribution.
ScratchFits ==
  /\ arValueLengths \in Seq(Int) /\ nMaxValueWidth \in Nat /\ nMaxValueWidth <= Len(arValueLengths)
  /\ nMaxWeightWidth = 0 /\ arWeights \in Nat
  /\ Len(entries) > 0 => /\ entries[Len(entries)].v_width <= nMaxValueWidth
                         /\ entries[Len(entries)].w_width <= arWeights
  /\ overrun = FALSE

(* The inductive invariant: every distribution tells what was said of it,  *)
(* what is written has space, and the file, once there is one, is that of  *)
(* the distributions.                                                      *)
DistInv ==
  /\ ListsFit /\ NamesDiffer /\ ScratchFits
  /\ fileSize \in Nat /\ (fileSize # 0 => Len(entries) > 0 /\ OnDisk)

(* Aliases take bytes.                                                     *)
LEMMA NameSpaceIs ==
  ASSUME NEW e, SetsFit(e), ShapeFits(e)
  PROVE  NameSpace(e) \in Nat /\ (NameSpace(e) = 0 => e.names = <<>>)
<1>1. CASE e.names = <<>>
  <2> DEFINE s == [i \in DOMAIN e.names |-> Len(e.names[i]) + 1]
  <2>1. Len(e.names) = 0
    BY <1>1
  <2>2. NameSpace(e) = SumTo(s, 0)
    BY <2>1 DEF NameSpace
  <2>3. SumTo(s, 0) = 0
    <3> HIDE DEF s
    <3>1. 0 \in Nat /\ \A i \in 1 .. 0 : s[i] \in Nat
      OBVIOUS
    <3> QED  BY <3>1, SumSteps
  <2> QED  BY <1>1, <2>2, <2>3
<1>2. CASE e.names # <<>>
  <2> DEFINE n == e.v_width + e.w_width
             s == [i \in DOMAIN e.names |-> Len(e.names[i]) + 1]
  <2>1. PICK shape \in Shapes : shape[1] = e.v_width /\ shape[2] = e.w_width
    BY <1>2 DEF ShapeFits
  <2>2. n \in Nat /\ n > 0 /\ e.names = SubSeq(Aliases, 1, n)
    BY <1>2 DEF ShapeFits, SetsFit
  <2>3. n <= Len(Aliases)
    BY <2>1, DistributionsAssumption
  <2>4. Aliases \in Seq(STRING) /\ \A i \in 1 .. Len(Aliases) : Len(Aliases[i]) \in Nat
    BY DistributionsAssumption
  <2> DEFINE names == e.names
  <2> HIDE DEF n, names
  <2>5. Len(names) = n /\ DOMAIN names = 1 .. n /\ \A i \in 1 .. n : names[i] = Aliases[i]
    <3>1. names = SubSeq(Aliases, 1, n)  BY <2>2 DEF names
    <3> QED  BY <2>2, <2>3, <2>4, <3>1
  <2>6. \A i \in 1 .. n : s[i] = Len(Aliases[i]) + 1
    BY <2>5 DEF names
  <2>7. \A i \in 1 .. n : s[i] \in Nat /\ s[i] > 0
    <3> HIDE DEF s
    <3> TAKE i \in 1 .. n
    <3>1. i \in 1 .. Len(Aliases)  BY <2>2, <2>3, <2>4
    <3>2. Len(Aliases[i]) \in Nat  BY <2>4, <3>1
    <3> QED  BY <2>6, <3>2
  <2>8. NameSpace(e) = SumTo(s, n)
    BY <2>5 DEF NameSpace, names
  <2> HIDE DEF s
  <2>9. SumTo(s, 0) = 0 /\ SumTo(s, n) \in Nat
    <3>1. n \in 0 .. n  BY <2>2
    <3> QED  BY <2>2, <2>7, <3>1, SumSteps
  <2>10. SumTo(s, 0) < SumTo(s, n)
    <3>1. 0 \in 0 .. n /\ n \in 0 .. n /\ n \in 1 .. n  BY <2>2
    <3> QED  BY <2>2, <2>7, <3>1, SumsGrow
  <2> QED  BY <2>8, <2>9, <2>10
<1> QED  BY <1>1, <1>2

(* Distributions that fit can be written.                                  *)
LEMMA InvFits ==
  ASSUME ListsFit, Len(entries) > 0
  PROVE  EntriesFit
<1>1. Len(entries) \in Nat \ {0} /\ DOMAIN entries = 1 .. Len(entries)
  BY ListParts DEF ListsFit
<1>2. ASSUME NEW k \in 1 .. Len(entries) PROVE EntryFits(entries[k])
  <2> DEFINE e == entries[k]
  <2>1. SetsFit(e) /\ ShapeFits(e) /\ StringsFit(e)
    BY DEF ListsFit, EntryInv
  <2> HIDE DEF e
  <2>2. NameSpace(e) \in Nat /\ (NameSpace(e) = 0 => e.names = <<>>)
    BY <2>1, NameSpaceIs
  <2>3. e.str_space = 0 => e.strings = <<>>
    <3> SUFFICES ASSUME e.str_space = 0 PROVE e.strings = <<>>
      OBVIOUS
    <3> DEFINE strings == e.strings
    <3>1. strings \in Seq([at : Nat, word : Values]) /\ \A i \in DOMAIN strings : strings[i].at < 0
      BY <2>1 DEF StringsFit
    <3> HIDE DEF strings
    <3>2. \A i \in 1 .. Len(strings) : strings[i].at \in Nat /\ strings[i].at < 0
      <4> TAKE i \in 1 .. Len(strings)
      <4> DEFINE R == [at : Nat, word : Values]
      <4>1. \A x \in R : x.at \in Nat  OBVIOUS
      <4>2. strings \in Seq(R)  BY <3>1
      <4> HIDE DEF R
      <4>3. strings[i] \in R /\ i \in DOMAIN strings  BY <4>2
      <4> QED  BY <3>1, <4>1, <4>3
    <3>3. Len(strings) = 0
      BY <3>1, <3>2
    <3>4. strings = <<>>
      BY <3>1, <3>3
    <3> QED  BY <3>4 DEF strings
  <2>4. EntryFits(e)
    BY <2>1, <2>2, <2>3 DEF SetsFit, EntryFits
  <2> QED  BY <2>4 DEF e
<1> QED  BY <1>1, <1>2 DEF EntriesFit

LEMMA CumulatedIs ==
  ASSUME NEW s \in Seq(Nat)
  PROVE  Cumulated(s) \in Seq(Nat) /\ Len(Cumulated(s)) = Len(s)
<1> DEFINE n == Len(s)
<1>1. n \in Nat /\ DOMAIN s = 1 .. n /\ \A i \in 1 .. n : s[i] \in Nat
  OBVIOUS
<1>2. Cumulated(s) = [i \in 1 .. n |-> SumTo(s, i)]
  BY <1>1 DEF Cumulated
<1>3. \A i \in 1 .. n : SumTo(s, i) \in Nat
  <2> HIDE DEF n
  <2> QED  BY <1>1, SumSteps
<1> HIDE DEF n
<1>4. Cumulated(s) \in Seq(Nat) /\ Len(Cumulated(s)) = n
  BY <1>1, <1>2, <1>3
<1> QED  BY <1>4 DEF n

(* The value of a row is the word that begins where the row says.          *)
LEMMA MemberIs ==
  ASSUME NEW dist, NEW row, NEW v, NEW word, Holds(dist.strings, dist.value_sets[v][row], word),
         OneWordEach(dist.strings)
  PROVE  dist_member(dist, row, v) = word
<1> DEFINE strings == dist.strings
           offset == dist.value_sets[v][row]
           i == CHOOSE i \in DOMAIN strings : strings[i].at = offset
<1>1. PICK k \in DOMAIN strings : strings[k].at = offset /\ strings[k].word = word
  BY DEF Holds
<1>2. i \in DOMAIN strings /\ strings[i].at = offset
  <2> HIDE DEF strings, offset
  <2> QED  BY <1>1
<1>3. dist_member(dist, row, v) = strings[i].word
  BY <1>1 DEF dist_member
<1>4. strings[i].word = word
  <2> HIDE DEF i
  <2> QED  BY <1>1, <1>2 DEF OneWordEach
<1> QED  BY <1>3, <1>4

\* AsStated, of the entry that was found and the distribution it tells of.
StatedBy(s, d, dist) ==
  LET sets == dist.weight_sets \o dist.value_sets
  IN /\ dist.length = Len(s.rows) /\ \A i \in DOMAIN sets : Len(sets[i]) = dist.length
     /\ \A row \in DOMAIN s.rows :
          /\ \A v \in DOMAIN s.rows[row].values : dist_member(dist, row, v) = s.rows[row].values[v]
          /\ \A w \in DOMAIN s.rows[row].weights :
               /\ dist_weight(dist, row, w) = s.rows[row].weights[w]
               /\ Cardinality({level \in 1 .. dist_max(dist, w) : pick_distribution(dist, w, level) = row})
                    = s.rows[row].weights[w]
     /\ \A i \in DOMAIN s.aliases :
          /\ i <= d.v_width => DistNameIndex(dist, "value", s.aliases[i]) = i
          /\ i > d.v_width + 1 => DistNameIndex(dist, "weight", s.aliases[i]) = i - d.v_width

LEMMA AsStatedBy ==
  ASSUME NEW s
  PROVE  AsStated(s) = StatedBy(s, find_dist(s.name), load_dist(find_dist(s.name)))
  BY DEF AsStated, StatedBy

(* A distribution that was loaded is as it was told.                       *)
LEMMA LoadedAsTold ==
  ASSUME NEW e, NEW s, SetsFit(e), ShapeFits(e), StringsFit(e), Told(e, s), NEW d, d.v_width = e.v_width
  PROVE  StatedBy(s, d, Loaded(e))
<1> DEFINE v == e.v_width
           w == e.w_width
           n == e.length
           dist == Loaded(e)
<1>1. /\ v \in Nat /\ w \in Nat /\ n \in Nat
      /\ \A k \in 1 .. w : e.weight_sets[k] \in Seq(Nat) /\ Len(e.weight_sets[k]) = n
      /\ \A k \in 1 .. v : e.value_sets[k] \in Seq(Nat) /\ Len(e.value_sets[k]) = n
  BY DEF SetsFit
<1>2. /\ dist.length = n /\ dist.v_width = v /\ dist.w_width = w /\ dist.names = e.names /\ dist.strings = e.strings
      /\ dist.weight_sets = [i \in 1 .. w |-> Cumulated(e.weight_sets[i])]
      /\ dist.value_sets = [i \in 1 .. v |-> e.value_sets[i]]
  BY DEF Loaded
<1> HIDE DEF dist, v, w, n
<1>3. Len(s.rows) = n /\ DOMAIN s.rows = 1 .. n /\ s.aliases = e.names
  BY ListParts DEF Told, n
<1>4. \A i \in DOMAIN (dist.weight_sets \o dist.value_sets) : Len((dist.weight_sets \o dist.value_sets)[i]) = n
  <2> DEFINE T == {x \in Seq(Nat) : Len(x) = n}
             a == dist.weight_sets
             b == dist.value_sets
  <2>1. \A i \in 1 .. w : Cumulated(e.weight_sets[i]) \in T
    BY <1>1, CumulatedIs
  <2>2. \A i \in 1 .. v : e.value_sets[i] \in T
    BY <1>1
  <2>3. \A x \in T : Len(x) = n
    OBVIOUS
  <2> HIDE DEF T
  <2>4. a \in Seq(T) /\ b \in Seq(T)
    BY <1>1, <1>2, <2>1, <2>2
  <2> HIDE DEF a, b
  <2>5. a \o b \in Seq(T)
    BY <2>4
  <2>6. \A i \in DOMAIN (a \o b) : Len((a \o b)[i]) = n
    BY <2>3, <2>5
  <2> QED  BY <2>6 DEF a, b
<1>5. ASSUME NEW row \in 1 .. n, NEW i \in DOMAIN s.rows[row].values
      PROVE  dist_member(dist, row, i) = s.rows[row].values[i]
  <2>1. RowTold(e, s.rows[row], row)
    BY DEF Told, n
  <2>2. i \in 1 .. v /\ Holds(e.strings, e.value_sets[i][row], s.rows[row].values[i])
    BY <2>1 DEF RowTold, v
  <2>3. Holds(dist.strings, dist.value_sets[i][row], s.rows[row].values[i])
    BY <1>2, <2>2
  <2>4. OneWordEach(dist.strings)
    BY <1>2 DEF StringsFit
  <2> QED  BY <2>3, <2>4, MemberIs
<1>6. ASSUME NEW row \in 1 .. n, NEW i \in DOMAIN s.rows[row].weights
      PROVE  WeighsAs(dist, i, row, s.rows[row].weights[i])
  <2>1. RowTold(e, s.rows[row], row)
    BY DEF Told, n
  <2> DEFINE x == e.weight_sets[i]
  <2>2. i \in 1 .. w /\ x[row] = s.rows[row].weights[i]
    BY <2>1 DEF RowTold, w
  <2>3. x \in Seq(Nat) /\ Len(x) = n /\ dist.weight_sets[i] = Cumulated(x)
    BY <1>1, <1>2, <2>2
  <2> HIDE DEF x
  <2>4. dist.length = Len(x) /\ row \in 1 .. Len(x)
    BY <1>2, <2>3
  <2>5. WeighsAs(dist, i, row, x[row])
    BY <2>3, <2>4, PicksAreWeights
  <2> QED  BY <2>2, <2>5
<1>7. ASSUME NEW i \in DOMAIN s.aliases
      PROVE  AliasTells(dist, d.v_width, i, s.aliases[i])
  <2>1. e.names # <<>>
    BY <1>3
  <2>2. e.names = SubSeq(Aliases, 1, v + w) /\ \E shape \in Shapes : shape[1] = v /\ shape[2] = w
    BY <2>1 DEF ShapeFits, v, w
  <2>3. v + w <= Len(Aliases) /\ Aliases \in Seq(STRING)
    BY <2>2, DistributionsAssumption
  <2>4. i \in 1 .. v + w
    <3> DEFINE names == e.names   m == v + w
    <3>1. i \in DOMAIN names /\ names = SubSeq(Aliases, 1, m) /\ m \in Nat /\ m <= Len(Aliases)
      BY <1>1, <1>3, <2>2, <2>3
    <3> HIDE DEF names, m
    <3>2. i \in 1 .. m
      BY <2>3, <3>1
    <3> QED  BY <3>2 DEF m
  <2>5. dist.names = SubSeq(Aliases, 1, v + w)
    BY <1>2, <2>2
  <2>6. AliasTells(dist, v, i, dist.names[i])
    BY <1>1, <1>2, <2>3, <2>4, <2>5, AliasOf
  <2> QED  BY <1>2, <1>3, <2>6 DEF v
<1>8. StatedBy(s, d, dist)
  BY <1>2, <1>3, <1>4, <1>5, <1>6, <1>7 DEF StatedBy, WeighsAs, AliasTells
<1> QED  BY <1>8 DEF dist

(* What the invariant says of the file is enough to read it back.          *)
LEMMA InvReads ==
  ASSUME DistInv
  PROVE  ReadsBack
<1>1. ~overrun
  BY DEF DistInv, ScratchFits
<1>2. ASSUME fileSize > 0, NEW n \in DOMAIN stated PROVE AsStated(stated[n])
  <2> DEFINE e == entries[n]   s == stated[n]
  <2>1. Len(entries) > 0 /\ OnDisk /\ ListsFit /\ NamesDiffer
    BY <1>2 DEF DistInv
  <2>2. EntriesFit
    BY <2>1, InvFits
  <2>3. n \in 1 .. Len(entries) /\ n \in DOMAIN entries
    BY <2>1, ListParts DEF ListsFit
  <2>4. SetsFit(e) /\ ShapeFits(e) /\ StringsFit(e) /\ Told(e, s)
    BY <2>1, <2>3 DEF ListsFit, EntryInv
  <2>5. s.name = e.name
    BY <2>4 DEF Told
  <2>6. find_dist(e.name) = EntryAt(n) /\ load_dist(EntryAt(n)) = Loaded(e)
    BY <2>1, <2>2, <2>3, FindDist, LoadDist
  <2>7. EntryAt(n).v_width = e.v_width
    BY DEF EntryAt, IndexEntry
  <2> HIDE DEF e, s
  <2>8. StatedBy(s, EntryAt(n), Loaded(e))
    BY <2>4, <2>7, LoadedAsTold
  <2>9. AsStated(s)
    BY <2>5, <2>6, <2>8, AsStatedBy
  <2> QED  BY <2>9 DEF s
<1> QED  BY <1>1, <1>2 DEF ReadsBack

LEMMA ListSame ==
  ASSUME NEW s, IsList(s), NEW n \in 1 .. Len(s)
  PROVE  s = [s EXCEPT ![n] = s[n]]
  BY DEF IsList

(* The invariant holds at first, and every statement keeps it.             *)
LEMMA DistBegins == DistInit => DistInv
<1> SUFFICES ASSUME DistInit PROVE DistInv
  OBVIOUS
<1>1. /\ entries = <<>> /\ capacity = <<>> /\ stated = <<>> /\ arValueLengths = <<>> /\ nMaxValueWidth = 0
      /\ nMaxWeightWidth = 0 /\ arWeights = 0 /\ overrun = FALSE /\ fileSize = 0
  BY DEF DistInit
<1>2. IsList(<<>>) /\ Len(<<>>) = 0 /\ DOMAIN <<>> = {} /\ <<>> \in Seq(Int)
  <2>1. <<>> \in Seq({}) /\ Len(<<>>) = 0 /\ DOMAIN <<>> = {} /\ <<>> \in Seq(Int)
    OBVIOUS
  <2> QED  BY <2>1 DEF IsList
<1>3. ListsFit
  BY <1>1, <1>2 DEF ListsFit
<1>4. NamesDiffer
  BY <1>1, <1>2 DEF NamesDiffer
<1>5. ScratchFits
  BY <1>1, <1>2 DEF ScratchFits
<1> QED  BY <1>1, <1>3, <1>4, <1>5 DEF DistInv

(* A step that changes nothing but the current distribution.               *)
LEMMA CurrentUpdated ==
  ASSUME ListsFit, NamesDiffer, NEW n, n = Len(entries), n > 0, NEW f, NEW s, NEW c,
         entries' = [entries EXCEPT ![n] = f], stated' = [stated EXCEPT ![n] = s],
         capacity' = [capacity EXCEPT ![n] = c], EntryInv(f, s, c), f.name = entries[n].name
  PROVE  ListsFit' /\ NamesDiffer' /\ Len(entries') = n /\ entries'[n] = f
<1>1. n \in Nat /\ n \in 1 .. n /\ Len(stated) = n /\ Len(capacity) = n
  BY ListParts DEF ListsFit
<1>2. /\ IsList(entries') /\ Len(entries') = n /\ entries'[n] = f
      /\ \A i \in 1 .. n : i # n => entries'[i] = entries[i]
  <2>1. IsList(entries) /\ n \in 1 .. Len(entries)
    BY <1>1 DEF ListsFit
  <2>2. ReplacedAt(entries, n, f, entries')
    BY <2>1, ListExcept
  <2> QED  BY <1>1, <2>2 DEF ReplacedAt
<1>3. /\ IsList(stated') /\ Len(stated') = n /\ stated'[n] = s
      /\ \A i \in 1 .. n : i # n => stated'[i] = stated[i]
  <2>1. IsList(stated) /\ n \in 1 .. Len(stated)
    BY <1>1 DEF ListsFit
  <2>2. ReplacedAt(stated, n, s, stated')
    BY <2>1, ListExcept
  <2> QED  BY <1>1, <2>2 DEF ReplacedAt
<1>4. /\ IsList(capacity') /\ Len(capacity') = n /\ capacity'[n] = c
      /\ \A i \in 1 .. n : i # n => capacity'[i] = capacity[i]
  <2>1. IsList(capacity) /\ n \in 1 .. Len(capacity)
    BY <1>1 DEF ListsFit
  <2>2. ReplacedAt(capacity, n, c, capacity')
    BY <2>1, ListExcept
  <2> QED  BY <1>1, <2>2 DEF ReplacedAt
<1>5. \A k \in 1 .. n : EntryInv(entries'[k], stated'[k], capacity'[k])
  <2> TAKE k \in 1 .. n
  <2>1. CASE k = n
    BY <1>2, <1>3, <1>4, <2>1
  <2>2. CASE k # n
    <3>1. EntryInv(entries[k], stated[k], capacity[k])
      BY DEF ListsFit
    <3>2. entries'[k] = entries[k] /\ stated'[k] = stated[k] /\ capacity'[k] = capacity[k]
      BY <1>2, <1>3, <1>4, <2>2
    <3> QED  BY <3>1, <3>2
  <2> QED  BY <2>1, <2>2
<1>6. ListsFit'
  BY <1>2, <1>3, <1>4, <1>5 DEF ListsFit
<1>7. DOMAIN entries = 1 .. n /\ DOMAIN entries' = 1 .. n /\ \A k \in 1 .. n : entries'[k].name = entries[k].name
  <2>1. DOMAIN entries = 1 .. n
    BY ListParts DEF ListsFit
  <2>2. DOMAIN entries' = 1 .. n
    BY <1>2, ListParts
  <2> QED  BY <1>2, <2>1, <2>2
<1>8. NamesDiffer'
  BY <1>7 DEF NamesDiffer
<1> QED  BY <1>2, <1>6, <1>8

LEMMA CurrentFacts ==
  ASSUME DistInv, CurrentEntry > 0
  PROVE  /\ CurrentEntry = Len(entries) /\ CurrentEntry \in 1 .. Len(entries)
         /\ EntryInv(entries[CurrentEntry], stated[CurrentEntry], capacity[CurrentEntry])
         /\ IsList(entries) /\ IsList(stated) /\ IsList(capacity)
         /\ CurrentEntry \in 1 .. Len(stated) /\ CurrentEntry \in 1 .. Len(capacity)
<1>1. Len(entries) \in Nat
  BY ListParts DEF DistInv, ListsFit
<1> QED  BY <1>1 DEF DistInv, ListsFit, CurrentEntry

LEMMA CreateKeeps == DistInv /\ ProcessDistribution => DistInv'
<1> SUFFICES ASSUME DistInv, ProcessDistribution PROVE DistInv'
  OBVIOUS
<1>1. PICK name \in DistNames \ {entries[i].name : i \in DOMAIN entries} :
         /\ entries' = Append(entries, NewEntry(name))
         /\ stated' = Append(stated, [name |-> name, aliases |-> <<>>, rows |-> <<>>])
  BY DEF ProcessDistribution
<1>2. /\ capacity' = Append(capacity, [rows |-> 0, strings |-> 0]) /\ fileSize = 0 /\ fileSize' = 0
      /\ arValueLengths' = arValueLengths /\ nMaxValueWidth' = nMaxValueWidth /\ nMaxWeightWidth' = nMaxWeightWidth
      /\ arWeights' = arWeights /\ overrun' = overrun
  BY DEF ProcessDistribution, Parsing
<1> DEFINE n == Len(entries)
           f == NewEntry(name)
           s == [name |-> name, aliases |-> <<>>, rows |-> <<>>]
           c == [rows |-> 0, strings |-> 0]
<1>3. ListsFit /\ NamesDiffer /\ ScratchFits
  BY DEF DistInv
<1>4. EntryInv(f, s, c)
  <2>1. /\ f.name = name /\ f.length = 0 /\ f.v_width = 0 /\ f.w_width = 0 /\ f.weight_sets = <<>> /\ f.value_sets = <<>>
        /\ f.names = <<>> /\ f.strings = <<>> /\ f.str_space = 0 /\ Fields(f)
    BY DEF NewEntry, Fields
  <2>2. s.name = name /\ s.aliases = <<>> /\ s.rows = <<>> /\ DOMAIN s = {"name", "aliases", "rows"}
        /\ c.rows = 0 /\ c.strings = 0
    OBVIOUS
  <2>3. <<>> \in [1 .. 0 -> Seq(Nat)] /\ <<>> \in Seq([at : Nat, word : Values]) /\ Len(<<>>) = 0 /\ DOMAIN <<>> = {}
        /\ IsList(<<>>)
    <3>1. <<>> \in Seq({})
      OBVIOUS
    <3> QED  BY <3>1 DEF IsList
  <2> HIDE DEF f, s, c
  <2>4. SetsFit(f)
    BY <2>1, <2>3 DEF SetsFit
  <2>5. ShapeFits(f)
    BY <2>1 DEF ShapeFits
  <2>6. StringsFit(f)
    BY <2>1, <2>3 DEF StringsFit, OneWordEach
  <2>7. Told(f, s)
    <3>1. Len(s.rows) = 0 /\ IsList(s.rows) /\ \A r \in 1 .. 0 : RowTold(f, s.rows[r], r)
      BY <2>2, <2>3
    <3> QED  BY <2>1, <2>2, <3>1 DEF Told
  <2> QED  BY <2>1, <2>2, <2>4, <2>5, <2>6, <2>7 DEF EntryInv
<1>5. n \in Nat /\ Len(stated) = n /\ Len(capacity) = n /\ DOMAIN entries = 1 .. n
  BY <1>3, ListParts DEF ListsFit
<1>6. f.name = name /\ \A k \in 1 .. n : entries[k].name # name
  BY <1>5 DEF NewEntry
<1>7. f.v_width = 0 /\ f.w_width = 0
  BY DEF NewEntry
<1> HIDE DEF f, s, c, n
<1>8. /\ IsList(entries') /\ Len(entries') = n + 1 /\ entries'[n + 1] = f /\ DOMAIN entries' = 1 .. n + 1
      /\ \A k \in 1 .. n : entries'[k] = entries[k]
  <2>1. IsList(entries) /\ entries' = Append(entries, f)
    BY <1>1, <1>3 DEF ListsFit, f
  <2>2. Appended(entries, f, entries')
    BY <2>1, ListAppend
  <2> QED  BY <1>5, <2>2 DEF n, Appended
<1>9. IsList(stated') /\ Len(stated') = n + 1 /\ stated'[n + 1] = s /\ \A k \in 1 .. n : stated'[k] = stated[k]
  <2>1. IsList(stated) /\ stated' = Append(stated, s)
    BY <1>1, <1>3 DEF ListsFit, s
  <2>2. Appended(stated, s, stated')
    BY <2>1, ListAppend
  <2> QED  BY <1>5, <2>2 DEF Appended
<1>10. IsList(capacity') /\ Len(capacity') = n + 1 /\ capacity'[n + 1] = c /\ \A k \in 1 .. n : capacity'[k] = capacity[k]
  <2>1. IsList(capacity) /\ capacity' = Append(capacity, c)
    BY <1>2, <1>3 DEF ListsFit, c
  <2>2. Appended(capacity, c, capacity')
    BY <2>1, ListAppend
  <2> QED  BY <1>5, <2>2 DEF Appended
<1>11. \A k \in 1 .. n + 1 : EntryInv(entries'[k], stated'[k], capacity'[k])
  <2> TAKE k \in 1 .. n + 1
  <2>1. CASE k = n + 1
    BY <1>4, <1>8, <1>9, <1>10, <2>1
  <2>2. CASE k # n + 1
    <3>1. k \in 1 .. n
      BY <1>5, <2>2
    <3>2. EntryInv(entries[k], stated[k], capacity[k])
      BY <1>3, <3>1 DEF ListsFit, n
    <3>3. entries'[k] = entries[k] /\ stated'[k] = stated[k] /\ capacity'[k] = capacity[k]
      BY <1>8, <1>9, <1>10, <3>1
    <3> QED  BY <3>2, <3>3
  <2> QED  BY <2>1, <2>2
<1>12. ListsFit'
  BY <1>8, <1>9, <1>10, <1>11 DEF ListsFit
<1>13. NamesDiffer'
  <2> SUFFICES ASSUME NEW i \in 1 .. n + 1, NEW j \in 1 .. n + 1, entries'[i].name = entries'[j].name PROVE i = j
    BY <1>8 DEF NamesDiffer
  <2>1. CASE i \in 1 .. n /\ j \in 1 .. n
    BY <1>3, <1>5, <1>8, <2>1 DEF NamesDiffer
  <2>2. CASE i \in 1 .. n /\ j = n + 1
    BY <1>6, <1>8, <2>2
  <2>3. CASE i = n + 1 /\ j \in 1 .. n
    BY <1>6, <1>8, <2>3
  <2>4. (i \in 1 .. n \/ i = n + 1) /\ (j \in 1 .. n \/ j = n + 1)
    BY <1>5
  <2> QED  BY <2>1, <2>2, <2>3, <2>4
<1>14. ScratchFits'
  BY <1>2, <1>3, <1>5, <1>7, <1>8 DEF ScratchFits
<1> QED  BY <1>2, <1>12, <1>13, <1>14 DEF DistInv

(* What lists of records become when fields of one of them change.         *)
TypesInList(s, n, x, y) == [s EXCEPT ![n].v_width = x, ![n].value_sets = y]
TypesOf(e, x, y) == [e EXCEPT !.v_width = x, !.value_sets = y]
WeightsInList(s, n, x, y) == [s EXCEPT ![n].w_width = x, ![n].weight_sets = y]
WeightsOf(e, x, y) == [e EXCEPT !.w_width = x, !.weight_sets = y]

LEMMA WithTypes ==
  ASSUME NEW s, IsList(s), NEW n \in 1 .. Len(s), NEW x, NEW y
  PROVE  TypesInList(s, n, x, y) = [s EXCEPT ![n] = TypesOf(s[n], x, y)]
  BY DEF IsList, TypesInList, TypesOf

LEMMA WithWeights ==
  ASSUME NEW s, IsList(s), NEW n \in 1 .. Len(s), NEW x, NEW y
  PROVE  WeightsInList(s, n, x, y) = [s EXCEPT ![n] = WeightsOf(s[n], x, y)]
  BY DEF IsList, WeightsInList, WeightsOf

LEMMA WithNames ==
  ASSUME NEW s, IsList(s), NEW n \in 1 .. Len(s), NEW x
  PROVE  [s EXCEPT ![n].names = x] = [s EXCEPT ![n] = [s[n] EXCEPT !.names = x]]
  BY DEF IsList

LEMMA WithAliases ==
  ASSUME NEW s, IsList(s), NEW n \in 1 .. Len(s), NEW x
  PROVE  [s EXCEPT ![n].aliases = x] = [s EXCEPT ![n] = [s[n] EXCEPT !.aliases = x]]
  BY DEF IsList

\* The current distribution became f and is said to be s.
Becomes(n, f, s, c) ==
  /\ entries' = [entries EXCEPT ![n] = f] /\ stated' = [stated EXCEPT ![n] = s]
  /\ capacity' = [capacity EXCEPT ![n] = c]

Became(n, f) == ListsFit' /\ NamesDiffer' /\ Len(entries') = n /\ entries'[n] = f

LEMMA BecomesFits ==
  ASSUME DistInv, NEW n, n = Len(entries), n > 0, NEW f, NEW s, NEW c,
         Becomes(n, f, s, c), EntryInv(f, s, c), f.name = entries[n].name
  PROVE  Became(n, f)
<1>1. ListsFit /\ NamesDiffer
  BY DEF DistInv
<1> QED  BY <1>1, CurrentUpdated DEF Becomes, Became

(* A distribution without rows, of other sets.                             *)
LEMMA EarlyEntry ==
  ASSUME NEW e, NEW s, NEW c, EntryInv(e, s, c), e.length = 0, NEW f, Fields(f), SetsFit(f), ShapeFits(f),
         f.name = e.name, f.length = 0, f.names = e.names, f.strings = e.strings, f.str_space = e.str_space
  PROVE  EntryInv(f, s, c)
<1>1. StringsFit(f)
  BY DEF EntryInv, StringsFit
<1>2. Told(f, s)
  <2>1. e.name = s.name /\ e.names = s.aliases /\ IsList(s.rows) /\ Len(s.rows) = 0 /\ DOMAIN s = {"name", "aliases", "rows"}
    BY DEF EntryInv, Told
  <2>2. \A r \in 1 .. 0 : RowTold(f, s.rows[r], r)
    OBVIOUS
  <2> QED  BY <2>1, <2>2 DEF Told
<1> QED  BY <1>1, <1>2 DEF EntryInv

LEMMA NoRows ==
  ASSUME NEW v \in Nat
  PROVE  [i \in 1 .. v |-> <<>>] \in [1 .. v -> Seq(Nat)] /\ \A i \in 1 .. v : Len([k \in 1 .. v |-> <<>>][i]) = 0
<1>1. <<>> \in Seq(Nat) /\ Len(<<>>) = 0
  OBVIOUS
<1> QED  BY <1>1

LEMMA ShapeParts ==
  ASSUME NEW shape \in Shapes
  PROVE  shape[1] \in Nat /\ shape[1] # 0 /\ shape[2] \in Nat /\ shape[2] # 0
  BY DistributionsAssumption

\* A distribution with its types, its weights or its aliases set.
OfTypes(e, v) == [e EXCEPT !.v_width = v, !.value_sets = [i \in 1 .. v |-> <<>>]]
OfWeights(e, w) == [e EXCEPT !.w_width = w, !.weight_sets = [i \in 1 .. w |-> <<>>]]
AliasesOf(e) == SubSeq(Aliases, 1, e.v_width + e.w_width)
OfNames(e) == [e EXCEPT !.names = AliasesOf(e)]
OfAliases(s, e) == [s EXCEPT !.aliases = AliasesOf(e)]

\* A distribution that may take the place of e.
Follows(e, f, s, c, v, w) == EntryInv(f, s, c) /\ f.name = e.name /\ f.v_width = v /\ f.w_width = w

LEMMA TypesSet ==
  ASSUME NEW e, NEW s, NEW c, EntryInv(e, s, c), e.v_width = 0, NEW shape \in Shapes, e.w_width \in {0, shape[2]},
         NEW f, f = OfTypes(e, shape[1])
  PROVE  Follows(e, f, s, c, shape[1], e.w_width)
<1> DEFINE v == shape[1]
           sets == [i \in 1 .. v |-> <<>>]
<1>1. v \in Nat /\ v # 0 /\ shape[2] \in Nat
  BY ShapeParts
<1>2. Fields(e) /\ SetsFit(e) /\ ShapeFits(e)
  BY DEF EntryInv
<1>3. e.length = 0 /\ e.names = <<>>
  BY <1>2 DEF ShapeFits
<1>4. sets \in [1 .. v -> Seq(Nat)] /\ \A i \in 1 .. v : Len(sets[i]) = 0
  BY <1>1, NoRows
<1>5. f = [e EXCEPT !.v_width = v, !.value_sets = sets]
  BY DEF OfTypes
<1> HIDE DEF v, sets
<1>6. /\ f.name = e.name /\ f.length = e.length /\ f.v_width = v /\ f.w_width = e.w_width /\ f.weight_sets = e.weight_sets
      /\ f.value_sets = sets /\ f.names = e.names /\ f.strings = e.strings /\ f.str_space = e.str_space
      /\ DOMAIN f = DOMAIN e
  BY <1>2, <1>5 DEF Fields
<1>7. Fields(f)
  BY <1>2, <1>6 DEF Fields
<1>8. SetsFit(f)
  BY <1>1, <1>2, <1>3, <1>4, <1>6 DEF SetsFit
<1>9. ShapeFits(f)
  <2>1. shape[1] = f.v_width
    BY <1>6 DEF v
  <2> QED  BY <1>1, <1>2, <1>3, <1>6, <2>1 DEF ShapeFits
<1>10. EntryInv(f, s, c)
  BY <1>3, <1>6, <1>7, <1>8, <1>9, EarlyEntry
<1> QED  BY <1>6, <1>10 DEF v, Follows

LEMMA WeightsSet ==
  ASSUME NEW e, NEW s, NEW c, EntryInv(e, s, c), e.w_width = 0, NEW shape \in Shapes, e.v_width \in {0, shape[1]},
         NEW f, f = OfWeights(e, shape[2])
  PROVE  Follows(e, f, s, c, e.v_width, shape[2])
<1> DEFINE w == shape[2]
           sets == [i \in 1 .. w |-> <<>>]
<1>1. w \in Nat /\ w # 0 /\ shape[1] \in Nat
  BY ShapeParts
<1>2. Fields(e) /\ SetsFit(e) /\ ShapeFits(e)
  BY DEF EntryInv
<1>3. e.length = 0 /\ e.names = <<>>
  BY <1>2 DEF ShapeFits
<1>4. sets \in [1 .. w -> Seq(Nat)] /\ \A i \in 1 .. w : Len(sets[i]) = 0
  BY <1>1, NoRows
<1>5. f = [e EXCEPT !.w_width = w, !.weight_sets = sets]
  BY DEF OfWeights
<1> HIDE DEF w, sets
<1>6. /\ f.name = e.name /\ f.length = e.length /\ f.w_width = w /\ f.v_width = e.v_width /\ f.value_sets = e.value_sets
      /\ f.weight_sets = sets /\ f.names = e.names /\ f.strings = e.strings /\ f.str_space = e.str_space
      /\ DOMAIN f = DOMAIN e
  BY <1>2, <1>5 DEF Fields
<1>7. Fields(f)
  BY <1>2, <1>6 DEF Fields
<1>8. SetsFit(f)
  BY <1>1, <1>2, <1>3, <1>4, <1>6 DEF SetsFit
<1>9. ShapeFits(f)
  <2>1. shape[2] = f.w_width
    BY <1>6 DEF w
  <2> QED  BY <1>1, <1>2, <1>3, <1>6, <2>1 DEF ShapeFits
<1>10. EntryInv(f, s, c)
  BY <1>3, <1>6, <1>7, <1>8, <1>9, EarlyEntry
<1> QED  BY <1>6, <1>10 DEF w, Follows

(* Aliases may be given at any time.                                       *)
LEMMA NamesSet ==
  ASSUME NEW e, NEW s, NEW c, EntryInv(e, s, c), e.v_width > 0, e.w_width > 0,
         NEW f, f = OfNames(e), NEW t, t = OfAliases(s, e)
  PROVE  Follows(e, f, t, c, e.v_width, e.w_width)
<1> DEFINE aliases == SubSeq(Aliases, 1, e.v_width + e.w_width)
<1>1. Fields(e) /\ SetsFit(e) /\ ShapeFits(e) /\ StringsFit(e) /\ Told(e, s)
  BY DEF EntryInv
<1>10. f = [e EXCEPT !.names = aliases] /\ t = [s EXCEPT !.aliases = aliases]
  BY DEF OfNames, OfAliases, AliasesOf
<1>11. aliases = SubSeq(Aliases, 1, e.v_width + e.w_width)
  OBVIOUS
<1> HIDE DEF aliases
<1>2. /\ f.name = e.name /\ f.length = e.length /\ f.w_width = e.w_width /\ f.v_width = e.v_width
      /\ f.value_sets = e.value_sets /\ f.weight_sets = e.weight_sets /\ f.names = aliases /\ f.strings = e.strings
      /\ f.str_space = e.str_space /\ DOMAIN f = DOMAIN e
  BY <1>1, <1>10 DEF Fields
<1>3. t.name = s.name /\ t.rows = s.rows /\ t.aliases = aliases /\ DOMAIN t = DOMAIN s
  BY <1>1, <1>10 DEF Told
<1>4. Fields(f)
  BY <1>1, <1>2 DEF Fields
<1>5. SetsFit(f)
  BY <1>1, <1>2 DEF SetsFit
<1>6. ShapeFits(f)
  BY <1>1, <1>2, <1>11 DEF ShapeFits, SetsFit
<1>7. StringsFit(f)
  BY <1>1, <1>2 DEF StringsFit
<1>8. Told(f, t)
  <2>1. ASSUME NEW r \in 1 .. f.length PROVE RowTold(f, t.rows[r], r)
    <3>1. RowTold(e, s.rows[r], r)
      BY <1>1, <1>2 DEF Told
    <3> QED  BY <1>2, <1>3, <3>1 DEF RowTold
  <2> QED  BY <1>1, <1>2, <1>3, <2>1 DEF Told
<1> QED  BY <1>2, <1>4, <1>5, <1>6, <1>7, <1>8 DEF EntryInv, Follows

LEMMA TypesKeep == DistInv /\ SetTypes => DistInv'
<1> SUFFICES ASSUME DistInv, SetTypes PROVE DistInv'
  OBVIOUS
<1> DEFINE n == CurrentEntry
           e == entries[n]
           s == stated[n]
           c == capacity[n]
<1>1. PICK shape \in Shapes :
         /\ e.w_width \in {0, shape[2]}
         /\ entries' = [entries EXCEPT ![n].v_width = shape[1], ![n].value_sets = [i \in 1 .. shape[1] |-> <<>>]]
         /\ arValueLengths' =
              IF shape[1] > nMaxValueWidth
                THEN [i \in 1 .. shape[1] |-> IF i <= nMaxValueWidth THEN arValueLengths[i] ELSE -1]
                ELSE arValueLengths
         /\ nMaxValueWidth' = shape[1]
  BY DEF SetTypes
<1>2. /\ n > 0 /\ e.v_width = 0 /\ fileSize = 0 /\ fileSize' = 0 /\ capacity' = capacity /\ stated' = stated
      /\ nMaxWeightWidth' = nMaxWeightWidth /\ arWeights' = arWeights /\ overrun' = overrun
  BY DEF SetTypes, Parsing
<1>3. /\ n = Len(entries) /\ n \in 1 .. Len(entries) /\ EntryInv(e, s, c)
      /\ IsList(entries) /\ IsList(stated) /\ IsList(capacity) /\ n \in 1 .. Len(stated) /\ n \in 1 .. Len(capacity)
  BY <1>2, CurrentFacts
<1> DEFINE v == shape[1]
           sets == [i \in 1 .. v |-> <<>>]
           f == [e EXCEPT !.v_width = v, !.value_sets = sets]
<1>4. v \in Nat
  BY ShapeParts
<1> HIDE DEF n
<1>5. EntryInv(f, s, c) /\ f.name = e.name /\ f.v_width = v /\ f.w_width = e.w_width
  <2>1. EntryInv(e, s, c) /\ e.w_width \in {0, shape[2]} /\ e.v_width = 0
    BY <1>1, <1>2, <1>3
  <2>2. f = OfTypes(e, shape[1])
    BY DEF OfTypes
  <2> HIDE DEF e, s, c, f
  <2>3. Follows(e, f, s, c, shape[1], e.w_width)
    BY <2>1, <2>2, TypesSet
  <2> QED  BY <2>3 DEF Follows, v
<1>6. Becomes(n, f, s, c)
  <2> HIDE DEF v, sets
  <2>1. entries' = [entries EXCEPT ![n] = f]
    <3>1. entries' = TypesInList(entries, n, v, sets) /\ f = TypesOf(e, v, sets)
      BY <1>1 DEF TypesInList, TypesOf, v, sets
    <3>2. TypesInList(entries, n, v, sets) = [entries EXCEPT ![n] = TypesOf(e, v, sets)]
      BY <1>3, WithTypes
    <3> QED  BY <3>1, <3>2
  <2>2. stated' = [stated EXCEPT ![n] = s] /\ capacity' = [capacity EXCEPT ![n] = c]
    BY <1>2, <1>3, ListSame
  <2> QED  BY <2>1, <2>2 DEF Becomes
<1> HIDE DEF s, c, v, f
<1>7. Became(n, f)
  BY <1>2, <1>3, <1>5, <1>6, BecomesFits
<1>8. ScratchFits'
  <2>1. /\ arValueLengths \in Seq(Int) /\ nMaxValueWidth \in Nat /\ nMaxValueWidth <= Len(arValueLengths)
        /\ nMaxWeightWidth = 0 /\ arWeights \in Nat /\ e.w_width <= arWeights /\ overrun = FALSE
    BY <1>2, <1>3 DEF DistInv, ScratchFits
  <2>2. arValueLengths' \in Seq(Int) /\ v <= Len(arValueLengths')
    <3>1. CASE v > nMaxValueWidth
      <4> DEFINE a == [i \in 1 .. v |-> IF i <= nMaxValueWidth THEN arValueLengths[i] ELSE -1]
      <4>1. arValueLengths' = a
        BY <1>1, <3>1 DEF v
      <4>2. \A i \in 1 .. v : (IF i <= nMaxValueWidth THEN arValueLengths[i] ELSE -1) \in Int
        BY <1>4, <2>1
      <4>3. a \in Seq(Int) /\ Len(a) = v
        BY <1>4, <4>2
      <4> QED  BY <1>4, <4>1, <4>3
    <3>2. CASE ~(v > nMaxValueWidth)
      <4>1. arValueLengths' = arValueLengths
        BY <1>1, <3>2 DEF v
      <4> QED  BY <1>4, <2>1, <3>2, <4>1
    <3> QED  BY <3>1, <3>2
  <2>3. nMaxValueWidth' = v
    BY <1>1 DEF v
  <2>4. entries'[Len(entries')].v_width = v /\ entries'[Len(entries')].w_width = e.w_width
    BY <1>5, <1>7 DEF Became
  <2> QED  BY <1>2, <1>4, <2>1, <2>2, <2>3, <2>4 DEF ScratchFits
<1> QED  BY <1>2, <1>7, <1>8 DEF DistInv, Became

LEMMA WeightsKeep == DistInv /\ SetWeights => DistInv'
<1> SUFFICES ASSUME DistInv, SetWeights PROVE DistInv'
  OBVIOUS
<1> DEFINE n == CurrentEntry
           e == entries[n]
           s == stated[n]
           c == capacity[n]
<1>1. PICK shape \in Shapes :
         /\ e.v_width \in {0, shape[1]}
         /\ entries' = [entries EXCEPT ![n].w_width = shape[2], ![n].weight_sets = [i \in 1 .. shape[2] |-> <<>>]]
         /\ arWeights' = IF shape[2] > nMaxWeightWidth THEN shape[2] ELSE arWeights
         /\ nMaxWeightWidth' = IF shape[2] > nMaxWeightWidth THEN nMaxWeightWidth ELSE shape[2]
  BY DEF SetWeights
<1>2. /\ n > 0 /\ e.w_width = 0 /\ fileSize = 0 /\ fileSize' = 0 /\ capacity' = capacity /\ stated' = stated
      /\ nMaxValueWidth' = nMaxValueWidth /\ arValueLengths' = arValueLengths /\ overrun' = overrun
  BY DEF SetWeights, Parsing
<1>3. /\ n = Len(entries) /\ n \in 1 .. Len(entries) /\ EntryInv(e, s, c)
      /\ IsList(entries) /\ IsList(stated) /\ IsList(capacity) /\ n \in 1 .. Len(stated) /\ n \in 1 .. Len(capacity)
  BY <1>2, CurrentFacts
<1> DEFINE w == shape[2]
           sets == [i \in 1 .. w |-> <<>>]
           f == [e EXCEPT !.w_width = w, !.weight_sets = sets]
<1>4. w \in Nat /\ w # 0
  BY ShapeParts
<1> HIDE DEF n
<1>5. EntryInv(f, s, c) /\ f.name = e.name /\ f.w_width = w /\ f.v_width = e.v_width
  <2>1. EntryInv(e, s, c) /\ e.v_width \in {0, shape[1]} /\ e.w_width = 0
    BY <1>1, <1>2, <1>3
  <2>2. f = OfWeights(e, shape[2])
    BY DEF OfWeights
  <2> HIDE DEF e, s, c, f
  <2>3. Follows(e, f, s, c, e.v_width, shape[2])
    BY <2>1, <2>2, WeightsSet
  <2> QED  BY <2>3 DEF Follows, w
<1>6. Becomes(n, f, s, c)
  <2> HIDE DEF w, sets
  <2>1. entries' = [entries EXCEPT ![n] = f]
    <3>1. entries' = WeightsInList(entries, n, w, sets) /\ f = WeightsOf(e, w, sets)
      BY <1>1 DEF WeightsInList, WeightsOf, w, sets
    <3>2. WeightsInList(entries, n, w, sets) = [entries EXCEPT ![n] = WeightsOf(e, w, sets)]
      BY <1>3, WithWeights
    <3> QED  BY <3>1, <3>2
  <2>2. stated' = [stated EXCEPT ![n] = s] /\ capacity' = [capacity EXCEPT ![n] = c]
    BY <1>2, <1>3, ListSame
  <2> QED  BY <2>1, <2>2 DEF Becomes
<1> HIDE DEF s, c, w, f
<1>7. Became(n, f)
  BY <1>2, <1>3, <1>5, <1>6, BecomesFits
<1>8. ScratchFits'
  <2>1. /\ arValueLengths \in Seq(Int) /\ nMaxValueWidth \in Nat /\ nMaxValueWidth <= Len(arValueLengths)
        /\ nMaxWeightWidth = 0 /\ arWeights \in Nat /\ e.v_width <= nMaxValueWidth /\ overrun = FALSE
    BY <1>2, <1>3 DEF DistInv, ScratchFits
  <2>2. arWeights' = w /\ nMaxWeightWidth' = 0
    BY <1>1, <1>4, <2>1 DEF w
  <2>3. entries'[Len(entries')].w_width = w /\ entries'[Len(entries')].v_width = e.v_width
    BY <1>5, <1>7 DEF Became
  <2> QED  BY <1>2, <1>4, <2>1, <2>2, <2>3 DEF ScratchFits
<1> QED  BY <1>2, <1>7, <1>8 DEF DistInv, Became

LEMMA NamesKeep == DistInv /\ SetNames => DistInv'
<1> SUFFICES ASSUME DistInv, SetNames PROVE DistInv'
  OBVIOUS
<1> DEFINE n == CurrentEntry
           e == entries[n]
           s == stated[n]
           c == capacity[n]
           aliases == SubSeq(Aliases, 1, e.v_width + e.w_width)
           f == [e EXCEPT !.names = aliases]
           t == [s EXCEPT !.aliases = aliases]
<1>1. entries' = [entries EXCEPT ![n].names = aliases] /\ stated' = [stated EXCEPT ![n].aliases = aliases]
  BY DEF SetNames, ProcessNames
<1>2. /\ n > 0 /\ e.v_width > 0 /\ e.w_width > 0 /\ fileSize = 0 /\ fileSize' = 0 /\ capacity' = capacity
      /\ nMaxValueWidth' = nMaxValueWidth /\ arValueLengths' = arValueLengths /\ overrun' = overrun
      /\ nMaxWeightWidth' = nMaxWeightWidth /\ arWeights' = arWeights
  BY DEF SetNames, Parsing
<1>3. /\ n = Len(entries) /\ n \in 1 .. Len(entries) /\ EntryInv(e, s, c)
      /\ IsList(entries) /\ IsList(stated) /\ IsList(capacity) /\ n \in 1 .. Len(stated) /\ n \in 1 .. Len(capacity)
  BY <1>2, CurrentFacts
<1> HIDE DEF n
<1>4. EntryInv(f, t, c) /\ f.name = e.name /\ f.w_width = e.w_width /\ f.v_width = e.v_width
  <2>1. EntryInv(e, s, c) /\ e.v_width > 0 /\ e.w_width > 0
    BY <1>2, <1>3
  <2>2. f = OfNames(e) /\ t = OfAliases(s, e)
    BY DEF OfNames, OfAliases, AliasesOf
  <2> HIDE DEF e, s, c, f, t, aliases
  <2>3. Follows(e, f, t, c, e.v_width, e.w_width)
    BY <2>1, <2>2, NamesSet
  <2> QED  BY <2>3 DEF Follows
<1>5. Becomes(n, f, t, c)
  <2> HIDE DEF aliases
  <2>1. entries' = [entries EXCEPT ![n] = f] /\ stated' = [stated EXCEPT ![n] = t]
    <3>1. [entries EXCEPT ![n].names = aliases] = [entries EXCEPT ![n] = f]
      BY <1>3, WithNames
    <3>2. [stated EXCEPT ![n].aliases = aliases] = [stated EXCEPT ![n] = t]
      BY <1>3, WithAliases
    <3> QED  BY <1>1, <3>1, <3>2
  <2>2. capacity' = [capacity EXCEPT ![n] = c]
    BY <1>2, <1>3, ListSame
  <2> QED  BY <2>1, <2>2 DEF Becomes
<1> HIDE DEF s, c, f, t
<1>6. Became(n, f)
  BY <1>2, <1>3, <1>4, <1>5, BecomesFits
<1>7. ScratchFits'
  <2>1. entries'[Len(entries')].v_width = e.v_width /\ entries'[Len(entries')].w_width = e.w_width
    BY <1>4, <1>6 DEF Became
  <2> QED  BY <1>2, <1>3, <1>6, <2>1 DEF DistInv, ScratchFits, Became
<1> QED  BY <1>2, <1>6, <1>7 DEF DistInv, Became

(* As much as all together is enough for each, many times.                 *)
LEMMA SumBelow ==
  ASSUME NEW n \in Nat, NEW v \in Nat, NEW b \in Nat, NEW s, \A i \in 1 .. n : s[i] \in Nat /\ v * s[i] <= b
  PROVE  v * SumTo(s, n) <= b * n
<1> DEFINE T == {k \in 0 .. n : v * SumTo(s, k) <= b * k}
<1>1. /\ SumTo(s, 0) = 0 /\ \A i \in 1 .. n : SumTo(s, i) = SumTo(s, i - 1) + s[i]
      /\ \A i \in 0 .. n : SumTo(s, i) \in Nat
  BY SumSteps
<1>2. 0 \in T
  BY <1>1
<1>3. ASSUME NEW k \in 1 .. n, k - 1 \in T PROVE k \in T
  <2> DEFINE a == SumTo(s, k - 1)   x == s[k]   m == k - 1
  <2>1. v * a <= b * m /\ m \in Nat /\ k = m + 1
    BY <1>3
  <2>2. a \in Nat /\ x \in Nat /\ v * x <= b /\ SumTo(s, k) = a + x
    BY <1>1
  <2> HIDE DEF a, x, m
  <2>3. v * (a + x) = v * a + v * x /\ b * (m + 1) = b * m + b /\ v * a \in Int /\ v * x \in Int /\ b * m \in Int
    BY <2>1, <2>2
  <2>4. v * (a + x) <= b * (m + 1)
    <3> DEFINE p == v * a   q == v * x   r == b * m
    <3>1. p \in Int /\ q \in Int /\ r \in Int /\ p <= r /\ q <= b
      BY <2>1, <2>2, <2>3
    <3> HIDE DEF p, q, r
    <3>2. p + q <= r + b
      BY <3>1
    <3> QED  BY <2>3, <3>2 DEF p, q, r
  <2>5. v * SumTo(s, k) <= b * k
    BY <2>1, <2>2, <2>4
  <2> QED  BY <1>3, <2>5
<1> HIDE DEF T
<1>4. \A k \in 0 .. n : k \in T
  BY <1>2, <1>3, Upwards
<1> QED  BY <1>4 DEF T

LEMMA TimesLess ==
  ASSUME NEW v \in Nat \ {0}, NEW a \in Nat, NEW b \in Nat, v * a <= b * v
  PROVE  a <= b
<1> SUFFICES ASSUME a >= b + 1 PROVE FALSE
  OBVIOUS
<1>1. PICK d \in Nat : a = (b + 1) + d
  <2>1. a - (b + 1) \in Nat /\ a = (b + 1) + (a - (b + 1))
    OBVIOUS
  <2> QED  BY <2>1
<1>2. v * a = v * b + v + v * d /\ v * b = b * v /\ v * d \in Nat /\ v * b \in Nat
  BY <1>1
<1> QED  BY <1>2

\* The bytes of the values of a row.
Lengths(words) == [i \in DOMAIN words |-> ValueLength[words[i]] + 1]

(* Where the values of a row begin: within the strings they are added to,  *)
(* each in a place of its own, and a block has space for all of them.      *)
LEMMA RowPlaces ==
  ASSUME NEW shape \in Shapes, NEW v, v = shape[1], NEW words \in [1 .. v -> Values]
  PROVE  /\ SumTo(Lengths(words), v) \in Nat /\ SumTo(Lengths(words), v) <= StrSpace
         /\ \A i \in 1 .. v : SumTo(Lengths(words), i - 1) \in Nat /\ SumTo(Lengths(words), i - 1) < SumTo(Lengths(words), v)
         /\ \A i, j \in 1 .. v : SumTo(Lengths(words), i - 1) = SumTo(Lengths(words), j - 1) => i = j
<1> DEFINE s == Lengths(words)
<1>1. v \in Nat /\ v # 0 /\ StrSpace \in Nat /\ \A word \in Values : v * (ValueLength[word] + 1) <= StrSpace
  BY ShapeParts, DistributionsAssumption
<1>2. \A i \in 1 .. v : s[i] = ValueLength[words[i]] + 1 /\ words[i] \in Values
  BY DEF Lengths
<1>3. \A word \in Values : ValueLength[word] \in Nat
  BY DistributionsAssumption
<1> HIDE DEF s
<1>4. \A i \in 1 .. v : s[i] \in Nat /\ s[i] > 0 /\ v * s[i] <= StrSpace
  BY <1>1, <1>2, <1>3
<1>5. \A i \in 0 .. v : SumTo(s, i) \in Nat
  BY <1>1, <1>4, SumSteps
<1>6. SumTo(s, v) \in Nat
  BY <1>1, <1>5
<1>7. SumTo(s, v) <= StrSpace
  <2>1. v * SumTo(s, v) <= StrSpace * v
    BY <1>1, <1>4, SumBelow
  <2> QED  BY <1>1, <1>6, <2>1, TimesLess
<1>8. \A i \in 0 .. v, j \in 0 .. v : i < j => SumTo(s, i) < SumTo(s, j)
  <2> TAKE i \in 0 .. v, j \in 0 .. v
  <2> HAVE i < j
  <2>1. j \in i .. v /\ j \in 1 .. v /\ j > i
    OBVIOUS
  <2>2. s[j] > 0
    BY <1>4, <2>1
  <2> QED  BY <1>1, <1>4, <2>1, <2>2, SumsGrow
<1>9. ASSUME NEW i \in 1 .. v PROVE SumTo(s, i - 1) \in Nat /\ SumTo(s, i - 1) < SumTo(s, v)
  <2>1. i - 1 \in 0 .. v /\ v \in 0 .. v /\ i - 1 < v
    BY <1>1
  <2> QED  BY <1>5, <1>8, <2>1
<1>10. ASSUME NEW i \in 1 .. v, NEW j \in 1 .. v, SumTo(s, i - 1) = SumTo(s, j - 1) PROVE i = j
  <2>1. i - 1 \in 0 .. v /\ j - 1 \in 0 .. v
    BY <1>1
  <2>2. ~(i - 1 < j - 1) /\ ~(j - 1 < i - 1)
    <3>1. SumTo(s, i - 1) \in Nat /\ SumTo(s, j - 1) \in Nat
      BY <1>5, <2>1
    <3> QED  BY <1>8, <1>10, <2>1, <3>1
  <2> QED  BY <2>2
<1> QED  BY <1>6, <1>7, <1>9, <1>10 DEF s

\* Each of the sets has x behind what it had.
SetsGrown(sets, v, n, x, g) ==
  /\ g \in [1 .. v -> Seq(Nat)]
  /\ \A i \in 1 .. v : Len(g[i]) = n + 1 /\ g[i][n + 1] = x[i] /\ \A r \in 1 .. n : g[i][r] = sets[i][r]

LEMMA SetsGrow ==
  ASSUME NEW v \in Nat, NEW n \in Nat, NEW sets \in [1 .. v -> Seq(Nat)], \A i \in 1 .. v : Len(sets[i]) = n,
         NEW x, \A i \in 1 .. v : x[i] \in Nat, NEW g, g = [i \in DOMAIN sets |-> Append(sets[i], x[i])]
  PROVE  SetsGrown(sets, v, n, x, g)
<1>1. ASSUME NEW i \in 1 .. v
      PROVE  /\ Append(sets[i], x[i]) \in Seq(Nat) /\ Len(Append(sets[i], x[i])) = n + 1
             /\ Append(sets[i], x[i])[n + 1] = x[i] /\ \A r \in 1 .. n : Append(sets[i], x[i])[r] = sets[i][r]
  <2> DEFINE q == sets[i]   y == x[i]
  <2>1. q \in Seq(Nat) /\ Len(q) = n /\ y \in Nat
    OBVIOUS
  <2> HIDE DEF q, y
  <2>2. /\ Append(q, y) \in Seq(Nat) /\ Len(Append(q, y)) = n + 1
        /\ Append(q, y)[n + 1] = y /\ \A r \in 1 .. n : Append(q, y)[r] = q[r]
    BY <2>1
  <2> QED  BY <2>2 DEF q, y
<1>2. DOMAIN g = 1 .. v /\ \A i \in 1 .. v : g[i] = Append(sets[i], x[i])
  OBVIOUS
<1>3. g \in [1 .. v -> Seq(Nat)]
  <2>1. g = [i \in 1 .. v |-> g[i]]
    OBVIOUS
  <2>2. \A i \in 1 .. v : g[i] \in Seq(Nat)
    BY <1>1, <1>2
  <2> QED  BY <2>1, <2>2
<1>4. \A i \in 1 .. v : Len(g[i]) = n + 1 /\ g[i][n + 1] = x[i] /\ \A r \in 1 .. n : g[i][r] = sets[i][r]
  BY <1>1, <1>2
<1> QED  BY <1>3, <1>4 DEF SetsGrown

\* Strings of which each begins before space, in a place of its own.
StringsWithin(strings, space) ==
  /\ strings \in Seq([at : Nat, word : Values])
  /\ \A k \in DOMAIN strings : strings[k].at < space
  /\ OneWordEach(strings)

\* The strings hold what they held, and the words at their places.
Holding(strings, more, new) ==
  /\ \A at, word : Holds(strings, at, word) => Holds(more, at, word)
  /\ \A i \in DOMAIN new : Holds(more, new[i].at, new[i].word)

LEMMA StringsGrow ==
  ASSUME NEW strings, NEW space \in Nat, StringsWithin(strings, space), NEW v \in Nat, NEW end \in Nat,
         NEW new \in [1 .. v -> [at : Nat, word : Values]],
         \A i \in 1 .. v : space <= new[i].at /\ new[i].at < end,
         \A i, j \in 1 .. v : new[i].at = new[j].at => i = j,
         space <= end
  PROVE  StringsWithin(strings \o new, end) /\ Holding(strings, strings \o new, new)
<1> DEFINE R == [at : Nat, word : Values]
           m == Len(strings)
           q == strings \o new
<1>1. strings \in Seq(R) /\ new \in Seq(R) /\ Len(new) = v /\ DOMAIN new = 1 .. v /\ DOMAIN strings = 1 .. m
  <2>1. strings \in Seq(R) /\ new \in [1 .. v -> R]
    BY DEF StringsWithin
  <2> HIDE DEF R
  <2> QED  BY <2>1
<1>2. \A x \in R : x.at \in Nat
  OBVIOUS
<1>3. (\A k \in DOMAIN strings : strings[k].at < space) /\ OneWordEach(strings)
  BY DEF StringsWithin
<1> HIDE DEF R
<1>4. q \in Seq(R) /\ Len(q) = m + v /\ m \in Nat /\ DOMAIN q = 1 .. m + v
      /\ (\A k \in 1 .. m : q[k] = strings[k]) /\ \A k \in 1 .. v : q[m + k] = new[k]
  BY <1>1
<1> HIDE DEF q, m
<1>5. ASSUME NEW k \in 1 .. m PROVE q[k] = strings[k] /\ k \in DOMAIN strings /\ q[k].at \in Nat /\ q[k].at < space
  <2>1. q[k] = strings[k] /\ k \in DOMAIN strings /\ strings[k] \in R
    BY <1>1, <1>4
  <2> QED  BY <1>2, <1>3, <2>1
<1>6. ASSUME NEW k \in 1 .. m + v, k \notin 1 .. m
      PROVE  k - m \in 1 .. v /\ q[k] = new[k - m] /\ q[k].at \in Nat /\ space <= q[k].at /\ q[k].at < end
  <2>1. k - m \in 1 .. v /\ m + (k - m) = k
    BY <1>4, <1>6
  <2>2. q[k] = new[k - m] /\ new[k - m] \in R
    BY <1>1, <1>4, <2>1
  <2> QED  BY <1>2, <2>1, <2>2
<1>7. \A k \in DOMAIN q : q[k].at < end
  <2> SUFFICES ASSUME NEW k \in 1 .. m + v PROVE q[k].at < end
    BY <1>4
  <2>1. CASE k \in 1 .. m
    BY <1>5, <2>1
  <2>2. CASE k \notin 1 .. m
    BY <1>6, <2>2
  <2> QED  BY <2>1, <2>2
<1>8. OneWordEach(q)
  <2> SUFFICES ASSUME NEW k \in 1 .. m + v, NEW l \in 1 .. m + v, q[k].at = q[l].at PROVE q[k].word = q[l].word
    BY <1>4 DEF OneWordEach
  <2>1. CASE k \in 1 .. m /\ l \in 1 .. m
    <3>1. q[k] = strings[k] /\ q[l] = strings[l] /\ k \in DOMAIN strings /\ l \in DOMAIN strings
      BY <1>5, <2>1
    <3> QED  BY <1>3, <3>1 DEF OneWordEach
  <2>2. CASE k \in 1 .. m /\ l \notin 1 .. m
    <3>1. q[k].at < space /\ space <= q[l].at /\ q[k].at \in Nat
      BY <1>5, <1>6, <2>2
    <3> QED  BY <3>1
  <2>3. CASE k \notin 1 .. m /\ l \in 1 .. m
    <3>1. q[l].at < space /\ space <= q[k].at /\ q[l].at \in Nat
      BY <1>5, <1>6, <2>3
    <3> QED  BY <3>1
  <2>4. CASE k \notin 1 .. m /\ l \notin 1 .. m
    <3>1. k - m \in 1 .. v /\ l - m \in 1 .. v /\ q[k] = new[k - m] /\ q[l] = new[l - m]
      BY <1>6, <2>4
    <3>2. k - m = l - m
      BY <3>1
    <3> QED  BY <3>1, <3>2
  <2> QED  BY <2>1, <2>2, <2>3, <2>4
<1>9. StringsWithin(q, end)
  BY <1>4, <1>7, <1>8 DEF StringsWithin, R
<1>10. ASSUME NEW at, NEW word, Holds(strings, at, word) PROVE Holds(q, at, word)
  <2>1. PICK k \in DOMAIN strings : strings[k].at = at /\ strings[k].word = word
    BY <1>10 DEF Holds
  <2>2. k \in DOMAIN q /\ q[k] = strings[k]
    BY <1>1, <1>4
  <2> QED  BY <2>1, <2>2 DEF Holds
<1>11. ASSUME NEW i \in DOMAIN new PROVE Holds(q, new[i].at, new[i].word)
  <2>1. m + i \in DOMAIN q /\ q[m + i] = new[i]
    BY <1>1, <1>4
  <2> QED  BY <2>1 DEF Holds
<1>12. Holding(strings, q, new)
  BY <1>10, <1>11 DEF Holding
<1> QED  BY <1>9, <1>12 DEF q

\* The distribution e, what was said of it and its space, with one row more.
WordsAt(e, words) == [i \in DOMAIN words |-> [at |-> Starts(e, words)[i], word |-> words[i]]]

OfRow(e, words, weights) ==
  [e EXCEPT !.length = @ + 1, !.weight_sets = [i \in DOMAIN @ |-> Append(@[i], weights[i])],
            !.value_sets = [i \in DOMAIN @ |-> Append(@[i], Starts(e, words)[i])],
            !.strings = @ \o WordsAt(e, words),
            !.str_space = @ + SumTo(Lengths(words), e.v_width)]

OfToldRow(s, words, weights) == [s EXCEPT !.rows = Append(@, [values |-> words, weights |-> weights])]

RowSpace(e, c) == IF c.rows = e.length THEN e.length + RowsAtOnce ELSE c.rows
WordSpace(e, c, words) ==
  IF c.strings - e.str_space <= SumTo(Lengths(words), e.v_width) THEN e.str_space + StrSpace ELSE c.strings

OfSpace(e, c, words) == [rows |-> RowSpace(e, c), strings |-> WordSpace(e, c, words)]

(* There is space for the row and for its values.                          *)
LEMMA SpaceSuffices ==
  ASSUME NEW e, NEW s, NEW c, EntryInv(e, s, c), e.v_width > 0, NEW words \in [1 .. e.v_width -> Values]
  PROVE  /\ RowSpace(e, c) \in Nat /\ WordSpace(e, c, words) \in Nat /\ e.length < RowSpace(e, c)
         /\ e.str_space + SumTo(Lengths(words), e.v_width) <= WordSpace(e, c, words)
<1> DEFINE needed == SumTo(Lengths(words), e.v_width)
<1>1. SetsFit(e) /\ ShapeFits(e) /\ c.rows \in Nat /\ c.strings \in Nat /\ e.length <= c.rows
  BY DEF EntryInv
<1>2. e.length \in Nat /\ e.str_space \in Nat /\ RowsAtOnce \in Nat \ {0} /\ StrSpace \in Nat
  BY <1>1, DistributionsAssumption DEF SetsFit
<1>3. needed \in Nat /\ needed <= StrSpace
  <2>1. PICK shape \in Shapes : e.v_width = shape[1]
    BY <1>1 DEF ShapeFits
  <2> QED  BY <2>1, RowPlaces
<1> HIDE DEF needed
<1>4. WordSpace(e, c, words) = IF c.strings - e.str_space <= needed THEN e.str_space + StrSpace ELSE c.strings
  BY DEF WordSpace, needed
<1>5. RowSpace(e, c) \in Nat /\ e.length < RowSpace(e, c)
  BY <1>1, <1>2 DEF RowSpace
<1>6. WordSpace(e, c, words) \in Nat /\ e.str_space + needed <= WordSpace(e, c, words)
  BY <1>1, <1>2, <1>3, <1>4
<1> QED  BY <1>5, <1>6 DEF needed

\* f is e with the row behind its rows.
RowBehind(e, f, words, weights) ==
  /\ f.name = e.name /\ f.v_width = e.v_width /\ f.w_width = e.w_width /\ f.names = e.names
  /\ f.length = e.length + 1 /\ f.strings = e.strings \o WordsAt(e, words)
  /\ f.str_space = e.str_space + SumTo(Lengths(words), e.v_width)
  /\ f.weight_sets = [i \in DOMAIN e.weight_sets |-> Append(e.weight_sets[i], weights[i])]
  /\ f.value_sets = [i \in DOMAIN e.value_sets |-> Append(e.value_sets[i], Starts(e, words)[i])]
  /\ DOMAIN f = DOMAIN e

LEMMA RowFields ==
  ASSUME NEW e, Fields(e), NEW words, NEW weights, NEW f, f = OfRow(e, words, weights)
  PROVE  RowBehind(e, f, words, weights)
<1> DEFINE starts == Starts(e, words)   new == WordsAt(e, words)   needed == SumTo(Lengths(words), e.v_width)
<1>1. f = [e EXCEPT !.length = @ + 1, !.weight_sets = [i \in DOMAIN @ |-> Append(@[i], weights[i])],
            !.value_sets = [i \in DOMAIN @ |-> Append(@[i], starts[i])], !.strings = @ \o new, !.str_space = @ + needed]
  BY DEF OfRow
<1> HIDE DEF starts, new, needed
<1>2. /\ f.name = e.name /\ f.v_width = e.v_width /\ f.w_width = e.w_width /\ f.names = e.names
      /\ f.length = e.length + 1 /\ f.strings = e.strings \o new /\ f.str_space = e.str_space + needed
      /\ f.weight_sets = [i \in DOMAIN e.weight_sets |-> Append(e.weight_sets[i], weights[i])]
      /\ f.value_sets = [i \in DOMAIN e.value_sets |-> Append(e.value_sets[i], starts[i])]
      /\ DOMAIN f = DOMAIN e
  BY <1>1 DEF Fields
<1> QED  BY <1>2 DEF starts, new, needed, RowBehind

LEMMA ToldFields ==
  ASSUME NEW s, DOMAIN s = {"name", "aliases", "rows"}, NEW words, NEW weights, NEW t, t = OfToldRow(s, words, weights)
  PROVE  /\ t.name = s.name /\ t.aliases = s.aliases /\ DOMAIN t = DOMAIN s
         /\ t.rows = Append(s.rows, [values |-> words, weights |-> weights])
  BY DEF OfToldRow

\* The values of a row are behind the strings of e, each in a place of its own.
WordsPlaced(e, words) ==
  /\ WordsAt(e, words) \in [1 .. e.v_width -> [at : Nat, word : Values]]
  /\ \A i \in 1 .. e.v_width :
       /\ Starts(e, words)[i] \in Nat /\ WordsAt(e, words)[i].at = Starts(e, words)[i]
       /\ WordsAt(e, words)[i].word = words[i]
       /\ e.str_space <= Starts(e, words)[i]
       /\ Starts(e, words)[i] < e.str_space + SumTo(Lengths(words), e.v_width)
  /\ \A i, j \in 1 .. e.v_width : Starts(e, words)[i] = Starts(e, words)[j] => i = j

(* Where the values of a row of e are put.                                 *)
LEMMA NewWords ==
  ASSUME NEW e, SetsFit(e), ShapeFits(e), e.v_width > 0, NEW words \in [1 .. e.v_width -> Values]
  PROVE  WordsPlaced(e, words)
<1> DEFINE v == e.v_width
           end == SumTo(Lengths(words), v)
           Before(i) == SumTo(Lengths(words), i - 1)
<1>1. e.str_space \in Nat /\ \E shape \in Shapes : v = shape[1]
  BY DEF SetsFit, ShapeFits
<1>2. /\ end \in Nat /\ \A i \in 1 .. v : Before(i) \in Nat /\ Before(i) < end
      /\ \A i, j \in 1 .. v : Before(i) = Before(j) => i = j
  BY <1>1, RowPlaces
<1>3. \A i \in 1 .. v : Starts(e, words)[i] = e.str_space + Before(i)
  BY DEF Starts, Lengths
<1>4. DOMAIN WordsAt(e, words) = 1 .. v
      /\ \A i \in 1 .. v : WordsAt(e, words)[i] = [at |-> Starts(e, words)[i], word |-> words[i]]
  BY DEF WordsAt
<1>5. WordsAt(e, words) = [i \in 1 .. v |-> WordsAt(e, words)[i]]
  BY DEF WordsAt
<1> HIDE DEF Before, end
<1>6. \A i \in 1 .. v : Starts(e, words)[i] \in Nat /\ e.str_space <= Starts(e, words)[i]
                        /\ Starts(e, words)[i] < e.str_space + end
  BY <1>1, <1>2, <1>3
<1>7. \A i, j \in 1 .. v : Starts(e, words)[i] = Starts(e, words)[j] => i = j
  BY <1>1, <1>2, <1>3
<1>8. WordsAt(e, words) \in [1 .. v -> [at : Nat, word : Values]]
  <2>1. \A i \in 1 .. v : WordsAt(e, words)[i] \in [at : Nat, word : Values]
    <3> TAKE i \in 1 .. v
    <3> DEFINE at == Starts(e, words)[i]   word == words[i]
    <3>1. at \in Nat /\ word \in Values /\ WordsAt(e, words)[i] = [at |-> at, word |-> word]
      BY <1>4, <1>6
    <3> HIDE DEF at, word
    <3> QED  BY <3>1
  <2> QED  BY <1>5, <2>1
<1>9. ASSUME NEW i \in 1 .. v
      PROVE  /\ Starts(e, words)[i] \in Nat /\ WordsAt(e, words)[i].at = Starts(e, words)[i]
             /\ WordsAt(e, words)[i].word = words[i] /\ e.str_space <= Starts(e, words)[i]
             /\ Starts(e, words)[i] < e.str_space + end
  <2> DEFINE at == Starts(e, words)[i]   word == words[i]   x == WordsAt(e, words)[i]
  <2>1. at \in Nat /\ e.str_space <= at /\ at < e.str_space + end
    BY <1>6
  <2>2. x = [at |-> at, word |-> word]
    BY <1>4
  <2> HIDE DEF at, word, x
  <2>3. x.at = at /\ x.word = word
    BY <2>2
  <2> QED  BY <2>1, <2>3 DEF at, word, x
<1> QED  BY <1>7, <1>8, <1>9 DEF end, WordsPlaced

LEMMA RowAdded ==
  ASSUME NEW e, NEW s, NEW c, EntryInv(e, s, c), e.v_width > 0, e.w_width > 0,
         NEW words \in [1 .. e.v_width -> Values], NEW weights \in [1 .. e.w_width -> Weights],
         NEW f, f = OfRow(e, words, weights), NEW t, t = OfToldRow(s, words, weights), NEW d, d = OfSpace(e, c, words)
  PROVE  Follows(e, f, t, d, e.v_width, e.w_width)
<1> DEFINE v == e.v_width
           w == e.w_width
           n == e.length
           new == WordsAt(e, words)
           starts == Starts(e, words)
           space == e.str_space
           end == space + SumTo(Lengths(words), v)
           row == [values |-> words, weights |-> weights]
<1>1. Fields(e) /\ SetsFit(e) /\ ShapeFits(e) /\ StringsFit(e) /\ Told(e, s)
  BY DEF EntryInv
<1>2. /\ f.name = e.name /\ f.v_width = v /\ f.w_width = w /\ f.names = e.names /\ f.length = n + 1
      /\ f.strings = e.strings \o new /\ f.str_space = end
      /\ f.weight_sets = [i \in DOMAIN e.weight_sets |-> Append(e.weight_sets[i], weights[i])]
      /\ f.value_sets = [i \in DOMAIN e.value_sets |-> Append(e.value_sets[i], starts[i])]
      /\ DOMAIN f = DOMAIN e
  <2>1. RowBehind(e, f, words, weights)
    BY <1>1, RowFields
  <2> QED  BY <2>1 DEF RowBehind
<1>3. /\ t.name = s.name /\ t.aliases = s.aliases /\ DOMAIN t = DOMAIN s /\ t.rows = Append(s.rows, row)
  <2>1. DOMAIN s = {"name", "aliases", "rows"}
    BY <1>1 DEF Told
  <2> QED  BY <2>1, ToldFields
<1>4. v \in Nat /\ w \in Nat /\ n \in Nat /\ space \in Nat /\ v # 0 /\ w # 0
      /\ e.weight_sets \in [1 .. w -> Seq(Nat)] /\ (\A k \in 1 .. w : Len(e.weight_sets[k]) = n)
      /\ e.value_sets \in [1 .. v -> Seq(Nat)] /\ (\A k \in 1 .. v : Len(e.value_sets[k]) = n)
  BY <1>1 DEF SetsFit
<1>5. /\ new \in [1 .. v -> [at : Nat, word : Values]]
      /\ \A i \in 1 .. v : starts[i] \in Nat /\ new[i].at = starts[i] /\ new[i].word = words[i]
                           /\ space <= starts[i] /\ starts[i] < end
      /\ \A i, j \in 1 .. v : starts[i] = starts[j] => i = j
  <2>1. WordsPlaced(e, words)
    BY <1>1, NewWords
  <2> QED  BY <2>1 DEF WordsPlaced
<1>6. d.rows \in Nat /\ d.strings \in Nat /\ n + 1 <= d.rows /\ end \in Nat /\ space <= end
  <2>1. /\ RowSpace(e, c) \in Nat /\ WordSpace(e, c, words) \in Nat /\ n < RowSpace(e, c)
    BY SpaceSuffices
  <2>2. d.rows = RowSpace(e, c) /\ d.strings = WordSpace(e, c, words)
    BY DEF OfSpace
  <2>3. SumTo(Lengths(words), v) \in Nat
    <3>1. PICK shape \in Shapes : v = shape[1]
      BY <1>1 DEF ShapeFits
    <3> QED  BY <3>1, RowPlaces
  <2> QED  BY <1>4, <2>1, <2>2, <2>3
<1>7. words \in [1 .. v -> Values] /\ weights \in [1 .. w -> Weights] /\ Weights \subseteq Nat
  BY DistributionsAssumption
<1>8. row.values = words /\ row.weights = weights
  OBVIOUS
<1> HIDE DEF v, w, n, new, starts, space, end, row
<1>9. SetsGrown(e.weight_sets, w, n, weights, f.weight_sets)
  <2>1. \A i \in 1 .. w : weights[i] \in Nat
    BY <1>7
  <2> QED  BY <1>2, <1>4, <2>1, SetsGrow
<1>10. SetsGrown(e.value_sets, v, n, starts, f.value_sets)
  <2>1. \A i \in 1 .. v : starts[i] \in Nat
    BY <1>5
  <2> QED  BY <1>2, <1>4, <2>1, SetsGrow
<1>11. StringsWithin(f.strings, end) /\ Holding(e.strings, f.strings, new)
  <2>1. StringsWithin(e.strings, space)
    BY <1>1 DEF StringsFit, StringsWithin, space
  <2>2. \A i \in 1 .. v : space <= new[i].at /\ new[i].at < end
    BY <1>5
  <2>3. \A i, j \in 1 .. v : new[i].at = new[j].at => i = j
    BY <1>5
  <2> DEFINE strings == e.strings
  <2>4. StringsWithin(strings, space)
    BY <2>1
  <2> HIDE DEF strings
  <2>5. StringsWithin(strings \o new, end) /\ Holding(strings, strings \o new, new)
    BY <1>4, <1>5, <1>6, <2>2, <2>3, <2>4, StringsGrow
  <2> QED  BY <1>2, <2>5 DEF strings
<1>12. Fields(f)
  BY <1>1, <1>2 DEF Fields
<1>13. SetsFit(f)
  BY <1>2, <1>4, <1>6, <1>9, <1>10 DEF SetsFit, SetsGrown
<1>14. ShapeFits(f)
  BY <1>1, <1>2, <1>4 DEF ShapeFits, v, w
<1>15. StringsFit(f)
  BY <1>2, <1>11 DEF StringsFit, StringsWithin
<1>16. Appended(s.rows, row, t.rows) /\ Len(s.rows) = n
  BY <1>1, <1>3, ListAppend DEF Told, n
<1>17. ASSUME NEW r \in 1 .. n PROVE RowTold(f, t.rows[r], r)
  <2>1. RowTold(e, s.rows[r], r)
    BY <1>1 DEF Told, n
  <2>2. t.rows[r] = s.rows[r]
    BY <1>16 DEF Appended
  <2>3. \A i \in 1 .. w : f.weight_sets[i][r] = e.weight_sets[i][r]
    BY <1>9 DEF SetsGrown
  <2>4. \A i \in 1 .. v : f.value_sets[i][r] = e.value_sets[i][r]
    BY <1>10 DEF SetsGrown
  <2> DEFINE x == s.rows[r]
  <2>5. /\ x.values \in [1 .. v -> Values] /\ x.weights \in [1 .. w -> Nat]
        /\ \A i \in 1 .. w : e.weight_sets[i][r] = x.weights[i]
        /\ \A i \in 1 .. v : Holds(e.strings, e.value_sets[i][r], x.values[i])
    BY <2>1 DEF RowTold, v, w
  <2> HIDE DEF x
  <2>6. \A i \in 1 .. w : f.weight_sets[i][r] = x.weights[i]
    BY <2>3, <2>5
  <2>7. ASSUME NEW i \in 1 .. v PROVE Holds(f.strings, f.value_sets[i][r], x.values[i])
    <3>1. Holds(e.strings, e.value_sets[i][r], x.values[i])
      BY <2>5
    <3>2. Holds(f.strings, e.value_sets[i][r], x.values[i])
      BY <1>11, <3>1 DEF Holding
    <3> QED  BY <2>4, <3>2
  <2>8. RowTold(f, x, r)
    BY <1>2, <2>5, <2>6, <2>7 DEF RowTold
  <2> QED  BY <2>2, <2>8 DEF x
<1>18. RowTold(f, t.rows[n + 1], n + 1)
  <2>1. t.rows[n + 1] = row
    BY <1>16 DEF Appended
  <2>2. \A i \in 1 .. w : f.weight_sets[i][n + 1] = weights[i]
    BY <1>9 DEF SetsGrown
  <2>3. \A i \in 1 .. v : f.value_sets[i][n + 1] = starts[i]
    BY <1>10 DEF SetsGrown
  <2>4. ASSUME NEW i \in 1 .. v PROVE Holds(f.strings, starts[i], words[i])
    <3>1. i \in DOMAIN new /\ new[i].at = starts[i] /\ new[i].word = words[i]
      BY <1>5
    <3> QED  BY <1>11, <3>1 DEF Holding
  <2>5. words \in [1 .. v -> Values] /\ weights \in [1 .. w -> Nat]
    BY <1>7
  <2> DEFINE r == n + 1   x == t.rows[r]
  <2>6. x.values = words /\ x.weights = weights
    BY <1>8, <2>1
  <2>7. f.v_width = v /\ f.w_width = w
    BY <1>2
  <2>8. \A i \in 1 .. w : f.weight_sets[i][r] = x.weights[i]
    BY <2>2, <2>6
  <2>9. \A i \in 1 .. v : Holds(f.strings, f.value_sets[i][r], x.values[i])
    BY <2>3, <2>4, <2>6
  <2> HIDE DEF r, x
  <2>10. RowTold(f, x, r)
    BY <2>5, <2>6, <2>7, <2>8, <2>9 DEF RowTold
  <2> QED  BY <2>10 DEF r, x
<1>19. Told(f, t)
  <2>1. ASSUME NEW r \in 1 .. n + 1 PROVE RowTold(f, t.rows[r], r)
    <3>1. r \in 1 .. n \/ r = n + 1
      BY <1>4
    <3> QED  BY <1>17, <1>18, <3>1
  <2> QED  BY <1>1, <1>2, <1>3, <1>16, <2>1 DEF Told, Appended
<1>20. EntryInv(f, t, d)
  BY <1>2, <1>6, <1>12, <1>13, <1>14, <1>15, <1>19 DEF EntryInv
<1> QED  BY <1>2, <1>20 DEF Follows, v, w

\* One row more, for a distribution in the list and for it alone.
RowInList(s, n, weights, starts, new, needed) ==
  [s EXCEPT ![n].length = @ + 1, ![n].weight_sets = [i \in DOMAIN @ |-> Append(@[i], weights[i])],
            ![n].value_sets = [i \in DOMAIN @ |-> Append(@[i], starts[i])], ![n].strings = @ \o new,
            ![n].str_space = @ + needed]

RowOf(e, weights, starts, new, needed) ==
  [e EXCEPT !.length = @ + 1, !.weight_sets = [i \in DOMAIN @ |-> Append(@[i], weights[i])],
            !.value_sets = [i \in DOMAIN @ |-> Append(@[i], starts[i])], !.strings = @ \o new, !.str_space = @ + needed]

LEMMA WithRow ==
  ASSUME NEW s, IsList(s), NEW n \in 1 .. Len(s), NEW weights, NEW starts, NEW new, NEW needed
  PROVE  RowInList(s, n, weights, starts, new, needed) = [s EXCEPT ![n] = RowOf(s[n], weights, starts, new, needed)]
  BY DEF IsList, RowInList, RowOf

LEMMA WithToldRow ==
  ASSUME NEW s, IsList(s), NEW n \in 1 .. Len(s), NEW row
  PROVE  [s EXCEPT ![n].rows = Append(@, row)] = [s EXCEPT ![n] = [s[n] EXCEPT !.rows = Append(@, row)]]
  BY DEF IsList

\* What ProcessAdd does, said with the names of above.
AddsRow(n, e, s, c, words, weights) ==
  /\ entries' = [entries EXCEPT ![n] = OfRow(e, words, weights)]
  /\ stated' = [stated EXCEPT ![n] = OfToldRow(s, words, weights)]
  /\ capacity' = [capacity EXCEPT ![n] = OfSpace(e, c, words)]
  /\ arValueLengths' = [i \in DOMAIN arValueLengths |->
        IF i <= e.v_width /\ ValueLength[words[i]] > arValueLengths[i] THEN ValueLength[words[i]] ELSE arValueLengths[i]]
  /\ overrun' = (overrun \/ e.v_width > Len(arValueLengths) \/ e.w_width > arWeights \/ e.length >= RowSpace(e, c)
                   \/ e.str_space + SumTo(Lengths(words), e.v_width) > WordSpace(e, c, words))

(* A row is added.                                                         *)
LEMMA AddIs ==
  ASSUME DistInv, ProcessAdd
  PROVE  LET n == CurrentEntry   e == entries[n]
         IN  /\ n > 0 /\ e.v_width > 0 /\ e.w_width > 0
             /\ \E words \in [1 .. e.v_width -> Values], weights \in [1 .. e.w_width -> Weights] :
                  AddsRow(n, e, stated[n], capacity[n], words, weights)
<1> DEFINE n == CurrentEntry
           e == entries[n]
           s == stated[n]
           c == capacity[n]
<1>1. n > 0 /\ e.v_width > 0 /\ e.w_width > 0
  BY DEF ProcessAdd
<1>2. n \in 1 .. Len(entries) /\ n \in 1 .. Len(stated) /\ IsList(entries) /\ IsList(stated)
  BY <1>1, CurrentFacts
<1>3. PICK words \in [1 .. e.v_width -> Values], weights \in [1 .. e.w_width -> Weights] :
        LET needed == SumTo([i \in DOMAIN words |-> ValueLength[words[i]] + 1], e.v_width)
            rows == IF c.rows = e.length THEN e.length + RowsAtOnce ELSE c.rows
            remaining == c.strings - e.str_space
            space == IF remaining <= needed THEN e.str_space + StrSpace ELSE c.strings
            starts == Starts(e, words)
        IN /\ arValueLengths' =
                [i \in DOMAIN arValueLengths |->
                   IF i <= e.v_width /\ ValueLength[words[i]] > arValueLengths[i]
                     THEN ValueLength[words[i]] ELSE arValueLengths[i]]
           /\ capacity' = [capacity EXCEPT ![n] = [rows |-> rows, strings |-> space]]
           /\ entries' = [entries EXCEPT
                ![n].length = @ + 1,
                ![n].weight_sets = [i \in DOMAIN @ |-> Append(@[i], weights[i])],
                ![n].value_sets = [i \in DOMAIN @ |-> Append(@[i], starts[i])],
                ![n].strings = @ \o [i \in DOMAIN words |-> [at |-> starts[i], word |-> words[i]]],
                ![n].str_space = @ + needed]
           /\ overrun' = (overrun \/ e.v_width > Len(arValueLengths) \/ e.w_width > arWeights
                           \/ e.length >= rows \/ e.str_space + needed > space)
           /\ stated' = [stated EXCEPT ![n].rows = Append(@, [values |-> words, weights |-> weights])]
  BY DEF ProcessAdd
<1> DEFINE needed == SumTo(Lengths(words), e.v_width)
           starts == Starts(e, words)
           new == WordsAt(e, words)
           row == [values |-> words, weights |-> weights]
<1>4. entries' = [entries EXCEPT ![n] = OfRow(e, words, weights)]
  <2>1. entries' = RowInList(entries, n, weights, starts, new, needed)
    BY <1>3 DEF Lengths, WordsAt, RowInList
  <2>2. OfRow(e, words, weights) = RowOf(e, weights, starts, new, needed)
    BY DEF OfRow, RowOf
  <2>3. RowInList(entries, n, weights, starts, new, needed) = [entries EXCEPT ![n] = RowOf(e, weights, starts, new, needed)]
    <3> HIDE DEF n, needed, starts, new
    <3> QED  BY <1>2, WithRow
  <2> QED  BY <2>1, <2>2, <2>3
<1>5. stated' = [stated EXCEPT ![n] = OfToldRow(s, words, weights)]
  <2>1. stated' = [stated EXCEPT ![n].rows = Append(@, row)]
    BY <1>3
  <2>2. OfToldRow(s, words, weights) = [s EXCEPT !.rows = Append(@, row)]
    BY DEF OfToldRow
  <2> HIDE DEF n, row
  <2> QED  BY <1>2, <2>1, <2>2, WithToldRow
<1>6. /\ capacity' = [capacity EXCEPT ![n] = OfSpace(e, c, words)]
      /\ overrun' = (overrun \/ e.v_width > Len(arValueLengths) \/ e.w_width > arWeights \/ e.length >= RowSpace(e, c)
                       \/ e.str_space + needed > WordSpace(e, c, words))
  BY <1>3 DEF OfSpace, RowSpace, WordSpace, Lengths
<1>7. AddsRow(n, e, s, c, words, weights)
  BY <1>3, <1>4, <1>5, <1>6 DEF AddsRow
<1> QED  BY <1>1, <1>7

LEMMA AddKeeps == DistInv /\ ProcessAdd => DistInv'
<1> SUFFICES ASSUME DistInv, ProcessAdd PROVE DistInv'
  OBVIOUS
<1> DEFINE n == CurrentEntry
           e == entries[n]
           s == stated[n]
           c == capacity[n]
<1>1. n > 0 /\ e.v_width > 0 /\ e.w_width > 0 /\ fileSize = 0 /\ fileSize' = 0 /\ nMaxValueWidth' = nMaxValueWidth
      /\ nMaxWeightWidth' = nMaxWeightWidth /\ arWeights' = arWeights
  BY DEF ProcessAdd, Parsing
<1>2. /\ n = Len(entries) /\ n \in 1 .. Len(entries) /\ EntryInv(e, s, c)
  BY <1>1, CurrentFacts
<1>3. PICK words \in [1 .. e.v_width -> Values], weights \in [1 .. e.w_width -> Weights] :
        AddsRow(n, e, s, c, words, weights)
  BY AddIs
<1> DEFINE f == OfRow(e, words, weights)
           t == OfToldRow(s, words, weights)
           d == OfSpace(e, c, words)
<1> HIDE DEF n
<1>4. Becomes(n, f, t, d)
  BY <1>3 DEF AddsRow, Becomes
<1>5. Follows(e, f, t, d, e.v_width, e.w_width)
  <2> HIDE DEF e, s, c
  <2> QED  BY <1>1, <1>2, RowAdded
<1>6. /\ RowSpace(e, c) \in Nat /\ WordSpace(e, c, words) \in Nat /\ e.length < RowSpace(e, c)
      /\ e.str_space + SumTo(Lengths(words), e.v_width) <= WordSpace(e, c, words)
  <2> HIDE DEF e, s, c
  <2> QED  BY <1>1, <1>2, SpaceSuffices
<1> HIDE DEF s, c, f, t, d
<1>7. Became(n, f)
  BY <1>1, <1>2, <1>4, <1>5, BecomesFits DEF Follows
<1>8. /\ arValueLengths \in Seq(Int) /\ nMaxValueWidth \in Nat /\ nMaxValueWidth <= Len(arValueLengths)
      /\ nMaxWeightWidth = 0 /\ arWeights \in Nat /\ e.v_width <= nMaxValueWidth /\ e.w_width <= arWeights
      /\ overrun = FALSE
  BY <1>1, <1>2 DEF DistInv, ScratchFits
<1>9. arValueLengths' \in Seq(Int) /\ Len(arValueLengths') = Len(arValueLengths)
  <2> DEFINE m == Len(arValueLengths)
             After(i) == IF i <= e.v_width /\ ValueLength[words[i]] > arValueLengths[i]
                           THEN ValueLength[words[i]] ELSE arValueLengths[i]
  <2>1. m \in Nat /\ DOMAIN arValueLengths = 1 .. m /\ \A i \in 1 .. m : arValueLengths[i] \in Int
    BY <1>8
  <2>2. arValueLengths' = [i \in 1 .. m |-> After(i)]
    BY <1>3, <2>1 DEF AddsRow
  <2>3. ASSUME NEW i \in 1 .. m PROVE After(i) \in Int
    <3>1. i <= e.v_width => ValueLength[words[i]] \in Nat
      <4> SUFFICES ASSUME i <= e.v_width PROVE ValueLength[words[i]] \in Nat
        OBVIOUS
      <4>1. e.v_width \in Nat
        BY <1>2 DEF EntryInv, SetsFit
      <4>2. words[i] \in Values
        BY <2>1, <4>1
      <4> QED  BY <4>2, DistributionsAssumption
    <3> QED  BY <2>1, <3>1
  <2> HIDE DEF m, After
  <2>4. arValueLengths' \in Seq(Int) /\ Len(arValueLengths') = m
    BY <2>1, <2>2, <2>3
  <2> QED  BY <2>4 DEF m
<1>10. overrun' = FALSE
  <2>1. e.v_width \in Nat /\ e.w_width \in Nat /\ e.length \in Nat /\ e.str_space \in Nat
    BY <1>2 DEF EntryInv, SetsFit
  <2>2. ~(e.v_width > Len(arValueLengths)) /\ ~(e.w_width > arWeights) /\ ~(e.length >= RowSpace(e, c))
    BY <1>6, <1>8, <2>1
  <2> DEFINE end == e.str_space + SumTo(Lengths(words), e.v_width)
  <2>3. SumTo(Lengths(words), e.v_width) \in Nat
    <3>1. PICK shape \in Shapes : e.v_width = shape[1]
      BY <1>1, <1>2 DEF EntryInv, ShapeFits
    <3> QED  BY <3>1, RowPlaces
  <2>4. ~(end > WordSpace(e, c, words))
    BY <1>6, <2>1, <2>3
  <2> HIDE DEF end
  <2>5. overrun' = (overrun \/ e.v_width > Len(arValueLengths) \/ e.w_width > arWeights \/ e.length >= RowSpace(e, c)
                   \/ end > WordSpace(e, c, words))
    BY <1>3 DEF AddsRow, end
  <2> QED  BY <1>8, <2>2, <2>4, <2>5
<1>11. ScratchFits'
  <2>1. entries'[Len(entries')].v_width = e.v_width /\ entries'[Len(entries')].w_width = e.w_width
    BY <1>5, <1>7 DEF Became, Follows
  <2> QED  BY <1>1, <1>8, <1>9, <1>10, <2>1 DEF ScratchFits
<1> QED  BY <1>1, <1>7, <1>11 DEF DistInv, Became

(* The file is written once, of what the statements left.                  *)
LEMMA WriteKeeps == DistInv /\ WriteIndex => DistInv'
<1> SUFFICES ASSUME DistInv, WriteIndex PROVE DistInv'
  OBVIOUS
<1>1. Len(entries) > 0 /\ ListsFit /\ NamesDiffer /\ ScratchFits
  BY DEF WriteIndex, CurrentEntry, DistInv
<1>2. UNCHANGED <<entries, capacity, arValueLengths, nMaxValueWidth, nMaxWeightWidth, arWeights, overrun, stated>>
  BY DEF WriteIndex
<1>3. OnDisk'
  <2>1. disk' = diskOf(WrittenItems) /\ fileSize' = Begin(WrittenItems, Len(WrittenItems) + 1)
    BY DEF WriteIndex, diskOf
  <2>2. WrittenItems' = WrittenItems
    BY <1>2 DEF WrittenItems, CurrentEntry
  <2> QED  BY <2>1, <2>2 DEF OnDisk, diskOf, Begin
<1>4. ListsFit' /\ NamesDiffer' /\ ScratchFits' /\ Len(entries') > 0
  BY <1>1, <1>2 DEF ListsFit, NamesDiffer, ScratchFits
<1>5. fileSize' \in Nat
  <2>1. EntriesFit
    BY <1>1, InvFits
  <2>2. fileSize' = Begin(WrittenItems, Len(WrittenItems) + 1)
    BY DEF WriteIndex
  <2>3. fileSize' = Integer + Space(Len(entries)) + IDX_SIZE * Len(entries)
    BY <2>1, <2>2, FileEnd
  <2>4. Len(entries) \in Nat /\ Space(Len(entries)) \in Nat
    <3>1. Len(entries) \in Nat /\ Len(entries) \in 0 .. Len(entries)
      BY <2>1 DEF EntriesFit
    <3> QED  BY <2>1, <3>1, BlockPlaces
  <2> DEFINE space == Space(Len(entries))
  <2> HIDE DEF space
  <2>5. space \in Nat /\ fileSize' = Integer + space + IDX_SIZE * Len(entries)
    BY <2>3, <2>4 DEF space
  <2> QED  BY <2>4, <2>5 DEF Integer, IDX_SIZE, D_NAME_LEN
<1> QED  BY <1>3, <1>4, <1>5 DEF DistInv

LEMMA DistStays == DistInv /\ UNCHANGED distVars => DistInv'
<1> SUFFICES ASSUME DistInv, UNCHANGED distVars PROVE DistInv'
  OBVIOUS
<1>1. UNCHANGED <<entries, capacity, arValueLengths, nMaxValueWidth, nMaxWeightWidth, arWeights, overrun, stated, disk, fileSize>>
  BY DEF distVars
<1>2. OnDisk' = OnDisk
  BY <1>1 DEF OnDisk, WrittenItems, diskOf, Begin, CurrentEntry
<1> QED  BY <1>1, <1>2 DEF DistInv, ListsFit, NamesDiffer, ScratchFits

(* Whatever distributions are stated, in whatever shapes and lengths, they *)
(* are found in the compiled file as they were stated and drawn by their   *)
(* weights, and distcomp writes nothing where it has no space: dcomp.c     *)
(* counts offsets up by the very sizes it writes, and dist.c goes through  *)
(* a distribution by the widths and lengths of its index entry.            *)
THEOREM AlwaysReadsBack == DistSpec => []ReadsBack
<1>1. DistInit => DistInv
  BY DistBegins
<1>2. DistInv /\ [DistNext]_distVars => DistInv'
  BY CreateKeeps, TypesKeep, WeightsKeep, NamesKeep, AddKeeps, WriteKeeps, DistStays DEF DistNext
<1>3. DistInv => ReadsBack
  BY InvReads
<1> QED  BY <1>1, <1>2, <1>3, PTL DEF DistSpec

=============================================================================
