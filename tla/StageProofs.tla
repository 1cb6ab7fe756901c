------------------------------ MODULE StageProofs -----------------------------
(***************************************************************************)
(* The stages around the data: the flat files that are written to be       *)
(* loaded, whatever rows are built; the indexes that are hidden, for any   *)
(* index files; and the results directories and their comparison, for any  *)
(* workloads.                                                              *)
(***************************************************************************)
EXTENDS IndexSetup, Measurement, FlatFiles, FiniteSetTheorems, TLAPS

LEMMA IndexesOfTail ==
  ASSUME NEW S, NEW file \in Seq(S), file # <<>>
  PROVE  /\ Head(file) \in S /\ Tail(file) \in Seq(S)
         /\ IndexesOf(file) = {Head(file)} \union IndexesOf(Tail(file))
<1>1. /\ Head(file) = file[1] /\ Head(file) \in S /\ Tail(file) \in Seq(S)
      /\ Len(file) \in Nat \ {0} /\ Len(Tail(file)) = Len(file) - 1
      /\ \A k \in 1 .. Len(file) - 1 : Tail(file)[k] = file[k + 1]
      /\ DOMAIN file = 1 .. Len(file) /\ DOMAIN Tail(file) = 1 .. Len(file) - 1
  OBVIOUS
<1>2. ASSUME NEW x \in IndexesOf(file) PROVE x \in {Head(file)} \union IndexesOf(Tail(file))
  <2>1. PICK k \in 1 .. Len(file) : x = file[k]  BY <1>1 DEF IndexesOf
  <2>2. CASE k = 1  BY <1>1, <2>1, <2>2
  <2>3. CASE k # 1
    <3>1. k - 1 \in 1 .. Len(file) - 1 /\ (k - 1) + 1 = k  BY <1>1, <2>1, <2>3
    <3>2. Tail(file)[k - 1] = x  BY <1>1, <2>1, <3>1
    <3>3. QED  BY <1>1, <3>1, <3>2 DEF IndexesOf
  <2>4. QED  BY <2>2, <2>3
<1>3. ASSUME NEW x \in {Head(file)} \union IndexesOf(Tail(file)) PROVE x \in IndexesOf(file)
  <2>1. CASE x = Head(file)
    <3>1. 1 \in 1 .. Len(file)  BY <1>1
    <3>2. QED  BY <1>1, <2>1, <3>1 DEF IndexesOf
  <2>2. CASE x \in IndexesOf(Tail(file))
    <3>1. PICK k \in 1 .. Len(file) - 1 : x = Tail(file)[k]  BY <1>1, <2>2 DEF IndexesOf
    <3>2. k + 1 \in 1 .. Len(file) /\ x = file[k + 1]  BY <1>1, <3>1
    <3>3. QED  BY <1>1, <3>2 DEF IndexesOf
  <2>3. QED  BY <1>3, <2>1, <2>2
<1>4. QED  BY <1>1, <1>2, <1>3

LEMMA IndexesOfEmpty == IndexesOf(<<>>) = {}
  BY DEF IndexesOf

\* What the run asks the optimizer not to see.
Asked == IF icfg.ignore THEN IndexesOf(icfg.list) ELSE {}

(* How far the stage has come with the flags.                              *)
HiddenInv ==
  /\ hidden \subseteq have /\ icfg \in IndexConfigs
  /\ istage \in IndexStages \union {"off", "failed"}
  /\ istage \in {"unused", "hide", "prune"} => todo \in Seq(Full)
  /\ istage = "hide" => icfg.ignore /\ hidden \union IndexesOf(todo) = IndexesOf(icfg.list)
  /\ istage = "assert" => hidden = Asked
  /\ istage = "prune" =>
       /\ hidden = have \intersect Asked
       /\ icfg.prune /\ have \intersect IndexesOf(UnrefFile) \subseteq IndexesOf(todo)
  /\ istage = "bench" =>
       /\ hidden = have \intersect Asked
       /\ icfg.prune => have \intersect IndexesOf(UnrefFile) = {}

LEMMA ListType ==
  /\ \A f \in {UnusedFile, UnrefFile} : f \in Seq(Full)
  /\ icfg \in IndexConfigs => icfg.list \in Seq(Full) /\ icfg.list \in {UnusedFile, UnrefFile}
<1>1. \A f \in {UnusedFile, UnrefFile} : f \in Seq(Full)  BY FilesAssumption DEF IsFile
<1>2. QED  BY <1>1 DEF IndexConfigs

LEMMA HiddenInit == IndexInit => HiddenInv
  BY DEF IndexInit, HiddenInv, IndexConfigs

LEMMA HiddenNext == HiddenInv /\ [IndexNext]_indexVars => HiddenInv'
<1> SUFFICES ASSUME HiddenInv, [IndexNext]_indexVars PROVE HiddenInv'
  OBVIOUS
<1>1. CASE IndexStart  BY <1>1 DEF IndexStart, HiddenInv, Enter, IndexStages
<1>2. CASE Decide
  BY <1>2, ListType DEF Decide, HiddenInv, Enter, IndexStages
<1>3. ASSUME DropNext, todo # <<>>, istage \in {"unused", "prune"} PROVE HiddenInv'
  <2>1. /\ todo' \in Seq(Full) /\ IndexesOf(todo) = {Head(todo)} \union IndexesOf(todo')
        /\ have' = have \ {Head(todo)} /\ hidden' = hidden \ {Head(todo)}
        /\ UNCHANGED <<istage, icfg>>
    BY <1>3, IndexesOfTail DEF DropNext, HiddenInv
  <2>2. Asked' = Asked  BY <2>1 DEF Asked
  <2>3. QED  BY <1>3, <2>1, <2>2 DEF HiddenInv
<1>4. CASE DropUnused  BY <1>3, <1>4 DEF DropUnused, HiddenInv, Enter, IndexStages
<1>5. CASE BuildIndex  BY <1>5 DEF BuildIndex, HiddenInv, Enter, IndexStages
<1>6. CASE ClearIgnored
  BY <1>6, ListType DEF ClearIgnored, HiddenInv, Enter, IndexStages, Asked
<1>7. CASE HideIndex
  <2>1. CASE /\ istage = "hide" /\ todo # <<>> /\ Head(todo) \in have
             /\ hidden' = hidden \union {Head(todo)} /\ todo' = Tail(todo)
             /\ UNCHANGED <<have, istage, icfg, cut>>
    <3>1. todo' \in Seq(Full) /\ IndexesOf(todo) = {Head(todo)} \union IndexesOf(todo')
      BY <2>1, IndexesOfTail DEF HiddenInv
    <3>2. QED  BY <2>1, <3>1 DEF HiddenInv
  <2>2. CASE IndexFail  BY <2>2 DEF IndexFail, HiddenInv, Enter
  <2>3. CASE /\ istage = "hide" /\ todo = <<>> /\ Enter("assert", <<>>)
             /\ UNCHANGED <<have, hidden, icfg, cut>>
    BY <2>3, IndexesOfEmpty DEF HiddenInv, Enter, IndexStages, Asked
  <2>4. QED  BY <1>7, <2>1, <2>2, <2>3 DEF HideIndex
<1>8. CASE AssertHidden
  <2>1. hidden = Asked /\ hidden \subseteq have /\ UNCHANGED <<have, hidden, icfg>>
    BY <1>8 DEF AssertHidden, HiddenInv
  <2>2. Asked' = Asked /\ hidden = have \intersect Asked  BY <2>1 DEF Asked
  <2>3. QED  BY <1>8, <2>1, <2>2, ListType DEF AssertHidden, HiddenInv, Enter, IndexStages
<1>9. CASE Prune
  <2>1. CASE istage = "prune" /\ todo # <<>> /\ DropNext  BY <1>3, <2>1
  <2>2. CASE istage = "prune" /\ todo = <<>> /\ Enter("bench", <<>>)
             /\ UNCHANGED <<have, hidden, icfg, cut>>
    BY <2>2, IndexesOfEmpty DEF HiddenInv, Enter, IndexStages, Asked
  <2>3. QED  BY <1>9, <2>1, <2>2 DEF Prune
<1>10. CASE Benched \/ IndexKill  BY <1>10 DEF Benched, IndexKill, HiddenInv, Enter
<1>11. CASE UNCHANGED indexVars  BY <1>11 DEF indexVars, HiddenInv, Asked
<1>12. QED
  BY <1>1, <1>2, <1>4, <1>5, <1>6, <1>7, <1>8, <1>9, <1>10, <1>11 DEF IndexNext

(* The flags are those this run asked for, for any files of indexes.       *)
THEOREM AlwaysHiddenExactly == IndexSpec => []HiddenExactly
<1>1. HiddenInv => HiddenExactly
  BY DEF HiddenInv, HiddenExactly, Asked
<1>2. QED  BY <1>1, HiddenInit, HiddenNext, PTL DEF IndexSpec

-----------------------------------------------------------------------------
(* The set of indexes that is measured.                                    *)

LEMMA UpTo == ASSUME NEW n \in Nat PROVE IsFiniteSet(1 .. n) /\ Cardinality(1 .. n) = n
<1>1. 1 \in Int /\ n \in Int  OBVIOUS
<1>2. IsFiniteSet(1 .. n) /\ Cardinality(1 .. n) = IF 1 > n THEN 0 ELSE n - 1 + 1
  BY <1>1, FS_Interval
<1>3. QED  BY <1>2

(* A file has each of its indexes once.                                    *)
LEMMA FileFacts ==
  ASSUME NEW file, IsFile(file)
  PROVE  /\ file \in Seq(Full) /\ Len(file) \in Nat /\ DOMAIN file = 1 .. Len(file)
         /\ IndexesOf(file) \subseteq Full /\ IsFiniteSet(IndexesOf(file))
         /\ Cardinality(IndexesOf(file)) = Len(file)
         /\ \A j, k \in DOMAIN file : file[j] = file[k] => j = k
<1>1. /\ file \in Seq(Full) /\ Len(file) \in Nat /\ DOMAIN file = 1 .. Len(file)
      /\ file \in [1 .. Len(file) -> Full] /\ Cardinality(IndexesOf(file)) = Len(file)
  BY DEF IsFile
<1>2. file \in Surjection(1 .. Len(file), IndexesOf(file))  BY <1>1 DEF Surjection, IndexesOf
<1>3. IsFiniteSet(1 .. Len(file)) /\ Cardinality(1 .. Len(file)) = Len(file)  BY <1>1, UpTo
<1>4. IsFiniteSet(IndexesOf(file)) /\ file \in Injection(1 .. Len(file), IndexesOf(file))
  BY <1>1, <1>2, <1>3, FS_Surjection
<1>5. QED  BY <1>1, <1>4 DEF Injection, IsInjective, IndexesOf

(* Numbered in order, the members of a set of positions have each number   *)
(* up to how many they are.                                                *)
LEMMA Ranks ==
  ASSUME NEW m \in Nat, NEW rest \in SUBSET (1 .. m)
  PROVE  LET Rank(k) == Cardinality(rest \intersect 1 .. k) IN
         /\ IsFiniteSet(rest) /\ Cardinality(rest) \in Nat
         /\ \A k \in rest : Rank(k) \in 1 .. Cardinality(rest)
         /\ \A j, k \in rest : Rank(j) = Rank(k) => j = k
         /\ \A n \in 1 .. Cardinality(rest) : \E k \in rest : Rank(k) = n
<1> DEFINE upto(k) == rest \intersect 1 .. k
           Rank(k) == Cardinality(upto(k))
           N == Cardinality(rest)
<1>1. IsFiniteSet(rest) /\ N \in Nat
  <2>1. IsFiniteSet(1 .. m)  BY UpTo
  <2>2. IsFiniteSet(rest)  BY <2>1, FS_Subset
  <2>3. QED  BY <2>2, FS_CardinalityType
<1>2. ASSUME NEW k \in rest
      PROVE  /\ IsFiniteSet(upto(k)) /\ Rank(k) \in 1 .. N /\ k \in upto(k)
  <2>1. upto(k) \in SUBSET rest /\ k \in upto(k)  BY k \in 1 .. m
  <2>2. IsFiniteSet(upto(k)) /\ Rank(k) <= N  BY <1>1, <2>1, FS_Subset
  <2>3. Rank(k) \in Nat /\ Rank(k) # 0  BY <2>1, <2>2, FS_CardinalityType, FS_EmptySet
  <2>4. QED  BY <1>1, <2>1, <2>2, <2>3
<1>3. ASSUME NEW j \in rest, NEW k \in rest, j < k PROVE Rank(j) # Rank(k)
  <2>1. upto(j) \in SUBSET upto(k) /\ k \notin upto(j) /\ k \in upto(k)
    BY <1>3, <1>2, j \in 1 .. m, k \in 1 .. m
  <2>2. upto(j) # upto(k)  BY <2>1
  <2>3. QED  BY <1>2, <2>1, <2>2, FS_Subset
<1>4. \A j, k \in rest : Rank(j) = Rank(k) => j = k
  BY <1>3, rest \in SUBSET Nat
<1>5. ASSUME NEW n \in 1 .. N PROVE \E k \in rest : Rank(k) = n
  <2>1. SUFFICES ASSUME \A k \in rest : Rank(k) # n PROVE FALSE
    OBVIOUS
  <2> DEFINE others == (1 .. N) \ {n}
             f == [k \in rest |-> Rank(k)]
  <2>2. IsFiniteSet(1 .. N) /\ Cardinality(1 .. N) = N  BY <1>1, UpTo
  <2>3. IsFiniteSet(others) /\ Cardinality(others) = N - 1  BY <2>2, FS_RemoveElement
  <2>4. f \in [rest -> others]  BY <1>2, <2>1
  <2>5. Cardinality(others) < Cardinality(rest)  BY <1>1, <2>3
  <2>6. \A k \in rest : f[k] = Rank(k)  OBVIOUS
  <2> HIDE DEF others, f, Rank
  <2>7. PICK j, k \in rest : j # k /\ f[j] = f[k]  BY <1>1, <2>3, <2>4, <2>5, FS_PigeonHole
  <2>8. QED  BY <1>4, <2>6, <2>7
<1>6. QED  BY <1>1, <1>2, <1>4, <1>5

(* What is emitted is each index of the full file but the excluded ones,   *)
(* once.                                                                   *)
LEMMA EmittedRest ==
  ASSUME NEW skipped
  PROVE  IsFile(Emitted(skipped)) /\ IndexesOf(Emitted(skipped)) = Full \ skipped
<1> DEFINE rest == {k \in DOMAIN FullFile : FullFile[k] \notin skipped}
           N == Cardinality(rest)
           Rank(k) == Cardinality(rest \intersect 1 .. k)
           Nth(n) == CHOOSE k \in rest : Rank(k) = n
           E == [n \in 1 .. N |-> FullFile[Nth(n)]]
<1>1. /\ DOMAIN FullFile = 1 .. Len(FullFile) /\ Len(FullFile) \in Nat /\ FullFile \in Seq(Full)
      /\ \A j, k \in DOMAIN FullFile : FullFile[j] = FullFile[k] => j = k
  BY FilesAssumption, FileFacts
<1>2. /\ IsFiniteSet(rest) /\ N \in Nat
      /\ \A k \in rest : Rank(k) \in 1 .. N
      /\ \A j, k \in rest : Rank(j) = Rank(k) => j = k
      /\ \A n \in 1 .. N : \E k \in rest : Rank(k) = n
  BY <1>1, Ranks
<1> HIDE DEF Rank, rest, N
<1>3. \A n \in 1 .. N : Nth(n) \in rest /\ Rank(Nth(n)) = n  BY <1>2
<1>4. \A k \in rest : Nth(Rank(k)) = k  BY <1>2, <1>3
<1> HIDE DEF Nth
<1>5. \A k \in rest : FullFile[k] \in Full \ skipped
  BY DEF rest, Full, IndexesOf
<1>6. E \in [1 .. N -> Full]  BY <1>3, <1>5
<1>7. E \in Seq(Full) /\ Len(E) = N /\ DOMAIN E = 1 .. N  BY <1>2, <1>6
<1>8. \A x \in Full \ skipped : \E k \in rest : x = FullFile[k]  BY DEF rest, Full, IndexesOf
<1>9. \A x \in Full \ skipped : \E n \in 1 .. N : x = E[n]  BY <1>2, <1>4, <1>8
<1>10. \A n \in 1 .. N : E[n] \in Full \ skipped  BY <1>3, <1>5
<1>11. \A n, l \in 1 .. N : E[n] = E[l] => n = l
  <2>1. rest \subseteq DOMAIN FullFile  BY DEF rest
  <2>2. QED  BY <1>1, <1>3, <2>1
<1> HIDE DEF E
<1>12. IndexesOf(E) = Full \ skipped  BY <1>7, <1>9, <1>10 DEF IndexesOf
<1>13. E \in Bijection(1 .. N, Full \ skipped)
  BY <1>6, <1>9, <1>10, <1>11 DEF Bijection, Injection, IsInjective, Surjection
<1>14. Cardinality(Full \ skipped) = N  BY <1>2, <1>13, FS_CountingElements DEF ExistsBijection
<1>15. IsFile(E)  BY <1>7, <1>12, <1>14 DEF IsFile
<1>16. Emitted(skipped) = E  BY DEF Emitted, E, Nth, Rank, rest, N
<1>17. QED  BY <1>12, <1>15, <1>16

Kept == IndexesOf(KeptFile)

Unused == IndexesOf(UnusedFile)

Unref == IndexesOf(UnrefFile)

LEMMA FileSets ==
  /\ Kept \subseteq Full /\ Unused \subseteq Full /\ Unref \subseteq Unused
  /\ Kept \intersect Unused = {}
  /\ \A file \in {FullFile, KeptFile, UnusedFile, UnrefFile} : IsFile(file)
  BY FilesAssumption, FileFacts DEF Kept, Unused, Unref

LEMMA WantedTarget ==
  ASSUME icfg \in IndexConfigs
  PROVE  /\ IsFile(Wanted) /\ IndexesOf(Wanted) = Target /\ Target \subseteq Full
         /\ IsFiniteSet(Target) /\ Cardinality(Target) = Len(Wanted) /\ Len(Wanted) \in Nat
         /\ icfg.kept => Wanted = KeptFile /\ Target = Kept
         /\ ~icfg.kept /\ icfg.prune => Target = Full \ Unref
         /\ ~icfg.kept /\ ~icfg.prune => Target = Full
<1>1. icfg.kept \in BOOLEAN /\ icfg.prune \in BOOLEAN  BY DEF IndexConfigs
<1>2. ASSUME icfg.kept PROVE IsFile(Wanted) /\ IndexesOf(Wanted) = Target
  BY <1>2, FileSets DEF Wanted, Target
<1>3. ASSUME ~icfg.kept PROVE IsFile(Wanted) /\ IndexesOf(Wanted) = Target
  <2>1. Wanted = Emitted(IF icfg.prune THEN Unref ELSE {})  BY <1>3 DEF Wanted, Unref
  <2>2. IsFile(Wanted) /\ IndexesOf(Wanted) = Full \ IF icfg.prune THEN Unref ELSE {}
    BY <2>1, EmittedRest
  <2>3. Target = Full \ IF icfg.prune THEN Unref ELSE {}  BY <1>3 DEF Target, Unref
  <2>4. QED  BY <2>2, <2>3
<1>4. IsFile(Wanted) /\ IndexesOf(Wanted) = Target  BY <1>2, <1>3
<1>5. /\ icfg.kept => Wanted = KeptFile /\ Target = Kept
      /\ ~icfg.kept /\ icfg.prune => Target = Full \ Unref
      /\ ~icfg.kept /\ ~icfg.prune => Target = Full
  BY <1>1 DEF Wanted, Target, Kept, Unref
<1>6. QED  BY <1>4, <1>5, FileFacts

\* What runs leave that finish, and builds of the kept set that do not: all
\* but some unreferenced indexes, or nothing unused.
Legacy ==
  \/ Full \ Unref \subseteq have
  \/ have \intersect Unused = {} /\ (Kept \subseteq have \/ have \subseteq Kept)

\* The set is there, but for what the run still drops.
Ready ==
  /\ ~icfg.kept /\ ~icfg.prune => have = Full
  /\ ~cut /\ icfg.prune /\ ~icfg.kept => Full \ Unref \subseteq have
  /\ ~cut /\ icfg.kept => Kept \subseteq have /\ have \intersect Unused = {}

(* What is there and what is still to be done make the target, at every    *)
(* stage.                                                                  *)
TargetInv ==
  /\ IndexTypeOK
  /\ istage \in {"off", "failed", "decide"} => (cut \/ Legacy)
  /\ istage = "unused" =>
       /\ icfg.kept /\ IndexesOf(todo) \subseteq Unused
       /\ have \intersect Unused \subseteq IndexesOf(todo)
       /\ cut \/ Kept \subseteq have
  /\ istage = "build" =>
       /\ IndexesOf(todo) \subseteq Target /\ Target \subseteq have \union IndexesOf(todo)
       /\ icfg.kept /\ ~cut => have \intersect Unused = {} /\ (Kept \subseteq have \/ have \subseteq Kept)
  /\ istage = "prune" => icfg.prune /\ IndexesOf(todo) \subseteq Unref
  /\ istage \in {"clear", "hide", "assert", "prune", "bench"} => Ready

LEMMA TargetInit == IndexInit => TargetInv
<1> SUFFICES ASSUME IndexInit PROVE TargetInv
  OBVIOUS
<1>1. IndexTypeOK
  <2>1. <<>> \in Seq(Full)  OBVIOUS
  <2>2. QED  BY <2>1 DEF IndexInit, IndexTypeOK, IndexConfigs
<1>2. QED  BY <1>1 DEF IndexInit, TargetInv, Legacy

(* The number of indexes tells a run what to do.                           *)
LEMMA CountDecides ==
  ASSUME TargetInv, istage = "decide"
  PROVE  /\ icfg.kept /\ Cardinality(have) > Len(Wanted) => cut \/ Kept \subseteq have
         /\ ~(icfg.kept /\ Cardinality(have) > Len(Wanted)) /\ Enough => Ready
         /\ ~Enough /\ icfg.kept /\ ~cut =>
              have \intersect Unused = {} /\ (Kept \subseteq have \/ have \subseteq Kept)
<1>1. /\ have \subseteq Full /\ icfg \in IndexConfigs /\ (cut \/ Legacy)
      /\ icfg.kept \in BOOLEAN /\ icfg.prune \in BOOLEAN
  BY DEF TargetInv, IndexTypeOK, IndexConfigs
<1>2. IsFiniteSet(Full) /\ IsFiniteSet(have) /\ Cardinality(have) \in Nat
  <2>1. IsFiniteSet(Full)  BY FilesAssumption
  <2>2. IsFiniteSet(have)  BY <1>1, <2>1, FS_Subset
  <2>3. QED  BY <2>1, <2>2, FS_CardinalityType
<1>3. /\ IsFiniteSet(Target) /\ Cardinality(Target) = Len(Wanted) /\ Len(Wanted) \in Nat
      /\ icfg.kept => Wanted = KeptFile /\ Target = Kept
      /\ ~icfg.kept /\ icfg.prune => Target = Full \ Unref
      /\ ~icfg.kept /\ ~icfg.prune => Target = Full
  BY <1>1, WantedTarget
<1>4. have \subseteq Target => Cardinality(have) <= Len(Wanted)
       /\ (Cardinality(have) = Len(Wanted) => have = Target)
  BY <1>2, <1>3, FS_Subset
<1>5. Target \subseteq have => Len(Wanted) <= Cardinality(have)
       /\ (Cardinality(have) = Len(Wanted) => have = Target)
  BY <1>2, <1>3, FS_Subset
<1>6. Kept \subseteq Full \ Unref  BY FileSets
<1>7. CASE icfg.kept
  <2>1. Target = Kept  BY <1>3, <1>7
  <2>2. cut \/ Kept \subseteq have \/ (have \subseteq Kept /\ have \intersect Unused = {})
    BY <1>1, <1>6 DEF Legacy
  <2>3. Cardinality(have) > Len(Wanted) => cut \/ Kept \subseteq have
    BY <1>2, <1>3, <1>4, <2>1, <2>2
  <2>4. Cardinality(have) = Len(Wanted) => cut \/ have = Kept
    BY <1>4, <1>5, <2>1, <2>2
  <2>5. Cardinality(have) = Len(Wanted) => Ready  BY <1>7, <2>4, FileSets DEF Ready
  <2>6. Cardinality(have) < Len(Wanted) => cut \/ ~(Kept \subseteq have)
    BY <1>2, <1>3, <1>5, <2>1
  <2>7. QED  BY <1>2, <1>3, <2>2, <2>3, <2>5, <2>6, <1>7 DEF Enough
<1>8. CASE ~icfg.kept
  <2>1. Enough => Cardinality(have) >= Len(Wanted)  BY DEF Enough
  <2>2. CASE ~icfg.prune
    <3>1. Enough => have = Full  BY <1>1, <1>2, <1>3, <1>4, <1>8, <2>1, <2>2
    <3>2. QED  BY <1>8, <2>2, <3>1 DEF Ready
  <2>3. CASE icfg.prune
    <3>1. Target = Full \ Unref  BY <1>3, <1>8, <2>3
    <3>2. have \intersect Unused = {} => have \subseteq Target  BY <1>1, <3>1, FileSets
    <3>3. Enough => cut \/ Full \ Unref \subseteq have
      BY <1>1, <1>2, <1>3, <1>4, <2>1, <3>1, <3>2 DEF Legacy
    <3>4. QED  BY <1>8, <2>3, <3>3 DEF Ready
  <2>4. QED  BY <1>1, <2>2, <2>3
<1>9. QED  BY <1>1, <1>7, <1>8

LEMMA TypeNext == IndexTypeOK /\ [IndexNext]_indexVars => IndexTypeOK'
<1> SUFFICES ASSUME IndexTypeOK, [IndexNext]_indexVars PROVE IndexTypeOK'
  OBVIOUS
<1> <<>> \in Seq(Full)
  OBVIOUS
<1>1. CASE IndexStart  BY <1>1 DEF IndexStart, Enter, IndexStages, IndexTypeOK
<1>2. CASE Decide
  <2>1. Wanted \in Seq(Full) /\ UnusedFile \in Seq(Full)
    BY WantedTarget, FileSets DEF IndexTypeOK, IsFile
  <2>2. QED  BY <1>2, <2>1 DEF Decide, Enter, IndexStages, IndexTypeOK
<1>3. todo # <<>> => Head(todo) \in Full /\ Tail(todo) \in Seq(Full)
  BY IndexesOfTail DEF IndexTypeOK
<1>4. CASE DropUnused
  <2>1. KeptFile \in Seq(Full)  BY FileSets DEF IsFile
  <2>2. QED  BY <1>3, <1>4, <2>1 DEF DropUnused, DropNext, Enter, IndexStages, IndexTypeOK
<1>5. CASE BuildIndex
  BY <1>3, <1>5 DEF BuildIndex, Enter, IndexStages, IndexTypeOK
<1>6. CASE ClearIgnored
  BY <1>6, ListType DEF ClearIgnored, Enter, IndexStages, IndexTypeOK
<1>7. CASE HideIndex
  BY <1>3, <1>7 DEF HideIndex, IndexFail, Enter, IndexStages, IndexTypeOK
<1>8. CASE AssertHidden
  BY <1>8, ListType DEF AssertHidden, Enter, IndexStages, IndexTypeOK
<1>9. CASE Prune
  BY <1>3, <1>9 DEF Prune, DropNext, Enter, IndexStages, IndexTypeOK
<1>10. CASE Benched \/ IndexKill
  BY <1>10 DEF Benched, IndexKill, Enter, IndexStages, IndexTypeOK
<1>11. CASE UNCHANGED indexVars  BY <1>11 DEF indexVars, IndexTypeOK
<1>12. QED
  BY <1>1, <1>2, <1>4, <1>5, <1>6, <1>7, <1>8, <1>9, <1>10, <1>11 DEF IndexNext

LEMMA TargetNext == TargetInv /\ [IndexNext]_indexVars => TargetInv'
<1> SUFFICES ASSUME TargetInv, [IndexNext]_indexVars PROVE TargetInv'
  OBVIOUS
<1>1. IndexTypeOK /\ IndexTypeOK'  BY TypeNext DEF TargetInv
<1>2. /\ have \subseteq Full /\ icfg \in IndexConfigs /\ todo \in Seq(Full)
      /\ icfg.kept \in BOOLEAN /\ icfg.prune \in BOOLEAN /\ cut \in BOOLEAN
  BY <1>1 DEF IndexTypeOK, IndexConfigs
<1>3. todo # <<>> => IndexesOf(todo) = {Head(todo)} \union IndexesOf(Tail(todo))
  BY <1>2, IndexesOfTail
<1>4. /\ icfg.kept => Target = Kept
      /\ ~icfg.kept /\ icfg.prune => Target = Full \ Unref
      /\ ~icfg.kept /\ ~icfg.prune => Target = Full
      /\ IndexesOf(Wanted) = Target
  BY <1>2, WantedTarget
<1>5. UNCHANGED icfg => Target' = Target  BY DEF Target
<1>6. UNCHANGED <<have, icfg, cut>> => (Ready' <=> Ready) /\ (Legacy' <=> Legacy)
  BY DEF Ready, Legacy
<1>7. Ready => cut \/ Legacy  BY <1>2, FileSets DEF Ready, Legacy
<1>8. CASE IndexStart
  <2>1. istage' = "decide" /\ ((UNCHANGED <<have, cut>> /\ istage \in {"off", "failed"}) \/ have' = {})
    BY <1>8 DEF IndexStart, Enter
  <2>2. cut' \/ Legacy'  BY <2>1 DEF TargetInv, Legacy
  <2>3. QED  BY <1>1, <2>1, <2>2 DEF TargetInv
<1>9. CASE Decide
  <2>1. istage = "decide" /\ UNCHANGED <<have, icfg, cut>>  BY <1>9 DEF Decide
  <2>2. CASE icfg.kept /\ Cardinality(have) > Len(Wanted) /\ Enter("unused", UnusedFile)
    <3>1. cut \/ Kept \subseteq have  BY <2>1, <2>2, CountDecides
    <3>2. IndexesOf(todo') = Unused /\ istage' = "unused"  BY <2>2 DEF Enter, Unused
    <3>3. QED  BY <1>1, <2>1, <2>2, <3>1, <3>2 DEF TargetInv
  <2>3. CASE ~(icfg.kept /\ Cardinality(have) > Len(Wanted)) /\ Enough /\ Enter("clear", <<>>)
    <3>1. Ready /\ istage' = "clear"  BY <2>1, <2>3, CountDecides DEF Enter
    <3>2. QED  BY <1>1, <1>6, <2>1, <3>1 DEF TargetInv
  <2>4. CASE ~Enough /\ Enter("build", Wanted)
    <3>1. IndexesOf(todo') = Target /\ istage' = "build"  BY <1>4, <2>4 DEF Enter
    <3>2. icfg.kept /\ ~cut =>
            have \intersect Unused = {} /\ (Kept \subseteq have \/ have \subseteq Kept)
      BY <2>1, <2>4, CountDecides
    <3>3. QED  BY <1>1, <1>5, <2>1, <3>1, <3>2 DEF TargetInv
  <2>5. QED  BY <1>9, <2>2, <2>3, <2>4 DEF Decide
<1>10. CASE DropUnused
  <2>1. /\ istage = "unused" /\ icfg.kept /\ IndexesOf(todo) \subseteq Unused
        /\ have \intersect Unused \subseteq IndexesOf(todo) /\ (cut \/ Kept \subseteq have)
    BY <1>10 DEF DropUnused, TargetInv
  <2>2. CASE todo # <<>> /\ DropNext
    <3>1. /\ have' = have \ {Head(todo)} /\ todo' = Tail(todo) /\ UNCHANGED <<istage, icfg, cut>>
      BY <2>2 DEF DropNext
    <3>2. Head(todo) \notin Kept  BY <1>3, <2>1, <2>2, FileSets
    <3>3. QED  BY <1>1, <1>3, <2>1, <2>2, <3>1, <3>2 DEF TargetInv
  <2>3. CASE todo = <<>> /\ Enter("build", KeptFile) /\ UNCHANGED <<have, hidden, icfg, cut>>
    <3>1. IndexesOf(todo') = Kept /\ istage' = "build" /\ Target' = Kept
      BY <1>4, <1>5, <2>1, <2>3 DEF Enter, Kept
    <3>2. have \intersect Unused = {}  BY <2>1, <2>3, IndexesOfEmpty
    <3>3. QED  BY <1>1, <2>1, <2>3, <3>1, <3>2 DEF TargetInv
  <2>4. QED  BY <1>10, <2>2, <2>3 DEF DropUnused
<1>11. CASE BuildIndex
  <2>1. /\ istage = "build" /\ UNCHANGED icfg
        /\ IndexesOf(todo) \subseteq Target /\ Target \subseteq have \union IndexesOf(todo)
        /\ icfg.kept /\ ~cut => have \intersect Unused = {} /\ (Kept \subseteq have \/ have \subseteq Kept)
    BY <1>11 DEF BuildIndex, TargetInv
  <2>2. CASE /\ todo # <<>> /\ have' = have \union {Head(todo)} /\ todo' = Tail(todo)
             /\ UNCHANGED <<istage, cut>>
    <3>1. Head(todo) \in Target  BY <1>3, <2>1, <2>2
    <3>2. icfg.kept => Head(todo) \in Kept /\ Head(todo) \notin Unused  BY <1>4, <3>1, FileSets
    <3>3. IndexesOf(todo') \subseteq Target' /\ Target' \subseteq have' \union IndexesOf(todo')
      BY <1>3, <1>5, <2>1, <2>2
    <3>4. icfg.kept /\ ~cut =>
            have' \intersect Unused = {} /\ (Kept \subseteq have' \/ have' \subseteq Kept)
      BY <2>1, <2>2, <3>2
    <3>5. QED  BY <1>1, <2>1, <2>2, <3>3, <3>4 DEF TargetInv
  <2>3. CASE /\ todo = <<>> /\ Enter("clear", <<>>) /\ cut' = (cut /\ icfg.kept) /\ UNCHANGED have
    <3>1. Target \subseteq have /\ istage' = "clear"  BY <2>1, <2>3, IndexesOfEmpty DEF Enter
    <3>2. Ready'  BY <1>2, <1>4, <2>1, <2>3, <3>1 DEF Ready
    <3>3. QED  BY <1>1, <3>1, <3>2 DEF TargetInv
  <2>4. QED  BY <1>11, <2>2, <2>3 DEF BuildIndex
<1>12. CASE ClearIgnored
  <2>1. /\ istage = "clear" /\ UNCHANGED <<have, icfg, cut>>
        /\ istage' \in {"clear", "hide", "assert"}
    BY <1>12 DEF ClearIgnored, Enter
  <2>2. QED  BY <1>1, <1>6, <2>1 DEF TargetInv
<1>13. CASE HideIndex
  <2>1. /\ istage = "hide" /\ UNCHANGED <<have, icfg, cut>>
        /\ istage' \in {"hide", "assert", "failed"}
    BY <1>13 DEF HideIndex, IndexFail, Enter
  <2>2. QED  BY <1>1, <1>6, <1>7, <2>1 DEF TargetInv
<1>14. CASE AssertHidden
  <2>1. /\ istage = "assert" /\ UNCHANGED <<have, icfg, cut>>
        /\ \/ icfg.prune /\ istage' = "prune" /\ todo' = UnrefFile
           \/ istage' = "bench"
    BY <1>14 DEF AssertHidden, Enter
  <2>2. QED  BY <1>1, <1>6, <2>1 DEF TargetInv, Unref
<1>15. CASE Prune
  <2>1. istage = "prune" /\ icfg.prune /\ IndexesOf(todo) \subseteq Unref /\ Ready
    BY <1>15 DEF Prune, TargetInv
  <2>2. CASE todo # <<>> /\ DropNext
    <3>1. have' = have \ {Head(todo)} /\ todo' = Tail(todo) /\ UNCHANGED <<istage, icfg, cut>>
      BY <2>2 DEF DropNext
    <3>2. Head(todo) \in Unref /\ IndexesOf(todo') \subseteq Unref  BY <1>3, <2>1, <2>2, <3>1
    <3>3. Ready'  BY <2>1, <3>1, <3>2, FileSets DEF Ready
    <3>4. QED  BY <1>1, <2>1, <3>1, <3>2, <3>3 DEF TargetInv
  <2>3. CASE Enter("bench", <<>>) /\ UNCHANGED <<have, hidden, icfg, cut>>
    BY <1>1, <1>6, <2>1, <2>3 DEF TargetInv, Enter
  <2>4. QED  BY <1>15, <2>2, <2>3 DEF Prune
<1>16. CASE Benched
  <2>1. istage = "bench" /\ istage' = "off" /\ UNCHANGED <<have, icfg, cut>>
    BY <1>16 DEF Benched, Enter
  <2>2. QED  BY <1>1, <1>6, <1>7, <2>1 DEF TargetInv
<1>17. CASE IndexKill
  <2>1. /\ istage \in IndexStages /\ istage' = "off" /\ UNCHANGED <<have, icfg>>
        /\ cut' = (cut \/ istage = "unused" \/ (istage = "build" /\ ~icfg.kept))
    BY <1>17 DEF IndexKill, Enter
  <2>2. CASE istage = "decide"  BY <1>1, <2>1, <2>2 DEF TargetInv, Legacy
  <2>3. CASE istage = "unused"  BY <1>1, <2>1, <2>3 DEF TargetInv
  <2>4. CASE istage = "build"
    <3>1. cut' \/ (icfg.kept /\ ~cut)  BY <2>1, <2>4
    <3>2. cut' \/ Legacy'  BY <2>1, <2>4, <3>1 DEF TargetInv, Legacy
    <3>3. QED  BY <1>1, <2>1, <3>2 DEF TargetInv
  <2>5. CASE istage \in {"clear", "hide", "assert", "prune", "bench"}
    <3>1. cut \/ Legacy  BY <1>7, <2>5 DEF TargetInv
    <3>2. cut' \/ Legacy'  BY <2>1, <3>1 DEF Legacy
    <3>3. QED  BY <1>1, <2>1, <3>2 DEF TargetInv
  <2>6. QED  BY <2>1, <2>2, <2>3, <2>4, <2>5 DEF IndexStages
<1>18. CASE UNCHANGED indexVars
  <2>1. UNCHANGED <<have, hidden, istage, icfg, todo, cut>>  BY <1>18 DEF indexVars
  <2>2. QED  BY <1>1, <1>5, <1>6, <2>1 DEF TargetInv
<1>19. QED
  BY <1>8, <1>9, <1>10, <1>11, <1>12, <1>13, <1>14, <1>15, <1>16, <1>17, <1>18 DEF IndexNext

(* The index stage is well typed.                                          *)
THEOREM IndexTypeCorrect == IndexSpec => []IndexTypeOK
<1>1. TargetInv => IndexTypeOK  BY DEF TargetInv
<1>2. QED  BY <1>1, TargetInit, TargetNext, PTL DEF IndexSpec

(* For any files of indexes and any runs before: a run that asks for the   *)
(* full set measures exactly that; one that asks for the pruned set that,  *)
(* unless a build was killed before; and one that asks for the kept set    *)
(* has all of it and none that the file of drops names, but maybe others.  *)
THEOREM TargetAlwaysMeasured == IndexSpec => []TargetMeasured
<1>1. TargetInv /\ HiddenInv => TargetMeasured
  <2>1. SUFFICES ASSUME TargetInv, HiddenInv, istage = "bench" PROVE TargetMeasured
    BY DEF TargetMeasured
  <2>2. Ready /\ have \subseteq Full  BY <2>1 DEF TargetInv, IndexTypeOK
  <2>3. icfg.prune => have \intersect Unref = {}  BY <2>1 DEF HiddenInv, Unref
  <2>4. QED  BY <2>1, <2>2, <2>3 DEF TargetMeasured, Ready, Kept, Unused, Unref
<1>2. QED  BY <1>1, HiddenInit, HiddenNext, TargetInit, TargetNext, PTL DEF IndexSpec

(* A run that finds the set it wants leaves it alone.                      *)
THEOREM TargetAlwaysLeftAlone == IndexSpec => TargetLeftAlone
<1> DEFINE Keeps == istage \notin {"off", "failed"} /\ have = Target => have' = have
<1>1. ASSUME TargetInv, [IndexNext]_indexVars PROVE [Keeps]_indexVars
  <2>1. SUFFICES ASSUME IndexNext, istage \notin {"off", "failed"}, have = Target PROVE have' = have
    BY <1>1
  <2>2. /\ icfg \in IndexConfigs /\ todo \in Seq(Full) /\ icfg.kept \in BOOLEAN
    BY <1>1 DEF TargetInv, IndexTypeOK, IndexConfigs
  <2>3. /\ icfg.kept => Target = Kept
        /\ ~icfg.kept /\ icfg.prune => Target = Full \ Unref
    BY <2>2, WantedTarget
  <2>4. todo # <<>> => Head(todo) \in IndexesOf(todo)  BY <2>2, IndexesOfTail
  <2>5. CASE DropUnused
    <3>1. istage = "unused" /\ icfg.kept /\ IndexesOf(todo) \subseteq Unused
      BY <1>1, <2>5 DEF DropUnused, TargetInv
    <3>2. todo # <<>> => Head(todo) \notin have  BY <2>1, <2>3, <2>4, <3>1, FileSets
    <3>3. QED  BY <2>5, <3>2 DEF DropUnused, DropNext
  <2>6. CASE BuildIndex
    <3>1. istage = "build" /\ IndexesOf(todo) \subseteq Target  BY <1>1, <2>6 DEF BuildIndex, TargetInv
    <3>2. todo # <<>> => Head(todo) \in have  BY <2>1, <2>4, <3>1
    <3>3. QED  BY <2>6, <3>2 DEF BuildIndex
  <2>7. CASE Prune
    <3>1. istage = "prune" /\ icfg.prune /\ IndexesOf(todo) \subseteq Unref
      BY <1>1, <2>7 DEF Prune, TargetInv
    <3>2. todo # <<>> => Head(todo) \notin have  BY <2>1, <2>2, <2>3, <2>4, <3>1, FileSets
    <3>3. QED  BY <2>7, <3>2 DEF Prune, DropNext
  <2>8. CASE IndexStart  BY <2>1, <2>8 DEF IndexStart
  <2>9. QED
    BY <2>1, <2>5, <2>6, <2>7, <2>8
    DEF IndexNext, Decide, ClearIgnored, HideIndex, IndexFail, AssertHidden, Benched, IndexKill
<1>2. QED  BY <1>1, TargetInit, TargetNext, PTL DEF IndexSpec, TargetLeftAlone

-----------------------------------------------------------------------------
(* The results directories.                                                *)

DirsType ==
  /\ dir = [t \in Tags |-> dir[t]] /\ log = [t \in Tags |-> log[t]]
  /\ \A t \in Tags : dir[t] = [answers |-> dir[t].answers, summary |-> dir[t].summary]

\* A run is between its first restart of the server and its last check.
Measuring == {"server", "putaway", "putlog", "putcomparison", "query", "verify"}

Own == [run |-> run, work |-> mcfg.work, origin |-> mcfg.origin, errors |-> 0]

IsOwn(t) == dir[t].summary = Own /\ dir[t].summary # NoSummary

Whole(work) == {QueriesOf[work][k] : k \in DOMAIN QueriesOf[work]}

Bad == {"error", "timeout"}

(* The answers of a run that has no failure are all quiet, and no orphan   *)
(* runs.                                                                   *)
Answers(a, n) ==
  /\ DOMAIN a = {Items[k] : k \in 1 .. n} /\ IsFiniteSet(DOMAIN a)
  /\ \A q \in DOMAIN a : a[q].run = run
  /\ \A q \in DOMAIN a : a[q].how \in Bad \union {"quiet", "noisy"}
  /\ (\A q \in DOMAIN a : a[q].how \notin Bad) =>
       (\A q \in DOMAIN a : a[q].how = "quiet") /\ ~orphan

(* What a run has done, at every stage of it.                              *)
RunSoFar ==
  /\ mstage \in Measuring \union {"off", "report", "done"}
  /\ mstage # "off" => mcfg \in MeasureConfigs
  /\ mstage \in Measuring =>
       /\ mcfg.mode # "skip"
       /\ \/ left = <<mcfg.tuned>> /\ mcfg.tuned \in Tags
          \/ left = <<"baseline", "tuned">> /\ mcfg.tuned = "both"
          \/ left = <<"tuned">> /\ mcfg.tuned = "both" /\ IsOwn("baseline")
  /\ mstage \in {"putaway", "putlog", "putcomparison"} => ~orphan
  /\ mstage \in {"putlog", "putcomparison"} => dir[tag] = EmptyDir
  /\ mstage = "query" =>
       /\ dir[tag].summary = NoSummary /\ log[tag] = run
       /\ at \in 0 .. Len(Items) /\ Answers(dir[tag].answers, at)
  /\ mstage = "verify" =>
       dir[tag].summary = [Own EXCEPT !.errors = dir[tag].summary.errors]
  /\ mstage = "report" /\ mcfg.mode # "skip" => \A t \in Allowed : IsOwn(t)

MeasureInv == DirsType /\ RunSoFar /\ OneRunPerDirectory /\ MeasuredAlone /\ ReportsItsOwn

LEMMA MeasureInvInit == MeasureInit => MeasureInv
<1> SUFFICES ASSUME MeasureInit PROVE MeasureInv
  OBVIOUS
<1>1. \A t \in Tags : dir[t] = [answers |-> NoFiles, summary |-> NoSummary] /\ log[t] = NoRun
  BY DEF MeasureInit, EmptyDir
<1>2. DirsType  BY <1>1 DEF MeasureInit, DirsType, EmptyDir
<1>3. DOMAIN NoFiles = {}  BY DEF NoFiles
<1>4. QED
  BY <1>1, <1>2, <1>3
  DEF MeasureInit, MeasureInv, RunSoFar, Measuring, OneRunPerDirectory, MeasuredAlone, ReportsItsOwn

OneRunIn(d, l) ==
  /\ \A p, q \in DOMAIN d.answers : d.answers[p].run = d.answers[q].run
  /\ d.summary # NoSummary =>
       /\ DOMAIN d.answers = Whole(d.summary.work)
       /\ \A q \in DOMAIN d.answers : d.answers[q].run = d.summary.run
  /\ l # NoRun => \A q \in DOMAIN d.answers : d.answers[q].run = l

LEMMA PerDirectory == OneRunPerDirectory <=> \A t \in Tags : OneRunIn(dir[t], log[t])
  BY DEF OneRunPerDirectory, OneRunIn, Whole

LEMMA NothingIsOneRun ==
  ASSUME NEW d, NEW l, DOMAIN d.answers = {}, d.summary = NoSummary
  PROVE  OneRunIn(d, l)
  BY DEF OneRunIn

(* What the directories say is of the directories and logs alone.          *)
LEMMA SameDirs ==
  ASSUME MeasureInv, UNCHANGED <<dir, log>>
  PROVE  DirsType' /\ OneRunPerDirectory' /\ MeasuredAlone'
<1>1. DirsType /\ OneRunPerDirectory /\ MeasuredAlone
  BY DEF MeasureInv
<1>2. dir' = dir /\ log' = log
  OBVIOUS
<1>3. DirsType'
  BY <1>1, <1>2 DEF DirsType
<1>4. OneRunPerDirectory'
  <2>1. \A t \in Tags : OneRunIn(dir[t], log[t])
    BY <1>1, PerDirectory
  <2>2. \A t \in Tags : OneRunIn(dir'[t], log'[t])
    BY <1>2, <2>1
  <2> QED
    BY <2>2 DEF OneRunPerDirectory, OneRunIn, Whole
<1>5. MeasuredAlone'
  BY <1>1, <1>2 DEF MeasuredAlone
<1> QED
  BY <1>3, <1>4, <1>5

LEMMA TagType ==
  ASSUME MeasureInv, mstage \in Measuring
  PROVE  /\ tag \in Tags /\ left # <<>> /\ mcfg \in MeasureConfigs /\ mstage # "off"
         /\ Items \in Seq(Queries) /\ mcfg.work \in Workloads
         /\ \A j, k \in DOMAIN Items : Items[j] = Items[k] => j = k
<1>1. mcfg \in MeasureConfigs /\ left # <<>>  BY DEF MeasureInv, RunSoFar, Measuring
<1>2. mcfg.work \in Workloads  BY <1>1 DEF MeasureConfigs
<1>3. tag \in Tags  BY DEF MeasureInv, RunSoFar, tag, Tags
<1>4. QED  BY <1>1, <1>2, <1>3, MeasurementAssumption DEF Items, Measuring

LEMMA InvEnd == MeasureInv /\ MeasureEnd => MeasureInv'
<1> SUFFICES ASSUME MeasureInv, MeasureEnd PROVE MeasureInv'
  OBVIOUS
<1>1. UNCHANGED <<dir, log>> /\ mstage' = "off"  BY DEF MeasureEnd, results
<1>2. QED  BY <1>1, SameDirs DEF MeasureInv, RunSoFar, Measuring, ReportsItsOwn

LEMMA InvStart == MeasureInv /\ MeasureStart => MeasureInv'
<1> SUFFICES ASSUME MeasureInv, MeasureStart PROVE MeasureInv'
  OBVIOUS
<1>1. /\ UNCHANGED <<dir, log>> /\ mcfg' \in MeasureConfigs
      /\ left' = IF mcfg'.tuned = "both" THEN <<"baseline", "tuned">> ELSE <<mcfg'.tuned>>
      /\ mstage' = IF mcfg'.mode = "skip" THEN "report" ELSE "server"
  BY DEF MeasureStart, results
<1>2. mcfg'.tuned \in {"baseline", "tuned", "both"}  BY <1>1 DEF MeasureConfigs
<1>3. RunSoFar'  BY <1>1, <1>2 DEF RunSoFar, Measuring, Tags
<1>4. QED  BY <1>1, <1>3, SameDirs DEF MeasureInv, ReportsItsOwn

LEMMA InvRestart == MeasureInv /\ RestartServer => MeasureInv'
<1> SUFFICES ASSUME MeasureInv, RestartServer PROVE MeasureInv'
  OBVIOUS
<1>1. /\ UNCHANGED <<dir, log, run, mcfg, left>> /\ mstage = "server" /\ mstage' = "putaway"
      /\ ~orphan'
  BY DEF RestartServer, results
<1>2. RunSoFar'  BY <1>1 DEF MeasureInv, RunSoFar, Measuring, IsOwn, Own
<1>3. QED  BY <1>1, <1>2, SameDirs DEF MeasureInv, ReportsItsOwn

LEMMA InvPutAwayDir == MeasureInv /\ PutAwayDir => MeasureInv'
<1> SUFFICES ASSUME MeasureInv, PutAwayDir PROVE MeasureInv'
  OBVIOUS
<1>1. /\ UNCHANGED <<log, run, mcfg, left, orphan>> /\ mstage = "putaway" /\ mstage' = "putlog"
      /\ dir' = [dir EXCEPT ![tag] = EmptyDir]
  BY DEF PutAwayDir
<1>2. tag \in Tags /\ tag' = tag  BY <1>1, TagType DEF Measuring, tag
<1>3. /\ dir'[tag] = [answers |-> NoFiles, summary |-> NoSummary]
      /\ \A t \in Tags \ {tag} : dir'[t] = dir[t]
      /\ dir' = [t \in Tags |-> dir'[t]]
  BY <1>1, <1>2 DEF MeasureInv, DirsType, EmptyDir
<1>4. DOMAIN NoFiles = {}  BY DEF NoFiles
<1>5. DirsType'  BY <1>1, <1>3 DEF MeasureInv, DirsType
<1>6. left = <<"tuned">> => tag = "tuned"  BY DEF tag
<1>7. RunSoFar'
  BY <1>1, <1>2, <1>3, <1>6 DEF MeasureInv, RunSoFar, Measuring, IsOwn, Own, EmptyDir, Tags
<1>8. OneRunPerDirectory'
  <2>1. ASSUME NEW t \in Tags PROVE OneRunIn(dir'[t], log[t])
    <3>1. CASE t = tag  BY <1>3, <1>4, <3>1, NothingIsOneRun
    <3>2. CASE t # tag  BY <1>3, <3>2, PerDirectory DEF MeasureInv
    <3>3. QED  BY <3>1, <3>2
  <2>2. \A t \in Tags : OneRunIn(dir'[t], log'[t])  BY <1>1, <2>1
  <2>3. QED  BY <2>2 DEF OneRunPerDirectory, OneRunIn, Whole
<1>9. MeasuredAlone'  BY <1>2, <1>3, <1>4 DEF MeasureInv, MeasuredAlone
<1>10. QED  BY <1>1, <1>5, <1>7, <1>8, <1>9 DEF MeasureInv, ReportsItsOwn

LEMMA InvPutAwayLog == MeasureInv /\ (PutAwayLog \/ PutAwayComparison) => MeasureInv'
<1> SUFFICES ASSUME MeasureInv, PutAwayLog \/ PutAwayComparison PROVE MeasureInv'
  OBVIOUS
<1>1. UNCHANGED <<dir, run, mcfg, left, orphan>> /\ mstage \in {"putlog", "putcomparison"}
  BY DEF PutAwayLog, PutAwayComparison
<1>2. \/ mstage' = "putcomparison" /\ log' = [log EXCEPT ![tag] = NoRun]
      \/ mstage' = "query" /\ log' = [log EXCEPT ![tag] = run] /\ at' = 0
  BY DEF PutAwayLog, PutAwayComparison
<1>3. tag \in Tags /\ tag' = tag /\ Items' = Items /\ Items \in Seq(Queries)
  BY <1>1, TagType DEF Measuring, tag, Items
<1>4. /\ log' = [t \in Tags |-> log'[t]] /\ \A t \in Tags \ {tag} : log'[t] = log[t]
      /\ log'[tag] = IF mstage' = "query" THEN run ELSE NoRun
  BY <1>2, <1>3 DEF MeasureInv, DirsType
<1>5. dir[tag] = EmptyDir /\ ~orphan  BY <1>1 DEF MeasureInv, RunSoFar
<1>6. dir[tag].answers = NoFiles /\ dir[tag].summary = NoSummary  BY <1>5 DEF EmptyDir
<1>7. DOMAIN NoFiles = {}  BY DEF NoFiles
<1>8. DirsType'  BY <1>1, <1>4 DEF MeasureInv, DirsType
<1>9. {Items[k] : k \in 1 .. 0} = {} /\ IsFiniteSet({})  BY FS_EmptySet
<1>10. RunSoFar'
  <2>1. left = <<"tuned">> => tag = "tuned"  BY DEF tag
  <2>2. CASE mstage' = "putcomparison"
    BY <1>1, <1>3, <2>1, <2>2 DEF MeasureInv, RunSoFar, Measuring, IsOwn, Own
  <2>3. CASE mstage' = "query"
    <3>1. Answers(dir[tag].answers, at)'  BY <1>1, <1>2, <1>3, <1>5, <1>6, <1>7, <1>9, <2>3 DEF Answers
    <3>2. at' \in 0 .. Len(Items)  BY <1>2, <1>3, <2>3
    <3>3. QED
      BY <1>1, <1>3, <1>4, <1>6, <2>1, <2>3, <3>1, <3>2
      DEF MeasureInv, RunSoFar, Measuring, IsOwn, Own
  <2>4. QED  BY <1>2, <2>2, <2>3
<1>11. OneRunPerDirectory'
  BY <1>1, <1>3, <1>4, <1>6, <1>7 DEF MeasureInv, OneRunPerDirectory
<1>12. MeasuredAlone'  BY <1>1 DEF MeasureInv, MeasuredAlone
<1>13. mstage' # "done"  BY <1>2
<1>14. QED  BY <1>8, <1>10, <1>11, <1>12, <1>13 DEF MeasureInv, ReportsItsOwn

LEMMA SetAnswers ==
  ASSUME NEW u \in Tags, NEW files, DirsType, dir' = [dir EXCEPT ![u].answers = files]
  PROVE  /\ dir' = [t \in Tags |-> dir'[t]] /\ \A t \in Tags \ {u} : dir'[t] = dir[t]
         /\ dir'[u] = [answers |-> files, summary |-> dir[u].summary]
  BY DEF DirsType

LEMMA InvRunQuery == MeasureInv /\ RunQuery => MeasureInv'
<1> SUFFICES ASSUME MeasureInv, RunQuery PROVE MeasureInv'
  OBVIOUS
<1> DEFINE a == dir[tag].answers
           x == Items[at + 1]
           Answer(how) == [run |-> run, how |-> how]
           F(how) == [q \in DOMAIN a \union {x} |-> IF q = x THEN Answer(how) ELSE a[q]]
<1>1. PICK how \in {IF orphan THEN "noisy" ELSE "quiet", "error", "timeout"} :
        /\ dir' = [dir EXCEPT ![tag].answers = F(how)]
        /\ orphan' = (orphan \/ how = "timeout")
  BY DEF RunQuery
<1>2. /\ mstage = "query" /\ mstage' = "query" /\ at' = at + 1 /\ at < Len(Items)
      /\ UNCHANGED <<log, run, mcfg, left>>
  BY DEF RunQuery
<1>3. /\ tag \in Tags /\ tag' = tag /\ Items' = Items /\ Items \in Seq(Queries)
      /\ \A j, k \in DOMAIN Items : Items[j] = Items[k] => j = k
  BY <1>2, TagType DEF Measuring, tag, Items
<1>4. /\ dir[tag].summary = NoSummary /\ log[tag] = run
      /\ at \in 0 .. Len(Items) /\ Answers(a, at)
  BY <1>2 DEF MeasureInv, RunSoFar
<1>5. /\ dir' = [t \in Tags |-> dir'[t]] /\ \A t \in Tags \ {tag} : dir'[t] = dir[t]
      /\ dir'[tag] = [answers |-> F(how), summary |-> NoSummary]
  BY <1>1, <1>3, <1>4, SetAnswers DEF MeasureInv
<1>6. /\ DOMAIN F(how) = DOMAIN a \union {x} /\ F(how)[x] = Answer(how)
      /\ \A q \in DOMAIN a \ {x} : F(how)[q] = a[q]
  OBVIOUS
<1>7. x \notin DOMAIN a /\ DOMAIN F(how) = {Items[k] : k \in 1 .. at + 1}
  <2>1. at + 1 \in DOMAIN Items /\ \A k \in 1 .. at : k \in DOMAIN Items /\ k # at + 1
    BY <1>2, <1>3, <1>4
  <2>2. \A k \in 1 .. at + 1 : k = at + 1 \/ k \in 1 .. at  BY <1>4
  <2>3. 1 .. at \subseteq 1 .. at + 1 /\ at + 1 \in 1 .. at + 1  BY <1>4
  <2>4. DOMAIN a = {Items[k] : k \in 1 .. at}  BY <1>4 DEF Answers
  <2>5. QED  BY <1>3, <1>6, <2>1, <2>2, <2>3, <2>4
<1>8. IsFiniteSet(DOMAIN a \union {x})  BY <1>4, FS_AddElement DEF Answers
<1> HIDE DEF F, x
<1>9. \A q \in DOMAIN F(how) : F(how)[q].run = run
  BY <1>4, <1>6 DEF Answers
<1>10. \A q \in DOMAIN F(how) : F(how)[q].how \in Bad \union {"quiet", "noisy"}
  BY <1>4, <1>6 DEF Answers, Bad
<1>11. ASSUME \A q \in DOMAIN F(how) : F(how)[q].how \notin Bad
       PROVE  (\A q \in DOMAIN F(how) : F(how)[q].how = "quiet") /\ ~orphan'
  <2>1. \A q \in DOMAIN a : a[q].how \notin Bad  BY <1>6, <1>7, <1>11
  <2>2. (\A q \in DOMAIN a : a[q].how = "quiet") /\ ~orphan  BY <1>4, <2>1 DEF Answers
  <2>3. how = "quiet"  BY <1>6, <1>11, <2>2 DEF Bad
  <2>4. ~(orphan \/ how = "timeout")  BY <2>2, <2>3
  <2>5. ~orphan'  BY <1>1, <2>4
  <2>6. \A q \in DOMAIN F(how) : F(how)[q].how = "quiet"  BY <1>6, <2>2, <2>3
  <2>7. QED  BY <2>5, <2>6
<1>12. Answers(dir[tag].answers, at)'
  <2>1. dir'[tag'].answers = F(how)  BY <1>3, <1>5
  <2>2. DOMAIN F(how) = {Items'[k] : k \in 1 .. at'} /\ IsFiniteSet(DOMAIN F(how))
    BY <1>2, <1>3, <1>6, <1>7, <1>8
  <2>3. run' = run  BY <1>2
  <2>4. QED  BY <1>9, <1>10, <1>11, <2>1, <2>2, <2>3 DEF Answers
<1>13. RunSoFar'
  <2>1. left = <<"tuned">> => tag = "tuned"  BY DEF tag
  <2>2. at' \in 0 .. Len(Items)  BY <1>2, <1>3, <1>4
  <2>3. QED
    BY <1>2, <1>3, <1>4, <1>5, <1>12, <2>1, <2>2 DEF MeasureInv, RunSoFar, Measuring, IsOwn, Own, Tags
<1>14. DirsType'  BY <1>2, <1>3, <1>5 DEF MeasureInv, DirsType
<1>15. OneRunPerDirectory'
  <2>1. OneRunIn(dir'[tag], log[tag])  BY <1>4, <1>5, <1>9 DEF OneRunIn
  <2>2. \A t \in Tags : OneRunIn(dir'[t], log'[t])
    BY <1>2, <1>5, <2>1, PerDirectory DEF MeasureInv
  <2>3. QED  BY <2>2 DEF OneRunPerDirectory, OneRunIn, Whole
<1>16. MeasuredAlone'  BY <1>5 DEF MeasureInv, MeasuredAlone
<1>17. QED  BY <1>2, <1>13, <1>14, <1>15, <1>16 DEF MeasureInv, ReportsItsOwn

LEMMA InvOrphanEnds == MeasureInv /\ OrphanEnds => MeasureInv'
<1> SUFFICES ASSUME MeasureInv, OrphanEnds PROVE MeasureInv'
  OBVIOUS
<1>1. /\ UNCHANGED <<dir, log, run, mcfg, left, at, mstage>> /\ mstage = "query" /\ ~orphan'
  BY DEF OrphanEnds, results
<1>2. tag' = tag /\ Items' = Items  BY <1>1 DEF tag, Items
<1>3. Answers(dir[tag].answers, at)'
  BY <1>1, <1>2 DEF MeasureInv, RunSoFar, Answers
<1>4. RunSoFar'
  BY <1>1, <1>2, <1>3 DEF MeasureInv, RunSoFar, Measuring, IsOwn, Own
<1>5. QED  BY <1>1, <1>4, SameDirs DEF MeasureInv, ReportsItsOwn

LEMMA InvWriteSummary == MeasureInv /\ WriteSummary => MeasureInv'
<1> SUFFICES ASSUME MeasureInv, WriteSummary PROVE MeasureInv'
  OBVIOUS
<1> DEFINE a == dir[tag].answers
           errors == Cardinality(Failed(a))
           S == [run |-> run, work |-> mcfg.work, origin |-> mcfg.origin, errors |-> errors]
<1>1. /\ mstage = "query" /\ mstage' = "verify" /\ at = Len(Items)
      /\ dir' = [dir EXCEPT ![tag].summary = S]
      /\ UNCHANGED <<log, run, mcfg, left, orphan>>
  BY DEF WriteSummary
<1>2. tag \in Tags /\ tag' = tag /\ Items \in Seq(Queries)
  BY <1>1, TagType DEF Measuring, tag
<1>3. log[tag] = run /\ Answers(a, Len(Items))
  BY <1>1 DEF MeasureInv, RunSoFar
<1>4. /\ dir' = [t \in Tags |-> dir'[t]] /\ \A t \in Tags \ {tag} : dir'[t] = dir[t]
      /\ dir'[tag] = [answers |-> a, summary |-> S]
  BY <1>1, <1>2 DEF MeasureInv, DirsType
<1>5. DOMAIN a = Whole(mcfg.work) /\ \A q \in DOMAIN a : a[q].run = run
  BY <1>2, <1>3 DEF Answers, Whole, Items
<1>6. errors = 0 => \A q \in DOMAIN a : a[q].how = "quiet"
  <2>1. Failed(a) \subseteq DOMAIN a /\ IsFiniteSet(DOMAIN a)  BY <1>3 DEF Failed, Answers
  <2>2. IsFiniteSet(Failed(a))  BY <2>1, FS_Subset
  <2>3. errors = 0 => Failed(a) = {}  BY <2>2, FS_EmptySet
  <2>4. Failed(a) = {} => \A q \in DOMAIN a : a[q].how \notin Bad  BY DEF Failed, Bad
  <2>5. QED  BY <1>3, <2>3, <2>4 DEF Answers
<1> HIDE DEF errors, a
<1>7. RunSoFar'
  <2>1. left = <<"tuned">> => tag = "tuned"  BY DEF tag
  <2>2. S = [Own EXCEPT !.errors = S.errors] /\ Own' = Own  BY <1>1 DEF Own
  <2>3. QED
    BY <1>1, <1>2, <1>4, <2>1, <2>2 DEF MeasureInv, RunSoFar, Measuring, IsOwn, Tags
<1>8. DirsType'  BY <1>1, <1>2, <1>4 DEF MeasureInv, DirsType
<1>9. OneRunPerDirectory'
  <2>1. OneRunIn(dir'[tag], log[tag])  BY <1>3, <1>4, <1>5 DEF OneRunIn
  <2>2. \A t \in Tags : OneRunIn(dir'[t], log'[t])
    BY <1>1, <1>4, <2>1, PerDirectory DEF MeasureInv
  <2>3. QED  BY <2>2 DEF OneRunPerDirectory, OneRunIn, Whole
<1>10. MeasuredAlone'  BY <1>4, <1>6 DEF MeasureInv, MeasuredAlone
<1>11. QED  BY <1>1, <1>7, <1>8, <1>9, <1>10 DEF MeasureInv, ReportsItsOwn

LEMMA InvVerify == MeasureInv /\ Verify => MeasureInv'
<1> SUFFICES ASSUME MeasureInv, Verify PROVE MeasureInv'
  OBVIOUS
<1>1. CASE MeasureEnd  BY <1>1, InvEnd
<1>2. CASE ~MeasureEnd
  <2>1. /\ UNCHANGED <<dir, log, run, mcfg>> /\ mstage = "verify" /\ Verified(dir[tag])
        /\ \/ Len(left) > 1 /\ mstage' = "server" /\ left' = Tail(left)
           \/ Len(left) = 1 /\ mstage' = "report" /\ UNCHANGED left
    BY <1>2 DEF Verify, results
  <2>2. dir[tag].summary = [Own EXCEPT !.errors = dir[tag].summary.errors]
    BY <2>1 DEF MeasureInv, RunSoFar
  <2>3. dir[tag].summary.errors = 0 /\ dir[tag].summary # NoSummary  BY <2>1 DEF Verified
  <2>4. IsOwn(tag)  BY <2>2, <2>3 DEF IsOwn, Own
  <2>5. /\ mcfg.mode # "skip" /\ mcfg \in MeasureConfigs
        /\ \/ left = <<mcfg.tuned>> /\ mcfg.tuned \in Tags
           \/ left = <<"baseline", "tuned">> /\ mcfg.tuned = "both"
           \/ left = <<"tuned">> /\ mcfg.tuned = "both" /\ IsOwn("baseline")
    BY <2>1 DEF MeasureInv, RunSoFar, Measuring
  <2>6. Own' = Own /\ \A t \in Tags : IsOwn(t)' <=> IsOwn(t)  BY <2>1 DEF Own, IsOwn
  <2>7. CASE mstage' = "server"
    <3>1. left = <<"baseline", "tuned">> /\ mcfg.tuned = "both"  BY <2>1, <2>5, <2>7
    <3>2. left' = <<"tuned">> /\ tag = "baseline"  BY <2>1, <2>7, <3>1 DEF tag
    <3>3. IsOwn("baseline")'  BY <2>4, <2>6, <3>2 DEF Tags
    <3>4. RunSoFar'  BY <2>1, <2>5, <2>7, <3>1, <3>2, <3>3 DEF RunSoFar, Measuring
    <3>5. QED  BY <2>1, <2>7, <3>4, SameDirs DEF MeasureInv, ReportsItsOwn
  <2>8. CASE mstage' = "report"
    <3>1. left = <<mcfg.tuned>> => Allowed = {mcfg.tuned} /\ tag = mcfg.tuned
      BY <2>5 DEF Allowed, tag, Tags
    <3>2. left = <<"tuned">> => tag = "tuned"  BY DEF tag
    <3>3. Len(left) = 1  BY <2>1, <2>8
    <3>4. \A t \in Allowed : t \in Tags /\ IsOwn(t)
      BY <2>4, <2>5, <3>1, <3>2, <3>3 DEF Allowed, Tags
    <3>5. Allowed' = Allowed  BY <2>1 DEF Allowed
    <3>6. RunSoFar'  BY <2>1, <2>5, <2>6, <2>8, <3>4, <3>5 DEF RunSoFar, Measuring
    <3>7. QED  BY <2>1, <2>8, <3>6, SameDirs DEF MeasureInv, ReportsItsOwn
  <2>9. QED  BY <2>1, <2>7, <2>8
<1>3. QED  BY <1>1, <1>2

LEMMA InvReport == MeasureInv /\ Report => MeasureInv'
<1> SUFFICES ASSUME MeasureInv, Report PROVE MeasureInv'
  OBVIOUS
<1>1. CASE MeasureEnd  BY <1>1, InvEnd
<1>2. CASE ~MeasureEnd
  <2>1. /\ UNCHANGED <<dir, log, run, mcfg>> /\ mstage = "report" /\ mstage' = "done"
        /\ reported' = {dir[t].summary : t \in Picked}
    <3>1. Picked = Tags => reported' = {dir[t].summary : t \in Tags} \/ TRUE  OBVIOUS
    <3>2. QED  BY <1>2 DEF Report, results
  <2>2. Allowed' = Allowed /\ Own' = Own  BY <2>1 DEF Allowed, Own
  <2>3. RunSoFar'  BY <2>1 DEF MeasureInv, RunSoFar, Measuring
  <2>4. ReportsItsOwn'
    <3>1. SUFFICES ASSUME mcfg.mode # "skip"
                   PROVE  reported' = {Own} /\ \A t \in Allowed : dir[t].summary \in reported'
      BY <2>1, <2>2 DEF ReportsItsOwn, Own
    <3>2. \A t \in Allowed : IsOwn(t)  BY <2>1, <3>1 DEF MeasureInv, RunSoFar
    <3>3. Picked = Allowed  BY <3>2 DEF Picked, IsOwn, Own
    <3>4. mcfg.tuned \in Allowed \/ "tuned" \in Allowed  BY DEF Allowed, Tags
    <3>5. reported' = {Own}  BY <2>1, <3>2, <3>3, <3>4 DEF IsOwn
    <3>6. QED  BY <3>2, <3>5 DEF IsOwn
  <2>5. QED  BY <2>1, <2>3, <2>4, SameDirs DEF MeasureInv
<1>3. QED  BY <1>1, <1>2

LEMMA MeasureInvNext == MeasureInv /\ [MeasureNext]_measureVars => MeasureInv'
<1> SUFFICES ASSUME MeasureInv, [MeasureNext]_measureVars PROVE MeasureInv'
  OBVIOUS
<1>1. CASE UNCHANGED measureVars
  <2>1. UNCHANGED <<dir, log, run, mstage, mcfg, left, at, orphan, reported>>
    BY <1>1 DEF measureVars, results
  <2>2. Own' = Own /\ tag' = tag /\ Items' = Items /\ Allowed' = Allowed
    BY <2>1 DEF Own, tag, Items, Allowed
  <2>3. RunSoFar'
    BY <2>1, <2>2 DEF MeasureInv, RunSoFar, Answers, IsOwn
  <2>4. ReportsItsOwn'  BY <2>1, <2>2 DEF MeasureInv, ReportsItsOwn
  <2>5. QED  BY <2>1, <2>3, <2>4, SameDirs DEF MeasureInv
<1>2. CASE ReportEnds \/ MeasureKill  BY <1>2, InvEnd DEF ReportEnds, MeasureKill
<1>3. QED
  BY <1>1, <1>2, InvStart, InvRestart, InvPutAwayDir, InvPutAwayLog, InvRunQuery, InvOrphanEnds,
     InvWriteSummary, InvVerify, InvReport
  DEF MeasureNext

(* What the runs leave is a run's own, for any workloads of any lengths    *)
(* and any kills.                                                          *)
THEOREM MeasureInvariant == MeasureSpec => []MeasureInv
<1>1. QED  BY MeasureInvInit, MeasureInvNext, PTL DEF MeasureSpec

(* No result is put together from two runs.                                *)
THEOREM AlwaysOneRunPerDirectory == MeasureSpec => []OneRunPerDirectory
<1>1. MeasureInv => OneRunPerDirectory  BY DEF MeasureInv
<1>2. QED  BY <1>1, MeasureInvariant, PTL

(* A result without errors was measured without an orphan beside it.       *)
THEOREM AlwaysMeasuredAlone == MeasureSpec => []MeasuredAlone
<1>1. MeasureInv => MeasuredAlone  BY DEF MeasureInv
<1>2. QED  BY <1>1, MeasureInvariant, PTL

(* No run touches the results of another, nor disturbs its own.            *)
THEOREM RunsAlwaysApart == MeasureSpec => []RunsApart
<1>1. MeasureInv => RunsApart  BY DEF MeasureInv, RunsApart
<1>2. QED  BY <1>1, MeasureInvariant, PTL

(* A run reports what it has measured.                                     *)
THEOREM AlwaysReportsItsOwn == MeasureSpec => []ReportsItsOwn
<1>1. MeasureInv => ReportsItsOwn  BY DEF MeasureInv
<1>2. QED  BY <1>1, MeasureInvariant, PTL

(* A comparison is of the answers beside it, as far as they are still      *)
(* there, and while a directory is written to there is none.               *)
ComparedWith(t) ==
  compared[t] # NoRun =>
    /\ \A q \in DOMAIN dir[t].answers : dir[t].answers[q].run = compared[t]
    /\ \A s \in Tags : dir[s].summary # NoSummary /\ dir[t].summary # NoSummary =>
         dir[s].summary.origin = dir[t].summary.origin

ComparedInv ==
  /\ \A t \in Tags : ComparedWith(t)
  /\ mstage \in {"query", "verify"} => \A t \in Tags : compared[t] = NoRun

LEMMA ComparedInit == MeasureInit => ComparedInv
  BY DEF MeasureInit, ComparedInv, ComparedWith

(* Only these stages write to the directories or compare.                  *)
LEMMA OthersKeep ==
  ASSUME [MeasureNext]_measureVars, ~PutAwayDir, ~PutAwayComparison, ~RunQuery, ~WriteSummary, ~Report
  PROVE  /\ UNCHANGED <<dir, compared>>
         /\ mstage' \in {"query", "verify"} => mstage' = mstage
<1>1. MeasureEnd => UNCHANGED <<dir, compared>> /\ mstage' = "off"  BY DEF MeasureEnd, results
<1>2. CASE MeasureStart  BY <1>2 DEF MeasureStart, results
<1>3. CASE RestartServer  BY <1>3 DEF RestartServer, results
<1>4. CASE PutAwayLog  BY <1>4 DEF PutAwayLog
<1>5. CASE OrphanEnds  BY <1>5 DEF OrphanEnds, results
<1>6. CASE Verify  BY <1>1, <1>6 DEF Verify, results
<1>7. CASE ReportEnds \/ MeasureKill  BY <1>1, <1>7 DEF ReportEnds, MeasureKill
<1>8. CASE UNCHANGED measureVars  BY <1>8 DEF measureVars, results
<1>9. QED  BY <1>2, <1>3, <1>4, <1>5, <1>6, <1>7, <1>8 DEF MeasureNext

LEMMA ComparedNext == MeasureInv /\ ComparedInv /\ [MeasureNext]_measureVars => ComparedInv'
<1> SUFFICES ASSUME MeasureInv, ComparedInv, [MeasureNext]_measureVars PROVE ComparedInv'
  OBVIOUS
<1>1. CASE PutAwayDir
  <2>1. /\ mstage = "putaway" /\ mstage' = "putlog" /\ UNCHANGED compared
        /\ dir' = [dir EXCEPT ![tag] = EmptyDir]
    BY <1>1 DEF PutAwayDir
  <2>2. tag \in Tags /\ dir = [t \in Tags |-> dir[t]]
    BY <2>1, TagType DEF Measuring, MeasureInv, DirsType
  <2>3. dir'[tag] = EmptyDir /\ \A t \in Tags \ {tag} : dir'[t] = dir[t]  BY <2>1, <2>2
  <2>4. EmptyDir.summary = NoSummary /\ DOMAIN EmptyDir.answers = {}  BY DEF EmptyDir, NoFiles
  <2>5. ASSUME NEW t \in Tags PROVE ComparedWith(t)'
    BY <2>1, <2>3, <2>4 DEF ComparedInv, ComparedWith
  <2>6. QED  BY <2>1, <2>5 DEF ComparedInv
<1>2. CASE PutAwayComparison
  <2>1. \A t \in Tags : compared'[t] = NoRun  BY <1>2 DEF PutAwayComparison
  <2>2. QED  BY <2>1 DEF ComparedInv, ComparedWith
<1>3. CASE RunQuery \/ WriteSummary
  <2>1. UNCHANGED compared /\ mstage = "query"  BY <1>3 DEF RunQuery, WriteSummary
  <2>2. \A t \in Tags : compared'[t] = NoRun  BY <2>1 DEF ComparedInv
  <2>3. QED  BY <2>2 DEF ComparedInv, ComparedWith
<1>4. CASE Report
  <2>1. CASE MeasureEnd  BY <2>1 DEF MeasureEnd, results, ComparedInv, ComparedWith
  <2>2. CASE mstage' = "done" /\ UNCHANGED results  BY <2>2 DEF results, ComparedInv, ComparedWith
  <2>3. CASE /\ Comparable /\ mstage' = "done" /\ UNCHANGED dir
             /\ compared' = [t \in Tags |-> dir[t].summary.run]
    <3>1. \A t \in Tags : dir[t].summary # NoSummary /\ compared'[t] = dir[t].summary.run
      BY <2>3 DEF Comparable, Verified
    <3>2. \A s, t \in Tags : dir[s].summary.origin = dir[t].summary.origin
      BY <2>3 DEF Comparable, Tags
    <3>3. \A t \in Tags : \A q \in DOMAIN dir[t].answers : dir[t].answers[q].run = dir[t].summary.run
      BY <3>1 DEF MeasureInv, OneRunPerDirectory
    <3>4. QED  BY <2>3, <3>1, <3>2, <3>3 DEF ComparedInv, ComparedWith
  <2>4. QED  BY <1>4, <2>1, <2>2, <2>3 DEF Report
<1>5. CASE ~PutAwayDir /\ ~PutAwayComparison /\ ~RunQuery /\ ~WriteSummary /\ ~Report
  BY <1>5, OthersKeep DEF ComparedInv, ComparedWith
<1>6. QED  BY <1>1, <1>2, <1>3, <1>4, <1>5

(* A comparison that is found is of the answers beside it.                 *)
THEOREM ComparisonAlwaysCurrent == MeasureSpec => []ComparisonCurrent
<1>1. ComparedInv => ComparisonCurrent  BY DEF ComparedInv, ComparedWith, ComparisonCurrent
<1>2. QED  BY <1>1, ComparedInit, ComparedNext, MeasureInvariant, PTL DEF MeasureSpec

-----------------------------------------------------------------------------
\* FlatFiles
(* What is not open has no line yet, as long as lines are to come.         *)
KeptInv ==
  /\ LinesKept
  /\ stored = [t \in DOMAIN stored |-> stored[t]]
  /\ due # <<>> => ~finished
  /\ ~finished => \A t \in DOMAIN stored \ outfiles : stored[t] = 0

(* Every step preserves it: an outfile is closed when the last line of its *)
(* family is printed, not before.                                          *)
THEOREM LinesInvariant == FileSpec => []KeptInv
<1>1. FileInit => KeptInv
  BY DEF FileInit, KeptInv, LinesKept
<1>2. KeptInv /\ [FileNext]_fileVars => KeptInv'
  <2> SUFFICES ASSUME KeptInv, [FileNext]_fileVars
               PROVE  KeptInv'
    OBVIOUS
  <2>1. CASE CallBuilder
    BY <2>1 DEF CallBuilder, KeptInv, LinesKept
  <2>2. CASE PrintRow
    <3> DEFINE t == Head(due)
    <3>1. /\ stored' = [stored EXCEPT ![t] = Opened(t) + 1]
          /\ printed' = [printed EXCEPT ![t] = printed[t] + 1]
          /\ outfiles' = outfiles \union {t}
          /\ due # <<>> /\ finished' = finished
      BY <2>2 DEF PrintRow
    <3>2. ~finished
      BY <3>1 DEF KeptInv
    <3> HIDE DEF t
    <3>3. t \in DOMAIN stored => Opened(t) = printed[t]
      BY <3>2 DEF KeptInv, LinesKept, Opened
    <3>4. stored' = printed'
      BY <3>1, <3>3 DEF KeptInv, LinesKept
    <3>5. \A u \in DOMAIN stored' \ outfiles' : stored'[u] = 0
      BY <3>1, <3>2 DEF KeptInv
    <3> QED
      BY <3>1, <3>2, <3>4, <3>5 DEF KeptInv, LinesKept
  <2>3. CASE print_close
    BY <2>3 DEF print_close, KeptInv, LinesKept
  <2>4. CASE UNCHANGED fileVars
    BY <2>4 DEF fileVars, KeptInv, LinesKept
  <2> QED
    BY <2>1, <2>2, <2>3, <2>4 DEF FileNext
<1>3. QED
  BY <1>1, <1>2, PTL DEF FileSpec

(* A file has all lines that were printed to it.                           *)
THEOREM LinesAlwaysKept == FileSpec => []LinesKept
<1>1. KeptInv => LinesKept
  BY DEF KeptInv
<1>2. QED
  BY <1>1, LinesInvariant, PTL

=============================================================================
