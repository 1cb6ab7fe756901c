--------------------------- MODULE SourceTextProofs --------------------------
(***************************************************************************)
(* distcomp and dsqgen read their files as they are meant, for any         *)
(* statements, breaks and comments, and the buffer of lines is never too   *)
(* small.  Both read lexeme by lexeme, or do as if: what a lexeme makes of *)
(* a state of the reader, and where it may stand, is a relation (DstMakes, *)
(* LexMakes), and the invariant says that there is a run of it over the    *)
(* text that is not yet read, from what the reader has to what it is meant *)
(* to have.  Who writes a statement makes the run longer at its end, who   *)
(* reads a line or a token takes its beginning away, and with nothing left *)
(* to read both ends are the same.                                         *)
(***************************************************************************)
EXTENDS InputProofs, SourceText

-----------------------------------------------------------------------------
\* Texts

\* Strings; but that "nl" is one is not known to the provers.
Lexemes == STRING \union {"nl", "--"}

\* A text of strings is one of lexemes.
LEMMA OfStrings == ASSUME NEW s \in Seq(STRING) PROVE s \in Seq(Lexemes)
<1> DEFINE L == STRING
           M == STRING \union {"nl", "--"}
<1>1. s \in Seq(L) /\ L \subseteq M
  OBVIOUS
<1> HIDE DEF L, M
<1>2. s \in Seq(M)
  BY <1>1
<1> QED  BY <1>2 DEF M, Lexemes

LEMMA BlanksAre == "nl" \in Lexemes /\ "--" \in Lexemes
  BY DEF Lexemes

\* A lexeme read, from a state to another.
Edge(from, by, to) == [from |-> from, by |-> by, to |-> to]

\* Text T, lexeme by lexeme, leads from state y to z.
Passes(Y, S, E, T) ==
  /\ Y \in [0 .. Len(T) -> S]
  /\ \A k \in 1 .. Len(T) : Edge(Y[k - 1], T[k], Y[k]) \in E

Leads(S, E, y, T, z) == \E Y : Passes(Y, S, E, T) /\ Y[0] = y /\ Y[Len(T)] = z

-----------------------------------------------------------------------------
\* Sequences

\* What Append does, stated once.
LEMMA AppendIs ==
  ASSUME NEW L, NEW T \in Seq(L), NEW c \in L
  PROVE  /\ Append(T, c) \in Seq(L) /\ Len(T) \in Nat /\ Len(Append(T, c)) = Len(T) + 1
         /\ Append(T, c)[Len(T) + 1] = c /\ \A k \in 1 .. Len(T) : Append(T, c)[k] = T[k]
  OBVIOUS

\* Sequences: their domains, parts, joins and equality.
LEMMA DomainOf ==
  ASSUME NEW L, NEW s \in Seq(L)
  PROVE  DOMAIN s = 1 .. Len(s) /\ Len(s) \in Nat /\ (s = <<>> <=> Len(s) = 0)
  OBVIOUS

\* UpTo is the first place of the set, or the last of the text.
LEMMA UpToIs ==
  ASSUME NEW L, NEW s \in Seq(L), s # <<>>, NEW set
  PROVE  /\ UpTo(s, set) \in 1 .. Len(s)
         /\ (\E i \in 1 .. Len(s) : s[i] \in set) => s[UpTo(s, set)] \in set
         /\ \A j \in 1 .. UpTo(s, set) - 1 : s[j] \notin set
<1> DEFINE at == {i \in DOMAIN s : s[i] \in set}
           n == Len(s)
           u == UpTo(s, set)
<1>1. n \in Nat \ {0} /\ DOMAIN s = 1 .. n
  OBVIOUS
<1>2. at \in SUBSET Nat /\ \A i \in 1 .. n : s[i] \in set <=> i \in at
  BY <1>1
<1>3. at \subseteq 1 .. n
  BY <1>1
<1>4. u = IF at = {} THEN n ELSE FirstOf(at)
  BY DEF UpTo, FirstOf
<1> HIDE DEF at, n, u
<1>5. CASE at = {}
  <2>1. u = n  BY <1>4, <1>5
  <2>2. \A j \in 1 .. n : s[j] \notin set  BY <1>2, <1>5
  <2> QED  BY <1>1, <2>1, <2>2 DEF u, n
<1>6. CASE at # {}
  <2>1. u \in at /\ \A i \in at : u <= i  BY <1>2, <1>4, <1>6, FirstIn
  <2>2. u \in 1 .. n /\ s[u] \in set  BY <1>2, <1>3, <2>1
  <2>3. ASSUME NEW j \in 1 .. u - 1 PROVE s[j] \notin set
    <3>1. j \in 1 .. n /\ j < u  BY <1>1, <2>2
    <3>2. j \notin at  BY <2>1, <2>2, <3>1
    <3> QED  BY <1>2, <3>1, <3>2
  <2> QED  BY <2>2, <2>3 DEF u, n
<1> QED  BY <1>5, <1>6

LEMMA PrefixIs ==
  ASSUME NEW L, NEW s \in Seq(L), NEW k \in 0 .. Len(s)
  PROVE  /\ SubSeq(s, 1, k) \in Seq(L) /\ Len(SubSeq(s, 1, k)) = k
         /\ \A i \in 1 .. k : SubSeq(s, 1, k)[i] = s[i]
  OBVIOUS

LEMMA SuffixIs ==
  ASSUME NEW L, NEW s \in Seq(L), NEW k \in 0 .. Len(s)
  PROVE  SubSeq(s, k + 1, Len(s)) \in Seq(L)
  OBVIOUS

LEMMA PrefixOf ==
  ASSUME NEW L, NEW s \in Seq(L), NEW k \in 0 .. Len(s), NEW l \in 0 .. k
  PROVE  SubSeq(SubSeq(s, 1, k), 1, l) = SubSeq(s, 1, l)
  OBVIOUS

IsJoined(L, c, b, s) ==
  /\ c \in Seq(L) /\ Len(b) \in Nat /\ Len(s) \in Nat /\ Len(c) = Len(b) + Len(s)
  /\ \A i \in 1 .. Len(b) : c[i] = b[i]
  /\ \A i \in 1 .. Len(s) : c[Len(b) + i] = s[i]

LEMMA JoinedIs ==
  ASSUME NEW L, NEW b \in Seq(L), NEW s \in Seq(L)
  PROVE  IsJoined(L, b \o s, b, s)
  BY DEF IsJoined

LEMMA JoinedNone ==
  ASSUME NEW L, NEW b \in Seq(L)
  PROVE  b \o <<>> = b /\ <<>> \o b = b
  OBVIOUS

LEMMA SameSeq ==
  ASSUME NEW L, NEW s \in Seq(L), NEW t \in Seq(L), Len(s) = Len(t), \A i \in 1 .. Len(s) : s[i] = t[i]
  PROVE  s = t
  OBVIOUS

LEMMA NoneTaken == ASSUME NEW L, NEW s \in Seq(L) PROVE SubSeq(s, 1, 0) = <<>>
  OBVIOUS

LEMMA OneMore ==
  ASSUME NEW L, NEW b \in Seq(L), NEW s \in Seq(L), NEW k \in 1 .. Len(s)
  PROVE  Append(b \o SubSeq(s, 1, k - 1), s[k]) = b \o SubSeq(s, 1, k)
<1>1. k - 1 \in 0 .. Len(s) /\ k \in 0 .. Len(s) /\ s[k] \in L
  OBVIOUS
<1> DEFINE p == SubSeq(s, 1, k - 1)
           q == SubSeq(s, 1, k)
           x == Append(b \o p, s[k])
           y == b \o q
<1>2. p \in Seq(L) /\ q \in Seq(L) /\ Len(p) = k - 1 /\ Len(q) = k
  BY <1>1, PrefixIs
<1>3. \A i \in 1 .. k - 1 : p[i] = s[i]
  BY <1>1, PrefixIs
<1>4. \A i \in 1 .. k : q[i] = s[i]
  BY <1>1, PrefixIs
<1> HIDE DEF p, q
<1> DEFINE c == b \o p
           m == Len(b)
<1>18. IsJoined(L, c, b, p)
  BY <1>2, JoinedIs
<1>19. IsJoined(L, y, b, q)
  BY <1>2, JoinedIs
<1>22. x = Append(c, s[k])
  OBVIOUS
<1> HIDE DEF c, y, x
<1>20. /\ c \in Seq(L) /\ Len(c) = m + (k - 1) /\ m \in Nat
       /\ \A i \in 1 .. m : c[i] = b[i]
       /\ \A i \in 1 .. k - 1 : c[m + i] = p[i]
  BY <1>2, <1>18 DEF IsJoined
<1>21. /\ y \in Seq(L) /\ Len(y) = m + k
       /\ \A i \in 1 .. m : y[i] = b[i]
       /\ \A i \in 1 .. k : y[m + i] = q[i]
  BY <1>2, <1>19 DEF IsJoined
<1> HIDE DEF m
<1>23. /\ x \in Seq(L) /\ Len(x) = Len(c) + 1 /\ x[Len(c) + 1] = s[k]
       /\ \A i \in 1 .. Len(c) : x[i] = c[i]
  BY <1>1, <1>20, <1>22, AppendIs
<1>5. x \in Seq(L) /\ y \in Seq(L) /\ Len(x) = m + k /\ Len(y) = m + k
  BY <1>20, <1>21, <1>23
<1>6. ASSUME NEW i \in 1 .. m + k PROVE x[i] = y[i]
  <2>1. CASE i <= m
    <3>1. i \in 1 .. m /\ i \in 1 .. m + (k - 1)  BY <1>20, <2>1
    <3> QED  BY <1>20, <1>21, <1>23, <3>1
  <2>2. CASE i = m + k
    <3>1. k \in 1 .. k /\ Len(c) + 1 = i  BY <1>20, <2>2
    <3> QED  BY <1>4, <1>21, <1>23, <2>2, <3>1
  <2>3. CASE i > m /\ i < m + k
    <3> DEFINE j == i - m
    <3>1. j \in 1 .. k - 1 /\ j \in 1 .. k /\ i = m + j /\ i \in 1 .. m + (k - 1)  BY <1>20, <2>3
    <3> HIDE DEF j
    <3>2. x[i] = p[j]  BY <1>20, <1>23, <3>1
    <3>3. y[i] = q[j]  BY <1>21, <3>1
    <3> QED  BY <1>3, <1>4, <3>1, <3>2, <3>3
  <2>4. i \in Nat /\ m \in Nat /\ k \in Nat /\ i <= m + k  BY <1>20
  <2>5. i <= m \/ i = m + k \/ (i > m /\ i < m + k)  BY <2>4
  <2> QED  BY <2>1, <2>2, <2>3, <2>5
<1>7. x = y
  BY <1>5, <1>6, SameSeq
<1> QED  BY <1>7, <1>22 DEF c, y, p, q

\* Joins of a few lexemes, one by one.
LEMMA LongerTexts ==
  ASSUME NEW L, NEW T \in Seq(L), NEW c \in L, NEW d \in L, NEW e \in L
  PROVE  /\ T \o <<>> = T
         /\ T \o <<c>> = Append(T, c) /\ T \o <<c, d>> = Append(Append(T, c), d)
         /\ T \o <<c, d, e>> = Append(Append(Append(T, c), d), e)
         /\ Append(T, c) \in Seq(L) /\ Append(Append(T, c), d) \in Seq(L)
<1>1. Append(T, c) \in Seq(L) /\ Append(Append(T, c), d) \in Seq(L)
  BY AppendIs
<1>2. T \o <<>> = T /\ T \o <<c>> = Append(T, c)
  OBVIOUS
<1>3. T \o <<c, d>> = Append(Append(T, c), d)
  OBVIOUS
<1>4. T \o <<c, d, e>> = Append(Append(Append(T, c), d), e)
  OBVIOUS
<1> QED  BY <1>1, <1>2, <1>3, <1>4

LEMMA Associates ==
  ASSUME NEW L, NEW s \in Seq(L), NEW t \in Seq(L), NEW u \in Seq(L)
  PROVE  s \o (t \o u) = (s \o t) \o u
  OBVIOUS

LEMMA OneBefore ==
  ASSUME NEW L, NEW T \in Seq(L), NEW c \in L, NEW u \in Seq(L)
  PROVE  T \o (<<c>> \o u) = Append(T, c) \o u
<1>1. <<c>> \in Seq(L) /\ T \o <<c>> = Append(T, c)
  OBVIOUS
<1> QED  BY <1>1, Associates

\* A text g behind R, then c and a break.
PieceJoins(R, g, c, br) == R \o (g \o (<<c>> \o br)) = Append(R \o g, c) \o br

LEMMA NextPiece ==
  ASSUME NEW L, NEW R \in Seq(L), NEW g \in Seq(L), NEW c \in L, NEW br \in Seq(L)
  PROVE  PieceJoins(R, g, c, br)
<1>1. <<c>> \in Seq(L) /\ R \o g \in Seq(L)
  OBVIOUS
<1>2. <<c>> \o br \in Seq(L)
  BY <1>1
<1> DEFINE h == R \o g
<1>3. R \o (g \o (<<c>> \o br)) = h \o (<<c>> \o br)
  BY <1>2, Associates
<1>4. h \in Seq(L)
  BY <1>1
<1> HIDE DEF h
<1>5. h \o (<<c>> \o br) = Append(h, c) \o br
  BY <1>4, OneBefore
<1> QED  BY <1>3, <1>5 DEF h, PieceJoins

LEMMA LastPiece ==
  ASSUME NEW L, NEW R \in Seq(L), NEW g \in Seq(L), NEW c \in L
  PROVE  R \o (g \o <<c>>) = Append(R \o g, c)
<1>1. <<c>> \in Seq(L) /\ R \o g \in Seq(L)
  OBVIOUS
<1>2. R \o (g \o <<c>>) = (R \o g) \o <<c>>
  BY <1>1, Associates
<1> QED  BY <1>1, <1>2, LongerTexts

\* One more piece of a flattened sequence.
LEMMA FlattenMore ==
  ASSUME NEW T, NEW m \in Nat, NEW B \in [1 .. m -> Seq(T)], NEW C \in [1 .. m + 1 -> Seq(T)],
         \A i \in 1 .. m : C[i] = B[i]
  PROVE  FlattenSeq(B) \in Seq(T) /\ FlattenSeq(C) = FlattenSeq(B) \o C[m + 1]
<1> DEFINE S == Seq(T)
<1>1. m + 1 \in Nat \ {0}
  OBVIOUS
<1>2. PICK f : Flattens(f, C, m + 1, T)
  BY <1>1, FlattenIs
<1>3. /\ f \in [0 .. m + 1 -> S] /\ f[0] = <<>> /\ FlattenSeq(C) = f[m + 1]
      /\ \A i \in 1 .. m + 1 : f[i] = f[i - 1] \o C[i]
  BY <1>2 DEF Flattens
<1>4. FlattenSeq(C) = f[m] \o C[m + 1] /\ f[m] \in S
  <2>1. m + 1 \in 1 .. m + 1 /\ (m + 1) - 1 = m /\ m \in 0 .. m + 1  OBVIOUS
  <2> HIDE DEF S
  <2> QED  BY <1>3, <2>1
<1>5. CASE m = 0
  <2>1. B = <<>> /\ Len(B) = 0
    <3>1. B \in Seq(S) /\ Len(B) = m  BY LenOf
    <3> HIDE DEF S
    <3> QED  BY <1>5, <3>1
  <2>2. FlattenSeq(B) = <<>>
    BY <2>1 DEF FlattenSeq
  <2>3. f[m] = <<>>
    BY <1>3, <1>5
  <2> QED  BY <1>4, <2>2, <2>3
<1>6. CASE m # 0
  <2>1. PICK g : Flattens(g, B, m, T)
    BY <1>6, FlattenIs
  <2>2. g[0] = <<>> /\ FlattenSeq(B) = g[m] /\ \A i \in 1 .. m : g[i] = g[i - 1] \o B[i]
    BY <2>1 DEF Flattens
  <2> DEFINE G == {i \in 0 .. m : g[i] = f[i]}
  <2>3. 0 \in G
    BY <1>3, <2>2
  <2>4. ASSUME NEW i \in 1 .. m, i - 1 \in G PROVE i \in G
    <3>1. i \in 1 .. m + 1 /\ i \in 0 .. m  OBVIOUS
    <3>2. g[i] = g[i - 1] \o B[i] /\ f[i] = f[i - 1] \o C[i]  BY <1>3, <2>2, <3>1
    <3> QED  BY <2>4, <3>1, <3>2
  <2> HIDE DEF G
  <2>5. \A i \in 0 .. m : i \in G
    BY <2>3, <2>4, Upwards
  <2>6. g[m] = f[m]
    <3>1. m \in 0 .. m  OBVIOUS
    <3> QED  BY <2>5, <3>1 DEF G
  <2> QED  BY <1>4, <2>2, <2>6
<1> QED  BY <1>5, <1>6

LEMMA FlattenNone == FlattenSeq(<<>>) = <<>>
  BY DEF FlattenSeq

\* Two members are more than one; members that are all the same are not.
LEMMA AtLeastTwo ==
  ASSUME NEW n \in Nat, NEW S \in SUBSET (1 .. n), NEW i \in S, NEW j \in S, i # j
  PROVE  Cardinality(S) > 1
<1>1. IsFiniteSet(1 .. n)
  BY FS_Interval
<1>2. IsFiniteSet(S)
  BY <1>1, FS_Subset
<1>3. IsFiniteSet({i}) /\ Cardinality({i}) = 1
  BY FS_Singleton
<1>4. {i} \subseteq S /\ {i} # S
  OBVIOUS
<1>5. Cardinality({i}) < Cardinality(S)
  <2>1. Cardinality({i}) <= Cardinality(S) /\ (Cardinality({i}) = Cardinality(S) => S = {i})
    BY <1>2, <1>4, FS_Subset
  <2>2. Cardinality(S) \in Nat  BY <1>2, FS_CardinalityType
  <2> QED  BY <1>3, <1>4, <2>1, <2>2
<1> QED  BY <1>3, <1>5

LEMMA AtMostOne ==
  ASSUME NEW S, \A i, j \in S : i = j
  PROVE  ~(Cardinality(S) > 1)
<1>1. CASE S = {}
  <2>1. Cardinality(S) = 0  BY <1>1, FS_EmptySet
  <2> QED  BY <2>1
<1>2. CASE S # {}
  <2>1. PICK i : i \in S  BY <1>2
  <2>2. S = {i}  BY <2>1
  <2>3. Cardinality(S) = 1  BY <2>2, FS_Singleton
  <2> QED  BY <2>3
<1> QED  BY <1>1, <1>2

-----------------------------------------------------------------------------
\* Runs of texts

\* Nothing leads nowhere.
LEMMA NoText ==
  ASSUME NEW S, NEW E, NEW y \in S
  PROVE  Leads(S, E, y, <<>>, y)
<1> DEFINE Y == [i \in 0 .. 0 |-> y]
<1>1. Y \in [0 .. 0 -> S] /\ Y[0] = y
  OBVIOUS
<1>2. Len(<<>>) = 0
  OBVIOUS
<1> HIDE DEF Y
<1>3. Passes(Y, S, E, <<>>)
  BY <1>1, <1>2 DEF Passes
<1> QED  BY <1>1, <1>2, <1>3 DEF Leads

\* A lexeme written behind the text is a last step.
LEMMA MoreText ==
  ASSUME NEW S, NEW E, NEW y, NEW z, NEW w \in S, NEW L, NEW T \in Seq(L), NEW c \in L,
         Leads(S, E, y, T, z), Edge(z, c, w) \in E
  PROVE  Leads(S, E, y, Append(T, c), w)
<1> DEFINE n == Len(T)
           U == Append(T, c)
<1>1. PICK Y : Passes(Y, S, E, T) /\ Y[0] = y /\ Y[n] = z
  BY DEF Leads
<1>2. n \in Nat /\ Len(U) = n + 1 /\ U[n + 1] = c /\ \A k \in 1 .. n : U[k] = T[k]
  BY AppendIs
<1> HIDE DEF n, U
<1>3. Y \in [0 .. n -> S] /\ \A k \in 1 .. n : Edge(Y[k - 1], T[k], Y[k]) \in E
  BY <1>1 DEF Passes, n
<1> DEFINE Z == [i \in 0 .. n + 1 |-> IF i = n + 1 THEN w ELSE Y[i]]
<1>4. Z \in [0 .. n + 1 -> S] /\ Z[n + 1] = w /\ \A i \in 0 .. n : Z[i] = Y[i]
  BY <1>2, <1>3
<1> HIDE DEF Z
<1>5. ASSUME NEW k \in 1 .. n + 1 PROVE Edge(Z[k - 1], U[k], Z[k]) \in E
  <2>1. CASE k = n + 1
    <3>1. k - 1 = n /\ n \in 0 .. n  BY <1>2, <2>1
    <3>2. Z[k - 1] = z /\ U[k] = c /\ Z[k] = w  BY <1>1, <1>2, <1>4, <2>1, <3>1
    <3> QED  BY <3>2
  <2>2. CASE k # n + 1
    <3>1. k \in 1 .. n /\ k \in 0 .. n /\ k - 1 \in 0 .. n  BY <1>2, <2>2
    <3>2. Z[k - 1] = Y[k - 1] /\ U[k] = T[k] /\ Z[k] = Y[k]  BY <1>2, <1>4, <3>1
    <3> QED  BY <1>3, <3>1, <3>2
  <2> QED  BY <2>1, <2>2
<1>6. Passes(Z, S, E, U)
  BY <1>2, <1>4, <1>5 DEF Passes
<1>7. Z[0] = y /\ Z[Len(U)] = w
  <2>1. 0 \in 0 .. n  BY <1>2
  <2> QED  BY <1>1, <1>2, <1>4, <2>1
<1>8. Leads(S, E, y, U, w)
  BY <1>6, <1>7 DEF Leads
<1> QED  BY <1>8 DEF U

\* What has been read is taken from the front: the rest leads on.
LEMMA LaterText ==
  ASSUME NEW S, NEW E, NEW L, NEW T \in Seq(L), NEW Y, Passes(Y, S, E, T), NEW n \in 0 .. Len(T)
  PROVE  Leads(S, E, Y[n], SubSeq(T, n + 1, Len(T)), Y[Len(T)])
<1> DEFINE m == Len(T)
           U == SubSeq(T, n + 1, Len(T))
<1>1. m \in Nat /\ n \in Nat /\ n <= m
  OBVIOUS
<1>2. Len(U) = m - n /\ \A k \in 1 .. m - n : U[k] = T[n + k]
  OBVIOUS
<1> HIDE DEF m, U
<1>3. Y \in [0 .. m -> S] /\ \A k \in 1 .. m : Edge(Y[k - 1], T[k], Y[k]) \in E
  BY DEF Passes, m
<1> DEFINE Z == [i \in 0 .. m - n |-> Y[n + i]]
<1>4. Z \in [0 .. m - n -> S]
  <2>1. \A i \in 0 .. m - n : n + i \in 0 .. m  BY <1>1
  <2>2. \A i \in 0 .. m - n : Y[n + i] \in S  BY <1>3, <2>1
  <2> QED  BY <2>2
<1>5. \A i \in 0 .. m - n : Z[i] = Y[n + i]
  OBVIOUS
<1> HIDE DEF Z
<1>6. ASSUME NEW k \in 1 .. m - n PROVE Edge(Z[k - 1], U[k], Z[k]) \in E
  <2>1. k \in 0 .. m - n /\ k - 1 \in 0 .. m - n /\ n + (k - 1) = (n + k) - 1 /\ n + k \in 1 .. m
    BY <1>1
  <2>2. Z[k - 1] = Y[(n + k) - 1] /\ Z[k] = Y[n + k] /\ U[k] = T[n + k]
    BY <1>2, <1>5, <2>1
  <2> QED  BY <1>3, <2>1, <2>2
<1>7. Passes(Z, S, E, U)
  BY <1>2, <1>4, <1>6 DEF Passes
<1>8. Z[0] = Y[n] /\ Z[Len(U)] = Y[m]
  <2>1. 0 \in 0 .. m - n /\ m - n \in 0 .. m - n /\ n + 0 = n /\ n + (m - n) = m  BY <1>1
  <2>2. Z[0] = Y[n + 0] /\ Z[m - n] = Y[n + (m - n)]  BY <1>5, <2>1
  <2> QED  BY <1>2, <2>1, <2>2
<1>9. Leads(S, E, Y[n], U, Y[m])
  BY <1>7, <1>8 DEF Leads
<1> QED  BY <1>9 DEF U, m

\* Both ends are states; without a text they are the same.
LEMMA OfText ==
  ASSUME NEW S, NEW E, NEW y, NEW z, NEW L, NEW T \in Seq(L), Leads(S, E, y, T, z)
  PROVE  /\ y \in S /\ z \in S
         /\ T = <<>> => y = z
<1>1. PICK Y : Passes(Y, S, E, T) /\ Y[0] = y /\ Y[Len(T)] = z
  BY DEF Leads
<1>2. 0 \in 0 .. Len(T) /\ Len(T) \in 0 .. Len(T) /\ Y \in [0 .. Len(T) -> S]
  BY <1>1 DEF Passes
<1> QED  BY <1>1, <1>2

-----------------------------------------------------------------------------
\* The buffer of lines

StringBuffers == [text : Seq(Lexemes), length : Nat, used : Nat, allocated : Nat \ {0}]

\* What is used is the text and the byte behind it.
BufferFits(b) ==
  /\ b \in StringBuffers /\ b.used <= b.allocated
  /\ \/ b.used = 0 /\ b.length = 0
     \/ b.used = b.length + 1

\* Whole increments, more than x.
LEMMA GrownBy ==
  ASSUME NEW x \in Nat
  PROVE  /\ x \div BufferIncrement \in Nat
         /\ (x \div BufferIncrement + 1) * BufferIncrement \in Nat
         /\ (x \div BufferIncrement + 1) * BufferIncrement > x
<1> DEFINE i == BufferIncrement
           q == x \div i
           r == x % i
<1>1. i \in Nat /\ i > 0
  BY BufferAssumption
<1>2. q \in Int /\ r \in 0 .. i - 1 /\ x = i * q + r
  BY <1>1
<1> HIDE DEF i, q, r
<1>3. q >= 0
  BY <1>1, <1>2
<1>4. (q + 1) * i = i * q + i
  BY <1>1, <1>2
<1>5. (q + 1) * i \in Nat
  BY <1>1, <1>2, <1>3
<1>6. (q + 1) * i > x
  <2> DEFINE p == i * q
  <2>1. p \in Int /\ x = p + r /\ (q + 1) * i = p + i  BY <1>1, <1>2, <1>4
  <2> HIDE DEF p
  <2> QED  BY <1>1, <1>2, <2>1
<1> QED  BY <1>2, <1>3, <1>5, <1>6 DEF q, i

LEMMA ByteMore ==
  ASSUME NEW a \in Nat, NEW k \in Nat, NEW l \in Nat, NEW n \in Nat, NEW m \in Nat, k = l + 1,
         n < (a - k) + m
  PROVE  k + n \in Nat /\ k + n <= a + m /\ k + n = (l + n) + 1
  OBVIOUS

(* AddBuffer keeps the buffer large enough: the increments are counted    *)
(* for the bytes that are missing, one more than needed.                   *)
LEMMA StillFits ==
  ASSUME NEW b, BufferFits(b), NEW text \in Seq(Lexemes), NEW n \in Nat
  PROVE  /\ BufferFits(AddBuffer(b, text, n))
         /\ AddBuffer(b, text, n).text = IF n = 0 THEN b.text ELSE b.text \o text
<1>1. /\ b \in StringBuffers /\ b.used <= b.allocated
      /\ (b.used = 0 /\ b.length = 0) \/ b.used = b.length + 1
  BY DEF BufferFits
<1>2. b.text \in Seq(Lexemes) /\ b.length \in Nat /\ b.used \in Nat /\ b.allocated \in Nat /\ b.allocated > 0
  BY <1>1 DEF StringBuffers
<1>3. CASE n = 0
  BY <1>3 DEF AddBuffer
<1>4. CASE n # 0
  <2> DEFINE remaining == b.allocated - b.used
             grown == IF n < remaining THEN 0 ELSE (n - remaining) \div BufferIncrement + 1
             more == grown * BufferIncrement
             u == (IF b.used = 0 THEN 1 ELSE b.used) + n
             new == [text |-> b.text \o text, length |-> b.length + n, used |-> u,
                     allocated |-> b.allocated + more]
  <2>1. more \in Nat /\ n < remaining + more
    <3>1. CASE n < remaining
      <4>1. more = 0  BY <3>1, BufferAssumption
      <4> QED  BY <1>2, <3>1, <4>1
    <3>2. CASE ~(n < remaining)
      <4> DEFINE x == n - remaining
      <4>1. x \in Nat /\ more = (x \div BufferIncrement + 1) * BufferIncrement
        BY <1>1, <1>2, <3>2
      <4> HIDE DEF x, more
      <4>2. more \in Nat /\ more > x
        BY <4>1, GrownBy
      <4> QED  BY <1>2, <4>2 DEF x
    <3> QED  BY <3>1, <3>2
  <2> HIDE DEF more
  <2>2. u \in Nat /\ u <= b.allocated + more /\ u = (b.length + n) + 1
    <3>1. n + 1 <= (b.allocated - b.used) + more  BY <1>2, <2>1
    <3>2. CASE b.used = 0
      BY <1>1, <1>2, <2>1, <3>1, <3>2
    <3>3. CASE b.used # 0
      <4>1. u = b.used + n /\ b.used = b.length + 1  BY <1>1, <3>3
      <4> HIDE DEF u
      <4>2. n < (b.allocated - b.used) + more  BY <2>1
      <4>3. b.used + n \in Nat /\ b.used + n <= b.allocated + more /\ b.used + n = (b.length + n) + 1
        <5> DEFINE a == b.allocated
                   h == b.used
                   k == b.length
        <5>1. a \in Nat /\ h \in Nat /\ k \in Nat /\ more \in Nat  BY <1>2, <2>1
        <5>2. h = k + 1 /\ n < (a - h) + more  BY <4>1, <4>2
        <5> HIDE DEF a, h, k
        <5>3. h + n \in Nat /\ h + n <= a + more /\ h + n = (k + n) + 1  BY <5>1, <5>2, ByteMore
        <5> QED  BY <5>3 DEF a, h, k
      <4> QED  BY <4>1, <4>3
    <3> QED  BY <3>2, <3>3
  <2>3. AddBuffer(b, text, n) = new
    BY <1>4 DEF AddBuffer, more
  <2> HIDE DEF u
  <2>4. b.text \o text \in Seq(Lexemes) /\ b.length + n \in Nat /\ b.allocated + more \in Nat \ {0}
    <3> DEFINE L == Lexemes
    <3>1. b.text \in Seq(L) /\ text \in Seq(L)  BY <1>2
    <3> HIDE DEF L
    <3>2. b.text \o text \in Seq(L)  BY <3>1
    <3> QED  BY <1>2, <2>1, <3>2 DEF L
  <2>5. new \in StringBuffers
    BY <2>2, <2>4 DEF StringBuffers
  <2>6. BufferFits(new)
    BY <2>2, <2>5 DEF BufferFits
  <2> QED  BY <1>4, <2>3, <2>6
<1> QED  BY <1>3, <1>4

\* ResetBuffer keeps the memory.
LEMMA ResetFits ==
  ASSUME NEW b, BufferFits(b)
  PROVE  BufferFits(ResetBuffer(b)) /\ ResetBuffer(b).text = <<>>
<1>1. b \in StringBuffers BY DEF BufferFits
<1>2. <<>> \in Seq(Lexemes)  OBVIOUS
<1> DEFINE S == Seq(Lexemes)
<1> HIDE DEF S
<1>3. <<>> \in S  BY <1>2 DEF S
<1>4. b \in [text : S, length : Nat, used : Nat, allocated : Nat \ {0}]
  BY <1>1 DEF StringBuffers, S
<1>5. ResetBuffer(b) \in [text : S, length : Nat, used : Nat, allocated : Nat \ {0}]
  BY <1>3, <1>4 DEF ResetBuffer
<1>6. ResetBuffer(b).text = <<>> /\ ResetBuffer(b).length = 0 /\ ResetBuffer(b).used = 0
      /\ ResetBuffer(b).allocated \in Nat
  BY <1>4 DEF ResetBuffer
<1> QED  BY <1>5, <1>6 DEF BufferFits, StringBuffers, S

\* A byte is left for the end of the string.
LEMMA FitsMeans ==
  ASSUME NEW b, BufferFits(b)
  PROVE  b.length < b.allocated /\ b.text \in Seq(Lexemes)
  BY DEF BufferFits, StringBuffers

\* The two calls of ParseFile(): the line, and the blank after it.
LEMMA TextAdded ==
  ASSUME NEW b, BufferFits(b), NEW line \in Seq(Lexemes)
  PROVE  /\ BufferFits(AddBuffer(b, line, Len(line)))
         /\ AddBuffer(b, line, Len(line)).text = b.text \o line
         /\ BufferFits(AddBuffer(AddBuffer(b, line, Len(line)), <<>>, 1))
         /\ AddBuffer(AddBuffer(b, line, Len(line)), <<>>, 1).text = b.text \o line
<1> DEFINE L == Lexemes
           c == AddBuffer(b, line, Len(line))
<1>1. line \in Seq(L) /\ b.text \in Seq(L) /\ <<>> \in Seq(L)
  BY FitsMeans
<1> HIDE DEF L
<1>2. Len(line) \in Nat /\ b.text \o line \in Seq(L)
  BY <1>1
<1>3. BufferFits(c) /\ c.text = IF Len(line) = 0 THEN b.text ELSE b.text \o line
  BY <1>1, <1>2, StillFits DEF L
<1> HIDE DEF c
<1>4. c.text = b.text \o line
  <2>1. CASE Len(line) = 0
    <3>1. line = <<>>  BY <1>1, <2>1, DomainOf
    <3>2. b.text \o line = b.text  BY <1>1, <3>1, JoinedNone
    <3> QED  BY <1>3, <2>1, <3>2
  <2> QED  BY <1>3, <2>1
<1> DEFINE d == AddBuffer(c, <<>>, 1)
<1>5. BufferFits(d) /\ d.text = IF 1 = 0 THEN c.text ELSE c.text \o <<>>
  BY <1>1, <1>3, StillFits DEF L
<1> HIDE DEF d
<1>6. d.text = c.text
  <2>1. c.text \o <<>> = c.text  BY <1>2, <1>4, JoinedNone
  <2> QED  BY <1>5, <2>1
<1> QED  BY <1>3, <1>4, <1>5, <1>6 DEF c, d

-----------------------------------------------------------------------------
\* Lines of distcomp

(* The signs differ; a provers' literal with a semicolon in it would be    *)
(* a comment to one of them, so that these two are named.                  *)
LEMMA Signs ==
  /\ Semicolon # Escaped
  /\ Semicolon \notin {"nl", "--", "[", "]", "."} /\ Escaped \notin {"nl", "--", "[", "]", "."}
  BY Zenon DEF Semicolon, Escaped

\* The statement so far, those before it, the lexeme before.
DstState == [text : Seq(Lexemes), out : Seq(Seq(Lexemes)), last : Lexemes]

\* At most one of the semicolons is escaped.
OneEscaped(text) == \A i, j \in DOMAIN text : text[i] = Escaped /\ text[j] = Escaped => i = j

\* A lexeme of *.dst, where it may stand, and what it makes of the state.
DstMakes(y, c, z) ==
  /\ c = "--" => y.last \in {"nl", Semicolon}
  /\ y.last = "--" => c = "nl"
  /\ y.last = Semicolon => c \in {"nl", "--"}
  /\ z.last = c
  /\ \/ c \in {"nl", "--"} /\ z.text = y.text /\ z.out = y.out
     \/ /\ c = Semicolon /\ z.text = <<>>
        /\ Append(y.text, c) \in DstStatements /\ z.out = Append(y.out, Append(y.text, c))
     \/ /\ c \notin {"nl", "--", Semicolon} /\ z.out = y.out
        /\ z.text = Append(y.text, c) /\ OneEscaped(z.text)

\* The steps of distcomp.
DstEdges == {e \in [from : DstState, by : Lexemes, to : DstState] : DstMakes(e.from, e.by, e.to)}

LEMMA DstEdge ==
  ASSUME NEW y \in DstState, NEW c \in Lexemes, NEW z \in DstState
  PROVE  Edge(y, c, z) \in DstEdges <=> DstMakes(y, c, z)
<1> DEFINE e == Edge(y, c, z)
<1>1. e.from = y /\ e.by = c /\ e.to = z /\ e \in [from : DstState, by : Lexemes, to : DstState]
  <2> HIDE DEF DstState
  <2> QED  BY DEF Edge
<1> HIDE DEF e, DstState
<1> QED  BY <1>1 DEF DstEdges, e

\* A state by its parts.
DstAt(text, out, last) == [text |-> text, out |-> out, last |-> last]

LEMMA DstIs ==
  ASSUME NEW y \in DstState
  PROVE  /\ y = DstAt(y.text, y.out, y.last)
         /\ y.text \in Seq(Lexemes) /\ y.out \in Seq(Seq(Lexemes)) /\ y.last \in Lexemes
<1> DEFINE A == Seq(Lexemes)
           B == Seq(Seq(Lexemes))
           C == Lexemes
<1> HIDE DEF A, B, C
<1>1. y \in [text : A, out : B, last : C]
  BY DEF DstState, A, B, C
<1>2. y = DstAt(y.text, y.out, y.last) /\ y.text \in A /\ y.out \in B /\ y.last \in C
  BY <1>1 DEF DstAt
<1> QED  BY <1>2 DEF A, B, C

\* Of the text from the beginning of a line on.
DstRun(Y, T, b, o) ==
  /\ Passes(Y, DstState, DstEdges, T) /\ Y[0] = DstAt(b, o, "nl") /\ Y[Len(T)].last = "nl"

LEMMA DstSteps ==
  ASSUME NEW T \in Seq(Lexemes), NEW b, NEW o, NEW Y, DstRun(Y, T, b, o), NEW k \in 1 .. Len(T)
  PROVE  /\ Y[k - 1] \in DstState /\ Y[k] \in DstState /\ T[k] \in Lexemes
         /\ DstMakes(Y[k - 1], T[k], Y[k])
<1>1. Y \in [0 .. Len(T) -> DstState] /\ Edge(Y[k - 1], T[k], Y[k]) \in DstEdges
  BY DEF DstRun, Passes
<1>2. k \in 0 .. Len(T) /\ k - 1 \in 0 .. Len(T)
  OBVIOUS
<1>3. Y[k - 1] \in DstState /\ Y[k] \in DstState
  BY <1>1, <1>2
<1>4. T[k] \in Lexemes
  <2> DEFINE L == Lexemes
  <2>1. T \in Seq(L)  OBVIOUS
  <2> HIDE DEF L
  <2>2. T[k] \in L  BY <2>1
  <2> QED  BY <2>2 DEF L
<1> QED  BY <1>1, <1>3, <1>4, DstEdge

\* What a run of plain words ends at.
Stops == {Semicolon, "--", "nl"}

\* Up to there, the words are added to the statement.
LEMMA DstPlain ==
  ASSUME NEW T \in Seq(Lexemes), T # <<>>, NEW b \in Seq(Lexemes), NEW o, NEW Y, DstRun(Y, T, b, o),
         NEW n \in 0 .. UpTo(T, Stops) - 1
  PROVE  Y[n] = DstAt(b \o SubSeq(T, 1, n), o, IF n = 0 THEN "nl" ELSE T[n])
<1> DEFINE f == UpTo(T, Stops)
           L == Lexemes
           Plain(k) == DstAt(b \o SubSeq(T, 1, k), o, IF k = 0 THEN "nl" ELSE T[k])
           G == {k \in 0 .. f - 1 : Y[k] = Plain(k)}
<1>1. T \in Seq(L) /\ b \in Seq(L)
  OBVIOUS
<1> HIDE DEF L
<1>2. f \in 1 .. Len(T) /\ \A j \in 1 .. f - 1 : T[j] \notin Stops
  BY <1>1, UpToIs
<1> HIDE DEF f
<1>3. 0 \in G
  <2>1. SubSeq(T, 1, 0) = <<>>  BY <1>1, NoneTaken
  <2>2. b \o <<>> = b  BY <1>1, JoinedNone
  <2>3. Y[0] = Plain(0)  BY <2>1, <2>2 DEF DstRun
  <2> QED  BY <1>2, <2>3
<1>4. ASSUME NEW k \in 1 .. f - 1, k - 1 \in G PROVE k \in G
  <2> DEFINE y == Y[k - 1]
             z == Y[k]
             c == T[k]
  <2>1. k \in 1 .. Len(T) /\ k # 0  BY <1>2
  <2>2. y \in DstState /\ z \in DstState /\ DstMakes(y, c, z)
    BY <2>1, DstSteps
  <2>3. c \notin Stops  BY <1>2
  <2>4. y = Plain(k - 1)  BY <1>4
  <2>5. Append(b \o SubSeq(T, 1, k - 1), c) = b \o SubSeq(T, 1, k)
    BY <1>1, <2>1, OneMore
  <2>6. y.text = b \o SubSeq(T, 1, k - 1) /\ y.out = o
    BY <2>4 DEF DstAt
  <2> HIDE DEF y, z, c
  <2>7. z.last = c /\ z.out = y.out /\ z.text = Append(y.text, c)
    BY <2>2, <2>3 DEF DstMakes, Stops
  <2>8. z = DstAt(z.text, z.out, z.last)
    BY <2>2, DstIs
  <2>9. z = DstAt(b \o SubSeq(T, 1, k), o, c)
    BY <2>5, <2>6, <2>7, <2>8
  <2>10. Y[k] = Plain(k)
    BY <2>1, <2>9 DEF z, c
  <2>11. k \in 0 .. f - 1
    BY <1>2
  <2> QED  BY <2>10, <2>11
<1> HIDE DEF G
<1>5. f - 1 \in Nat
  BY <1>2
<1>6. \A k \in 0 .. f - 1 : k \in G
  BY <1>3, <1>4, <1>5, Upwards
<1> QED  BY <1>6 DEF G, f

\* The next line and what is after it; a text up to its semicolon.
NextLine(T) == SubSeq(T, 1, UpTo(T, {"nl"}) - 1)

AfterLine(T) == SubSeq(T, UpTo(T, {"nl"}) + 1, Len(T))

Ended(text) == SubSeq(text, 1, UpTo(text, {Semicolon}))

\* Lines without a comment, with nothing else, and with words before it.
LEMMA WholeLine ==
  ASSUME NEW L, NEW line \in Seq(L), \A i \in 1 .. Len(line) : line[i] # "--"
  PROVE  ProcessComments(line) = line
<1> DEFINE D == Dashed \union {"--"}
<1>1. line \in Seq(L)
  OBVIOUS
<1> HIDE DEF D
<1>2. CASE line = <<>>
  BY <1>2 DEF ProcessComments
<1>3. CASE line # <<>>
  <2>1. UpTo(line, D) \in 1 .. Len(line)
    BY <1>1, <1>3, UpToIs
  <2>2. line[UpTo(line, D)] # "--"
    BY <2>1
  <2> QED  BY <2>2 DEF ProcessComments, D
<1> QED  BY <1>2, <1>3

LEMMA CommentLine ==
  ASSUME NEW L, NEW line \in Seq(L), Len(line) = 1, line[1] = "--"
  PROVE  ProcessComments(line) = <<>>
<1> DEFINE D == Dashed \union {"--"}
<1>1. line \in Seq(L) /\ line # <<>>
  OBVIOUS
<1> HIDE DEF D
<1>2. UpTo(line, D) = 1
  <2>1. UpTo(line, D) \in 1 .. Len(line)  BY <1>1, UpToIs
  <2> QED  BY <2>1
<1>3. ProcessComments(line) = SubSeq(line, 1, 1 - 1)
  BY <1>1, <1>2 DEF ProcessComments, D
<1> QED  BY <1>1, <1>3, NoneTaken

\* What is before the comment is kept, the comment perhaps.
LEMMA LineWithComment ==
  ASSUME NEW L, NEW line \in Seq(L), NEW n \in Nat, Len(line) = n + 1, line[n + 1] = "--",
         \A i \in 1 .. n : line[i] # "--"
  PROVE  ProcessComments(line) \in {line, SubSeq(line, 1, n)}
<1> DEFINE D == Dashed \union {"--"}
           u == UpTo(line, D)
<1>1. line \in Seq(L) /\ line # <<>>
  OBVIOUS
<1> HIDE DEF D
<1>2. u \in 1 .. n + 1
  BY <1>1, UpToIs
<1>3. ProcessComments(line) = IF line[u] = "--" THEN SubSeq(line, 1, u - 1) ELSE line
  BY <1>1 DEF ProcessComments, D
<1> HIDE DEF u
<1>4. CASE u = n + 1
  <2>1. u - 1 = n  BY <1>4
  <2> QED  BY <1>3, <2>1
<1>5. CASE u # n + 1
  <2>1. u \in 1 .. n  BY <1>2, <1>5
  <2> QED  BY <1>3, <2>1
<1> QED  BY <1>4, <1>5

\* A line with a semicolon ends a statement whatever is before it.
Semicolons(line) == {i \in DOMAIN line : line[i] \in {Semicolon, Escaped}}

LEMMA EndsIt ==
  ASSUME NEW L, NEW line \in Seq(L), NEW f \in 1 .. Len(line), line[f] = Semicolon
  PROVE  EndsStatement(line)
<1> DEFINE D == {Semicolon, Escaped}
           u == UpTo(line, D)
           S == Semicolons(line)
<1>0. line \in Seq(L)
  OBVIOUS
<1>1. line \in Seq(L) /\ line # <<>> /\ Len(line) \in Nat /\ DOMAIN line = 1 .. Len(line)
  <2>1. DOMAIN line = 1 .. Len(line) /\ Len(line) \in Nat /\ (line = <<>> <=> Len(line) = 0)
    BY <1>0, DomainOf
  <2>2. Len(line) # 0
    BY <2>1
  <2> QED  BY <1>0, <2>1, <2>2
<1>2. f \in S /\ S \in SUBSET (1 .. Len(line))
  BY <1>1 DEF Semicolons
<1> HIDE DEF D, S
<1>3. u \in 1 .. Len(line) /\ line[u] \in D
  <2>1. \E i \in 1 .. Len(line) : line[i] \in D  BY DEF D
  <2> QED  BY <1>1, <2>1, UpToIs
<1> HIDE DEF u
<1>4. CASE line[u] = Semicolon
  BY <1>2, <1>4 DEF EndsStatement, Semicolons, S, u, D
<1>5. CASE line[u] # Semicolon
  <2>1. u \in S /\ u # f
    <3>1. u \in DOMAIN line  BY <1>1, <1>3
    <3> HIDE DEF D
    <3> QED  BY <1>3, <1>5, <3>1 DEF Semicolons, S, D
  <2>2. Cardinality(S) > 1
    BY <1>1, <1>2, <2>1, AtLeastTwo
  <2> QED  BY <1>2, <2>2 DEF EndsStatement, Semicolons, S
<1> QED  BY <1>4, <1>5

\* One without does not, for at most one escaped semicolon is in it.
LEMMA GoesOn ==
  ASSUME NEW L, NEW line \in Seq(L), line # <<>>, \A i \in 1 .. Len(line) : line[i] # Semicolon,
         OneEscaped(line)
  PROVE  ~EndsStatement(line)
<1> DEFINE D == {Semicolon, Escaped}
           u == UpTo(line, D)
           S == Semicolons(line)
<1>1. line \in Seq(L)
  OBVIOUS
<1>6. DOMAIN line = 1 .. Len(line)
  BY <1>1, DomainOf
<1>2. \A i, j \in S : i = j
  BY <1>6 DEF Semicolons, OneEscaped
<1> HIDE DEF D, S
<1>3. ~(Cardinality(S) > 1)
  BY <1>2, AtMostOne
<1>4. u \in 1 .. Len(line)
  BY <1>1, UpToIs
<1>5. line[u] # Semicolon
  BY <1>4
<1> QED  BY <1>3, <1>5 DEF EndsStatement, Semicolons, S, D

\* line ends a statement that b is the beginning of, and t is the whole.
Finishes(line, b, t) ==
  /\ line # <<>> /\ EndsStatement(line) /\ Ended(b \o line) = t
  /\ FindToken(SafeStrtok(b \o line)) = (b \o line)[1]

\* What DstAssumption says of a statement.
LEMMA OfStatement ==
  ASSUME NEW t \in DstStatements
  PROVE  /\ t \in Seq(Lexemes) /\ Len(t) \in Nat \ {0} /\ t[Len(t)] = Semicolon /\ t[1] \in DstTokens
         /\ \A i \in 1 .. Len(t) - 1 : t[i] # Semicolon
<1> DEFINE L == Lexemes
<1>1. t \in Seq(L) /\ t # <<>>
  <2>1. t \in Seq(STRING)  BY DstAssumption
  <2> QED  BY <2>1, OfStrings, DstAssumption DEF EndsOnce
<1> HIDE DEF L
<1>2. Len(t) \in Nat \ {0}
  BY <1>1
<1>3. /\ t[Len(t)] = Semicolon /\ t[1] \in DstTokens
      /\ \A i \in 1 .. Len(t) - 1 : t[i] # Semicolon
  BY DstAssumption DEF EndsOnce
<1> QED  BY <1>1, <1>2, <1>3 DEF L

LEMMA LineFinishes ==
  ASSUME NEW L, NEW line \in Seq(L), NEW b \in Seq(L), NEW p \in Seq(L), NEW f \in Nat \ {0},
         Len(p) = f, f <= Len(line), \A i \in 1 .. f : line[i] = p[i], b \o p \in DstStatements
  PROVE  Finishes(line, b, b \o p)
<1> DEFINE t == b \o p
           x == b \o line
           m == Len(b)
           u == UpTo(x, {Semicolon})
<1>1. t \in Seq(Lexemes) /\ Len(t) \in Nat \ {0} /\ t[Len(t)] = Semicolon /\ t[1] \in DstTokens
      /\ \A i \in 1 .. Len(t) - 1 : t[i] # Semicolon
  BY OfStatement
<1>2. IsJoined(L, t, b, p)
  BY JoinedIs
<1>3. IsJoined(L, x, b, line)
  BY JoinedIs
<1> HIDE DEF t, x
<1>4. /\ t \in Seq(L) /\ m \in Nat /\ Len(t) = m + f
      /\ \A i \in 1 .. m : t[i] = b[i]
      /\ \A i \in 1 .. f : t[m + i] = p[i]
  BY <1>2 DEF IsJoined
<1>5. /\ x \in Seq(L) /\ Len(line) \in Nat /\ Len(x) = m + Len(line)
      /\ \A i \in 1 .. m : x[i] = b[i]
      /\ \A i \in 1 .. Len(line) : x[m + i] = line[i]
  BY <1>3 DEF IsJoined
<1> HIDE DEF m
<1>6. ASSUME NEW i \in 1 .. m + f PROVE x[i] = t[i]
  <2>1. CASE i <= m
    <3>1. i \in 1 .. m  BY <1>4, <2>1
    <3> QED  BY <1>4, <1>5, <3>1
  <2>2. CASE ~(i <= m)
    <3> DEFINE j == i - m
    <3>1. j \in 1 .. f /\ j \in 1 .. Len(line) /\ i = m + j  BY <1>4, <1>5, <2>2
    <3> HIDE DEF j
    <3>2. x[i] = line[j] /\ t[i] = p[j]  BY <1>4, <1>5, <3>1
    <3> QED  BY <3>1, <3>2
  <2> QED  BY <2>1, <2>2
<1>7. m + f \in Nat /\ m + f >= 1 /\ m + f <= Len(x) /\ Len(x) \in Nat /\ m + f \in 1 .. m + f
  BY <1>4, <1>5
<1>8. x[m + f] = Semicolon
  BY <1>1, <1>4, <1>6, <1>7
<1>9. x # <<>>
  <2>1. Len(x) # 0  BY <1>7
  <2> QED  BY <1>5, <2>1, DomainOf
<1>10. u = m + f
  <2>1. u \in 1 .. Len(x) /\ x[u] \in {Semicolon} /\ \A j \in 1 .. u - 1 : x[j] \notin {Semicolon}
    <3>1. \E i \in 1 .. Len(x) : x[i] \in {Semicolon}
      <4>1. m + f \in 1 .. Len(x)  BY <1>7
      <4> QED  BY <1>8, <4>1
    <3> QED  BY <1>5, <1>9, <3>1, UpToIs
  <2> HIDE DEF u
  <2>2. ~(u > m + f)
    BY <1>7, <1>8, <2>1
  <2>3. ~(u < m + f)
    <3> SUFFICES ASSUME u < m + f PROVE FALSE  OBVIOUS
    <3>1. u \in 1 .. m + f /\ u \in 1 .. (m + f) - 1  BY <1>7, <2>1
    <3>2. x[u] = t[u] /\ t[u] # Semicolon  BY <1>1, <1>4, <1>6, <3>1
    <3> QED  BY <2>1, <3>2
  <2> QED  BY <1>7, <2>1, <2>2, <2>3
<1>11. Ended(x) = t
  <2> DEFINE q == SubSeq(x, 1, m + f)
  <2>1. q \in Seq(L) /\ Len(q) = m + f /\ \A i \in 1 .. m + f : q[i] = x[i]
    <3>1. m + f \in 0 .. Len(x)  BY <1>7
    <3> QED  BY <1>5, <3>1, PrefixIs
  <2> HIDE DEF q
  <2>2. \A i \in 1 .. Len(q) : q[i] = t[i]
    BY <1>6, <2>1
  <2>3. q = t
    BY <1>4, <2>1, <2>2, SameSeq
  <2> QED  BY <1>10, <2>3 DEF Ended, q
<1>12. line # <<>> /\ EndsStatement(line)
  <2>1. f \in 1 .. Len(line)  BY <1>5
  <2>2. line[f] = Semicolon
    <3>1. f \in 1 .. f  OBVIOUS
    <3>2. line[f] = p[f] /\ t[m + f] = p[f]  BY <1>4, <3>1
    <3> QED  BY <1>1, <1>4, <3>2
  <2>3. EndsStatement(line)  BY <2>1, <2>2, EndsIt
  <2>4. Len(line) # 0  BY <2>1, <1>5
  <2> QED  BY <2>3, <2>4, DomainOf
<1>13. FindToken(SafeStrtok(x)) = x[1]
  <2>1. 1 \in 1 .. m + f  BY <1>7
  <2>2. x[1] = t[1]  BY <1>6, <2>1
  <2>3. SafeStrtok(x) = x[1]  BY <1>5, <1>9 DEF SafeStrtok
  <2> QED  BY <1>1, <2>2, <2>3 DEF FindToken
<1> QED  BY <1>11, <1>12, <1>13 DEF Finishes, t, x

\* What a line makes of statement b and of those before it, and the run says so.
LineMakes(line, b, o, y) ==
  \/ line = <<>> /\ y = DstAt(b, o, "nl")
  \/ line # <<>> /\ ~EndsStatement(line) /\ y = DstAt(b \o line, o, "nl")
  \/ \E t \in DstStatements :
       Finishes(line, b, t) /\ y = DstAt(<<>>, Append(o, t), "nl")

\* Steps of an end of line or a comment, and of a semicolon.
LEMMA DstBlank ==
  ASSUME NEW y \in DstState, NEW c \in {"nl", "--"}, NEW z \in DstState, DstMakes(y, c, z)
  PROVE  z = DstAt(y.text, y.out, c)
<1>1. c # Semicolon
  BY Signs
<1>2. z.last = c /\ z.text = y.text /\ z.out = y.out
  BY <1>1 DEF DstMakes
<1>3. z = DstAt(z.text, z.out, z.last)
  BY DstIs
<1> QED  BY <1>2, <1>3

LEMMA DstEnd ==
  ASSUME NEW y \in DstState, NEW z \in DstState, DstMakes(y, Semicolon, z)
  PROVE  /\ z = DstAt(<<>>, Append(y.out, Append(y.text, Semicolon)), Semicolon)
         /\ Append(y.text, Semicolon) \in DstStatements
<1>1. Semicolon \notin {"nl", "--"}
  BY Signs
<1>2. z.last = Semicolon /\ z.text = <<>> /\ z.out = Append(y.out, Append(y.text, Semicolon))
      /\ Append(y.text, Semicolon) \in DstStatements
  BY <1>1 DEF DstMakes
<1>3. z = DstAt(z.text, z.out, z.last)
  BY DstIs
<1> QED  BY <1>2, <1>3

LEMMA DstFields ==
  ASSUME NEW a, NEW o, NEW l
  PROVE  DstAt(a, o, l).text = a /\ DstAt(a, o, l).out = o /\ DstAt(a, o, l).last = l
  BY DEF DstAt

LEMMA EscapedPart ==
  ASSUME NEW L, NEW b \in Seq(L), NEW s \in Seq(L), OneEscaped(b \o s)
  PROVE  OneEscaped(s)
<1> DEFINE c == b \o s
           m == Len(b)
<1>1. IsJoined(L, c, b, s)
  BY JoinedIs
<1>2. OneEscaped(c)
  OBVIOUS
<1> HIDE DEF c
<1>3. c \in Seq(L) /\ m \in Nat /\ Len(s) \in Nat /\ Len(c) = m + Len(s)
      /\ \A i \in 1 .. Len(s) : c[m + i] = s[i]
  BY <1>1 DEF IsJoined
<1> HIDE DEF m
<1>4. DOMAIN c = 1 .. m + Len(s) /\ DOMAIN s = 1 .. Len(s)
  BY <1>3, DomainOf
<1>5. SUFFICES ASSUME NEW i \in 1 .. Len(s), NEW j \in 1 .. Len(s), s[i] = Escaped, s[j] = Escaped
               PROVE  i = j
  BY <1>4 DEF OneEscaped
<1>6. m + i \in 1 .. m + Len(s) /\ m + j \in 1 .. m + Len(s)
  BY <1>3
<1>7. c[m + i] = Escaped /\ c[m + j] = Escaped
  BY <1>3, <1>5
<1>8. m + i = m + j
  BY <1>2, <1>4, <1>6, <1>7 DEF OneEscaped
<1> QED  BY <1>3, <1>8

(* A line, read as ParseFile() does, is the steps of its lexemes: the line *)
(* is one of the three of LineMakes.                                       *)
LEMMA LineReads ==
  ASSUME NEW T \in Seq(Lexemes), T # <<>>, NEW b \in Seq(Lexemes), NEW o, NEW Y, DstRun(Y, T, b, o)
  PROVE  /\ UpTo(T, {"nl"}) \in 1 .. Len(T)
         /\ NextLine(T) \in Seq(Lexemes) /\ ProcessComments(NextLine(T)) \in Seq(Lexemes)
         /\ LineMakes(ProcessComments(NextLine(T)), b, o, Y[UpTo(T, {"nl"})])
<1> DEFINE L == Lexemes
           m == Len(T)
           n == UpTo(T, {"nl"})
           f == UpTo(T, Stops)
           p == SubSeq(T, 1, f - 1)
           read == NextLine(T)
           line == ProcessComments(read)
<1>1. T \in Seq(L) /\ b \in Seq(L)
  OBVIOUS
<1> HIDE DEF L
<1>2. m \in Nat \ {0}
  BY <1>1
<1>3. ASSUME NEW k \in 1 .. m
      PROVE  /\ Y[k - 1] \in DstState /\ Y[k] \in DstState /\ DstMakes(Y[k - 1], T[k], Y[k])
             /\ Y[k].last = T[k]
  <2>1. Y[k - 1] \in DstState /\ Y[k] \in DstState /\ DstMakes(Y[k - 1], T[k], Y[k])
    BY <1>3, DstSteps
  <2> QED  BY <2>1 DEF DstMakes
<1>4. T[m] = "nl"
  <2>1. m \in 1 .. m  BY <1>2
  <2>2. Y[m].last = T[m]  BY <1>3, <2>1
  <2> QED  BY <2>2 DEF DstRun
<1>5. n \in 1 .. m /\ T[n] = "nl" /\ \A j \in 1 .. n - 1 : T[j] # "nl"
  <2>1. \E i \in 1 .. m : T[i] \in {"nl"}
    <3>1. m \in 1 .. m  BY <1>2
    <3> QED  BY <1>4, <3>1
  <2>2. n \in 1 .. m /\ T[n] \in {"nl"} /\ \A j \in 1 .. n - 1 : T[j] \notin {"nl"}
    BY <1>1, <2>1, UpToIs
  <2> QED  BY <2>2
<1>6. f \in 1 .. m /\ T[f] \in Stops /\ \A j \in 1 .. f - 1 : T[j] \notin Stops
  <2>1. \E i \in 1 .. m : T[i] \in Stops  BY <1>5 DEF Stops
  <2> QED  BY <1>1, <2>1, UpToIs
<1>7. Y[f - 1] = DstAt(b \o p, o, IF f - 1 = 0 THEN "nl" ELSE T[f - 1])
  <2> DEFINE k == f - 1
  <2>1. k \in 0 .. f - 1  BY <1>6
  <2> HIDE DEF k
  <2>2. k \in 0 .. UpTo(T, Stops) - 1  BY <2>1
  <2>3. Y[k] = DstAt(b \o SubSeq(T, 1, k), o, IF k = 0 THEN "nl" ELSE T[k])
    BY <2>2, DstPlain
  <2> QED  BY <2>3 DEF k
<1> HIDE DEF m, n, f, p, read, line
<1>8. f - 1 \in 0 .. m /\ f \in 0 .. m /\ n - 1 \in 0 .. m
  BY <1>2, <1>5, <1>6
<1>9. p \in Seq(L) /\ Len(p) = f - 1 /\ \A i \in 1 .. f - 1 : p[i] = T[i]
  BY <1>1, <1>8, PrefixIs DEF p, m
<1>10. /\ read = SubSeq(T, 1, n - 1) /\ read \in Seq(L) /\ Len(read) = n - 1
       /\ \A i \in 1 .. n - 1 : read[i] = T[i]
  <2>1. read = SubSeq(T, 1, n - 1)  BY DEF read, NextLine, n
  <2> QED  BY <1>1, <1>8, <2>1, PrefixIs DEF m
<1>11. DstMakes(Y[f - 1], T[f], Y[f]) /\ Y[f - 1] \in DstState /\ Y[f] \in DstState
       /\ Y[f - 1].text = b \o p /\ Y[f - 1].out = o
       /\ Y[f - 1].last = IF f - 1 = 0 THEN "nl" ELSE T[f - 1]
  <2> DEFINE l == IF f - 1 = 0 THEN "nl" ELSE T[f - 1]
  <2>1. Y[f - 1] = DstAt(b \o p, o, l)
    BY <1>7
  <2> HIDE DEF l
  <2>2. Y[f - 1].text = b \o p /\ Y[f - 1].out = o /\ Y[f - 1].last = l
    BY <2>1 DEF DstAt
  <2> QED  BY <1>3, <1>6, <2>2 DEF l
<1>12. CASE T[f] = "nl"
  <2>1. n = f
    <3>1. ~(n < f)
      <4> SUFFICES ASSUME n < f PROVE FALSE  OBVIOUS
      <4>1. n \in 1 .. f - 1  BY <1>5, <1>6
      <4> QED  BY <1>5, <1>6, <4>1 DEF Stops
    <3>2. ~(f < n)
      <4> SUFFICES ASSUME f < n PROVE FALSE  OBVIOUS
      <4>1. f \in 1 .. n - 1  BY <1>5, <1>6
      <4> QED  BY <1>5, <1>12, <4>1
    <3> QED  BY <1>5, <1>6, <3>1, <3>2
  <2>2. read = p
    BY <1>10, <2>1 DEF p
  <2>3. \A i \in 1 .. Len(p) : p[i] \notin Stops
    BY <1>6, <1>9
  <2>4. line = p
    <3>1. \A i \in 1 .. Len(p) : p[i] # "--"  BY <2>3 DEF Stops
    <3> QED  BY <1>9, <2>2, <3>1, WholeLine DEF line
  <2>5. Y[n] = DstAt(b \o p, o, "nl")
    BY <1>11, <1>12, <2>1, DstBlank
  <2>6. CASE p = <<>>
    <3>1. b \o <<>> = b  BY <1>1, JoinedNone
    <3>2. LineMakes(line, b, o, Y[n])  BY <2>4, <2>5, <2>6, <3>1 DEF LineMakes
    <3> QED  BY <1>1, <1>5, <1>10, <1>9, <2>4, <3>2 DEF L, m, n, read, line
  <2>7. CASE p # <<>>
    <3> DEFINE k == f - 1
    <3>1. k \in 1 .. m /\ k \in 1 .. f - 1
      <4>1. f - 1 # 0  BY <1>9, <2>7, DomainOf
      <4> QED  BY <1>2, <1>6, <4>1
    <3>2. T[k] \notin Stops  BY <1>6, <3>1
    <3>3. DstMakes(Y[k - 1], T[k], Y[k])  BY <1>3, <3>1
    <3>4. Y[k].text = b \o p  BY <1>11
    <3> HIDE DEF k
    <3>5. OneEscaped(b \o p)
      BY <3>2, <3>3, <3>4 DEF DstMakes, Stops
    <3>6. OneEscaped(p)  BY <1>1, <1>9, <3>5, EscapedPart
    <3>7. \A i \in 1 .. Len(p) : p[i] # Semicolon  BY <2>3 DEF Stops
    <3>8. ~EndsStatement(p)  BY <1>9, <2>7, <3>6, <3>7, GoesOn
    <3>9. LineMakes(line, b, o, Y[n])  BY <2>4, <2>5, <2>7, <3>8 DEF LineMakes
    <3> QED  BY <1>1, <1>5, <1>10, <1>9, <2>4, <3>9 DEF L, m, n, read, line
  <2> QED  BY <2>6, <2>7
<1>13. CASE T[f] = "--"
  <2>1. f = 1
    <3> SUFFICES ASSUME f # 1 PROVE FALSE  OBVIOUS
    <3>1. f - 1 \in 1 .. f - 1 /\ f - 1 # 0  BY <1>6
    <3>2. T[f - 1] \notin Stops  BY <1>6, <3>1
    <3>3. Y[f - 1].last \in {"nl", Semicolon}  BY <1>11, <1>13 DEF DstMakes
    <3> QED  BY <1>11, <3>1, <3>2, <3>3 DEF Stops
  <2>2. b \o p = b
    <3>1. p = <<>>  BY <1>9, <2>1, DomainOf
    <3> QED  BY <1>1, <3>1, JoinedNone
  <2>3. Y[1] = DstAt(b, o, "--")
    BY <1>11, <1>13, <2>1, <2>2, DstBlank
  <2>4. 2 \in 1 .. m /\ 2 - 1 = 1
    <3>1. m # 1  BY <1>4, <1>13, <2>1
    <3> QED  BY <1>2, <3>1
  <2>5. DstMakes(Y[1], T[2], Y[2]) /\ Y[2] \in DstState /\ Y[1] \in DstState
    BY <1>3, <2>4
  <2>6. T[2] = "nl"
    BY <2>3, <2>5, DstFields DEF DstMakes
  <2>7. Y[2] = DstAt(b, o, "nl")
    BY <2>3, <2>5, <2>6, DstBlank, DstFields
  <2>8. n = 2
    <3>1. n # 1  BY <1>5, <1>13, <2>1
    <3>2. ~(n > 2)
      <4> SUFFICES ASSUME n > 2 PROVE FALSE  OBVIOUS
      <4>1. 2 \in 1 .. n - 1  BY <1>5
      <4> QED  BY <1>5, <2>6, <4>1
    <3> QED  BY <1>5, <3>1, <3>2
  <2>9. Len(read) = 1 /\ read[1] = "--"
    <3>1. 1 \in 1 .. n - 1  BY <2>8
    <3> QED  BY <1>10, <1>13, <2>1, <2>8, <3>1
  <2>10. line = <<>>
    BY <1>10, <2>9, CommentLine DEF line
  <2>11. LineMakes(line, b, o, Y[n])
    BY <2>7, <2>8, <2>10 DEF LineMakes
  <2>12. <<>> \in Seq(L)
    OBVIOUS
  <2> QED  BY <1>1, <1>5, <1>10, <2>10, <2>11, <2>12 DEF L, m, n, read, line
<1>14. CASE T[f] = Semicolon
  <2> DEFINE q == SubSeq(T, 1, f)
             t == b \o q
  <2>1. q \in Seq(L) /\ Len(q) = f /\ \A i \in 1 .. f : q[i] = T[i]
    BY <1>1, <1>8, PrefixIs DEF m
  <2>2. Append(b \o p, T[f]) = t
    BY <1>1, <1>6, OneMore DEF p, m
  <2> HIDE DEF q, t
  <2>3. t \in DstStatements /\ Y[f] = DstAt(<<>>, Append(o, t), Semicolon)
    BY <1>11, <1>14, <2>2, DstEnd
  <2> DEFINE g == f + 1
  <2>4. g \in 1 .. m /\ g - 1 = f
    <3>1. f # m  BY <1>4, <1>14, Signs
    <3> QED  BY <1>2, <1>6, <3>1
  <2>5. DstMakes(Y[f], T[g], Y[g]) /\ Y[g] \in DstState
    BY <1>3, <2>4
  <2> HIDE DEF g
  <2>6. T[g] \in {"nl", "--"}
    BY <2>3, <2>5, DstFields DEF DstMakes
  <2>7. Y[g] = DstAt(<<>>, Append(o, t), T[g])
    BY <1>11, <2>3, <2>5, <2>6, DstBlank, DstFields
  <2>8. \A j \in 1 .. f : T[j] # "nl"
    <3> TAKE j \in 1 .. f
    <3>1. CASE j = f  BY <1>14, <3>1, Signs
    <3>2. CASE j # f
      <4>1. j \in 1 .. f - 1  BY <1>6, <3>2
      <4> QED  BY <1>6, <4>1 DEF Stops
    <3> QED  BY <3>1, <3>2
  <2>9. \A j \in 1 .. f : T[j] # "--"
    <3> TAKE j \in 1 .. f
    <3>1. CASE j = f  BY <1>14, <3>1, Signs
    <3>2. CASE j # f
      <4>1. j \in 1 .. f - 1  BY <1>6, <3>2
      <4> QED  BY <1>6, <4>1 DEF Stops
    <3> QED  BY <3>1, <3>2
  <2>10. ASSUME NEW k \in f + 1 .. m, T[k] = "nl", \A j \in f + 1 .. k - 1 : T[j] # "nl"
         PROVE  n = k
    <3>1. ~(n < k)
      <4> SUFFICES ASSUME n < k PROVE FALSE  OBVIOUS
      <4>1. n \in 1 .. f \/ n \in f + 1 .. k - 1  BY <1>5, <1>6, <2>10
      <4> QED  BY <1>5, <2>8, <2>10, <4>1
    <3>2. ~(k < n)
      <4> SUFFICES ASSUME k < n PROVE FALSE  OBVIOUS
      <4>1. k \in 1 .. n - 1  BY <1>5, <1>6, <2>10
      <4> QED  BY <1>5, <2>10, <4>1
    <3> QED  BY <1>5, <1>6, <2>10, <3>1, <3>2
  <2>11. ASSUME line \in Seq(L), f <= Len(line), \A i \in 1 .. f : line[i] = T[i],
                Y[n] = DstAt(<<>>, Append(o, t), "nl")
         PROVE  LineMakes(line, b, o, Y[n]) /\ line \in Seq(L)
    <3>1. \A i \in 1 .. f : line[i] = q[i]  BY <2>1, <2>11
    <3>2. f \in Nat \ {0}  BY <1>6
    <3>3. b \o q \in DstStatements  BY <2>3 DEF t
    <3>4. Finishes(line, b, b \o q)
      BY <1>1, <2>1, <2>11, <3>1, <3>2, <3>3, LineFinishes
    <3>5. Finishes(line, b, t)  BY <3>4 DEF t
    <3> QED  BY <2>3, <2>11, <3>5 DEF LineMakes
  <2>12. CASE T[g] = "nl"
    <3>1. n = g
      <4>1. g \in f + 1 .. m /\ \A j \in f + 1 .. g - 1 : T[j] # "nl"
        BY <1>6, <2>4
      <4> QED  BY <2>10, <2>12, <4>1
    <3>2. Len(read) = f /\ \A i \in 1 .. f : read[i] = T[i]
      BY <1>10, <2>4, <3>1
    <3>3. line = read
      <4>1. \A i \in 1 .. Len(read) : read[i] # "--"  BY <2>9, <3>2
      <4> QED  BY <1>10, <4>1, WholeLine DEF line
    <3>4. f <= Len(line)  BY <1>6, <3>2, <3>3
    <3>5. LineMakes(line, b, o, Y[n]) /\ line \in Seq(L)
      BY <1>10, <2>7, <2>11, <2>12, <3>1, <3>2, <3>3, <3>4
    <3> QED  BY <1>5, <1>10, <3>5 DEF L, m, n, read, line
  <2>13. CASE T[g] = "--"
    <3> DEFINE h == g + 1
    <3>1. h \in 1 .. m /\ h - 1 = g
      <4>1. g # m  BY <1>4, <2>13
      <4> QED  BY <1>2, <2>4, <4>1
    <3>2. DstMakes(Y[g], T[h], Y[h]) /\ Y[h] \in DstState
      BY <1>3, <3>1
    <3> HIDE DEF h
    <3>3. T[h] = "nl"
      BY <2>7, <2>13, <3>2, DstFields DEF DstMakes
    <3>4. Y[h] = DstAt(<<>>, Append(o, t), "nl")
      BY <2>5, <2>7, <3>2, <3>3, DstBlank, DstFields
    <3>5. n = h
      <4>1. h \in f + 1 .. m /\ \A j \in f + 1 .. h - 1 : T[j] # "nl"
        <5>1. h \in f + 1 .. m  BY <1>6, <2>4, <3>1
        <5>2. \A j \in f + 1 .. h - 1 : j = g  BY <1>6, <2>4, <3>1
        <5> QED  BY <2>13, <5>1, <5>2
      <4> QED  BY <2>10, <3>3, <4>1
    <3>6. Len(read) = f + 1 /\ read[f + 1] = "--" /\ \A i \in 1 .. f : read[i] = T[i]
      <4>1. n - 1 = f + 1 /\ g = f + 1 /\ f + 1 \in 1 .. n - 1  BY <1>6, <2>4, <3>1, <3>5
      <4>2. \A i \in 1 .. f : i \in 1 .. n - 1  BY <1>6, <4>1
      <4> QED  BY <1>10, <2>13, <4>1, <4>2
    <3>7. line \in {read, SubSeq(read, 1, f)}
      <4>1. \A i \in 1 .. f : read[i] # "--"  BY <2>9, <3>6
      <4>2. f \in Nat  BY <1>6
      <4> QED  BY <1>10, <3>6, <4>1, <4>2, LineWithComment DEF line
    <3>8. line \in Seq(L) /\ f <= Len(line) /\ \A i \in 1 .. f : line[i] = T[i]
      <4>1. CASE line = read
        BY <1>6, <1>10, <3>6, <4>1
      <4>2. CASE line = SubSeq(read, 1, f)
        <5>1. f \in 0 .. Len(read)  BY <1>6, <3>6
        <5>2. line \in Seq(L) /\ Len(line) = f /\ \A i \in 1 .. f : line[i] = read[i]
          BY <1>10, <4>2, <5>1, PrefixIs
        <5> QED  BY <1>6, <3>6, <5>2
      <4> QED  BY <3>7, <4>1, <4>2
    <3>9. LineMakes(line, b, o, Y[n]) /\ line \in Seq(L)
      BY <2>11, <3>4, <3>5, <3>8
    <3> QED  BY <1>5, <1>10, <3>9 DEF L, m, n, read, line
  <2> QED  BY <2>6, <2>12, <2>13
<1> QED  BY <1>6, <1>12, <1>13, <1>14 DEF Stops

-----------------------------------------------------------------------------
\* Statements of distcomp

\* Texts of *.dst, from statement to statement.
DstLeads(y, T, z) == Leads(DstState, DstEdges, y, T, z)

LEMMA DstType ==
  ASSUME NEW a \in Seq(Lexemes), NEW o \in Seq(Seq(Lexemes)), NEW l \in Lexemes
  PROVE  DstAt(a, o, l) \in DstState
<1> DEFINE A == Seq(Lexemes)
           B == Seq(Seq(Lexemes))
           C == Lexemes
<1>1. a \in A /\ o \in B /\ l \in C
  OBVIOUS
<1> HIDE DEF A, B, C
<1>2. DstAt(a, o, l) \in [text : A, out : B, last : C]
  BY <1>1 DEF DstAt
<1> QED  BY <1>2 DEF DstState, A, B, C

LEMMA DstMore ==
  ASSUME NEW y, NEW T \in Seq(Lexemes), NEW z \in DstState, NEW c \in Lexemes, NEW w \in DstState,
         DstLeads(y, T, z), DstMakes(z, c, w)
  PROVE  DstLeads(y, Append(T, c), w)
<1> DEFINE L == Lexemes
           S == DstState
           E == DstEdges
<1>1. Edge(z, c, w) \in E
  BY DstEdge
<1>2. T \in Seq(L) /\ c \in L /\ w \in S /\ Leads(S, E, y, T, z)
  BY DEF DstLeads
<1> HIDE DEF L, S, E
<1>3. Leads(S, E, y, Append(T, c), w)
  BY <1>1, <1>2, MoreText
<1> QED  BY <1>3 DEF DstLeads, S, E

LEMMA BlankMakes ==
  ASSUME NEW a, NEW o, NEW l, NEW c \in {"nl", "--"}, c = "--" => l \in {"nl", Semicolon},
         l = "--" => c = "nl"
  PROVE  DstMakes(DstAt(a, o, l), c, DstAt(a, o, c))
  BY DstFields DEF DstMakes

\* What a statement is broken by, and what is after one.
Breaks == {<<>>, <<"nl">>, <<"nl", "--", "nl">>}

\* A break between words leads to where they go on.
LEMMA DstBreaks ==
  ASSUME NEW y, NEW T \in Seq(Lexemes), NEW a \in Seq(Lexemes), NEW o \in Seq(Seq(Lexemes)),
         NEW l \in Lexemes \ {"--", Semicolon}, DstLeads(y, T, DstAt(a, o, l)), NEW br \in Breaks
  PROVE  \E k \in Lexemes \ {"--", Semicolon} : DstLeads(y, T \o br, DstAt(a, o, k))
<1> DEFINE L == Lexemes
           T1 == Append(T, "nl")
           T2 == Append(T1, "--")
           T3 == Append(T2, "nl")
<1>1. T \in Seq(L) /\ "nl" \in L /\ "--" \in L
  BY BlanksAre
<1> HIDE DEF L
<1>2. T \o <<>> = T /\ T \o <<"nl">> = T1 /\ T \o <<"nl", "--", "nl">> = T3
      /\ T1 \in Seq(L) /\ T2 \in Seq(L)
  BY <1>1, LongerTexts
<1>3. "nl" \in Lexemes \ {"--", Semicolon}
  BY Signs, BlanksAre
<1>4. /\ DstAt(a, o, l) \in DstState /\ DstAt(a, o, "nl") \in DstState
      /\ DstAt(a, o, "--") \in DstState
  BY DstType, BlanksAre
<1>5. DstLeads(y, T1, DstAt(a, o, "nl"))
  <2>1. DstMakes(DstAt(a, o, l), "nl", DstAt(a, o, "nl"))  BY BlankMakes
  <2> QED  BY <1>4, <2>1, DstMore, BlanksAre
<1> HIDE DEF T1, T2, T3
<1>6. DstLeads(y, T2, DstAt(a, o, "--"))
  <2>1. DstMakes(DstAt(a, o, "nl"), "--", DstAt(a, o, "--"))  BY BlankMakes
  <2>2. T1 \in Seq(Lexemes)  BY <1>2 DEF L
  <2> QED  BY <1>4, <1>5, <2>1, <2>2, DstMore, BlanksAre DEF T2
<1>7. DstLeads(y, T3, DstAt(a, o, "nl"))
  <2>1. DstMakes(DstAt(a, o, "--"), "nl", DstAt(a, o, "nl"))  BY BlankMakes
  <2>2. T2 \in Seq(Lexemes)  BY <1>2 DEF L
  <2> QED  BY <1>4, <1>6, <2>1, <2>2, DstMore, BlanksAre DEF T3
<1> QED  BY <1>2, <1>3, <1>5, <1>7 DEF Breaks

Afters == {<<"nl">>, <<"--", "nl">>}

\* What follows the semicolon leads to the beginning of a line.
LEMMA DstAfter ==
  ASSUME NEW y, NEW T \in Seq(Lexemes), NEW a \in Seq(Lexemes), NEW o \in Seq(Seq(Lexemes)),
         Semicolon \in Lexemes, DstLeads(y, T, DstAt(a, o, Semicolon)), NEW after \in Afters
  PROVE  DstLeads(y, T \o after, DstAt(a, o, "nl"))
<1> DEFINE L == Lexemes
           T1 == Append(T, "nl")
           T2 == Append(T, "--")
           T3 == Append(T2, "nl")
<1>1. T \in Seq(L) /\ "nl" \in L /\ "--" \in L
  BY BlanksAre
<1> HIDE DEF L
<1>2. T \o <<"nl">> = T1 /\ T \o <<"--", "nl">> = T3 /\ T2 \in Seq(L)
  BY <1>1, LongerTexts
<1>4. /\ DstAt(a, o, Semicolon) \in DstState /\ DstAt(a, o, "nl") \in DstState
      /\ DstAt(a, o, "--") \in DstState
  BY DstType, BlanksAre
<1>5. DstLeads(y, T1, DstAt(a, o, "nl"))
  <2>1. DstMakes(DstAt(a, o, Semicolon), "nl", DstAt(a, o, "nl"))  BY BlankMakes, Signs
  <2> QED  BY <1>4, <2>1, DstMore, BlanksAre
<1> HIDE DEF T1, T2, T3
<1>6. DstLeads(y, T2, DstAt(a, o, "--"))
  <2>1. DstMakes(DstAt(a, o, Semicolon), "--", DstAt(a, o, "--"))  BY BlankMakes, Signs
  <2> QED  BY <1>4, <2>1, DstMore, BlanksAre DEF T2
<1>7. DstLeads(y, T3, DstAt(a, o, "nl"))
  <2>1. DstMakes(DstAt(a, o, "--"), "nl", DstAt(a, o, "nl"))  BY BlankMakes
  <2>2. T2 \in Seq(Lexemes)  BY <1>2 DEF L
  <2> QED  BY <1>4, <1>6, <2>1, <2>2, DstMore, BlanksAre DEF T3
<1> QED  BY <1>2, <1>5, <1>7 DEF Afters

\* A statement as it is written: its lexemes, a break after some of them.
Written(P, s) ==
  /\ P \in [1 .. Len(s) -> Seq(Lexemes)]
  /\ \A i \in 1 .. Len(s) - 1 : \E br \in Breaks : P[i] = <<s[i]>> \o br
  /\ P[Len(s)] = <<s[Len(s)]>>

\* A word, and the semicolon.
LEMMA DstWord ==
  ASSUME NEW y, NEW T \in Seq(Lexemes), NEW a \in Seq(Lexemes), NEW o \in Seq(Seq(Lexemes)),
         NEW l \in Lexemes \ {"--", Semicolon}, DstLeads(y, T, DstAt(a, o, l)),
         NEW c \in Lexemes \ Stops, OneEscaped(Append(a, c))
  PROVE  DstLeads(y, Append(T, c), DstAt(Append(a, c), o, c))
<1>1. Append(a, c) \in Seq(Lexemes)
  BY AppendIs
<1>2. DstAt(a, o, l) \in DstState /\ DstAt(Append(a, c), o, c) \in DstState
  BY <1>1, DstType
<1>3. DstMakes(DstAt(a, o, l), c, DstAt(Append(a, c), o, c))
  <2> DEFINE z == DstAt(a, o, l)
             w == DstAt(Append(a, c), o, c)
  <2>1. /\ z.text = a /\ z.out = o /\ z.last = l
        /\ w.text = Append(a, c) /\ w.out = o /\ w.last = c
    BY DEF DstAt
  <2>2. c \notin {"nl", "--", Semicolon}
    BY DEF Stops
  <2>3. l # "--" /\ l # Semicolon
    OBVIOUS
  <2> HIDE DEF z, w
  <2>4. DstMakes(z, c, w)
    BY <2>1, <2>2, <2>3 DEF DstMakes
  <2> QED  BY <2>4 DEF z, w
<1> QED  BY <1>2, <1>3, DstMore

LEMMA DstFinish ==
  ASSUME NEW y, NEW T \in Seq(Lexemes), NEW a \in Seq(Lexemes), NEW o \in Seq(Seq(Lexemes)),
         NEW l \in Lexemes \ {"--", Semicolon}, DstLeads(y, T, DstAt(a, o, l)),
         Semicolon \in Lexemes, Append(a, Semicolon) \in DstStatements
  PROVE  DstLeads(y, Append(T, Semicolon), DstAt(<<>>, Append(o, Append(a, Semicolon)), Semicolon))
<1> DEFINE t == Append(a, Semicolon)
<1>1. t \in Seq(Lexemes)
  BY OfStatement
<1> HIDE DEF t
<1>2. Append(o, t) \in Seq(Seq(Lexemes)) /\ <<>> \in Seq(Lexemes)
  BY <1>1
<1>3. DstAt(a, o, l) \in DstState /\ DstAt(<<>>, Append(o, t), Semicolon) \in DstState
  BY <1>2, DstType
<1>4. DstMakes(DstAt(a, o, l), Semicolon, DstAt(<<>>, Append(o, t), Semicolon))
  <2> DEFINE z == DstAt(a, o, l)
             w == DstAt(<<>>, Append(o, t), Semicolon)
  <2>1. /\ z.text = a /\ z.out = o /\ z.last = l
        /\ w.text = <<>> /\ w.out = Append(o, t) /\ w.last = Semicolon
    BY DEF DstAt
  <2>2. l # "--" /\ l # Semicolon /\ Semicolon \notin {"nl", "--"}
    BY Signs
  <2>3. t = Append(a, Semicolon) /\ t \in DstStatements
    BY DEF t
  <2> HIDE DEF z, w
  <2>4. DstMakes(z, Semicolon, w)
    BY <2>1, <2>2, <2>3 DEF DstMakes
  <2> QED  BY <2>4 DEF z, w
<1>5. DstLeads(y, Append(T, Semicolon), DstAt(<<>>, Append(o, t), Semicolon))
  BY <1>3, <1>4, DstMore
<1> QED  BY <1>5 DEF t

LEMMA EscapedPrefix ==
  ASSUME NEW L, NEW s \in Seq(L), OneEscaped(s), NEW k \in 0 .. Len(s)
  PROVE  OneEscaped(SubSeq(s, 1, k))
<1> DEFINE p == SubSeq(s, 1, k)
<1>1. p \in Seq(L) /\ Len(p) = k /\ \A i \in 1 .. k : p[i] = s[i]
  BY PrefixIs
<1> HIDE DEF p
<1>2. DOMAIN s = 1 .. Len(s) /\ DOMAIN p = 1 .. k /\ Len(s) \in Nat
  BY <1>1, DomainOf
<1>3. \A i \in 1 .. k : i \in 1 .. Len(s)
  BY <1>2
<1>4. OneEscaped(p)
  BY <1>1, <1>2, <1>3 DEF OneEscaped
<1> QED  BY <1>4 DEF p

LEMMA BreaksType == ASSUME NEW br \in Breaks PROVE br \in Seq(Lexemes)
<1> DEFINE L == Lexemes
<1>1. "nl" \in L /\ "--" \in L
  BY BlanksAre
<1> HIDE DEF L
<1>2. <<>> \in Seq(L) /\ <<"nl">> \in Seq(L) /\ <<"nl", "--", "nl">> \in Seq(L)
  BY <1>1
<1> QED  BY <1>2 DEF Breaks, L

(* A statement written behind a text that ends with a line is one more     *)
(* statement: by the number of its lexemes that are written.               *)
LEMMA DstWrites ==
  ASSUME NEW y, NEW R \in Seq(Lexemes), NEW s \in DstStatements, NEW o \in Seq(Seq(Lexemes)),
         DstLeads(y, R, DstAt(<<>>, o, "nl")), NEW P, Written(P, s), NEW after \in Afters
  PROVE  /\ FlattenSeq(P) \in Seq(Lexemes)
         /\ DstLeads(y, (R \o FlattenSeq(P)) \o after, DstAt(<<>>, Append(o, s), "nl"))
<1> DEFINE n == Len(s)
           L == Lexemes
<1>1. s \in Seq(L) /\ n \in Nat \ {0} /\ s[n] = Semicolon
  BY OfStatement
<1>2. \A i \in 1 .. n - 1 : s[i] \notin Stops
  BY DstAssumption DEF EndsOnce, Stops
<1>3. OneEscaped(s)
  BY DstAssumption DEF OneEscaped
<1>4. P \in [1 .. n -> Seq(L)]
  BY DEF Written
<1>5. PICK f : Flattens(f, P, n, L)
  BY <1>1, <1>4, FlattenIs
<1>6. /\ f \in [0 .. n -> Seq(L)] /\ f[0] = <<>>
      /\ \A i \in 1 .. n : f[i] = f[i - 1] \o P[i]
      /\ FlattenSeq(P) = f[n]
  BY <1>5 DEF Flattens
<1>7. \A i \in 1 .. n : s[i] \in L
  BY <1>1
<1> HIDE DEF n, L
<1> DEFINE At_(i) == SubSeq(s, 1, i)
           Upto(i) == \E l \in L \ {"--", Semicolon} : DstLeads(y, R \o f[i], DstAt(At_(i), o, l))
           G == {i \in 0 .. n - 1 : Upto(i)}
<1>8. \A i \in 0 .. n : At_(i) \in Seq(L)
  BY <1>1, PrefixIs DEF n
<1>9. \A i \in 0 .. n : f[i] \in Seq(L) /\ R \o f[i] \in Seq(L)
  <2> TAKE i \in 0 .. n
  <2>1. f[i] \in Seq(L)  BY <1>6
  <2> QED  BY <2>1 DEF L
<1>10. ASSUME NEW i \in 1 .. n
       PROVE  Append(At_(i - 1), s[i]) = At_(i)
  <2>1. <<>> \in Seq(L)  OBVIOUS
  <2>2. Append(<<>> \o At_(i - 1), s[i]) = <<>> \o At_(i)
    BY <1>1, <2>1, OneMore DEF n
  <2>3. i \in 0 .. n /\ i - 1 \in 0 .. n  BY <1>1
  <2>4. At_(i - 1) \in Seq(L) /\ At_(i) \in Seq(L)  BY <1>8, <2>3
  <2>5. <<>> \o At_(i - 1) = At_(i - 1) /\ <<>> \o At_(i) = At_(i)  BY <2>4, JoinedNone
  <2> QED  BY <2>2, <2>5
<1>11. 0 \in G
  <2>1. At_(0) = <<>>  BY <1>1, NoneTaken
  <2>2. R \o f[0] = R  BY <1>6, JoinedNone
  <2>3. "nl" \in L \ {"--", Semicolon}  BY BlanksAre, Signs DEF L
  <2>4. 0 \in 0 .. n - 1  BY <1>1
  <2>5. Upto(0)  BY <2>1, <2>2, <2>3
  <2> QED  BY <2>4, <2>5
<1> HIDE DEF At_
<1>12. ASSUME NEW i \in 1 .. n - 1, i - 1 \in G PROVE i \in G
  <2>1. PICK l \in L \ {"--", Semicolon} : DstLeads(y, R \o f[i - 1], DstAt(At_(i - 1), o, l))
    BY <1>12
  <2>2. PICK br \in Breaks : P[i] = <<s[i]>> \o br
    BY DEF Written, n
  <2> DEFINE T == R \o f[i - 1]
             a == At_(i - 1)
             c == s[i]
  <2>3. i \in 1 .. n /\ i \in 0 .. n /\ i - 1 \in 0 .. n /\ i \in 0 .. n - 1
    BY <1>1
  <2>4. T \in Seq(L) /\ a \in Seq(L) /\ c \in L \ Stops /\ f[i - 1] \in Seq(L)
    BY <1>2, <1>7, <1>8, <1>9, <2>3
  <2>5. Append(a, c) = At_(i)
    BY <1>10, <2>3
  <2>6. OneEscaped(At_(i))
    BY <1>1, <1>3, <2>3, EscapedPrefix DEF At_, n
  <2>7. R \o f[i] = Append(T, c) \o br
    <3>1. f[i] = f[i - 1] \o P[i]  BY <1>6, <2>3
    <3> DEFINE g == f[i - 1]
    <3>2. g \in Seq(L) /\ br \in Seq(L) /\ R \in Seq(L) /\ c \in L
      BY <2>4, BreaksType DEF L
    <3> HIDE DEF g, c
    <3>3. PieceJoins(R, g, c, br)
      BY <3>2, NextPiece
    <3> QED  BY <2>2, <3>1, <3>3 DEF g, c, PieceJoins
  <2> HIDE DEF T, a, c
  <2>8. DstLeads(y, T, DstAt(a, o, l))
    BY <2>1 DEF T, a
  <2>9. DstLeads(y, Append(T, c), DstAt(Append(a, c), o, c))
    BY <2>4, <2>5, <2>6, <2>8, DstWord DEF L
  <2>10. Append(T, c) \in Seq(L) /\ Append(a, c) \in Seq(L)
    BY <2>4, AppendIs
  <2>11. c \in L \ {"--", Semicolon}
    BY <2>4 DEF Stops
  <2>12. \E k \in L \ {"--", Semicolon} : DstLeads(y, Append(T, c) \o br, DstAt(Append(a, c), o, k))
    BY <2>9, <2>10, <2>11, DstBreaks DEF L
  <2>13. Upto(i)
    BY <2>5, <2>7, <2>12
  <2> QED  BY <2>3, <2>13
<1> HIDE DEF G
<1>13. n - 1 \in Nat
  BY <1>1
<1>14. \A i \in 0 .. n - 1 : i \in G
  BY <1>11, <1>12, <1>13, Upwards
<1>15. PICK l \in L \ {"--", Semicolon} : DstLeads(y, R \o f[n - 1], DstAt(At_(n - 1), o, l))
  <2>1. n - 1 \in 0 .. n - 1  BY <1>13
  <2> QED  BY <1>14, <2>1 DEF G
<1> DEFINE T == R \o f[n - 1]
           a == At_(n - 1)
<1>16. n \in 1 .. n /\ n \in 0 .. n /\ n - 1 \in 0 .. n
  BY <1>1
<1>17. T \in Seq(L) /\ a \in Seq(L) /\ f[n - 1] \in Seq(L) /\ f[n] \in Seq(L) /\ Semicolon \in L
  BY <1>1, <1>7, <1>8, <1>9, <1>16
<1>18. Append(a, Semicolon) = s
  <2>1. At_(n) = s
    <3>1. At_(n) \in Seq(L) /\ Len(At_(n)) = n /\ \A i \in 1 .. n : At_(n)[i] = s[i]
      BY <1>1, <1>16, PrefixIs DEF n, At_
    <3>2. Len(At_(n)) = Len(s)  BY <3>1 DEF n
    <3> QED  BY <1>1, <3>1, <3>2, SameSeq
  <2> QED  BY <1>1, <1>10, <1>16, <2>1
<1>19. R \o FlattenSeq(P) = Append(T, Semicolon)
  <2>1. P[n] = <<Semicolon>>  BY <1>1 DEF Written, n
  <2>2. f[n] = f[n - 1] \o <<Semicolon>>  BY <1>6, <1>16, <2>1
  <2> DEFINE g == f[n - 1]
  <2>3. g \in Seq(L) /\ R \in Seq(L) /\ Semicolon \in L  BY <1>17 DEF L
  <2> HIDE DEF g
  <2>4. R \o (g \o <<Semicolon>>) = Append(R \o g, Semicolon)  BY <2>3, LastPiece
  <2> QED  BY <1>6, <2>2, <2>4 DEF g
<1> HIDE DEF T, a
<1>20. DstLeads(y, Append(T, Semicolon), DstAt(<<>>, Append(o, s), Semicolon))
  <2>1. DstLeads(y, T, DstAt(a, o, l))  BY <1>15 DEF T, a
  <2> QED  BY <1>17, <1>18, <2>1, DstFinish DEF L
<1>21. DstLeads(y, Append(T, Semicolon) \o after, DstAt(<<>>, Append(o, s), "nl"))
  <2>1. Append(T, Semicolon) \in Seq(L)  BY <1>17, AppendIs
  <2>2. <<>> \in Seq(L) /\ Append(o, s) \in Seq(Seq(L))  BY <1>1 DEF L
  <2> QED  BY <1>17, <1>20, <2>1, <2>2, DstAfter DEF L
<1> QED  BY <1>6, <1>17, <1>19, <1>21 DEF L

-----------------------------------------------------------------------------
\* ParseFile() reads what was written

\* The statements given to handlers, each up to its semicolon.
Statements(h) == [i \in DOMAIN h |-> Ended(h[i].text)]

HandledType == [handler : Lexemes, text : Seq(Lexemes)]

(* What is not yet read, from the statement in the buffer on, makes of the *)
(* statements handled those that were written.                             *)
DstInv ==
  /\ rest \in Seq(Lexemes) /\ written \in Seq(Seq(Lexemes)) /\ handled \in Seq(HandledType)
  /\ \A i \in DOMAIN handled : handled[i].handler = handled[i].text[1]
  /\ DstLeads(DstAt(pLineBuffer.text, Statements(handled), "nl"), rest, DstAt(<<>>, written, "nl"))

LEMMA EndedType ==
  ASSUME NEW L, NEW t \in Seq(L)
  PROVE  Ended(t) \in Seq(L)
<1>1. CASE t = <<>>
  <2>1. Len(t) = 0  BY <1>1
  <2>2. UpTo(t, {Semicolon}) = 0
    <3>1. {i \in DOMAIN t : t[i] \in {Semicolon}} = {}  BY <2>1, DomainOf
    <3> QED  BY <2>1, <3>1 DEF UpTo
  <2>3. Ended(t) = SubSeq(t, 1, 0)  BY <2>2 DEF Ended
  <2> QED  BY <2>3, NoneTaken
<1>2. CASE t # <<>>
  <2> DEFINE u == UpTo(t, {Semicolon})
  <2>1. u \in 1 .. Len(t)  BY <1>2, UpToIs
  <2> HIDE DEF u
  <2>2. u \in 0 .. Len(t)  BY <2>1
  <2>3. SubSeq(t, 1, u) \in Seq(L)  BY <2>2, PrefixIs
  <2> QED  BY <2>3 DEF Ended, u
<1> QED  BY <1>1, <1>2

LEMMA StatementsType ==
  ASSUME NEW h \in Seq(HandledType)
  PROVE  Statements(h) \in Seq(Seq(Lexemes))
<1> DEFINE H == HandledType
           S == Seq(Lexemes)
<1>1. \A x \in H : x.text \in S
  BY DEF HandledType
<1>2. \A x \in H : Ended(x.text) \in S
  BY <1>1, EndedType
<1> HIDE DEF H, S
<1>3. h \in Seq(H)
  BY DEF H
<1>4. DOMAIN h = 1 .. Len(h) /\ Len(h) \in Nat /\ \A i \in 1 .. Len(h) : h[i] \in H
  BY <1>3
<1>5. Statements(h) \in [1 .. Len(h) -> S]
  BY <1>2, <1>4 DEF Statements
<1>6. Statements(h) \in Seq(S)
  BY <1>4, <1>5, LenOf
<1> QED  BY <1>6 DEF S

\* One more call of a handler is one more statement.
LEMMA StatementsMore ==
  ASSUME NEW h \in Seq(HandledType), NEW e \in HandledType
  PROVE  Statements(Append(h, e)) = Append(Statements(h), Ended(e.text))
<1> DEFINE H == HandledType
           g == Append(h, e)
           m == Len(h)
<1>1. h \in Seq(H) /\ e \in H
  OBVIOUS
<1> HIDE DEF H
<1>2. /\ g \in Seq(H) /\ m \in Nat /\ Len(g) = m + 1 /\ g[m + 1] = e /\ \A i \in 1 .. m : g[i] = h[i]
  BY <1>1, AppendIs
<1>3. DOMAIN g = 1 .. m + 1 /\ DOMAIN h = 1 .. m
  BY <1>1, <1>2, DomainOf
<1> HIDE DEF g, m
<1> DEFINE s == Statements(h)
           t == Statements(g)
           L == Seq(Lexemes)
<1>4. s \in Seq(L) /\ t \in Seq(L) /\ Ended(e.text) \in L
  <2>1. s \in Seq(L)  BY StatementsType
  <2>2. t \in Seq(L)  BY <1>2, StatementsType DEF H
  <2>3. e.text \in Seq(Lexemes)  BY DEF HandledType
  <2> QED  BY <2>1, <2>2, <2>3, EndedType
<1>5. s = [i \in 1 .. m |-> Ended(h[i].text)] /\ t = [i \in 1 .. m + 1 |-> Ended(g[i].text)]
  BY <1>3 DEF Statements
<1> HIDE DEF s, t, L
<1>6. Len(s) = m /\ Len(t) = m + 1
  BY <1>2, <1>4, <1>5
<1> DEFINE a == Append(s, Ended(e.text))
<1>7. /\ a \in Seq(L) /\ Len(a) = m + 1 /\ a[m + 1] = Ended(e.text) /\ \A i \in 1 .. m : a[i] = s[i]
  BY <1>4, <1>6, AppendIs
<1> HIDE DEF a
<1>8. ASSUME NEW i \in 1 .. m + 1 PROVE t[i] = a[i]
  <2>1. CASE i = m + 1
    BY <1>2, <1>5, <1>7, <2>1
  <2>2. CASE i # m + 1
    <3>1. i \in 1 .. m  BY <1>2, <2>2
    <3> QED  BY <1>2, <1>5, <1>7, <3>1
  <2> QED  BY <2>1, <2>2
<1>9. t = a
  BY <1>4, <1>6, <1>7, <1>8, SameSeq
<1> QED  BY <1>9 DEF t, a, g, s

\* What WriteStatement writes is a statement, broken.
LEMMA StatementWritten ==
  ASSUME NEW s, NEW breaks \in SUBSET (1 .. Len(s) - 1), NEW between \in Breaks, s \in Seq(Lexemes), s # <<>>
  PROVE  LET broke(i) == IF i \in breaks THEN between ELSE <<>>
         IN  Written([i \in DOMAIN s |-> <<s[i]>> \o broke(i)], s)
<1> DEFINE L == Lexemes
           broke(i) == IF i \in breaks THEN between ELSE <<>>
           P == [i \in DOMAIN s |-> <<s[i]>> \o broke(i)]
<1>1. DOMAIN s = 1 .. Len(s) /\ Len(s) \in Nat \ {0}
  <2>1. s \in Seq(L)  OBVIOUS
  <2> HIDE DEF L
  <2> QED  BY <2>1, DomainOf
<1>2. \A i \in 1 .. Len(s) : s[i] \in L
  <2>1. s \in Seq(L)  OBVIOUS
  <2> HIDE DEF L
  <2> QED  BY <2>1
<1>3. \A i \in 1 .. Len(s) : broke(i) \in Breaks
  BY DEF Breaks
<1> HIDE DEF broke
<1>4. \A i \in 1 .. Len(s) : <<s[i]>> \o broke(i) \in Seq(L)
  <2> TAKE i \in 1 .. Len(s)
  <2>1. broke(i) \in Seq(L)  BY <1>3, BreaksType
  <2>2. <<s[i]>> \in Seq(L)  BY <1>2
  <2> HIDE DEF L
  <2> QED  BY <2>1, <2>2
<1>5. P \in [1 .. Len(s) -> Seq(L)] /\ \A i \in 1 .. Len(s) : P[i] = <<s[i]>> \o broke(i)
  BY <1>1, <1>4
<1> HIDE DEF P
<1>6. \A i \in 1 .. Len(s) - 1 : \E br \in Breaks : P[i] = <<s[i]>> \o br
  <2>1. \A i \in 1 .. Len(s) - 1 : i \in 1 .. Len(s)  BY <1>1
  <2> QED  BY <1>3, <1>5, <2>1
<1>7. P[Len(s)] = <<s[Len(s)]>>
  <2>1. Len(s) \in 1 .. Len(s) /\ Len(s) \notin 1 .. Len(s) - 1  BY <1>1
  <2>2. broke(Len(s)) = <<>>  BY <2>1 DEF broke
  <2>3. <<s[Len(s)]>> \in Seq(L)  BY <1>2, <2>1
  <2> QED  BY <1>5, <2>1, <2>2, <2>3, JoinedNone
<1>8. Written(P, s)
  BY <1>5, <1>6, <1>7 DEF Written
<1> QED  BY <1>8 DEF P, broke

LEMMA AftersType == ASSUME NEW after \in Afters PROVE after \in Seq(Lexemes)
<1> DEFINE L == Lexemes
<1>1. "nl" \in L /\ "--" \in L
  BY BlanksAre
<1> HIDE DEF L
<1>2. <<"nl">> \in Seq(L) /\ <<"--", "nl">> \in Seq(L)
  BY <1>1
<1> QED  BY <1>2 DEF Afters, L

\* WriteStatement, EndOfText and ParseLine keep DstInv.
LEMMA DstWriting ==
  ASSUME grammar = "distcomp", DstInv, WriteStatement
  PROVE  DstInv'
<1>1. PICK s \in DstStatements, between \in {<<"nl">>, <<"nl", "--", "nl">>}, after \in Afters :
        \E breaks \in SUBSET (1 .. Len(s) - 1) :
          /\ written' = Append(written, s)
          /\ LET broke(i) == IF i \in breaks THEN between ELSE <<>>
             IN  rest' = rest \o FlattenSeq([i \in DOMAIN s |-> <<s[i]>> \o broke(i)]) \o after
  BY DEF WriteStatement, Afters
<1>2. PICK breaks \in SUBSET (1 .. Len(s) - 1) :
          /\ written' = Append(written, s)
          /\ LET broke(i) == IF i \in breaks THEN between ELSE <<>>
             IN  rest' = rest \o FlattenSeq([i \in DOMAIN s |-> <<s[i]>> \o broke(i)]) \o after
  BY <1>1
<1> DEFINE broke(i) == IF i \in breaks THEN between ELSE <<>>
           P == [i \in DOMAIN s |-> <<s[i]>> \o broke(i)]
           y == DstAt(pLineBuffer.text, Statements(handled), "nl")
<1>3. rest' = (rest \o FlattenSeq(P)) \o after /\ written' = Append(written, s)
  BY <1>2
<1>4. s \in Seq(Lexemes) /\ s # <<>>
  BY OfStatement
<1>5. Written(P, s)
  <2>1. between \in Breaks  BY DEF Breaks
  <2> QED  BY <1>4, <2>1, StatementWritten
<1> HIDE DEF P, y
<1>6. rest \in Seq(Lexemes) /\ written \in Seq(Seq(Lexemes)) /\ DstLeads(y, rest, DstAt(<<>>, written, "nl"))
  BY DEF DstInv, y
<1>7. FlattenSeq(P) \in Seq(Lexemes) /\ DstLeads(y, rest', DstAt(<<>>, written', "nl"))
  BY <1>3, <1>5, <1>6, DstWrites
<1>8. rest' \in Seq(Lexemes) /\ written' \in Seq(Seq(Lexemes))
  <2> DEFINE L == Lexemes
             F == FlattenSeq(P)
  <2>1. rest \in Seq(L) /\ F \in Seq(L) /\ after \in Seq(L) /\ written \in Seq(Seq(L)) /\ s \in Seq(L)
    BY <1>4, <1>6, <1>7, AftersType
  <2> HIDE DEF L, F
  <2>2. (rest \o F) \o after \in Seq(L) /\ Append(written, s) \in Seq(Seq(L))
    BY <2>1
  <2> QED  BY <1>3, <2>2 DEF L, F
<1>9. pLineBuffer' = pLineBuffer /\ handled' = handled
  BY DEF WriteStatement
<1> QED  BY <1>7, <1>8, <1>9 DEF DstInv, y

LEMMA DstEnding ==
  ASSUME DstInv, EndOfText
  PROVE  DstInv'
  BY DEF DstInv, EndOfText

LEMMA DstParsing ==
  ASSUME DstInv, BufferFits(pLineBuffer), ParseLine
  PROVE  DstInv' /\ BufferFits(pLineBuffer')
<1> DEFINE b == pLineBuffer.text
           o == Statements(handled)
           z == DstAt(<<>>, written, "nl")
           n == UpTo(rest, {"nl"})
           line == ProcessComments(NextLine(rest))
           st == AddBuffer(pLineBuffer, line, Len(line))
           e == [handler |-> FindToken(SafeStrtok(st.text)), text |-> st.text]
           after == SubSeq(rest, n + 1, Len(rest))
<1>1. /\ rest \in Seq(Lexemes) /\ written \in Seq(Seq(Lexemes)) /\ handled \in Seq(HandledType)
      /\ \A i \in DOMAIN handled : handled[i].handler = handled[i].text[1]
      /\ Leads(DstState, DstEdges, DstAt(b, o, "nl"), rest, z)
  BY DEF DstInv, DstLeads
<1>2. rest # <<>> /\ written' = written /\ rest' = after
      /\ IF line # <<>> /\ EndsStatement(line)
         THEN handled' = Append(handled, e) /\ pLineBuffer' = ResetBuffer(st)
         ELSE pLineBuffer' = (IF line = <<>> THEN pLineBuffer ELSE AddBuffer(st, <<>>, 1)) /\ handled' = handled
  BY DEF ParseLine, NextLine
<1>3. b \in Seq(Lexemes)
  BY FitsMeans
<1>4. PICK Y : Passes(Y, DstState, DstEdges, rest) /\ Y[0] = DstAt(b, o, "nl") /\ Y[Len(rest)] = z
  BY <1>1 DEF Leads
<1>5. DstRun(Y, rest, b, o)
  BY <1>4 DEF DstRun, DstAt
<1>6. n \in 1 .. Len(rest) /\ line \in Seq(Lexemes) /\ LineMakes(line, b, o, Y[n])
  BY <1>1, <1>2, <1>3, <1>5, LineReads
<1> HIDE DEF b, o, z, n, line, st, e, after
<1>7. DstLeads(Y[n], after, z)
  <2> DEFINE L == Lexemes
             S == DstState
             E == DstEdges
  <2>1. rest \in Seq(L) /\ Passes(Y, S, E, rest)  BY <1>1, <1>4
  <2>2. n \in 0 .. Len(rest)  BY <1>6
  <2> HIDE DEF L, S, E
  <2>3. Leads(S, E, Y[n], SubSeq(rest, n + 1, Len(rest)), Y[Len(rest)])
    BY <2>1, <2>2, LaterText
  <2> QED  BY <1>4, <2>3 DEF S, E, DstLeads, after
<1>8. after \in Seq(Lexemes)
  <2> DEFINE L == Lexemes
  <2>1. rest \in Seq(L) /\ n \in 0 .. Len(rest)  BY <1>1, <1>6
  <2> HIDE DEF L
  <2> QED  BY <2>1, SuffixIs DEF L, after
<1>9. BufferFits(st) /\ st.text = b \o line
      /\ BufferFits(AddBuffer(st, <<>>, 1)) /\ AddBuffer(st, <<>>, 1).text = b \o line
  BY <1>6, TextAdded DEF st, b
<1>10. CASE line = <<>> /\ Y[n] = DstAt(b, o, "nl")
  <2>1. pLineBuffer' = pLineBuffer /\ handled' = handled
    BY <1>2, <1>10
  <2>2. DstLeads(DstAt(b, o, "nl"), after, z)
    BY <1>7, <1>10
  <2> QED  BY <1>1, <1>2, <1>8, <2>1, <2>2 DEF DstInv, b, o, z
<1>11. CASE line # <<>> /\ ~EndsStatement(line) /\ Y[n] = DstAt(b \o line, o, "nl")
  <2>1. pLineBuffer' = AddBuffer(st, <<>>, 1) /\ handled' = handled
    BY <1>2, <1>11
  <2>2. pLineBuffer'.text = b \o line /\ BufferFits(pLineBuffer')
    BY <1>9, <2>1
  <2>3. DstLeads(DstAt(pLineBuffer'.text, Statements(handled'), "nl"), after, z)
    BY <1>7, <1>11, <2>1, <2>2 DEF o
  <2> QED  BY <1>1, <1>2, <1>8, <2>1, <2>2, <2>3 DEF DstInv, z
<1>12. ASSUME NEW t \in DstStatements, Finishes(line, b, t), Y[n] = DstAt(<<>>, Append(o, t), "nl")
       PROVE  DstInv' /\ BufferFits(pLineBuffer')
  <2>1. /\ line # <<>> /\ EndsStatement(line) /\ Ended(b \o line) = t
        /\ FindToken(SafeStrtok(b \o line)) = (b \o line)[1]
    BY <1>12 DEF Finishes
  <2>2. handled' = Append(handled, e) /\ pLineBuffer' = ResetBuffer(st)
    BY <1>2, <2>1
  <2>3. BufferFits(pLineBuffer') /\ pLineBuffer'.text = <<>>
    BY <1>9, <2>2, ResetFits
  <2>4. e.text = b \o line /\ e.handler = (b \o line)[1] /\ e \in HandledType
    <3> DEFINE L == Lexemes
    <3>1. line \in Seq(L) /\ b \in Seq(L)  BY <1>3, <1>6
    <3> HIDE DEF L
    <3>2. b \o line \in Seq(L) /\ (b \o line)[1] \in L
      <4>1. Len(line) # 0 /\ Len(line) \in Nat  BY <2>1, <3>1, DomainOf
      <4>2. b \o line \in Seq(L) /\ 1 \in 1 .. Len(b \o line)  BY <3>1, <4>1
      <4> QED  BY <4>2
    <3>3. e = [handler |-> (b \o line)[1], text |-> b \o line]
      BY <1>9, <2>1 DEF e
    <3> QED  BY <3>2, <3>3 DEF HandledType, L
  <2>5. Statements(handled') = Append(o, t)
    BY <1>1, <2>1, <2>2, <2>4, StatementsMore DEF o
  <2>6. DstLeads(DstAt(pLineBuffer'.text, Statements(handled'), "nl"), after, z)
    BY <1>7, <1>12, <2>3, <2>5
  <2>7. handled' \in Seq(HandledType) /\ \A i \in DOMAIN handled' : handled'[i].handler = handled'[i].text[1]
    <3> DEFINE H == HandledType
               g == Append(handled, e)
               m == Len(handled)
    <3>1. handled \in Seq(H) /\ e \in H  BY <1>1, <2>4
    <3> HIDE DEF H
    <3>2. /\ g \in Seq(H) /\ m \in Nat /\ Len(g) = m + 1 /\ g[m + 1] = e
          /\ \A i \in 1 .. m : g[i] = handled[i]
      BY <3>1, AppendIs
    <3>3. DOMAIN g = 1 .. m + 1 /\ DOMAIN handled = 1 .. m
      BY <3>1, <3>2, DomainOf
    <3> HIDE DEF g, m
    <3>4. ASSUME NEW i \in 1 .. m + 1 PROVE g[i].handler = g[i].text[1]
      <4>1. CASE i = m + 1
        BY <2>4, <3>2, <4>1
      <4>2. CASE i # m + 1
        <5>1. i \in 1 .. m  BY <3>2, <4>2
        <5> QED  BY <1>1, <3>2, <3>3, <5>1
      <4> QED  BY <4>1, <4>2
    <3>5. g \in Seq(H) /\ \A i \in DOMAIN g : g[i].handler = g[i].text[1]
      BY <3>2, <3>3, <3>4
    <3> QED  BY <2>2, <3>5 DEF g, H
  <2> QED  BY <1>1, <1>2, <1>8, <2>3, <2>6, <2>7 DEF DstInv, z
<1> QED  BY <1>6, <1>10, <1>11, <1>12 DEF LineMakes

-----------------------------------------------------------------------------
\* Lexemes of dsqgen

\* The scanner: its state, and the tokens so far without ends of lines.
Lexers == [state : {"NORMAL", "SUBST", "SQLTEXT"}, old : {"NORMAL", "SQLTEXT"}, first : BOOLEAN]

TokenType == [lexeme : Lexemes, text : BOOLEAN]

LexState == [lexer : Lexers, out : Seq(TokenType)]

\* The first word of a line that is no token of its own.
StartsSql(l, c) == l.first /\ c \in Words \ KeyWords

\* The states of the scanner: what a lexeme makes of them.
NormalMakes(l, c, k) ==
  CASE c = "--" -> k = l
    [] c = "nl" -> k = [l EXCEPT !.first = TRUE]
    [] c = "[" -> k = [l EXCEPT !.old = "NORMAL", !.state = "SUBST"]
    [] c \notin {"--", "nl", "["} ->
         k = IF StartsSql(l, c) THEN [l EXCEPT !.state = "SQLTEXT"] ELSE [l EXCEPT !.first = FALSE]

SubstMakes(l, c, k) == c \notin {"nl", "--"} /\ k = IF c = "]" THEN [l EXCEPT !.state = l.old] ELSE l

SqlMakes(l, c, k) ==
  /\ c # "]"
  /\ k = IF c = "[" THEN [l EXCEPT !.old = "SQLTEXT", !.state = "SUBST"]
         ELSE IF c = Semicolon THEN [l EXCEPT !.state = "NORMAL"] ELSE l

\* Whether the lexeme is text of SQL.
IsText(l, c) ==
  \/ l.state = "NORMAL" /\ c # "[" /\ StartsSql(l, c)
  \/ l.state = "SQLTEXT" /\ c \notin {"[", Semicolon}

\* A lexeme of a template, where it may stand, and what it makes of the state.
LexMakes(y, c, z) ==
  /\ y.lexer.state = "NORMAL" => NormalMakes(y.lexer, c, z.lexer)
  /\ y.lexer.state = "SUBST" => SubstMakes(y.lexer, c, z.lexer)
  /\ y.lexer.state = "SQLTEXT" => SqlMakes(y.lexer, c, z.lexer) /\ c # "--"
  /\ z.out = IF c \in {"nl", "--"} THEN y.out ELSE Append(y.out, Token(c, IsText(y.lexer, c)))

\* The steps of dsqgen.
LexEdges == {e \in [from : LexState, by : Lexemes, to : LexState] : LexMakes(e.from, e.by, e.to)}

LEMMA LexEdge ==
  ASSUME NEW y \in LexState, NEW c \in Lexemes, NEW z \in LexState
  PROVE  Edge(y, c, z) \in LexEdges <=> LexMakes(y, c, z)
<1> DEFINE e == Edge(y, c, z)
<1>1. e.from = y /\ e.by = c /\ e.to = z /\ e \in [from : LexState, by : Lexemes, to : LexState]
  BY DEF Edge
<1> HIDE DEF e
<1> QED  BY <1>1 DEF LexEdges, e

\* A state by its parts.
LexAt(l, out) == [lexer |-> l, out |-> out]

LEMMA LexIs ==
  ASSUME NEW y \in LexState
  PROVE  y = LexAt(y.lexer, y.out) /\ y.lexer \in Lexers /\ y.out \in Seq(TokenType)
<1> DEFINE A == Lexers
           B == Seq(TokenType)
<1> HIDE DEF A, B
<1>1. y \in [lexer : A, out : B]
  BY DEF LexState, A, B
<1>2. y = LexAt(y.lexer, y.out) /\ y.lexer \in A /\ y.out \in B
  BY <1>1 DEF LexAt
<1> QED  BY <1>2 DEF A, B

LEMMA LexFields == ASSUME NEW l, NEW o PROVE LexAt(l, o).lexer = l /\ LexAt(l, o).out = o
  BY DEF LexAt

LEMMA LexType ==
  ASSUME NEW l \in Lexers, NEW o \in Seq(TokenType)
  PROVE  LexAt(l, o) \in LexState
<1> DEFINE A == Lexers
           B == Seq(TokenType)
<1>1. l \in A /\ o \in B
  OBVIOUS
<1> HIDE DEF A, B
<1>2. LexAt(l, o) \in [lexer : A, out : B]
  BY <1>1 DEF LexAt
<1> QED  BY <1>2 DEF LexState, A, B

LEMMA TokenIs ==
  ASSUME NEW c \in Lexemes, NEW b \in BOOLEAN
  PROVE  Token(c, b) \in TokenType /\ Token(c, b).lexeme = c
<1> DEFINE L == Lexemes
<1>1. c \in L
  OBVIOUS
<1> HIDE DEF L
<1>2. [lexeme |-> c, text |-> b] \in [lexeme : L, text : BOOLEAN]
  BY <1>1
<1> QED  BY <1>2 DEF Token, TokenType, L

\* One more token, or an end of line that is no token.
LEMMA EndsMore ==
  ASSUME NEW ts \in Seq(TokenType), NEW t \in TokenType
  PROVE  /\ WithoutEnds(ts) \in Seq(TokenType)
         /\ WithoutEnds(Append(ts, t)) = IF t.lexeme = "nl" THEN WithoutEnds(ts) ELSE Append(WithoutEnds(ts), t)
<1> DEFINE K == TokenType
           m == Len(ts)
           us == Append(ts, t)
           B == [i \in DOMAIN ts |-> IF ts[i].lexeme = "nl" THEN <<>> ELSE <<ts[i]>>]
           C == [i \in DOMAIN us |-> IF us[i].lexeme = "nl" THEN <<>> ELSE <<us[i]>>]
<1>1. ts \in Seq(K) /\ t \in K
  OBVIOUS
<1> HIDE DEF K
<1>2. /\ us \in Seq(K) /\ m \in Nat /\ Len(us) = m + 1 /\ us[m + 1] = t /\ \A i \in 1 .. m : us[i] = ts[i]
  BY <1>1, AppendIs
<1>3. DOMAIN ts = 1 .. m /\ DOMAIN us = 1 .. m + 1
  BY <1>1, <1>2, DomainOf
<1>4. \A i \in 1 .. m : ts[i] \in K
  BY <1>1
<1>5. \A i \in 1 .. m + 1 : us[i] \in K
  BY <1>2
<1> HIDE DEF m, us
<1>6. B \in [1 .. m -> Seq(K)] /\ C \in [1 .. m + 1 -> Seq(K)]
  <2>1. \A x \in K : <<x>> \in Seq(K) /\ <<>> \in Seq(K)  OBVIOUS
  <2>2. \A i \in 1 .. m : (IF ts[i].lexeme = "nl" THEN <<>> ELSE <<ts[i]>>) \in Seq(K)
    BY <1>4, <2>1
  <2>3. \A i \in 1 .. m + 1 : (IF us[i].lexeme = "nl" THEN <<>> ELSE <<us[i]>>) \in Seq(K)
    BY <1>5, <2>1
  <2> DEFINE Q == Seq(K)
  <2> HIDE DEF Q
  <2>4. B \in [1 .. m -> Q]  BY <1>3, <2>2 DEF Q
  <2>5. C \in [1 .. m + 1 -> Q]  BY <1>3, <2>3 DEF Q
  <2> QED  BY <2>4, <2>5 DEF Q
<1>7. \A i \in 1 .. m : C[i] = B[i]
  <2>1. \A i \in 1 .. m : i \in 1 .. m + 1  BY <1>2
  <2> QED  BY <1>2, <1>3, <2>1
<1>8. C[m + 1] = IF t.lexeme = "nl" THEN <<>> ELSE <<t>>
  BY <1>2, <1>3
<1>9. WithoutEnds(ts) = FlattenSeq(B) /\ WithoutEnds(us) = FlattenSeq(C)
  BY DEF WithoutEnds
<1> HIDE DEF B, C
<1> DEFINE w == FlattenSeq(B)
           last == C[m + 1]
<1>10. w \in Seq(K) /\ FlattenSeq(C) = w \o last
  BY <1>2, <1>6, <1>7, FlattenMore
<1> HIDE DEF w
<1>11. w \o <<>> = w /\ w \o <<t>> = Append(w, t)
  BY <1>1, <1>10, LongerTexts
<1> QED  BY <1>8, <1>9, <1>10, <1>11 DEF w, K, us

-----------------------------------------------------------------------------
\* yylex() reads what was written

\* Texts of templates.
LexLeads(y, T, z) == Leads(LexState, LexEdges, y, T, z)

\* The tokens of all that was written.
Meant(ws) == FlattenSeq([i \in DOMAIN ws |-> TokensMeant(ws[i])])

(* What is not yet read makes of the tokens returned those of the          *)
(* statements written, and ends where a statement may begin.               *)
LexInv ==
  /\ rest \in Seq(Lexemes) /\ written \in Seq(Seq(Lexemes)) /\ lexer \in Lexers /\ tokens \in Seq(TokenType)
  /\ \E l \in Lexers :
       /\ LexLeads(LexAt(lexer, WithoutEnds(tokens)), rest, LexAt(l, Meant(written)))
       /\ l.state = "NORMAL" /\ l.first

\* What yylex() does of a lexeme.
Taken(c, k) ==
  [taken |-> 1, tokens |-> IF c \in {"nl", "--"} THEN <<>> ELSE <<Token(c, IsText(lexer, c))>>, lexer |-> k]

LEMMA LexerIs ==
  ASSUME NEW l \in Lexers
  PROVE  /\ l = [state |-> l.state, old |-> l.old, first |-> l.first]
         /\ l.state \in {"NORMAL", "SUBST", "SQLTEXT"} /\ l.old \in {"NORMAL", "SQLTEXT"} /\ l.first \in BOOLEAN
         /\ [l EXCEPT !.first = l.first] = l
  BY DEF Lexers

\* In each state it does the step of the lexeme.
LEMMA NormalIs ==
  ASSUME lexer \in Lexers, lexer.state = "NORMAL", NEW c \in Lexemes, NEW k \in Lexers, NormalMakes(lexer, c, k)
  PROVE  Normal(c) = Taken(c, k)
<1>1. Words \cap {"--", "nl", "[", "]", Semicolon} = {}
  BY TemplateAssumption
<1>2. /\ lexer.first \in BOOLEAN /\ [lexer EXCEPT !.first = lexer.first] = lexer
      /\ lexer.state = "NORMAL"
  BY LexerIs
<1>3. CASE c = "--"
  <2>1. k = lexer  BY <1>3 DEF NormalMakes
  <2>2. c \notin Words  BY <1>1, <1>3
  <2>3. Normal(c) = [taken |-> 1, tokens |-> <<>>, lexer |-> [lexer EXCEPT !.first = lexer.first]]
    BY <1>3, <2>2 DEF Normal
  <2> QED  BY <1>2, <1>3, <2>1, <2>3 DEF Taken
<1>4. CASE c = "nl"
  <2>1. k = [lexer EXCEPT !.first = TRUE]  BY <1>4 DEF NormalMakes
  <2>2. c \notin Words  BY <1>1, <1>4
  <2>3. Normal(c) = [taken |-> 1, tokens |-> <<>>, lexer |-> [lexer EXCEPT !.first = TRUE]]
    BY <1>4, <2>2 DEF Normal
  <2> QED  BY <1>4, <2>1, <2>3 DEF Taken
<1>5. CASE c = "["
  <2>1. k = [lexer EXCEPT !.old = "NORMAL", !.state = "SUBST"]  BY <1>5 DEF NormalMakes
  <2>2. c \notin Words  BY <1>1, <1>5
  <2>3. Normal(c) = [taken |-> 1, tokens |-> <<Token(c, FALSE)>>,
                     lexer |-> [lexer EXCEPT !.old = "NORMAL", !.state = "SUBST"]]
    BY <1>5, <2>2 DEF Normal
  <2>4. IsText(lexer, c) = FALSE  BY <1>2, <1>5 DEF IsText
  <2> QED  BY <1>5, <2>1, <2>3, <2>4 DEF Taken
<1>6. CASE c \notin {"--", "nl", "["}
  <2>1. k = IF StartsSql(lexer, c) THEN [lexer EXCEPT !.state = "SQLTEXT"] ELSE [lexer EXCEPT !.first = FALSE]
    BY <1>6 DEF NormalMakes
  <2>2. CASE StartsSql(lexer, c)
    <3>1. c \in Words /\ lexer.first /\ ~FindKeyword(c)  BY <2>2 DEF StartsSql, FindKeyword
    <3>2. Normal(c) = [taken |-> 1, tokens |-> <<Token(c, TRUE)>>, lexer |-> [lexer EXCEPT !.state = "SQLTEXT"]]
      BY <1>6, <3>1 DEF Normal
    <3>3. IsText(lexer, c) = TRUE  BY <1>2, <1>6, <2>2 DEF IsText
    <3> QED  BY <1>6, <2>1, <2>2, <3>2, <3>3 DEF Taken
  <2>3. CASE ~StartsSql(lexer, c)
    <3>1. ~(c \in Words /\ lexer.first /\ ~FindKeyword(c))  BY <2>3 DEF StartsSql, FindKeyword
    <3>2. Normal(c) = [taken |-> 1, tokens |-> <<Token(c, FALSE)>>, lexer |-> [lexer EXCEPT !.first = FALSE]]
      BY <1>6, <3>1 DEF Normal
    <3>3. IsText(lexer, c) = FALSE  BY <1>2, <1>6, <2>3 DEF IsText
    <3> QED  BY <1>6, <2>1, <2>3, <3>2, <3>3 DEF Taken
  <2> QED  BY <2>2, <2>3
<1> QED  BY <1>3, <1>4, <1>5, <1>6

LEMMA SubstIs ==
  ASSUME lexer \in Lexers, lexer.state = "SUBST", NEW c \in Lexemes, NEW k \in Lexers, SubstMakes(lexer, c, k)
  PROVE  Subst(c) = Taken(c, k)
<1>1. c \notin {"nl", "--"} /\ k = IF c = "]" THEN [lexer EXCEPT !.state = lexer.old] ELSE lexer
  BY DEF SubstMakes
<1>2. IsText(lexer, c) = FALSE
  BY DEF IsText
<1>3. [lexer EXCEPT !.state = "SUBST"] = lexer
  BY LexerIs
<1>4. Subst(c).lexer = k /\ Subst(c) = [taken |-> 1, tokens |-> <<Token(c, FALSE)>>, lexer |-> Subst(c).lexer]
  BY <1>1, <1>3 DEF Subst, AfterReference
<1> QED  BY <1>1, <1>2, <1>4 DEF Taken

LEMMA SignIs ==
  ASSUME lexer \in Lexers, lexer.state = "SQLTEXT", NEW c \in {"[", Semicolon}, NEW k \in Lexers,
         SqlMakes(lexer, c, k)
  PROVE  SqlText(c) = Taken(c, k)
<1>1. k = IF c = "[" THEN [lexer EXCEPT !.old = "SQLTEXT", !.state = "SUBST"]
          ELSE [lexer EXCEPT !.state = "NORMAL"]
  BY DEF SqlMakes
<1>2. IsText(lexer, c) = FALSE /\ c \notin {"nl", "--"}
  BY Signs DEF IsText
<1>3. lexer = [state |-> lexer.state, old |-> lexer.old, first |-> lexer.first]
  BY LexerIs
<1>4. SqlText(c) = [taken |-> 1, tokens |-> <<Token(c, FALSE)>>, lexer |-> k]
  <2>1. CASE c = "["
    <3>1. c # Semicolon  BY <2>1, Signs
    <3>2. SqlText(c) = [taken |-> 1, tokens |-> <<Token(c, FALSE)>>,
                        lexer |-> [lexer EXCEPT !.state = "SUBST", !.old = "SQLTEXT"]]
      BY <2>1, <3>1 DEF SqlText
    <3>3. [lexer EXCEPT !.state = "SUBST", !.old = "SQLTEXT"] = [lexer EXCEPT !.old = "SQLTEXT", !.state = "SUBST"]
      BY <1>3
    <3> QED  BY <1>1, <2>1, <3>2, <3>3
  <2>2. CASE c = Semicolon
    <3>1. c # "["  BY <2>2, Signs
    <3>2. SqlText(c) = [taken |-> 1, tokens |-> <<Token(c, FALSE)>>,
                        lexer |-> [lexer EXCEPT !.state = "NORMAL", !.old = lexer.old]]
      BY <2>2, <3>1 DEF SqlText
    <3>3. [lexer EXCEPT !.state = "NORMAL", !.old = lexer.old] = [lexer EXCEPT !.state = "NORMAL"]
      BY <1>3
    <3> QED  BY <1>1, <2>2, <3>1, <3>2, <3>3
  <2> QED  BY <2>1, <2>2
<1> QED  BY <1>2, <1>4 DEF Taken

\* One lexeme taken is a step of the text.
LEMMA OneTaken ==
  ASSUME NEW y \in LexState, NEW c \in Lexemes, NEW z \in LexState, LexMakes(y, c, z),
         y = LexAt(lexer, WithoutEnds(tokens)), tokens \in Seq(TokenType), lexer \in Lexers
  PROVE  /\ tokens \o Taken(c, z.lexer).tokens \in Seq(TokenType)
         /\ z = LexAt(z.lexer, WithoutEnds(tokens \o Taken(c, z.lexer).tokens))
<1> DEFINE t == Token(c, IsText(lexer, c))
           K == TokenType
           w == WithoutEnds(tokens)
<1>1. /\ z.out = IF c \in {"nl", "--"} THEN w ELSE Append(w, t)
      /\ y.lexer = lexer
  BY LexFields DEF LexMakes
<1>2. t \in K /\ t.lexeme = c
  <2>1. IsText(lexer, c) \in BOOLEAN  BY DEF IsText
  <2> QED  BY <2>1, TokenIs
<1>3. z = LexAt(z.lexer, z.out)
  BY LexIs
<1>4. Taken(c, z.lexer).tokens = IF c \in {"nl", "--"} THEN <<>> ELSE <<t>>
  BY DEF Taken
<1> HIDE DEF t, K, w
<1>5. tokens \o <<>> = tokens /\ tokens \o <<t>> = Append(tokens, t) /\ Append(tokens, t) \in Seq(K)
  BY <1>2, LongerTexts DEF K
<1>6. WithoutEnds(Append(tokens, t)) = IF t.lexeme = "nl" THEN w ELSE Append(w, t)
  BY <1>2, EndsMore DEF w, K
<1>7. CASE c \in {"nl", "--"}
  BY <1>1, <1>3, <1>4, <1>5, <1>7 DEF w, K
<1>8. CASE c \notin {"nl", "--"}
  <2>1. WithoutEnds(tokens \o <<t>>) = Append(w, t)  BY <1>2, <1>5, <1>6, <1>8
  <2> QED  BY <1>1, <1>3, <1>4, <1>5, <1>8, <2>1 DEF K
<1> QED  BY <1>7, <1>8

\* What a piece of text ends at.
TextStops == {Semicolon, "[", "]", "nl"}

LEMMA LexSteps ==
  ASSUME NEW T \in Seq(Lexemes), NEW Y, Passes(Y, LexState, LexEdges, T), NEW k \in 1 .. Len(T)
  PROVE  /\ Y[k - 1] \in LexState /\ Y[k] \in LexState /\ T[k] \in Lexemes
         /\ LexMakes(Y[k - 1], T[k], Y[k])
<1>1. Y \in [0 .. Len(T) -> LexState] /\ Edge(Y[k - 1], T[k], Y[k]) \in LexEdges
  BY DEF Passes
<1>2. k \in 0 .. Len(T) /\ k - 1 \in 0 .. Len(T)
  OBVIOUS
<1>3. Y[k - 1] \in LexState /\ Y[k] \in LexState
  <2> HIDE DEF LexState
  <2> QED  BY <1>1, <1>2
<1>4. T[k] \in Lexemes
  <2> DEFINE L == Lexemes
  <2>1. T \in Seq(L)  OBVIOUS
  <2> HIDE DEF L
  <2>2. T[k] \in L  BY <2>1
  <2> QED  BY <2>2 DEF L
<1> QED  BY <1>1, <1>3, <1>4, LexEdge

\* A piece of text taken at once is one lexeme after the other.
LEMMA PieceTaken ==
  ASSUME rest \in Seq(Lexemes), rest # <<>>, lexer \in Lexers, lexer.state = "SQLTEXT", tokens \in Seq(TokenType),
         rest[1] \notin {"[", "]", Semicolon},
         NEW Y, Passes(Y, LexState, LexEdges, rest), Y[0] = LexAt(lexer, WithoutEnds(tokens)),
         NEW n \in 1 .. Len(rest), \A i \in 1 .. n : rest[i] \notin {"[", "]", Semicolon}
  PROVE  /\ tokens \o [i \in 1 .. n |-> Token(rest[i], TRUE)] \in Seq(TokenType)
         /\ Y[n] = LexAt(lexer, WithoutEnds(tokens \o [i \in 1 .. n |-> Token(rest[i], TRUE)]))
<1> DEFINE K == TokenType
           q == [i \in 1 .. n |-> Token(rest[i], TRUE)]
           Read(i) == tokens \o SubSeq(q, 1, i)
           G == {i \in 0 .. n : Read(i) \in Seq(K) /\ Y[i] = LexAt(lexer, WithoutEnds(Read(i)))}
<1>1. \A i \in 1 .. n : rest[i] \in Lexemes /\ Token(rest[i], TRUE) \in K /\ Token(rest[i], TRUE).lexeme = rest[i]
  <2> TAKE i \in 1 .. n
  <2>1. i \in 1 .. Len(rest)  OBVIOUS
  <2>2. rest[i] \in Lexemes  BY <2>1, LexSteps
  <2> QED  BY <2>2, TokenIs
<1> HIDE DEF K
<1>2. q \in [1 .. n -> K]
  BY <1>1
<1>3. \A i \in 1 .. n : q[i] = Token(rest[i], TRUE)
  OBVIOUS
<1> HIDE DEF q
<1>4. q \in Seq(K) /\ Len(q) = n /\ tokens \in Seq(K)
  BY <1>2, LenOf DEF K
<1>5. 0 \in G
  <2>1. SubSeq(q, 1, 0) = <<>>  BY <1>4, NoneTaken
  <2>2. tokens \o <<>> = tokens  BY <1>4, JoinedNone
  <2>3. Read(0) = tokens  BY <2>1, <2>2
  <2> HIDE DEF Read
  <2>4. 0 \in 0 .. n  OBVIOUS
  <2> QED  BY <1>4, <2>3, <2>4
<1>6. ASSUME NEW i \in 1 .. n PROVE Append(Read(i - 1), q[i]) = Read(i)
  BY <1>4, OneMore
<1> HIDE DEF Read
<1>7. ASSUME NEW i \in 1 .. n, i - 1 \in G PROVE i \in G
  <2> DEFINE r == Read(i - 1)
             t == q[i]
             c == rest[i]
  <2>1. r \in Seq(K) /\ Y[i - 1] = LexAt(lexer, WithoutEnds(r))
    BY <1>7
  <2>2. t \in K /\ t = Token(c, TRUE) /\ t.lexeme = c /\ c \in Lexemes /\ c \notin {"[", "]", Semicolon}
    BY <1>1, <1>3
  <2>3. LexMakes(Y[i - 1], c, Y[i]) /\ Y[i] \in LexState
    <3>1. i \in 1 .. Len(rest)  OBVIOUS
    <3> QED  BY <3>1, LexSteps
  <2> HIDE DEF r, t, c
  <2> DEFINE w == WithoutEnds(r)
             y == Y[i - 1]
             z == Y[i]
  <2>4. y.lexer = lexer /\ y.out = w
    BY <2>1, LexFields
  <2> HIDE DEF w, y, z
  <2>5. SqlMakes(lexer, c, z.lexer) /\ c # "--" /\ z.out = IF c \in {"nl", "--"} THEN w ELSE Append(w, Token(c, IsText(lexer, c)))
    BY <2>3, <2>4 DEF LexMakes, y, z
  <2>6. z.lexer = lexer /\ IsText(lexer, c) = TRUE
    BY <2>2, <2>5 DEF SqlMakes, IsText
  <2>7. WithoutEnds(Append(r, t)) = IF c = "nl" THEN w ELSE Append(w, t)
    BY <2>1, <2>2, EndsMore DEF w, K
  <2>8. z.out = WithoutEnds(Append(r, t))
    BY <2>2, <2>5, <2>6, <2>7
  <2>9. Append(r, t) \in Seq(K)
    BY <2>1, <2>2, AppendIs
  <2>10. z = LexAt(z.lexer, z.out)
    BY <2>3, LexIs DEF z
  <2>11. Append(r, t) = Read(i)
    BY <1>6 DEF r, t
  <2>12. Y[i] = LexAt(lexer, WithoutEnds(Read(i))) /\ Read(i) \in Seq(K)
    BY <2>6, <2>8, <2>9, <2>10, <2>11 DEF z
  <2> QED  BY <2>12
<1> HIDE DEF G
<1>8. \A i \in 0 .. n : i \in G
  <2>1. n \in Nat  OBVIOUS
  <2> QED  BY <1>5, <1>7, <2>1, Upwards
<1>9. Read(n) \in Seq(K) /\ Y[n] = LexAt(lexer, WithoutEnds(Read(n)))
  <2>1. n \in 0 .. n  OBVIOUS
  <2> QED  BY <1>8, <2>1 DEF G
<1>10. SubSeq(q, 1, n) = q
  <2> DEFINE p == SubSeq(q, 1, n)
  <2>1. p \in Seq(K) /\ Len(p) = n /\ \A i \in 1 .. n : p[i] = q[i]
    <3>1. n \in 0 .. Len(q)  BY <1>4
    <3> QED  BY <1>4, <3>1, PrefixIs
  <2> HIDE DEF p
  <2>2. p = q  BY <1>4, <2>1, SameSeq
  <2> QED  BY <2>2 DEF p
<1> QED  BY <1>9, <1>10 DEF Read, K, q

\* yylex keeps LexInv.
LEMMA LexReading ==
  ASSUME LexInv, yylex
  PROVE  LexInv'
<1> DEFINE c == rest[1]
           match == CASE lexer.state = "NORMAL" -> Normal(c)
                      [] lexer.state = "SUBST" -> Subst(c)
                      [] lexer.state = "SQLTEXT" -> SqlText(c)
           w == WithoutEnds(tokens)
           y == LexAt(lexer, w)
           after(n) == SubSeq(rest, n + 1, Len(rest))
<1>1. /\ rest \in Seq(Lexemes) /\ written \in Seq(Seq(Lexemes)) /\ lexer \in Lexers
      /\ tokens \in Seq(TokenType)
  BY DEF LexInv
<1>2. PICK l \in Lexers : LexLeads(y, rest, LexAt(l, Meant(written))) /\ l.state = "NORMAL" /\ l.first
  BY DEF LexInv
<1>3. rest # <<>> /\ rest' = after(match.taken) /\ lexer' = match.lexer /\ tokens' = tokens \o match.tokens
      /\ written' = written
  <2>1. Head(rest) = rest[1]  BY DEF yylex
  <2> QED  BY <2>1 DEF yylex
<1>4. PICK Y : Passes(Y, LexState, LexEdges, rest) /\ Y[0] = y /\ Y[Len(rest)] = LexAt(l, Meant(written))
  BY <1>2 DEF LexLeads, Leads
<1>5. 1 \in 1 .. Len(rest) /\ Len(rest) \in Nat
  <2> DEFINE L == Lexemes
  <2>1. rest \in Seq(L)  BY <1>1
  <2> HIDE DEF L
  <2>2. Len(rest) # 0 /\ Len(rest) \in Nat  BY <1>3, <2>1, DomainOf
  <2> QED  BY <2>2
<1>6. Y[0] \in LexState /\ Y[1] \in LexState /\ c \in Lexemes /\ LexMakes(Y[0], c, Y[1])
  <2>1. 1 - 1 = 0  OBVIOUS
  <2> QED  BY <1>1, <1>4, <1>5, <2>1, LexSteps
<1> HIDE DEF c, match, y, w, after
<1>7. ASSUME NEW n \in 1 .. Len(rest), NEW ts, NEW k, match = [taken |-> n, tokens |-> ts, lexer |-> k],
             tokens \o ts \in Seq(TokenType), Y[n] = LexAt(k, WithoutEnds(tokens \o ts)), k \in Lexers
      PROVE  LexInv'
  <2>1. rest' = after(n) /\ lexer' = k /\ tokens' = tokens \o ts
    BY <1>3, <1>7
  <2>2. LexLeads(Y[n], after(n), LexAt(l, Meant(written)))
    <3> DEFINE L == Lexemes
               S == LexState
               E == LexEdges
    <3>1. rest \in Seq(L) /\ Passes(Y, S, E, rest) /\ n \in 0 .. Len(rest)  BY <1>1, <1>4
    <3> HIDE DEF L, S, E
    <3>2. Leads(S, E, Y[n], SubSeq(rest, n + 1, Len(rest)), Y[Len(rest)])
      BY <3>1, LaterText
    <3> QED  BY <1>4, <3>2 DEF S, E, LexLeads, after
  <2>3. after(n) \in Seq(Lexemes)
    <3> DEFINE L == Lexemes
    <3>1. rest \in Seq(L) /\ n \in 0 .. Len(rest)  BY <1>1
    <3> HIDE DEF L
    <3> QED  BY <3>1, SuffixIs DEF L, after
  <2>4. LexLeads(LexAt(lexer', WithoutEnds(tokens')), rest', LexAt(l, Meant(written)))
    BY <1>7, <2>1, <2>2
  <2>5. written' \in Seq(Seq(Lexemes)) /\ Meant(written') = Meant(written)
    BY <1>1, <1>3
  <2>6. \E h \in Lexers :
          /\ LexLeads(LexAt(lexer', WithoutEnds(tokens')), rest', LexAt(h, Meant(written')))
          /\ h.state = "NORMAL" /\ h.first
    BY <1>2, <2>4, <2>5
  <2> QED  BY <1>7, <2>1, <2>3, <2>5, <2>6 DEF LexInv
<1>8. ASSUME match = Taken(c, Y[1].lexer) PROVE LexInv'
  <2> DEFINE k == Y[1].lexer
             ts == Taken(c, k).tokens
  <2>1. tokens \o ts \in Seq(TokenType) /\ Y[1] = LexAt(k, WithoutEnds(tokens \o ts))
    BY <1>1, <1>4, <1>6, OneTaken DEF y, w
  <2>2. k \in Lexers
    BY <1>6, LexIs
  <2>3. match = [taken |-> 1, tokens |-> ts, lexer |-> k]
    BY <1>8 DEF Taken
  <2> HIDE DEF k, ts
  <2> QED  BY <1>5, <1>7, <2>1, <2>2, <2>3
<1>9. Y[1].lexer \in Lexers /\ Y[0].lexer = lexer
  BY <1>4, <1>6, LexIs, LexFields DEF y
<1>10. CASE lexer.state = "NORMAL"
  <2>1. match = Normal(c)  BY <1>10 DEF match
  <2>2. NormalMakes(lexer, c, Y[1].lexer)  BY <1>6, <1>9, <1>10 DEF LexMakes
  <2> QED  BY <1>1, <1>6, <1>8, <1>9, <1>10, <2>1, <2>2, NormalIs
<1>11. CASE lexer.state = "SUBST"
  <2>1. match = Subst(c)  BY <1>11 DEF match
  <2>2. SubstMakes(lexer, c, Y[1].lexer)  BY <1>6, <1>9, <1>11 DEF LexMakes
  <2> QED  BY <1>1, <1>6, <1>8, <1>9, <1>11, <2>1, <2>2, SubstIs
<1>12. CASE lexer.state = "SQLTEXT"
  <2>1. match = SqlText(c)  BY <1>12 DEF match
  <2>2. SqlMakes(lexer, c, Y[1].lexer)  BY <1>6, <1>9, <1>12 DEF LexMakes
  <2>3. CASE c \in {"[", Semicolon}
    BY <1>1, <1>6, <1>8, <1>9, <1>12, <2>1, <2>2, <2>3, SignIs
  <2>4. CASE c \notin {"[", Semicolon}
    <3>1. c \notin {"[", "]", Semicolon}
      BY <2>2, <2>4 DEF SqlMakes
    <3> DEFINE stop == UpTo(rest, TextStops)
               n == IF rest[stop] \in {Semicolon, "[", "]"} THEN stop - 1 ELSE stop
               ts == [i \in 1 .. n |-> Token(rest[i], TRUE)]
    <3>2. match = [taken |-> n, tokens |-> ts, lexer |-> lexer]
      BY <2>1, <3>1 DEF SqlText, TextStops
    <3>3. stop \in 1 .. Len(rest) /\ \A i \in 1 .. stop - 1 : rest[i] \notin TextStops
      <4> DEFINE L == Lexemes
      <4>1. rest \in Seq(L)  BY <1>1
      <4> HIDE DEF L
      <4> QED  BY <1>3, <4>1, UpToIs
    <3> HIDE DEF stop, ts
    <3>4. n \in 1 .. Len(rest) /\ \A i \in 1 .. n : rest[i] \notin {"[", "]", Semicolon}
      <4>1. CASE rest[stop] \in {Semicolon, "[", "]"}
        <5>1. stop # 1  BY <3>1, <4>1 DEF c
        <5> QED  BY <1>5, <3>3, <4>1, <5>1 DEF TextStops
      <4>2. CASE rest[stop] \notin {Semicolon, "[", "]"}
        <5>1. \A i \in 1 .. stop : i \in 1 .. stop - 1 \/ i = stop  BY <3>3
        <5> QED  BY <1>5, <3>3, <4>2, <5>1 DEF TextStops
      <4> QED  BY <4>1, <4>2
    <3> HIDE DEF n
    <3>5. tokens \o ts \in Seq(TokenType) /\ Y[n] = LexAt(lexer, WithoutEnds(tokens \o ts))
      BY <1>1, <1>3, <1>4, <1>12, <3>1, <3>4, PieceTaken DEF ts, c, y, w
    <3> QED  BY <1>1, <1>7, <3>2, <3>4, <3>5
  <2> QED  BY <2>3, <2>4
<1> QED  BY <1>1, <1>10, <1>11, <1>12, LexerIs

-----------------------------------------------------------------------------
\* Statements of dsqgen

\* SQL begins with lexeme w, perhaps after references.
SqlBegins(s, w) ==
  /\ w \in DOMAIN s /\ s[w] \in Words \ KeyWords /\ ~InReference(s, w)
  /\ \A i \in 1 .. w - 1 : InReference(s, i)

\* What TemplateAssumption says of a statement.
LEMMA OfTemplate ==
  ASSUME NEW s \in TemplateStatements
  PROVE  /\ s \in Seq(Lexemes) /\ Len(s) \in Nat \ {0} /\ DOMAIN s = 1 .. Len(s) /\ s[Len(s)] = Semicolon
         /\ \A i \in 1 .. Len(s) : s[i] \in Lexemes /\ s[i] \notin {"nl", "--"}
         /\ \A i \in 1 .. Len(s) - 1 : s[i] # Semicolon
<1> DEFINE L == Lexemes
<1>1. s \in Seq(L) /\ s # <<>>
  <2>1. s \in Seq(STRING)  BY TemplateAssumption
  <2> QED  BY <2>1, OfStrings, TemplateAssumption DEF EndsOnce
<1> HIDE DEF L
<1>2. Len(s) \in Nat \ {0} /\ DOMAIN s = 1 .. Len(s) /\ \A i \in 1 .. Len(s) : s[i] \in L
  BY <1>1
<1>3. s[Len(s)] = Semicolon /\ \A i \in 1 .. Len(s) - 1 : s[i] \notin {Semicolon, "nl", "--"}
  BY TemplateAssumption DEF EndsOnce
<1>4. ASSUME NEW i \in 1 .. Len(s) PROVE s[i] \notin {"nl", "--"}
  <2>1. CASE i = Len(s)
    BY <1>3, <2>1, Signs
  <2>2. CASE i # Len(s)
    <3> DEFINE n == Len(s)
    <3>2. n \in Nat \ {0} /\ i \in 1 .. n /\ i # n  BY <1>2, <2>2
    <3> HIDE DEF n
    <3>3. i \in 1 .. n - 1  BY <3>2
    <3>1. i \in 1 .. Len(s) - 1  BY <3>3 DEF n
    <3> QED  BY <1>3, <3>1
  <2> QED  BY <2>1, <2>2
<1> QED  BY <1>1, <1>2, <1>3, <1>4 DEF L

LEMMA SqlBeginning ==
  ASSUME NEW s \in TemplateStatements
  PROVE  \E w \in Nat : IsSql(s) => SqlBegins(s, w)
<1>1. CASE IsSql(s)
  <2>1. PICK w \in DOMAIN s : SqlBegins(s, w)
    BY <1>1, TemplateAssumption DEF SqlBegins
  <2>2. w \in Nat
    BY <2>1, OfTemplate
  <2> QED  BY <2>1, <2>2
<1> QED  BY <1>1

\* A reference is open after lexeme j.
Inside(s, j) == j \in DOMAIN s /\ InReference(s, j) /\ s[j] # "]"

\* References open with '[' and close with ']', and never hold the semicolon.
LEMMA References ==
  ASSUME NEW s \in TemplateStatements, NEW j \in 0 .. Len(s) - 1
  PROVE  /\ InReference(s, j + 1) <=> Inside(s, j) \/ s[j + 1] = "["
         /\ s[j + 1] = "]" => InReference(s, j + 1)
         /\ ~InReference(s, Len(s)) /\ ~Inside(s, 0) /\ ~Inside(s, Len(s))
<1>1. Len(s) \in Nat /\ DOMAIN s = 1 .. Len(s) /\ s[Len(s)] = Semicolon /\ Semicolon \notin {"[", "]"}
  BY OfTemplate, Signs
<1>2. \A i \in DOMAIN s : s[i] \in {"[", "]"} => InReference(s, i)
  BY TemplateAssumption
<1>3. j + 1 \in DOMAIN s
  BY <1>1
<1>4. ASSUME InReference(s, j + 1), s[j + 1] # "[" PROVE Inside(s, j)
  <2>1. PICK a \in DOMAIN s, b \in DOMAIN s :
          s[a] = "[" /\ s[b] = "]" /\ a <= j + 1 /\ j + 1 <= b /\ \A k \in a .. b - 1 : s[k] # "]"
    BY <1>4 DEF InReference
  <2>2. a # j + 1
    BY <1>4, <2>1
  <2>3. a <= j /\ j <= b /\ j \in DOMAIN s /\ j \in a .. b - 1
    BY <1>1, <2>1, <2>2
  <2> QED  BY <2>1, <2>3 DEF Inside, InReference
<1>5. ASSUME Inside(s, j) PROVE InReference(s, j + 1)
  <2>1. PICK a \in DOMAIN s, b \in DOMAIN s :
          s[a] = "[" /\ s[b] = "]" /\ a <= j /\ j <= b /\ \A k \in a .. b - 1 : s[k] # "]"
    BY <1>5 DEF Inside, InReference
  <2>2. j # b
    BY <1>5, <2>1 DEF Inside
  <2>3. a <= j + 1 /\ j + 1 <= b
    BY <1>1, <2>1, <2>2
  <2> QED  BY <2>1, <2>3 DEF InReference
<1>6. ~InReference(s, Len(s))
  <2> SUFFICES ASSUME NEW a \in DOMAIN s, NEW b \in DOMAIN s, s[b] = "]", Len(s) <= b PROVE FALSE
    BY DEF InReference
  <2>1. b = Len(s)
    BY <1>1
  <2> QED  BY <1>1, <2>1
<1>7. ~Inside(s, 0) /\ ~Inside(s, Len(s))
  BY <1>1, <1>6 DEF Inside
<1> QED  BY <1>2, <1>3, <1>4, <1>5, <1>6, <1>7

\* Where the scanner goes back to after a reference.
Around(s, w, j) == IF IsSql(s) /\ w <= j /\ j < Len(s) THEN "SQLTEXT" ELSE "NORMAL"

\* SQL neither begins nor ends in a reference.
LEMMA AroundStays ==
  ASSUME NEW s \in TemplateStatements, NEW w \in Nat, IsSql(s) => SqlBegins(s, w), NEW j \in 0 .. Len(s) - 1,
         InReference(s, j + 1)
  PROVE  Around(s, w, j + 1) = Around(s, w, j)
<1>1. Len(s) \in Nat /\ j + 1 # Len(s)
  BY OfTemplate, References
<1>2. IsSql(s) => w # j + 1
  BY DEF SqlBegins
<1> QED  BY <1>1, <1>2 DEF Around

\* The scanner after j lexemes of s, and before it goes on.
LexPlace(s, w, j, l) ==
  /\ l \in Lexers /\ l.state = IF Inside(s, j) THEN "SUBST" ELSE Around(s, w, j)
  /\ Inside(s, j) => l.old = Around(s, w, j)
  /\ IsSql(s) => l.first

\* ... and bFirstWord, after lexeme j and before the next one.
HasRead(s, w, j, l) == LexPlace(s, w, j, l) /\ (~IsSql(s) /\ l.first => Inside(s, j) \/ s[j] = "]")

Ready(s, w, j, l) ==
  LexPlace(s, w, j, l) /\ (~IsSql(s) /\ l.first => j = 0 \/ Inside(s, j) \/ s[j + 1] \notin Words)

\* The step of a lexeme, of the scanner alone.
Makes(l, c, k) ==
  /\ l.state = "NORMAL" => NormalMakes(l, c, k)
  /\ l.state = "SUBST" => SubstMakes(l, c, k)
  /\ l.state = "SQLTEXT" => SqlMakes(l, c, k) /\ c # "--"

\* Scanners changed.
LEMMA StateMade ==
  ASSUME NEW l \in Lexers, NEW st \in {"NORMAL", "SUBST", "SQLTEXT"}, NEW k, k = [l EXCEPT !.state = st]
  PROVE  k \in Lexers /\ k.state = st /\ k.old = l.old /\ k.first = l.first
  BY DEF Lexers

LEMMA FirstMade ==
  ASSUME NEW l \in Lexers, NEW f \in BOOLEAN, NEW k, k = [l EXCEPT !.first = f]
  PROVE  k \in Lexers /\ k.first = f /\ k.state = l.state
  BY DEF Lexers

LEMMA OldMade ==
  ASSUME NEW l \in Lexers, NEW od \in {"NORMAL", "SQLTEXT"}, NEW k, k = [l EXCEPT !.old = od, !.state = "SUBST"]
  PROVE  k \in Lexers /\ k.state = "SUBST" /\ k.old = od /\ k.first = l.first
  BY DEF Lexers

\* A lexeme in a reference, and one that is not.
LEMMA InsideMakes ==
  ASSUME NEW s \in TemplateStatements, NEW w \in Nat, IsSql(s) => SqlBegins(s, w), NEW j \in 0 .. Len(s) - 1,
         NEW l, LexPlace(s, w, j, l), Inside(s, j)
  PROVE  \E k : HasRead(s, w, j + 1, k) /\ Makes(l, s[j + 1], k)
<1> DEFINE c == s[j + 1]
<1>1. j + 1 \in 1 .. Len(s) /\ DOMAIN s = 1 .. Len(s)
  BY OfTemplate
<1>2. InReference(s, j + 1) /\ c \notin {"nl", "--"}
  BY <1>1, OfTemplate, References
<1>3. Around(s, w, j + 1) = Around(s, w, j)
  BY <1>2, AroundStays
<1>4. l \in Lexers /\ l.state = "SUBST" /\ l.old = Around(s, w, j) /\ (IsSql(s) => l.first)
  BY DEF LexPlace
<1>5. CASE c = "]"
  <2> DEFINE k == [l EXCEPT !.state = l.old]
  <2>1. k \in Lexers /\ k.state = l.old /\ k.old = l.old /\ k.first = l.first
    <3>1. l.old \in {"NORMAL", "SUBST", "SQLTEXT"}  BY <1>4, LexerIs
    <3>2. k = [l EXCEPT !.state = l.old]  OBVIOUS
    <3> HIDE DEF k
    <3> QED  BY <1>4, <3>1, <3>2, StateMade
  <2>2. Makes(l, c, k)
    BY <1>2, <1>4, <1>5 DEF Makes, SubstMakes
  <2>3. ~Inside(s, j + 1)
    BY <1>5 DEF Inside
  <2> HIDE DEF k
  <2>4. HasRead(s, w, j + 1, k)
    BY <1>3, <1>4, <1>5, <2>1, <2>3 DEF HasRead, LexPlace
  <2> QED  BY <2>2, <2>4
<1>6. CASE c # "]"
  <2>1. Makes(l, c, l)
    BY <1>2, <1>4, <1>6 DEF Makes, SubstMakes
  <2>2. Inside(s, j + 1)
    BY <1>1, <1>2, <1>6 DEF Inside
  <2>3. HasRead(s, w, j + 1, l)
    BY <1>3, <1>4, <2>2 DEF HasRead, LexPlace
  <2> QED  BY <2>1, <2>3
<1> QED  BY <1>5, <1>6

LEMMA OutsideMakes ==
  ASSUME NEW s \in TemplateStatements, NEW w \in Nat, IsSql(s) => SqlBegins(s, w), NEW j \in 0 .. Len(s) - 1,
         NEW l, Ready(s, w, j, l), ~Inside(s, j)
  PROVE  /\ \E k : HasRead(s, w, j + 1, k) /\ Makes(l, s[j + 1], k)
         /\ IsText(l, s[j + 1]) <=> IsSql(s) /\ s[j + 1] # Semicolon /\ ~InReference(s, j + 1)
<1> DEFINE c == s[j + 1]
           n == Len(s)
<1>1. j + 1 \in 1 .. n /\ n \in Nat \ {0} /\ DOMAIN s = 1 .. n /\ s[n] = Semicolon /\ j \in Nat /\ j < n
  BY OfTemplate
<1>2. InReference(s, j + 1) <=> c = "["
  BY References
<1>3. c \notin {"nl", "--", "]"} /\ Semicolon \notin {"[", "]", "nl", "--"}
  BY <1>1, <1>2, OfTemplate, References, Signs
<1>4. /\ l \in Lexers /\ l.state = Around(s, w, j) /\ (IsSql(s) => l.first)
      /\ ~IsSql(s) /\ l.first => j = 0 \/ c \notin Words
  BY DEF LexPlace, Ready
<1>5. j + 1 = n \/ c # Semicolon
  <2>2. j + 1 \in 1 .. n /\ n \in Nat \ {0}  BY <1>1
  <2> HIDE DEF n
  <2>3. j + 1 # n => j + 1 \in 1 .. n - 1  BY <2>2
  <2>1. j + 1 # n => j + 1 \in 1 .. Len(s) - 1  BY <2>3 DEF n
  <2> QED  BY <2>1, OfTemplate
<1>6. Semicolon \notin Words /\ "define" \in KeyWords /\ "[" \notin Words
  BY TemplateAssumption
<1>7. IsSql(s) => w \in 1 .. n - 1 /\ s[w] \in Words \ KeyWords /\ (w = j + 1 => c # "[") /\ \A i \in 1 .. w - 1 : InReference(s, i)
  <2> SUFFICES ASSUME IsSql(s) PROVE w \in 1 .. n - 1 /\ s[w] \in Words \ KeyWords /\ (w = j + 1 => c # "[")
                                     /\ \A i \in 1 .. w - 1 : InReference(s, i)
    OBVIOUS
  <2>1. w \in 1 .. n /\ s[w] \in Words \ KeyWords /\ ~InReference(s, w) /\ \A i \in 1 .. w - 1 : InReference(s, i)
    BY <1>1 DEF SqlBegins
  <2>2. w # n  BY <1>1, <1>6, <2>1
  <2>3. w = j + 1 => c # "["  BY <1>2, <2>1
  <2>4. n \in Nat /\ w \in 1 .. n  BY <1>1, <2>1
  <2> HIDE DEF n, c
  <2>5. w \in 1 .. n - 1  BY <2>2, <2>4
  <2> QED  BY <2>1, <2>3, <2>5
<1>8. c # "[" => ~Inside(s, j + 1)
  BY <1>2 DEF Inside
<1> HIDE DEF c, n
<1>9. CASE c = "["
  <2> DEFINE k == [l EXCEPT !.old = l.state, !.state = "SUBST"]
  <2>1. l.state \in {"NORMAL", "SQLTEXT"}
    BY <1>4 DEF Around
  <2>2. k \in Lexers /\ k.state = "SUBST" /\ k.old = l.state /\ k.first = l.first
    <3>1. k = [l EXCEPT !.old = l.state, !.state = "SUBST"]  OBVIOUS
    <3> HIDE DEF k
    <3> QED  BY <1>4, <2>1, <3>1, OldMade
  <2>3. Makes(l, c, k)
    BY <1>3, <1>4, <1>9, <2>1 DEF Makes, NormalMakes, SqlMakes
  <2>4. Inside(s, j + 1)
    BY <1>1, <1>2, <1>3, <1>9 DEF Inside, c
  <2>5. Around(s, w, j + 1) = Around(s, w, j)
    BY <1>2, <1>9, AroundStays
  <2> HIDE DEF k
  <2>6. HasRead(s, w, j + 1, k)
    BY <1>4, <2>2, <2>4, <2>5 DEF HasRead, LexPlace
  <2>7. ~IsText(l, c)
    BY <1>9 DEF IsText
  <2> QED  BY <1>2, <1>9, <2>3, <2>6, <2>7 DEF c
<1>10. CASE c # "[" /\ ~IsSql(s)
  <2> DEFINE k == [l EXCEPT !.first = FALSE]
  <2>1. l.state = "NORMAL"
    BY <1>4, <1>10 DEF Around
  <2>2. ~StartsSql(l, c)
    <3>1. CASE j = 0
      <4>1. c = "define"  BY <1>10, <3>1 DEF IsSql, c
      <4> QED  BY <1>6, <4>1 DEF StartsSql
    <3>2. CASE j # 0
      BY <1>4, <1>10, <3>2 DEF StartsSql
    <3> QED  BY <3>1, <3>2
  <2>3. k \in Lexers /\ k.state = "NORMAL" /\ k.first = FALSE
    <3>1. k = [l EXCEPT !.first = FALSE]  OBVIOUS
    <3> HIDE DEF k
    <3> QED  BY <1>4, <2>1, <3>1, FirstMade
  <2>4. Makes(l, c, k)
    <3>1. NormalMakes(l, c, k)  BY <1>3, <1>10, <2>2 DEF NormalMakes
    <3> QED  BY <2>1, <3>1 DEF Makes
  <2> HIDE DEF k
  <2>5. Around(s, w, j + 1) = "NORMAL"
    BY <1>10 DEF Around
  <2>6. HasRead(s, w, j + 1, k)
    BY <1>8, <1>10, <2>3, <2>5 DEF HasRead, LexPlace
  <2>7. ~IsText(l, c)
    BY <2>1, <2>2 DEF IsText
  <2> QED  BY <1>10, <2>4, <2>6, <2>7 DEF c
<1>11. CASE c # "[" /\ IsSql(s) /\ j < w
  <2> DEFINE k == [l EXCEPT !.state = "SQLTEXT"]
  <2>1. l.state = "NORMAL" /\ l.first
    <3>1. ~(w <= j)  BY <1>1, <1>11
    <3> QED  BY <1>4, <1>11, <3>1 DEF Around
  <2>2. w = j + 1
    <3> SUFFICES ASSUME w # j + 1 PROVE FALSE  OBVIOUS
    <3>1. j + 1 \in 1 .. w - 1  BY <1>1, <1>11
    <3> QED  BY <1>2, <1>7, <1>11, <3>1
  <2>3. StartsSql(l, c) /\ c # Semicolon
    BY <1>6, <1>7, <1>11, <2>1, <2>2 DEF StartsSql, c
  <2>4. k \in Lexers /\ k.state = "SQLTEXT" /\ k.first = l.first
    <3>1. k = [l EXCEPT !.state = "SQLTEXT"]  OBVIOUS
    <3> HIDE DEF k
    <3> QED  BY <1>4, <3>1, StateMade
  <2>5. Makes(l, c, k)
    <3>1. NormalMakes(l, c, k)  BY <1>3, <1>11, <2>3 DEF NormalMakes
    <3> QED  BY <2>1, <3>1 DEF Makes
  <2> HIDE DEF k
  <2>6. Around(s, w, j + 1) = "SQLTEXT"
    BY <1>1, <1>7, <1>11, <2>2 DEF Around, n
  <2>7. HasRead(s, w, j + 1, k)
    BY <1>8, <1>11, <2>1, <2>4, <2>6 DEF HasRead, LexPlace
  <2>8. IsText(l, c)
    BY <1>11, <2>1, <2>3 DEF IsText
  <2> QED  BY <1>2, <1>11, <2>3, <2>5, <2>7, <2>8 DEF c
<1>12. CASE c # "[" /\ IsSql(s) /\ ~(j < w)
  <2>1. l.state = "SQLTEXT" /\ l.first
    <3>1. w <= j  BY <1>1, <1>12
    <3> QED  BY <1>1, <1>4, <1>12, <3>1 DEF Around, n
  <2>2. CASE c = Semicolon
    <3> DEFINE k == [l EXCEPT !.state = "NORMAL"]
    <3>1. k \in Lexers /\ k.state = "NORMAL" /\ k.first = l.first
      <4>1. k = [l EXCEPT !.state = "NORMAL"]  OBVIOUS
      <4> HIDE DEF k
      <4> QED  BY <1>4, <4>1, StateMade
    <3>2. Makes(l, c, k)
      BY <1>3, <1>12, <2>1, <2>2 DEF Makes, SqlMakes
    <3> HIDE DEF k
    <3>3. j + 1 = n \/ j + 1 # n  OBVIOUS
    <3>4. Around(s, w, j + 1) = "NORMAL"
      <4>1. j + 1 = n
        <5> SUFFICES ASSUME j + 1 # n PROVE FALSE  OBVIOUS
        <5> QED  BY <1>5, <2>2
      <4> QED  BY <1>1, <4>1 DEF Around, n
    <3>5. HasRead(s, w, j + 1, k)
      BY <1>8, <1>12, <2>1, <3>1, <3>4 DEF HasRead, LexPlace
    <3>6. ~IsText(l, c)
      BY <2>1, <2>2 DEF IsText
    <3> QED  BY <2>2, <3>2, <3>5, <3>6 DEF c
  <2>3. CASE c # Semicolon
    <3>1. Makes(l, c, l)
      BY <1>3, <1>12, <2>1, <2>3 DEF Makes, SqlMakes
    <3>2. Around(s, w, j + 1) = "SQLTEXT"
      <4>1. j + 1 # n  BY <1>1, <2>3 DEF c
      <4>2. w <= j + 1 /\ j + 1 < n  BY <1>1, <1>12, <4>1
      <4> QED  BY <1>12, <4>2 DEF Around, n
    <3>3. HasRead(s, w, j + 1, l)
      BY <1>4, <1>8, <1>12, <2>1, <3>2 DEF HasRead, LexPlace
    <3>4. IsText(l, c)
      BY <1>12, <2>1, <2>3 DEF IsText
    <3> QED  BY <1>2, <1>12, <2>3, <3>1, <3>3, <3>4 DEF c
  <2> QED  BY <2>2, <2>3
<1> QED  BY <1>9, <1>10, <1>11, <1>12

\* A step more of a text.
LEMMA LexMore ==
  ASSUME NEW y, NEW T \in Seq(Lexemes), NEW z \in LexState, NEW c \in Lexemes, NEW w \in LexState,
         LexLeads(y, T, z), LexMakes(z, c, w)
  PROVE  LexLeads(y, Append(T, c), w)
<1> DEFINE L == Lexemes
           S == LexState
           E == LexEdges
<1>1. Edge(z, c, w) \in E
  BY LexEdge
<1>2. T \in Seq(L) /\ c \in L /\ w \in S /\ Leads(S, E, y, T, z)
  BY DEF LexLeads
<1> HIDE DEF L, S, E
<1>3. Leads(S, E, y, Append(T, c), w)
  BY <1>1, <1>2, MoreText
<1> QED  BY <1>3 DEF LexLeads, S, E

\* A word or sign, and its token.
LEMMA LexWord ==
  ASSUME NEW y, NEW T \in Seq(Lexemes), NEW l \in Lexers, NEW o \in Seq(TokenType), LexLeads(y, T, LexAt(l, o)),
         NEW c \in Lexemes \ {"nl", "--"}, NEW k \in Lexers, Makes(l, c, k), NEW b \in BOOLEAN, IsText(l, c) <=> b
  PROVE  /\ Append(o, Token(c, b)) \in Seq(TokenType)
         /\ LexLeads(y, Append(T, c), LexAt(k, Append(o, Token(c, b))))
<1> DEFINE K == TokenType
           t == Token(c, b)
           p == Append(o, t)
<1>1. t \in K /\ o \in Seq(K)
  BY TokenIs
<1> HIDE DEF K, t
<1>2. p \in Seq(K)
  BY <1>1, AppendIs
<1>3. IsText(l, c) = b
  <2>1. IsText(l, c) \in BOOLEAN  BY DEF IsText
  <2> QED  BY <2>1
<1>4. p = Append(o, Token(c, IsText(l, c)))
  BY <1>3 DEF t
<1> HIDE DEF p
<1> DEFINE z == LexAt(l, o)
           v == LexAt(k, p)
<1>5. z \in LexState /\ v \in LexState /\ z.lexer = l /\ z.out = o /\ v.lexer = k /\ v.out = p
  BY <1>2, LexType, LexFields DEF K
<1> HIDE DEF z, v
<1>6. LexMakes(z, c, v)
  <2>1. v.out = IF c \in {"nl", "--"} THEN z.out ELSE Append(z.out, Token(c, IsText(z.lexer, c)))
    BY <1>4, <1>5
  <2>2. /\ z.lexer.state = "NORMAL" => NormalMakes(z.lexer, c, v.lexer)
        /\ z.lexer.state = "SUBST" => SubstMakes(z.lexer, c, v.lexer)
        /\ z.lexer.state = "SQLTEXT" => SqlMakes(z.lexer, c, v.lexer) /\ c # "--"
    BY <1>5 DEF Makes
  <2> QED  BY <2>1, <2>2 DEF LexMakes
<1>7. LexLeads(y, Append(T, c), v)
  <2>1. LexLeads(y, T, z)  BY DEF z
  <2> QED  BY <1>5, <1>6, <2>1, LexMore
<1> QED  BY <1>2, <1>7 DEF p, t, v, K

\* Ends of lines, and comments before them, between tokens or in text.
LEMMA LexBlank ==
  ASSUME NEW y, NEW T \in Seq(Lexemes), NEW l \in Lexers, NEW o \in Seq(TokenType), LexLeads(y, T, LexAt(l, o)),
         NEW c \in {"nl", "--"}, NEW k \in Lexers, Makes(l, c, k)
  PROVE  Append(T, c) \in Seq(Lexemes) /\ LexLeads(y, Append(T, c), LexAt(k, o))
<1>1. c \in Lexemes
  BY BlanksAre
<1>2. Append(T, c) \in Seq(Lexemes)
  <2> DEFINE L == Lexemes
  <2>1. T \in Seq(L) /\ c \in L  BY <1>1
  <2> HIDE DEF L
  <2>2. Append(T, c) \in Seq(L)  BY <2>1, AppendIs
  <2> QED  BY <2>2 DEF L
<1> DEFINE z == LexAt(l, o)
           v == LexAt(k, o)
<1>3. z \in LexState /\ v \in LexState /\ z.lexer = l /\ z.out = o /\ v.lexer = k /\ v.out = o
  BY LexType, LexFields
<1> HIDE DEF z, v
<1>4. LexMakes(z, c, v)
  BY <1>3 DEF LexMakes, Makes
<1>5. LexLeads(y, T, z)
  BY DEF z
<1>6. LexLeads(y, Append(T, c), v)
  BY <1>1, <1>3, <1>4, <1>5, LexMore
<1> QED  BY <1>2, <1>6 DEF v

\* At the beginning of a line.
Fresh(l) == [l EXCEPT !.first = TRUE]

LEMMA BlankFirst ==
  ASSUME NEW l \in Lexers, l.state = "NORMAL"
  PROVE  /\ Fresh(l) \in Lexers /\ Fresh(l).first = TRUE /\ Fresh(l).state = "NORMAL"
         /\ Makes(l, "--", l) /\ Makes(l, "nl", Fresh(l))
<1> DEFINE k == Fresh(l)
<1>1. k = [l EXCEPT !.first = TRUE]
  BY DEF Fresh
<1> HIDE DEF k
<1>2. k \in Lexers /\ k.first = TRUE /\ k.state = l.state
  BY <1>1, FirstMade
<1>3. NormalMakes(l, "--", l) /\ NormalMakes(l, "nl", k)
  BY <1>1 DEF NormalMakes
<1>4. Makes(l, "--", l) /\ Makes(l, "nl", k)
  BY <1>3 DEF Makes
<1> QED  BY <1>2, <1>4 DEF k

\* Blank lines and comments, but in text, lead to the beginning of a line.
LEMMA LexBreaks ==
  ASSUME NEW y, NEW T \in Seq(Lexemes), NEW l \in Lexers, NEW o \in Seq(TokenType), LexLeads(y, T, LexAt(l, o)),
         l.state = "NORMAL", NEW br \in (Breaks \ {<<>>}) \union Afters
  PROVE  LexLeads(y, T \o br, LexAt(Fresh(l), o))
<1> DEFINE L == Lexemes
           k == Fresh(l)
           T1 == Append(T, "nl")
           T2 == Append(T1, "--")
           T3 == Append(T2, "nl")
           T4 == Append(T, "--")
           T5 == Append(T4, "nl")
<1>1. T \in Seq(L) /\ "nl" \in L /\ "--" \in L
  BY BlanksAre
<1>2. k \in Lexers /\ k.state = "NORMAL" /\ k.first = TRUE
  BY BlankFirst
<1>3. Makes(l, "--", l) /\ Makes(l, "nl", k)
  BY BlankFirst
<1>4. Makes(k, "--", k) /\ Makes(k, "nl", Fresh(k))
  <2> HIDE DEF k
  <2> QED  BY <1>2, BlankFirst
<1>5. Fresh(k) = k
  BY <1>2, LexerIs DEF Fresh
<1> HIDE DEF k
<1>6. T1 \in Seq(L) /\ LexLeads(y, T1, LexAt(k, o))
  BY <1>2, <1>3, LexBlank DEF L
<1>7. T4 \in Seq(L) /\ LexLeads(y, T4, LexAt(l, o))
  BY <1>3, LexBlank DEF L
<1> HIDE DEF T1, T4
<1>8. T2 \in Seq(L) /\ LexLeads(y, T2, LexAt(k, o))
  BY <1>2, <1>4, <1>6, LexBlank DEF L
<1>9. LexLeads(y, T5, LexAt(k, o))
  BY <1>2, <1>3, <1>7, LexBlank DEF L
<1> HIDE DEF T2, T5
<1>10. LexLeads(y, T3, LexAt(k, o))
  BY <1>2, <1>4, <1>5, <1>8, LexBlank DEF L
<1> HIDE DEF T3, L
<1>11. T \o <<"nl">> = T1 /\ T \o <<"nl", "--", "nl">> = T3 /\ T \o <<"--", "nl">> = T5
  BY <1>1, LongerTexts DEF T1, T2, T3, T4, T5
<1> QED  BY <1>6, <1>9, <1>10, <1>11 DEF Breaks, Afters, k

\* A break where the code and the templates allow one.
BreaksWell(s, j, br) ==
  br # <<>> => MayBreak(s, j) /\ IF IsSql(s) THEN br = <<"nl">> ELSE s[j + 1] \notin Words

\* A break of a statement, in text or between tokens, is none of its tokens.
LEMMA BreakReady ==
  ASSUME NEW s \in TemplateStatements, NEW w, NEW j \in 1 .. Len(s) - 1, NEW l, HasRead(s, w, j, l),
         NEW y, NEW T \in Seq(Lexemes), NEW o \in Seq(TokenType), LexLeads(y, T, LexAt(l, o)),
         NEW br \in Breaks, BreaksWell(s, j, br)
  PROVE  \E k : LexLeads(y, T \o br, LexAt(k, o)) /\ Ready(s, w, j, k)
<1>1. /\ l \in Lexers /\ l.state = (IF Inside(s, j) THEN "SUBST" ELSE Around(s, w, j))
      /\ (Inside(s, j) => l.old = Around(s, w, j)) /\ (IsSql(s) => l.first)
      /\ (~IsSql(s) /\ l.first => Inside(s, j) \/ s[j] = "]")
  BY DEF HasRead, LexPlace
<1>2. CASE br = <<>>
  <2>1. ~IsSql(s) /\ s[j] = "]" => s[j + 1] \notin Words
    BY TemplateAssumption
  <2>2. Ready(s, w, j, l)
    BY <2>1 DEF HasRead, Ready
  <2>3. T \o br = T
    <3> DEFINE L == Lexemes
    <3>1. T \in Seq(L)  OBVIOUS
    <3> HIDE DEF L
    <3> QED  BY <1>2, <3>1, JoinedNone
  <2> QED  BY <2>2, <2>3
<1>3. CASE br # <<>>
  <2>1. MayBreak(s, j) /\ IF IsSql(s) THEN br = <<"nl">> ELSE s[j + 1] \notin Words
    BY <1>3 DEF BreaksWell
  <2>2. ~Inside(s, j)
    BY <2>1, TemplateAssumption DEF Inside
  <2>3. l.state = Around(s, w, j)
    BY <1>1, <2>2
  <2>4. CASE l.state = "NORMAL"
    <3> DEFINE k == Fresh(l)
    <3>1. LexLeads(y, T \o br, LexAt(k, o))
      BY <1>1, <1>3, <2>4, LexBreaks
    <3>2. k \in Lexers /\ k.state = "NORMAL" /\ k.first = TRUE
      BY <1>1, <2>4, BlankFirst
    <3> HIDE DEF k
    <3>3. Ready(s, w, j, k)
      BY <2>1, <2>2, <2>3, <2>4, <3>2 DEF Ready, LexPlace
    <3> QED  BY <3>1, <3>3
  <2>5. CASE l.state = "SQLTEXT"
    <3>1. IsSql(s) /\ br = <<"nl">>
      BY <2>1, <2>3, <2>5 DEF Around
    <3>2. Makes(l, "nl", l)
      <4>1. SqlMakes(l, "nl", l)  BY Signs DEF SqlMakes
      <4> QED  BY <2>5, <4>1 DEF Makes
    <3>3. LexLeads(y, Append(T, "nl"), LexAt(l, o))
      BY <1>1, <3>2, LexBlank
    <3>4. T \o br = Append(T, "nl")
      <4> DEFINE L == Lexemes
      <4>1. T \in Seq(L) /\ "nl" \in L  BY BlanksAre
      <4> HIDE DEF L
      <4> QED  BY <3>1, <4>1, LongerTexts
    <3>5. Ready(s, w, j, l)
      BY <3>1 DEF HasRead, Ready
    <3> QED  BY <3>3, <3>4, <3>5
  <2> QED  BY <2>3, <2>4, <2>5 DEF Around
<1> QED  BY <1>2, <1>3

\* What TokensMeant says of lexeme i.
MeansText(s, i) == IsSql(s) /\ s[i] # Semicolon /\ ~InReference(s, i)

\* So a lexeme makes the token that is meant.
LEMMA LexemeMakes ==
  ASSUME NEW s \in TemplateStatements, NEW w \in Nat, IsSql(s) => SqlBegins(s, w), NEW i \in 1 .. Len(s),
         NEW l, Ready(s, w, i - 1, l)
  PROVE  /\ \E k : HasRead(s, w, i, k) /\ Makes(l, s[i], k)
         /\ IsText(l, s[i]) <=> MeansText(s, i)
<1> DEFINE j == i - 1
<1>1. j \in 0 .. Len(s) - 1 /\ j + 1 = i /\ Ready(s, w, j, l)
  BY OfTemplate
<1> HIDE DEF j
<1>2. CASE Inside(s, j)
  <2>1. LexPlace(s, w, j, l)
    BY <1>1 DEF Ready
  <2>2. \E k : HasRead(s, w, j + 1, k) /\ Makes(l, s[j + 1], k)
    BY <1>1, <1>2, <2>1, InsideMakes
  <2>3. InReference(s, j + 1)
    BY <1>1, <1>2, References
  <2>4. l.state = "SUBST"
    BY <1>2, <2>1 DEF LexPlace
  <2>5. ~IsText(l, s[j + 1])
    BY <2>4 DEF IsText
  <2> QED  BY <1>1, <2>2, <2>3, <2>5 DEF MeansText
<1>3. CASE ~Inside(s, j)
  <2>1. /\ \E k : HasRead(s, w, j + 1, k) /\ Makes(l, s[j + 1], k)
        /\ IsText(l, s[j + 1]) <=> IsSql(s) /\ s[j + 1] # Semicolon /\ ~InReference(s, j + 1)
    BY <1>1, <1>3, OutsideMakes
  <2> QED  BY <1>1, <2>1 DEF MeansText
<1> QED  BY <1>2, <1>3

LEMMA MeantType ==
  ASSUME NEW L, NEW s \in Seq(L), L \subseteq Lexemes
  PROVE  /\ TokensMeant(s) \in Seq(TokenType) /\ Len(TokensMeant(s)) = Len(s)
         /\ \A i \in 1 .. Len(s) : TokensMeant(s)[i] = Token(s[i], MeansText(s, i))
<1>1. DOMAIN s = 1 .. Len(s) /\ Len(s) \in Nat /\ \A i \in 1 .. Len(s) : s[i] \in L
  BY DomainOf
<1>2. \A i \in 1 .. Len(s) : Token(s[i], MeansText(s, i)) \in TokenType
  <2> TAKE i \in 1 .. Len(s)
  <2>1. MeansText(s, i) \in BOOLEAN  BY DEF MeansText
  <2> QED  BY <1>1, <2>1, TokenIs
<1>3. TokensMeant(s) = [i \in 1 .. Len(s) |-> Token(s[i], MeansText(s, i))]
  BY <1>1 DEF TokensMeant, MeansText
<1> HIDE DEF TokenType
<1> DEFINE K == TokenType
           t == TokensMeant(s)
<1>4. t \in [1 .. Len(s) -> K] /\ \A i \in 1 .. Len(s) : t[i] = Token(s[i], MeansText(s, i))
  BY <1>2, <1>3
<1> HIDE DEF K, t
<1>5. t \in Seq(K) /\ Len(t) = Len(s)
  BY <1>1, <1>4, LenOf
<1> QED  BY <1>4, <1>5 DEF K, t

\* A statement of a template as it is written.
LexWritten(P, s) ==
  /\ P \in [1 .. Len(s) -> Seq(Lexemes)]
  /\ \A i \in 1 .. Len(s) - 1 : \E br \in Breaks : P[i] = <<s[i]>> \o br /\ BreaksWell(s, i, br)
  /\ P[Len(s)] = <<s[Len(s)]>>

(* A statement written behind a text that ends with a line adds the tokens *)
(* that are meant: by the number of its lexemes that are written.          *)
LEMMA LexWrites ==
  ASSUME NEW y, NEW R \in Seq(Lexemes), NEW s \in TemplateStatements, NEW o \in Seq(TokenType), NEW l0 \in Lexers,
         l0.state = "NORMAL", l0.first, LexLeads(y, R, LexAt(l0, o)), NEW P, LexWritten(P, s), NEW after \in Afters
  PROVE  /\ FlattenSeq(P) \in Seq(Lexemes)
         /\ \E l \in Lexers : /\ LexLeads(y, (R \o FlattenSeq(P)) \o after, LexAt(l, o \o TokensMeant(s)))
                              /\ l.state = "NORMAL" /\ l.first
<1> DEFINE n == Len(s)
           L == Lexemes
           K == TokenType
           ts == TokensMeant(s)
<1>1. s \in Seq(L) /\ n \in Nat \ {0} /\ \A i \in 1 .. n : s[i] \in L /\ s[i] \notin {"nl", "--"}
  BY OfTemplate
<1>2. ts \in Seq(K) /\ Len(ts) = n /\ \A i \in 1 .. n : ts[i] = Token(s[i], MeansText(s, i))
  BY <1>1, MeantType
<1>3. P \in [1 .. n -> Seq(L)]
  BY DEF LexWritten
<1>4. PICK f : Flattens(f, P, n, L)
  BY <1>1, <1>3, FlattenIs
<1>5. /\ f \in [0 .. n -> Seq(L)] /\ f[0] = <<>>
      /\ \A i \in 1 .. n : f[i] = f[i - 1] \o P[i]
      /\ FlattenSeq(P) = f[n]
  BY <1>4 DEF Flattens
<1>6. PICK w \in Nat : IsSql(s) => SqlBegins(s, w)
  BY SqlBeginning
<1>7. o \in Seq(K) /\ R \in Seq(L)
  OBVIOUS
<1> HIDE DEF n, L, K, ts
<1> DEFINE Out(i) == o \o SubSeq(ts, 1, i)
           Upto(i) == \E l : LexLeads(y, R \o f[i], LexAt(l, Out(i))) /\ Ready(s, w, i, l)
           G == {i \in 0 .. n - 1 : Upto(i)}
<1>8. \A i \in 0 .. n : f[i] \in Seq(L) /\ R \o f[i] \in Seq(L)
  <2> TAKE i \in 0 .. n
  <2>1. f[i] \in Seq(L)  BY <1>5
  <2> QED  BY <1>7, <2>1
<1>9. \A i \in 0 .. n : Out(i) \in Seq(K)
  <2> TAKE i \in 0 .. n
  <2>1. SubSeq(ts, 1, i) \in Seq(K)  BY <1>2, PrefixIs
  <2> QED  BY <1>7, <2>1
<1>10. ASSUME NEW i \in 1 .. n PROVE Append(Out(i - 1), Token(s[i], MeansText(s, i))) = Out(i)
  <2>1. i \in 1 .. Len(ts)  BY <1>2
  <2>2. Append(o \o SubSeq(ts, 1, i - 1), ts[i]) = o \o SubSeq(ts, 1, i)
    BY <1>2, <1>7, <2>1, OneMore
  <2> QED  BY <1>2, <2>2
<1>11. 0 \in G
  <2>1. Out(0) = o
    <3>1. SubSeq(ts, 1, 0) = <<>>  BY <1>2, NoneTaken
    <3> QED  BY <1>7, <3>1, JoinedNone
  <2>2. R \o f[0] = R  BY <1>5, <1>7, JoinedNone
  <2>3. 0 \in 0 .. n - 1  BY <1>1
  <2>4. ~Inside(s, 0)
    BY <2>3, References DEF n
  <2>5. Around(s, w, 0) = "NORMAL"
    <3>1. IsSql(s) => ~(w <= 0)
      <4>1. IsSql(s) => w \in 1 .. n  BY <1>6, OfTemplate DEF SqlBegins, n
      <4> QED  BY <4>1
    <3> QED  BY <3>1 DEF Around
  <2>6. Ready(s, w, 0, l0)
    BY <2>4, <2>5 DEF Ready, LexPlace
  <2>7. Upto(0)  BY <2>1, <2>2, <2>6
  <2> QED  BY <2>3, <2>7
<1> HIDE DEF Out
<1>12. ASSUME NEW i \in 1 .. n, i - 1 \in G
       PROVE  \E k : HasRead(s, w, i, k) /\ LexLeads(y, Append(R \o f[i - 1], s[i]), LexAt(k, Out(i)))
  <2>1. PICK l : LexLeads(y, R \o f[i - 1], LexAt(l, Out(i - 1))) /\ Ready(s, w, i - 1, l)
    BY <1>12
  <2>2. i \in 1 .. Len(s) /\ i \in 0 .. n /\ i - 1 \in 0 .. n
    BY <1>1 DEF n
  <2>3. PICK k : HasRead(s, w, i, k) /\ Makes(l, s[i], k)
    BY <1>6, <2>1, <2>2, LexemeMakes
  <2>4. IsText(l, s[i]) <=> MeansText(s, i)
    BY <1>6, <2>1, <2>2, LexemeMakes
  <2> DEFINE T == R \o f[i - 1]
             p == Out(i - 1)
             c == s[i]
             b == MeansText(s, i)
  <2>5. T \in Seq(L) /\ p \in Seq(K) /\ c \in L \ {"nl", "--"} /\ b \in BOOLEAN
    BY <1>1, <1>8, <1>9, <2>2 DEF MeansText
  <2>6. l \in Lexers /\ k \in Lexers
    BY <2>1, <2>3 DEF Ready, HasRead, LexPlace
  <2>7. LexLeads(y, T, LexAt(l, p)) /\ Makes(l, c, k) /\ (IsText(l, c) <=> b) /\ Append(p, Token(c, b)) = Out(i)
    BY <1>10, <2>1, <2>3, <2>4
  <2> HIDE DEF T, p, c, b
  <2>8. LexLeads(y, Append(T, c), LexAt(k, Append(p, Token(c, b))))
    BY <2>5, <2>6, <2>7, LexWord DEF L, K
  <2> QED  BY <2>3, <2>7, <2>8 DEF T, c
<1>13. ASSUME NEW i \in 1 .. n - 1, i - 1 \in G PROVE i \in G
  <2>1. i \in 1 .. n /\ i \in 0 .. n /\ i - 1 \in 0 .. n /\ i \in 0 .. n - 1 /\ i \in 1 .. Len(s) - 1
    BY <1>1 DEF n
  <2>2. PICK l : HasRead(s, w, i, l) /\ LexLeads(y, Append(R \o f[i - 1], s[i]), LexAt(l, Out(i)))
    BY <1>12, <1>13, <2>1
  <2>3. PICK br \in Breaks : P[i] = <<s[i]>> \o br /\ BreaksWell(s, i, br)
    BY <2>1 DEF LexWritten
  <2> DEFINE g == f[i - 1]
             c == s[i]
             T == Append(R \o g, c)
  <2>4. g \in Seq(L) /\ R \o g \in Seq(L) /\ c \in L /\ br \in Seq(L)
    BY <1>1, <1>8, <2>1, BreaksType DEF L
  <2>5. R \o f[i] = T \o br
    <3>1. f[i] = g \o (<<c>> \o br)  BY <1>5, <2>1, <2>3
    <3> HIDE DEF g, c
    <3>2. PieceJoins(R, g, c, br)  BY <1>7, <2>4, NextPiece
    <3> QED  BY <3>1, <3>2 DEF PieceJoins
  <2>6. T \in Seq(L)
    <3> HIDE DEF g, c
    <3> QED  BY <2>4, AppendIs
  <2>7. Out(i) \in Seq(K)
    BY <1>9, <2>1
  <2> HIDE DEF T
  <2>8. LexLeads(y, T, LexAt(l, Out(i)))
    BY <2>2 DEF T
  <2>9. \E k : LexLeads(y, T \o br, LexAt(k, Out(i))) /\ Ready(s, w, i, k)
    BY <2>1, <2>2, <2>3, <2>6, <2>7, <2>8, BreakReady DEF L, K
  <2>10. Upto(i)
    BY <2>5, <2>9
  <2> QED  BY <2>1, <2>10
<1> HIDE DEF G
<1>14. n - 1 \in Nat
  BY <1>1
<1>15. \A i \in 0 .. n - 1 : i \in G
  BY <1>11, <1>13, <1>14, Upwards
<1>16. PICK l : HasRead(s, w, n, l) /\ LexLeads(y, Append(R \o f[n - 1], s[n]), LexAt(l, Out(n)))
  <2>1. n \in 1 .. n /\ n - 1 \in 0 .. n - 1  BY <1>1
  <2> QED  BY <1>12, <1>15, <2>1
<1>17. l \in Lexers /\ l.state = "NORMAL"
  <2>1. ~Inside(s, n)
    <3>1. 0 \in 0 .. Len(s) - 1  BY <1>1 DEF n
    <3> QED  BY <3>1, References DEF n
  <2>2. Around(s, w, n) = "NORMAL"
    BY <1>1 DEF Around, n
  <2> QED  BY <1>16, <2>1, <2>2 DEF HasRead, LexPlace
<1>18. Out(n) = o \o ts
  <2> DEFINE p == SubSeq(ts, 1, n)
  <2>1. p \in Seq(K) /\ Len(p) = n /\ \A i \in 1 .. n : p[i] = ts[i]
    <3>1. n \in 0 .. Len(ts)  BY <1>1, <1>2
    <3> QED  BY <1>2, <3>1, PrefixIs
  <2> HIDE DEF p
  <2>2. p = ts  BY <1>2, <2>1, SameSeq
  <2> QED  BY <2>2 DEF p, Out
<1>19. R \o FlattenSeq(P) = Append(R \o f[n - 1], s[n])
  <2>1. n \in 1 .. n /\ n - 1 \in 0 .. n /\ P[n] = <<s[n]>>
    BY <1>1 DEF LexWritten, n
  <2> DEFINE g == f[n - 1]
             c == s[n]
  <2>2. f[n] = g \o <<c>> /\ g \in Seq(L) /\ c \in L
    BY <1>1, <1>5, <1>8, <2>1
  <2> HIDE DEF g, c
  <2>3. R \o (g \o <<c>>) = Append(R \o g, c)
    BY <1>7, <2>2, LastPiece
  <2> QED  BY <1>5, <2>2, <2>3 DEF g, c
<1> DEFINE T == R \o FlattenSeq(P)
<1>20. T \in Seq(L) /\ f[n] \in Seq(L) /\ Out(n) \in Seq(K)
  <2>1. n \in 0 .. n  BY <1>1
  <2> QED  BY <1>5, <1>8, <1>9, <2>1
<1>21. LexLeads(y, T, LexAt(l, Out(n)))
  BY <1>16, <1>19
<1> HIDE DEF T
<1>22. LexLeads(y, T \o after, LexAt(Fresh(l), Out(n)))
  BY <1>17, <1>20, <1>21, LexBreaks DEF L, K
<1>23. Fresh(l) \in Lexers /\ Fresh(l).state = "NORMAL" /\ Fresh(l).first
  BY <1>17, BlankFirst
<1> QED  BY <1>5, <1>18, <1>20, <1>22, <1>23 DEF T, L, ts

\* What WriteStatement writes is a statement, broken where it may be.
LEMMA TemplateWritten ==
  ASSUME NEW s \in TemplateStatements, NEW breaks \in SUBSET (1 .. Len(s) - 1),
         NEW between \in Breaks, \A i \in breaks : BreaksWell(s, i, between)
  PROVE  LET broke(i) == IF i \in breaks THEN between ELSE <<>>
         IN  LexWritten([i \in DOMAIN s |-> <<s[i]>> \o broke(i)], s)
<1> DEFINE broke(i) == IF i \in breaks THEN between ELSE <<>>
           P == [i \in DOMAIN s |-> <<s[i]>> \o broke(i)]
<1>1. s \in Seq(Lexemes) /\ DOMAIN s = 1 .. Len(s) /\ Len(s) \in Nat \ {0}
  BY OfTemplate
<1>2. s # <<>>
  <2> DEFINE L == Lexemes
  <2>1. s \in Seq(L) /\ Len(s) # 0  BY <1>1
  <2> HIDE DEF L
  <2> QED  BY <2>1, DomainOf
<1>3. Written(P, s)
  BY <1>1, <1>2, StatementWritten
<1>4. \A i \in 1 .. Len(s) - 1 : broke(i) \in Breaks /\ BreaksWell(s, i, broke(i))
  BY DEF Breaks, BreaksWell
<1>5. \A i \in 1 .. Len(s) - 1 : P[i] = <<s[i]>> \o broke(i)
  <2>1. \A i \in 1 .. Len(s) - 1 : i \in DOMAIN s  BY <1>1
  <2> HIDE DEF broke
  <2> QED  BY <2>1
<1> HIDE DEF P, broke
<1>6. \A i \in 1 .. Len(s) - 1 : \E br \in Breaks : P[i] = <<s[i]>> \o br /\ BreaksWell(s, i, br)
  BY <1>4, <1>5
<1>7. LexWritten(P, s)
  BY <1>3, <1>6 DEF Written, LexWritten
<1> QED  BY <1>7 DEF P, broke

\* One more statement, its tokens.
LEMMA MeantMore ==
  ASSUME NEW ws \in Seq(Seq(Lexemes)), NEW s \in Seq(Lexemes)
  PROVE  Meant(Append(ws, s)) = Meant(ws) \o TokensMeant(s)
<1> DEFINE L == Lexemes
           S == Seq(Lexemes)
           K == TokenType
           m == Len(ws)
           us == Append(ws, s)
           B == [i \in DOMAIN ws |-> TokensMeant(ws[i])]
           C == [i \in DOMAIN us |-> TokensMeant(us[i])]
<1>1. ws \in Seq(S) /\ s \in S
  OBVIOUS
<1>2. \A t \in S : TokensMeant(t) \in Seq(K)
  <2> TAKE t \in S
  <2>1. t \in Seq(L) /\ L \subseteq Lexemes  OBVIOUS
  <2> HIDE DEF L
  <2> QED  BY <2>1, MeantType
<1> HIDE DEF S, K
<1>3. /\ us \in Seq(S) /\ m \in Nat /\ Len(us) = m + 1 /\ us[m + 1] = s /\ \A i \in 1 .. m : us[i] = ws[i]
  BY <1>1, AppendIs
<1>4. DOMAIN ws = 1 .. m /\ DOMAIN us = 1 .. m + 1
  BY <1>1, <1>3, DomainOf
<1>5. \A i \in 1 .. m : ws[i] \in S
  BY <1>1
<1>6. \A i \in 1 .. m + 1 : us[i] \in S
  BY <1>3
<1> HIDE DEF m, us
<1>7. B \in [1 .. m -> Seq(K)] /\ C \in [1 .. m + 1 -> Seq(K)]
  <2> DEFINE Q == Seq(K)
  <2>1. \A t \in S : TokensMeant(t) \in Q  BY <1>2
  <2> HIDE DEF Q
  <2>2. B \in [1 .. m -> Q]  BY <1>4, <1>5, <2>1
  <2>3. C \in [1 .. m + 1 -> Q]  BY <1>4, <1>6, <2>1
  <2> QED  BY <2>2, <2>3 DEF Q
<1>8. C[m + 1] = TokensMeant(s) /\ \A i \in 1 .. m : C[i] = B[i]
  <2>1. m + 1 \in 1 .. m + 1 /\ \A i \in 1 .. m : i \in 1 .. m + 1  BY <1>3
  <2> QED  BY <1>3, <1>4, <2>1
<1>9. Meant(ws) = FlattenSeq(B) /\ Meant(us) = FlattenSeq(C)
  BY DEF Meant
<1> HIDE DEF B, C
<1>10. FlattenSeq(C) = FlattenSeq(B) \o C[m + 1]
  BY <1>3, <1>7, <1>8, FlattenMore
<1> QED  BY <1>8, <1>9, <1>10 DEF us

(* WriteStatement keeps LexInv, unless a line of a definition begins with  *)
(* an id.                                                                  *)
LEMMA LexWriting ==
  ASSUME grammar = "dsqgen", ~broken', LexInv, WriteStatement
  PROVE  LexInv'
<1>0. PICK s \in (IF grammar = "distcomp" THEN DstStatements ELSE TemplateStatements),
            between \in {<<"nl">>, <<"nl", "--", "nl">>}, after \in {<<"nl">>, <<"--", "nl">>} :
        \E breaks \in {b \in SUBSET (1 .. Len(s) - 1) : Cardinality(b) <= MaxBreaks} :
          /\ grammar = "dsqgen" => \A b \in breaks : MayBreak(s, b)
          /\ grammar = "dsqgen" /\ IsSql(s) => between = <<"nl">>
          /\ written' = Append(written, s)
          /\ broken' = (broken \/ (~IsSql(s) /\ \E b \in breaks : s[b + 1] \in Words))
          /\ LET broke(i) == IF i \in breaks THEN between ELSE <<>>
             IN  rest' = rest \o FlattenSeq([i \in DOMAIN s |-> <<s[i]>> \o broke(i)]) \o after
  BY DEF WriteStatement
<1>1. s \in TemplateStatements /\ between \in Breaks /\ after \in Afters
  BY DEF Breaks, Afters
<1>2. PICK breaks \in SUBSET (1 .. Len(s) - 1) :
          /\ \A b \in breaks : MayBreak(s, b)
          /\ IsSql(s) => between = <<"nl">>
          /\ written' = Append(written, s)
          /\ broken' = (broken \/ (~IsSql(s) /\ \E b \in breaks : s[b + 1] \in Words))
          /\ LET broke(i) == IF i \in breaks THEN between ELSE <<>>
             IN  rest' = rest \o FlattenSeq([i \in DOMAIN s |-> <<s[i]>> \o broke(i)]) \o after
  BY <1>0
<1> DEFINE broke(i) == IF i \in breaks THEN between ELSE <<>>
           P == [i \in DOMAIN s |-> <<s[i]>> \o broke(i)]
           y == LexAt(lexer, WithoutEnds(tokens))
           o == Meant(written)
<1>3. rest' = (rest \o FlattenSeq(P)) \o after /\ written' = Append(written, s)
  BY <1>2
<1>4. \A i \in breaks : BreaksWell(s, i, between)
  BY <1>2 DEF BreaksWell
<1>5. LexWritten(P, s)
  BY <1>1, <1>4, TemplateWritten
<1> HIDE DEF P, y, o
<1>6. /\ rest \in Seq(Lexemes) /\ written \in Seq(Seq(Lexemes)) /\ lexer \in Lexers /\ tokens \in Seq(TokenType)
      /\ s \in Seq(Lexemes)
  BY <1>1, OfTemplate DEF LexInv
<1>7. PICK l \in Lexers : LexLeads(y, rest, LexAt(l, o)) /\ l.state = "NORMAL" /\ l.first
  BY DEF LexInv, y, o
<1>8. o \in Seq(TokenType)
  <2> DEFINE L == Lexemes
             S == LexState
             E == LexEdges
             z == LexAt(l, o)
  <2>1. rest \in Seq(L) /\ Leads(S, E, y, rest, z)
    BY <1>6, <1>7 DEF LexLeads
  <2> HIDE DEF L, S, E, z
  <2>2. z \in S
    BY <2>1, OfText
  <2>3. z.out \in Seq(TokenType)
    BY <2>2, LexIs DEF S
  <2> QED  BY <2>3, LexFields DEF z
<1>9. FlattenSeq(P) \in Seq(Lexemes)
  BY <1>1, <1>5, <1>6, <1>7, <1>8, LexWrites
<1>10. \E h \in Lexers : /\ LexLeads(y, (rest \o FlattenSeq(P)) \o after, LexAt(h, o \o TokensMeant(s)))
                         /\ h.state = "NORMAL" /\ h.first
  BY <1>1, <1>5, <1>6, <1>7, <1>8, LexWrites
<1>11. Meant(written') = o \o TokensMeant(s)
  BY <1>3, <1>6, MeantMore DEF o
<1>12. rest' \in Seq(Lexemes) /\ written' \in Seq(Seq(Lexemes))
  <2> DEFINE L == Lexemes
             F == FlattenSeq(P)
  <2>1. rest \in Seq(L) /\ F \in Seq(L) /\ after \in Seq(L) /\ written \in Seq(Seq(L)) /\ s \in Seq(L)
    BY <1>1, <1>6, <1>9, AftersType
  <2> HIDE DEF L, F
  <2>2. (rest \o F) \o after \in Seq(L) /\ Append(written, s) \in Seq(Seq(L))
    BY <2>1
  <2> QED  BY <1>3, <2>2 DEF L, F
<1>13. lexer' = lexer /\ tokens' = tokens
  BY DEF WriteStatement
<1>14. \E h \in Lexers : /\ LexLeads(LexAt(lexer', WithoutEnds(tokens')), rest', LexAt(h, Meant(written')))
                         /\ h.state = "NORMAL" /\ h.first
  BY <1>3, <1>10, <1>11, <1>13 DEF y
<1> QED  BY <1>6, <1>12, <1>13, <1>14 DEF LexInv

-----------------------------------------------------------------------------
\* Both

\* The memory, and the reader whose text it is.
SourceInv ==
  /\ grammar \in {"distcomp", "dsqgen"} /\ broken \in BOOLEAN /\ BufferFits(pLineBuffer)
  /\ grammar = "distcomp" => DstInv
  /\ grammar = "dsqgen" /\ ~broken => LexInv

LEMMA SourceStart == SourceInit => SourceInv
<1> SUFFICES ASSUME SourceInit PROVE SourceInv
  OBVIOUS
<1>1. /\ grammar \in {"distcomp", "dsqgen"} /\ written = <<>> /\ broken = FALSE /\ rest = <<>>
      /\ pLineBuffer = InitBuffer /\ handled = <<>> /\ tokens = <<>>
      /\ lexer = [state |-> "NORMAL", old |-> "NORMAL", first |-> TRUE]
  BY DEF SourceInit
<1> DEFINE L == Lexemes
           H == HandledType
           K == TokenType
<1>2. "nl" \in L
  BY BlanksAre
<1> HIDE DEF L, H, K
<1>3. <<>> \in Seq(L) /\ <<>> \in Seq(Seq(L)) /\ <<>> \in Seq(H) /\ <<>> \in Seq(K)
  OBVIOUS
<1>4. BufferFits(pLineBuffer)
  <2>1. BufferSize \in Nat \ {0}  BY BufferAssumption
  <2>2. pLineBuffer = [text |-> <<>>, length |-> 0, used |-> 0, allocated |-> BufferSize]
    BY <1>1 DEF InitBuffer
  <2>3. pLineBuffer \in StringBuffers
    BY <1>3, <2>1, <2>2 DEF StringBuffers, L
  <2> QED  BY <2>1, <2>2, <2>3 DEF BufferFits
<1>5. DstInv
  <2>1. Statements(handled) = <<>>
    <3>1. DOMAIN handled = 1 .. 0  BY <1>1
    <3> QED  BY <3>1 DEF Statements
  <2>2. pLineBuffer.text = <<>>
    BY <1>1 DEF InitBuffer
  <2> DEFINE y == DstAt(<<>>, <<>>, "nl")
             S == DstState
             E == DstEdges
  <2>3. y \in S
    BY <1>2, <1>3, DstType DEF L
  <2> HIDE DEF y, S, E
  <2>4. Leads(S, E, y, <<>>, y)
    BY <2>3, NoText
  <2>5. DstLeads(DstAt(pLineBuffer.text, Statements(handled), "nl"), rest, DstAt(<<>>, written, "nl"))
    BY <1>1, <2>1, <2>2, <2>4 DEF DstLeads, y, S, E
  <2>6. \A i \in DOMAIN handled : handled[i].handler = handled[i].text[1]
    <3>1. DOMAIN handled = 1 .. 0  BY <1>1
    <3> QED  BY <3>1
  <2> QED  BY <1>1, <1>3, <2>5, <2>6 DEF DstInv, L, H
<1>6. LexInv
  <2>1. lexer \in Lexers /\ lexer.state = "NORMAL" /\ lexer.first
    BY <1>1 DEF Lexers
  <2>2. Meant(written) = <<>>
    <3>1. [i \in DOMAIN written |-> TokensMeant(written[i])] = <<>>
      <4>1. DOMAIN written = 1 .. 0  BY <1>1
      <4> QED  BY <4>1
    <3> QED  BY <3>1, FlattenNone DEF Meant
  <2>3. WithoutEnds(tokens) = <<>>
    <3>1. [i \in DOMAIN tokens |-> IF tokens[i].lexeme = "nl" THEN <<>> ELSE <<tokens[i]>>] = <<>>
      <4>1. DOMAIN tokens = 1 .. 0  BY <1>1
      <4> QED  BY <4>1
    <3> QED  BY <3>1, FlattenNone DEF WithoutEnds
  <2> DEFINE y == LexAt(lexer, <<>>)
             S == LexState
             E == LexEdges
  <2>4. y \in S
    BY <1>3, <2>1, LexType DEF K
  <2> HIDE DEF y, S, E
  <2>5. Leads(S, E, y, <<>>, y)
    BY <2>4, NoText
  <2>6. LexLeads(LexAt(lexer, WithoutEnds(tokens)), rest, LexAt(lexer, Meant(written)))
    BY <1>1, <2>2, <2>3, <2>5 DEF LexLeads, y, S, E
  <2> QED  BY <1>1, <1>3, <2>1, <2>6 DEF LexInv, L, K
<1> QED  BY <1>1, <1>4, <1>5, <1>6 DEF SourceInv

LEMMA SourceSteps == SourceInv /\ [SourceNext]_sourceVars => SourceInv'
<1> SUFFICES ASSUME SourceInv, [SourceNext]_sourceVars PROVE SourceInv'
  OBVIOUS
<1>1. grammar \in {"distcomp", "dsqgen"} /\ broken \in BOOLEAN /\ BufferFits(pLineBuffer)
  BY DEF SourceInv
<1>2. CASE WriteStatement
  <2>1. grammar' = grammar /\ pLineBuffer' = pLineBuffer /\ broken' \in BOOLEAN /\ (~broken' => ~broken)
    <3>1. grammar' = grammar /\ pLineBuffer' = pLineBuffer  BY <1>2 DEF WriteStatement
    <3>2. \E s, breaks : broken' = (broken \/ (~IsSql(s) /\ \E b \in breaks : s[b + 1] \in Words))
      BY <1>2 DEF WriteStatement
    <3> QED  BY <1>1, <3>1, <3>2
  <2>2. ASSUME grammar' = "distcomp" PROVE DstInv'
    BY <1>2, <2>1, <2>2, DstWriting DEF SourceInv
  <2>3. ASSUME grammar' = "dsqgen", ~broken' PROVE LexInv'
    BY <1>2, <2>1, <2>3, LexWriting DEF SourceInv
  <2> QED  BY <1>1, <2>1, <2>2, <2>3 DEF SourceInv
<1>3. CASE EndOfText
  <2>1. grammar' = grammar /\ pLineBuffer' = pLineBuffer /\ broken' = broken
    BY <1>3 DEF EndOfText
  <2>2. DstInv => DstInv'
    BY <1>3, DstEnding
  <2>3. LexInv => LexInv'
    BY <1>3 DEF EndOfText, LexInv
  <2> QED  BY <1>1, <2>1, <2>2, <2>3 DEF SourceInv
<1>4. CASE ParseLine
  <2>1. grammar = "distcomp" /\ grammar' = "distcomp" /\ broken' = broken
    BY <1>4 DEF ParseLine
  <2>2. DstInv' /\ BufferFits(pLineBuffer')
    BY <1>1, <1>4, <2>1, DstParsing DEF SourceInv
  <2> QED  BY <1>1, <2>1, <2>2 DEF SourceInv
<1>5. CASE yylex
  <2>1. grammar = "dsqgen" /\ grammar' = "dsqgen" /\ broken' = broken /\ pLineBuffer' = pLineBuffer
    BY <1>5 DEF yylex
  <2>2. ~broken => LexInv'
    BY <1>5, <2>1, LexReading DEF SourceInv
  <2> QED  BY <1>1, <2>1, <2>2 DEF SourceInv
<1>6. CASE UNCHANGED sourceVars
  BY <1>6 DEF SourceInv, sourceVars, DstInv, LexInv
<1> QED  BY <1>2, <1>3, <1>4, <1>5, <1>6 DEF SourceNext

LEMMA InvReadWhole == SourceInv => ReadWhole
<1> SUFFICES ASSUME SourceInv PROVE ReadWhole
  OBVIOUS
<1>1. pLineBuffer.length < pLineBuffer.allocated
  BY FitsMeans DEF SourceInv
<1>2. ASSUME AllRead, grammar = "distcomp"
      PROVE  /\ pLineBuffer.text = <<>>
             /\ \A i \in DOMAIN handled : handled[i].handler = handled[i].text[1]
             /\ Statements(handled) = written
  <2> DEFINE L == Lexemes
             S == DstState
             E == DstEdges
             y == DstAt(pLineBuffer.text, Statements(handled), "nl")
             z == DstAt(<<>>, written, "nl")
  <2>1. rest \in Seq(L) /\ rest = <<>> /\ Leads(S, E, y, rest, z)
    BY <1>2 DEF AllRead, SourceInv, DstInv, DstLeads
  <2>2. y = z
    <3> HIDE DEF L, S, E, y, z
    <3> QED  BY <2>1, OfText
  <2>3. pLineBuffer.text = <<>> /\ Statements(handled) = written
    BY <2>2, DstFields
  <2> QED  BY <1>2, <2>3 DEF SourceInv, DstInv
<1>3. ASSUME AllRead, grammar = "dsqgen", ~broken
      PROVE  WithoutEnds(tokens) = Meant(written) /\ lexer.state = "NORMAL"
  <2>1. PICK l \in Lexers : /\ LexLeads(LexAt(lexer, WithoutEnds(tokens)), rest, LexAt(l, Meant(written)))
                            /\ l.state = "NORMAL" /\ l.first
    BY <1>3 DEF SourceInv, LexInv
  <2> DEFINE L == Lexemes
             S == LexState
             E == LexEdges
             y == LexAt(lexer, WithoutEnds(tokens))
             z == LexAt(l, Meant(written))
  <2>2. rest \in Seq(L) /\ rest = <<>> /\ Leads(S, E, y, rest, z)
    BY <1>3, <2>1 DEF AllRead, SourceInv, LexInv, LexLeads
  <2>3. y = z
    <3> HIDE DEF L, S, E, y, z
    <3> QED  BY <2>2, OfText
  <2>4. lexer = l /\ WithoutEnds(tokens) = Meant(written)
    BY <2>3, LexFields
  <2> QED  BY <2>1, <2>4
<1> QED  BY <1>1, <1>2, <1>3 DEF ReadWhole, Statements, Ended, Meant

(* However statements are broken and commented, distcomp and dsqgen read   *)
(* what was meant, and what a line makes of the buffer fits.               *)
THEOREM TextsReadWhole == SourceSpec => []ReadWhole
<1>1. SourceSpec => []SourceInv
  BY SourceStart, SourceSteps, PTL DEF SourceSpec
<1> QED  BY <1>1, InvReadWhole, PTL
=============================================================================
