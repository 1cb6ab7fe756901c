------------------------------- MODULE QueryGen ------------------------------
(***************************************************************************)
(* dsqgen: streams of queries from templates.  A stream takes the          *)
(* templates in an order of its own, which must not depend on the seed     *)
(* (QgenMain.c).  For each query the substitutions of the template get new *)
(* values, in the order of a list that is not sorted though it is flagged  *)
(* so (list.c); one that refers to another evaluates that one first, and   *)
(* what was evaluated for the same query is not evaluated again (eval.c).  *)
(*                                                                         *)
(* Modelled are the substitutions RANDOM(1, n), ULIST(RANDOM(1, n), m),    *)
(* ULIST(DIST(...), m) of a text, and what refers to an element of one of  *)
(* the numbers, as all references in query_templates do.  (A text that is  *)
(* referred to before its turn would come out empty: its buffer is reset   *)
(* after it was evaluated.)                                                *)
(***************************************************************************)
EXTENDS Integers, Sequences, SequencesExt

CONSTANTS
  SubstitutionsOf, \* template -> its SubstitutionList
  Definition,      \* substitution -> its pAssignment, see DefinitionAssumption
  TextOf,          \* row of the distribution -> its text
  Shuffles,        \* what makePermutation() draws from stream 1 after its seed
                   \* is set: entry -> the entry to exchange it with
  STREAMS, COUNT

N == Len(SubstitutionsOf)   \* templates

Names == DOMAIN Definition

ASSUME DefinitionAssumption ==
  /\ N \in Nat \ {0} /\ SubstitutionsOf \in Seq(Seq(Names)) /\ TextOf \in Seq(ToSet(TextOf))
  /\ \A s \in Names :
       \/ Definition[s].kind = "random" /\ Definition[s].n \in Nat \ {0}
       \/ Definition[s].kind = "ulist" /\ Definition[s].n \in Nat \ {0} /\ Definition[s].m \in Nat
       \/ Definition[s].kind = "texts" /\ Definition[s].m \in 0 .. Cardinality(ToSet(TextOf))
       \/ /\ Definition[s].kind = "member" /\ Definition[s].of \in Names
          /\ Definition[Definition[s].of].kind \in {"random", "ulist"}
  /\ Shuffles \in [1 .. N -> 1 .. N] /\ STREAMS \in Nat /\ COUNT \in Nat \ {0}

VARIABLES
  order,     \* pPermutation
  qualify,   \* QUALIFY is set
  nStream, nQuery, nCount,
  qcount,    \* GenerateQuery(): nQueryCount
  turn,      \* the substitution whose turn it is; 0 between two queries
  values,    \* arValues: the elements, and the query they were drawn for
  permute,   \* pPermute and pPermuteKey of the lists
  used       \* history: the element each reference was evaluated from

queryVars == <<order, qualify, nStream, nQuery, nCount, qcount, turn, values, permute, used>>

Rows(s) == CASE Definition[s].kind = "ulist" -> Definition[s].n
             [] Definition[s].kind = "texts" -> Len(TextOf)
             [] OTHER -> 0

Exchanged(q, i, j) == [q EXCEPT ![i] = q[j], ![j] = q[i]]

(* makePermutation(), makeKeyPermutation(): every entry is exchanged once, *)
(* in the permutation as the call before left it.                          *)
Shuffle(p, r) ==
  LET after[i \in 0 .. Len(p)] == IF i = 0 THEN p ELSE Exchanged(after[i - 1], i, r[i])
  IN  after[Len(p)]

QueryInit ==
  /\ order = [i \in 1 .. N |-> i] /\ qualify \in BOOLEAN
  /\ nStream = 0 /\ nQuery = N /\ nCount = COUNT /\ qcount = 1 /\ turn = 0
  /\ values = [s \in Names |-> [stamp |-> 0, parts |-> <<>>]]
  /\ permute = [s \in Names |-> [i \in 1 .. Rows(s) |-> i]]
  /\ used = [s \in Names |-> 0]

(* Wrong variant of NextStream: stream 1 goes on where it was.             *)
NextStreamUnseeded ==
  /\ turn = 0 /\ nQuery = N /\ nCount = COUNT /\ nStream < STREAMS
  /\ nStream' = nStream + 1 /\ nQuery' = 1 /\ nCount' = 0
  /\ \E r \in [1 .. N -> 1 .. N] : order' = Shuffle(order, r)
  /\ UNCHANGED <<qualify, qcount, turn, values, permute, used>>

(* generateQueryStreams(): the seed of stream 1 is set for each stream.    *)
NextStream ==
  /\ turn = 0 /\ nQuery = N /\ nCount = COUNT /\ nStream < STREAMS
  /\ nStream' = nStream + 1 /\ nQuery' = 1 /\ nCount' = 0
  /\ order' = Shuffle(order, Shuffles)
  /\ UNCHANGED <<qualify, qcount, turn, values, permute, used>>

(* The next of COUNT versions, or the next template of the stream.         *)
NextQuery ==
  /\ turn = 0 /\ nStream > 0 /\ turn' = 1
  /\ \/ nCount < COUNT /\ nCount' = nCount + 1 /\ UNCHANGED nQuery
     \/ nCount = COUNT /\ nQuery < N /\ nQuery' = nQuery + 1 /\ nCount' = 1
  /\ used' = [s \in Names |-> 0]
  /\ UNCHANGED <<order, qualify, nStream, qcount, values, permute>>

Template == IF qualify THEN nQuery ELSE order[nQuery]

\* A list of at most m texts, and one that is appended if it is not there.
Adding(l, text, m) == IF Len(l) < m /\ text \notin ToSet(l) THEN Append(l, text) ELSE l

(* The first m texts along a permutation that are not there yet.           *)
Distinct(p, m) ==
  LET list[i \in 0 .. Len(p)] == IF i = 0 THEN <<>> ELSE Adding(list[i - 1], TextOf[p[i]], m)
  IN  list[Len(p)]

(* The numbers of a list.  An entry beyond the permutation is whatever is  *)
(* there, and the remainder of it may be negative, as in C.                *)
Numbers(p, n, m) ==
  {[i \in 1 .. m |-> (IF i <= n THEN p[i] % n ELSE beyond[i]) + 1] :
     beyond \in [n + 1 .. m -> (1 - n) .. (n - 1)]}

(* EvalExpr() of a function, into values of its own.                       *)
Evaluate(s) ==
  LET d == Definition[s]
      Set(parts) == values' = [values EXCEPT ![s] = [stamp |-> qcount, parts |-> parts]]
  IN
  \/ d.kind = "random" /\ UNCHANGED permute /\ \E v \in 1 .. d.n : Set(<<v>>)
  \/ /\ d.kind = "ulist"
     /\ \E r \in [1 .. d.n -> 1 .. d.n] : permute' = [permute EXCEPT ![s] = Shuffle(@, r)]
     /\ \E parts \in Numbers(permute'[s], d.n, d.m) : Set(parts)
  \/ /\ d.kind = "texts"
     /\ \E r \in [DOMAIN TextOf -> DOMAIN TextOf] : permute' = [permute EXCEPT ![s] = Shuffle(@, r)]
     /\ Set(Distinct(permute'[s], d.m))

Current == SubstitutionsOf[Template][turn]

(* Wrong variant of IsSet: a value is evaluated in its turn in any case.   *)
NeverSet(s) == FALSE

(* The value was evaluated for this query already.                         *)
IsSet(s) == values[s].stamp = qcount

(* A substitution that refers to none, in its turn.                        *)
EvalPlain ==
  /\ turn > 0 /\ turn <= Len(SubstitutionsOf[Template]) /\ Definition[Current].kind # "member"
  /\ turn' = turn + 1
  /\ IF IsSet(Current) THEN UNCHANGED <<values, permute>> ELSE Evaluate(Current)
  /\ UNCHANGED <<order, qualify, nStream, nQuery, nCount, qcount, used>>

(* One that refers to another: when that is not there, it comes first.     *)
EvalReference ==
  /\ turn > 0 /\ turn <= Len(SubstitutionsOf[Template]) /\ Definition[Current].kind = "member"
  /\ LET d == Definition[Current] IN
     \/ values[d.of].stamp # qcount /\ Evaluate(d.of) /\ UNCHANGED <<turn, used>>
     \/ /\ values[d.of].stamp = qcount /\ turn' = turn + 1
        /\ used' = [used EXCEPT ![Current] = values[d.of].parts[d.element]]
        /\ UNCHANGED <<values, permute>>
  /\ UNCHANGED <<order, qualify, nStream, nQuery, nCount, qcount>>

(* The query is written.                                                   *)
WriteQuery ==
  /\ turn > Len(SubstitutionsOf[Template]) /\ turn' = 0 /\ qcount' = qcount + 1
  /\ UNCHANGED <<order, qualify, nStream, nQuery, nCount, values, permute, used>>

QueryNext == NextStream \/ NextQuery \/ EvalPlain \/ EvalReference \/ WriteQuery

QuerySpec == QueryInit /\ [][QueryNext]_queryVars

-----------------------------------------------------------------------------
(* A query shows one draw of each substitution: what was computed from an  *)
(* element was computed from the one that the query shows, whichever of    *)
(* the two came first in the list, and no element is left of the query     *)
(* before.  The elements of a list are all different and all in range, as  *)
(* often as its permutation was shuffled; if there are enough: at SCALE=1  *)
(* query 36 asks for 8 of 1 state, and what it gets is memory.             *)
ValuesAgree ==
  turn > 0 /\ turn > Len(SubstitutionsOf[Template]) =>
    \A k \in 1 .. Len(SubstitutionsOf[Template]) :
      LET s == SubstitutionsOf[Template][k]
          d == Definition[s]
          parts == values[s].parts
      IN  /\ d.kind = "member" => values[d.of].parts[d.element] = used[s]
          /\ d.kind # "member" => values[s].stamp = qcount
          /\ d.kind = "ulist" /\ d.m <= d.n =>
               Len(parts) = d.m /\ IsInjective(parts) /\ ToSet(parts) \subseteq 1 .. d.n
          /\ d.kind = "texts" => Len(parts) = d.m /\ IsInjective(parts)

(* The order of a stream has every template once and depends on nothing    *)
(* but the number of templates and of the stream: it is one permutation,   *)
(* applied as often as there were streams so far.  So after some streams   *)
(* the orders come round again, and some streams have the same order.      *)
Applied ==
  LET f[k \in 0 .. STREAMS] ==
        IF k = 0 THEN [i \in 1 .. N |-> i]
        ELSE [i \in 1 .. N |-> f[k - 1][Shuffle([j \in 1 .. N |-> j], Shuffles)[i]]]
  IN  f

OrderFixed == order = Applied[nStream] /\ IsInjective(order) /\ ToSet(order) = 1 .. N

(* In every state: the order of the stream does not depend on the values   *)
(* drawn, and the values of a query do not depend on the queries before.   *)
QueriesFixed == OrderFixed /\ ValuesAgree

=============================================================================
