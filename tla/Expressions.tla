----------------------------- MODULE Expressions -----------------------------
(***************************************************************************)
(* dsqgen: the expression a substitution of a template is defined by, as   *)
(* the parser builds and checks it (expr.c), and the values it may have    *)
(* (eval.c), for every number that may be drawn.  Evaluations(e) is the    *)
(* set of what EvalExpr() can come to.                                     *)
(*                                                                         *)
(* Left out are range() and list() and ulist() of text(), which no template*)
(* uses, names for the columns of a distribution, and the leap day.        *)
(***************************************************************************)
EXTENDS Integers, SequencesExt, FiniteSetsExt, TLC

CONSTANTS
  Defined,         \* templates: name of a substitution -> the expression
  DistValues,      \* distribution -> its rows, of values
  DistWeights,     \* distribution -> its rows, of weights
  CalendarWeights, \* calendar: the day of the year -> the weight of DIST_SALES
  DayOfMonth,      \* and its day of the month
  DateText         \* dttostr(): day -> text

MAX_ARGS == 20

YearLength == Len(CalendarWeights)

VARIABLES
  template,  \* the template: the expressions of its substitutions
  parsed,    \* those that were parsed
  known,     \* pSub->arValues, of those that have values for this query
  estage     \* "parse", "evaluate", "written", "refused" or "stopped"

exprVars == <<template, parsed, known, estage>>

-----------------------------------------------------------------------------
(* The types of an expression, from which the result of an operation takes *)
(* the greater: a keyword is an integer, too.                              *)
TypeCode == [int |-> 8, char |-> 16, keyword |-> 64 + 8, date |-> 128, shift |-> 256]

makeExpr(op, type, args) ==
  [op |-> op, type |-> type, args |-> args, n |-> 0, s |-> "", modifier |-> "none",
   nValueCount |-> 1, nSubElement |-> 0]

MakeIntConstant(n) == [makeExpr("const", "int", <<>>) EXCEPT !.n = n]
MakeKeyword(w) == [makeExpr("const", "keyword", <<>>) EXCEPT !.s = w]
MakeStringConstant(s) == [makeExpr("const", "char", <<>>) EXCEPT !.s = s]
MakeReplacement(s, n) == [makeExpr("replacement", "char", <<>>) EXCEPT !.n = n, !.s = s]

MakeVariableReference(s, suffix) ==
  [makeExpr("reference", "char", <<>>) EXCEPT !.s = s, !.nSubElement = Max({suffix, 1})]

makeArithmeticExpr(op, a, b) ==
  makeExpr(op, IF TypeCode[a.type] >= TypeCode[b.type] THEN a.type ELSE b.type, <<a, b>>)

(* What a function returns, and the types of its parameters.               *)
arFuncInfo ==
  [random     |-> [type |-> "int",  args |-> <<"int", "int", "int">>],
   text       |-> [type |-> "char", args |-> <<"char", "int">>],
   date       |-> [type |-> "date", args |-> <<"char", "char", "int">>],
   dist       |-> [type |-> "char", args |-> <<"char", "shift", "shift">>],
   distmember |-> [type |-> "char", args |-> <<"char", "shift", "shift">>],
   distweight |-> [type |-> "int",  args |-> <<"char", "shift", "shift">>]]

MakeFunctionCall(op, args) == makeExpr(op, arFuncInfo[op].type, args)

(* list() and ulist(): how many values is one argument more.               *)
MakeListExpr(modifier, e, n) ==
  [e EXCEPT !.modifier = modifier, !.nValueCount = n, !.args = Append(@, MakeIntConstant(n))]

canCast(from, to) ==
  from \in CASE to = "int" -> {"keyword", "int", "char"}
             [] to = "char" -> {"char", "int", "keyword"}
             [] to = "date" -> {"date", "char"}
             [] to = "shift" -> DOMAIN TypeCode

(* A call as it was before list() added an argument to it.                 *)
Given(e) == IF e.modifier = "none" THEN e.args ELSE Front(e.args)

ValidateParams(e) ==
  LET wanted == arFuncInfo[e.op].args IN
  \/ Given(e) # <<>> /\ Given(e)[1].op = "replacement"
  \/ /\ Len(Given(e)) = Len(wanted)
     /\ \A i \in DOMAIN wanted : canCast(Given(e)[i].type, wanted[i])

RECURSIVE Accepted(_)
Accepted(e) ==
  /\ e.op \in DOMAIN arFuncInfo => ValidateParams(e)
  /\ \A i \in DOMAIN e.args : Accepted(e.args[i])

-----------------------------------------------------------------------------
Num(n) == [bUseInt |-> TRUE, nValue |-> n, pBuf |-> ""]
Str(s) == [bUseInt |-> FALSE, nValue |-> 0, pBuf |-> s]

(* An evaluation that ends well, and one that does not: a signal, a check  *)
(* that fails, or memory that nobody wrote.                                *)
Result(vs) == [ok |-> TRUE, values |-> vs]
Crash == [ok |-> FALSE, values |-> <<>>]

(* genrand_integer(), genrand_key(): a remainder; none of 0.  The range is *)
(* the numbers a range turned round comes to as well.                      *)
genrand_integer(min, max) ==
  LET n == max - min + 1 IN min .. min + (IF n < 0 THEN -n ELSE n) - 1

(* One of a set of values that may be drawn.                               *)
OneOf(values) == IF values = {} THEN {Crash} ELSE {Result(<<v>>) : v \in values}

ListOf(n, values) == IF values = {} THEN {Crash} ELSE {Result(l) : l \in [1 .. n -> values]}

(* makePermutation(), makeKeyPermutation(): n exchanges lead to any order. *)
Permutations_(n) == {p \in [1 .. n -> 1 .. n] : IsInjective(p)}

AsText(v) == IF v.bUseInt THEN ToString(v.nValue) ELSE v.pBuf

(* C divides towards zero.                                                 *)
CQuotient(a, b) ==
  LET Abs(n) == IF n < 0 THEN -n ELSE n
      q == Abs(a) \div Abs(b)
  IN  IF (a < 0) = (b < 0) THEN q ELSE -q

Remainder(a, b) == a - b * CQuotient(a, b)

EvalArithmetic(op, a, b) ==
  CASE op = "+" /\ a.bUseInt /\ b.bUseInt -> {Result(<<Num(a.nValue + b.nValue)>>)}
    [] op = "+" /\ ~(a.bUseInt /\ b.bUseInt) -> {Result(<<Str(AsText(a) \o AsText(b))>>)}
    [] op = "-" -> {Result(<<Num(a.nValue - b.nValue)>>)}
    [] op = "*" -> {Result(<<Num(a.nValue * b.nValue)>>)}
    [] op = "/" -> IF b.nValue = 0 THEN {Crash} ELSE {Result(<<Num(CQuotient(a.nValue, b.nValue))>>)}

Sum_(f, n) == FoldLeft(LAMBDA sum, i : sum + f[i], 0, [i \in 1 .. n |-> i])

(* The first entry that what was drawn does not exceed, the weights before *)
(* it taken off.                                                           *)
Drawn_(weights) ==
  {i \in DOMAIN weights :
     \E draw \in genrand_integer(1, Sum_(weights, Len(weights))) :
       /\ draw <= Sum_(weights, i)
       /\ \A j \in 1 .. i - 1 : draw > Sum_(weights, j)}

EvalTextExpr(args) ==
  OneOf({Str(args[i].s) : i \in Drawn_([i \in DOMAIN args |-> args[i].n])})

(* Wrong variant of EvalRandomExpr: entries of a permutation begin at 0.   *)
EvalRandomFromZero(modifier, p) ==
  LET n == p[2].nValue - p[1].nValue + 1 IN
  IF modifier # "ulist" THEN OneOf({Num(v) : v \in genrand_integer(p[1].nValue, p[2].nValue)})
  ELSE {Result([i \in 1 .. p[4].nValue |-> Num(perm[i] + p[1].nValue)]) : perm \in Permutations_(n)}

(* With the values of its parameters.                                      *)
EvalRandomExpr(modifier, p) ==
  LET nMin == p[1].nValue
      nMax == p[2].nValue
      n == nMax - nMin + 1
  IN  CASE modifier = "none" -> OneOf({Num(v) : v \in genrand_integer(nMin, nMax)})
        [] modifier = "list" ->
             ListOf(p[4].nValue, {Num(Remainder(v, n) + nMin) : v \in genrand_integer(nMin, nMax)})
        [] modifier = "ulist" ->
             IF p[4].nValue > n THEN {Crash}
             ELSE {Result([i \in 1 .. p[4].nValue |-> Num(Remainder(perm[i], n) + nMin)]) :
                     perm \in Permutations_(n)}

(* The different texts along a permutation, skipping those that are there. *)
Unique(rows, column, perm) ==
  FoldLeft(LAMBDA l, row : IF rows[row][column] \in ToSet(l) THEN l ELSE Append(l, rows[row][column]),
           <<>>, perm)

EvalDistExpr(op, modifier, p) ==
  LET rows == DistValues[p[1].pBuf]
      weights == DistWeights[p[1].pBuf]
      a == p[2].nValue
      b == p[3].nValue
      n == p[4].nValue
  IN  CASE op = "distmember" -> IF a \in DOMAIN rows THEN {Result(<<rows[a][b]>>)} ELSE {Crash}
        [] op = "distweight" ->
             IF a \in DOMAIN weights THEN {Result(<<Num(weights[a][b])>>)} ELSE {Crash}
        [] op = "dist" /\ modifier = "none" ->
             OneOf({rows[i][a] : i \in Drawn_([i \in DOMAIN weights |-> weights[i][b]])})
        [] op = "dist" /\ modifier = "list" ->
             ListOf(n, {rows[i][a] : i \in genrand_integer(1, Len(rows))})
        [] op = "dist" /\ modifier = "ulist" /\ rows[1][a].bUseInt ->
             IF n > Len(rows) THEN {Crash}
             ELSE {Result([i \in 1 .. n |-> rows[perm[i]][a]]) : perm \in Permutations_(Len(rows))}
        [] op = "dist" /\ modifier = "ulist" /\ ~rows[1][a].bUseInt ->
             {LET l == Unique(rows, a, perm)
              IN  IF n > Len(l) THEN Crash ELSE Result(SubSeq(l, 1, n)) :
                perm \in Permutations_(Len(rows))}

IsDate(s) == \E d \in DOMAIN DateText : DateText[d] = s
strtodt(s) == CHOOSE d \in DOMAIN DateText : DateText[d] = s

InYear(day) == ((day - 1) % YearLength) + 1

(* genrand_date() of DIST_SALES: a draw from the weights of all days but   *)
(* the last two, walked off again until less than nothing is left of it.   *)
(* The weights are those that begin with the day's number in its month.    *)
SaleDay(begin, end) ==
  LET Weight(k) == CalendarWeights[InYear(DayOfMonth[InYear(begin)] + k)]
      Walked(k) == Sum_([j \in 1 .. k |-> Weight(j - 1)], k)
      total == Walked(end - begin - 1)
      Stops(temp) == {k \in 1 .. end - begin + YearLength : Walked(k) > temp}
  IN  {begin + Min(Stops(temp)) : temp \in genrand_integer(1, total)}

(* A list of dates has at most as many as there are days: the buffers of   *)
(* the rest stay as they were reset, without a text.                       *)
DateList(n, days, texts) ==
  LET got == Max({0, Min({n, days})})
  IN  {Result([i \in 1 .. n |-> IF i <= got THEN l[i] ELSE Str("")]) : l \in [1 .. got -> texts]}

(* With genrand_date() of DIST_UNIFORM.  A ulist() takes the first day from*)
(* itself, and has no days.                                                *)
EvalDateExpr(modifier, p) ==
  LET begin == strtodt(p[1].pBuf)
      end == strtodt(p[2].pBuf)
      kind == p[3].pBuf
      TextOf_(days) == {Str(DateText[d]) : d \in days}
  IN  CASE ~(IsDate(p[1].pBuf) /\ IsDate(p[2].pBuf)) -> {Crash}
        [] modifier = "none" /\ kind = "sales" ->
             IF end - begin < 2 THEN {Crash} ELSE OneOf(TextOf_(SaleDay(begin, end)))
        [] modifier = "none" /\ kind = "uniform" ->
             OneOf(TextOf_({begin + temp : temp \in genrand_integer(0, end - begin)}))
        [] modifier = "list" ->
             DateList(p[4].nValue, end - begin,
                      TextOf_({begin + j - 1 : j \in genrand_integer(1, end - begin)}))
        [] modifier = "ulist" -> DateList(p[4].nValue, begin - begin, {})

(* EvalExpr(), with the values of the substitutions it refers to at hand.  *)
(* A parameter must not have a modifier.                                   *)
RECURSIVE Evaluations(_, _)
Params(e, at) ==
  LET results == [i \in DOMAIN e.args |-> Evaluations(e.args[i], at)] IN
  {p \in [DOMAIN e.args -> UNION {results[i] : i \in DOMAIN e.args}] :
     \A i \in DOMAIN e.args : p[i] \in results[i]}

Evaluations(e, at) ==
  CASE e.op = "const" ->
         {Result(<<[bUseInt |-> e.type # "char", nValue |-> e.n, pBuf |-> e.s]>>)}
    [] Len(e.args) > MAX_ARGS -> {Crash}
    [] e.op = "reference" ->
         IF e.nSubElement > Len(at[e.s]) THEN {Crash} ELSE {Result(<<at[e.s][e.nSubElement]>>)}
    [] e.op = "text" -> EvalTextExpr(e.args)
    [] OTHER ->
         UNION {IF \E i \in DOMAIN p : ~p[i].ok \/ e.args[i].modifier # "none" THEN {Crash}
                ELSE LET v == [i \in DOMAIN p |-> p[i].values[1]] IN
                     CASE e.op \in {"+", "-", "*", "/"} -> EvalArithmetic(e.op, v[1], v[2])
                       [] e.op = "random" -> EvalRandomExpr(e.modifier, v)
                       [] e.op = "date" -> EvalDateExpr(e.modifier, v)
                       [] OTHER -> EvalDistExpr(e.op, e.modifier, v) :
                p \in Params(e, at)}

RECURSIVE RefersTo(_)
RefersTo(e) ==
  (IF e.op = "reference" THEN {e.s} ELSE {}) \union UNION {RefersTo(e.args[i]) : i \in DOMAIN e.args}

-----------------------------------------------------------------------------
ExprInit ==
  /\ template \in Defined /\ estage = "parse"
  /\ parsed = <<>> /\ known = <<>>

(* A define statement: defineSubstitution() of what was built and checked. *)
ParseDefine ==
  /\ estage = "parse" /\ Len(parsed) < Len(template)
  /\ LET next == template[Len(parsed) + 1] IN
     IF Accepted(next.value) THEN parsed' = Append(parsed, next) /\ UNCHANGED estage
     ELSE estage' = "refused" /\ UNCHANGED parsed
  /\ UNCHANGED <<template, known>>

Parsed ==
  /\ estage = "parse" /\ Len(parsed) = Len(template) /\ estage' = "evaluate"
  /\ UNCHANGED <<template, parsed, known>>

(* What an expression refers to has its values first.  A name that is not  *)
(* defined anywhere ends the program.                                      *)
EvalSubstitution ==
  /\ estage = "evaluate"
  /\ \E i \in DOMAIN parsed :
       LET e == parsed[i].value
           name == parsed[i].name
       IN  /\ name \notin DOMAIN known
           /\ \/ /\ RefersTo(e) \subseteq DOMAIN known
                 /\ \E o \in Evaluations(e, known) :
                      IF o.ok THEN known' = name :> o.values @@ known /\ UNCHANGED estage
                      ELSE estage' = "stopped" /\ UNCHANGED known
              \/ /\ RefersTo(e) \ {parsed[j].name : j \in DOMAIN parsed} # {}
                 /\ estage' = "stopped" /\ UNCHANGED known
  /\ UNCHANGED <<template, parsed>>

WriteValues ==
  /\ estage = "evaluate" /\ DOMAIN known = {parsed[i].name : i \in DOMAIN parsed}
  /\ estage' = "written" /\ UNCHANGED <<template, parsed, known>>

ExprNext == ParseDefine \/ Parsed \/ EvalSubstitution \/ WriteValues

ExprSpec == ExprInit /\ [][ExprNext]_exprVars

-----------------------------------------------------------------------------
(* What an expression may come to, as its author meant it, when its        *)
(* parameters are fixed.                                                   *)
Fixed(e, at) == (CHOOSE o \in Evaluations(e, at) : TRUE).values[1]

Meant(e, at) ==
  LET p == [i \in DOMAIN e.args |-> Fixed(e.args[i], at)]
      rows == DOMAIN DistValues[p[1].pBuf]
      Positive(i) == DistWeights[p[1].pBuf][i][p[3].nValue] > 0
  IN  CASE e.op = "random" -> {Num(v) : v \in p[1].nValue .. p[2].nValue}
        [] e.op = "text" -> {Str(e.args[i].s) : i \in {j \in DOMAIN e.args : e.args[j].n > 0}}
        [] e.op = "date" -> {Str(DateText[d]) : d \in strtodt(p[1].pBuf) .. strtodt(p[2].pBuf)}
        [] e.op = "dist" -> {DistValues[p[1].pBuf][i][p[2].nValue] :
                               i \in {j \in rows : e.modifier # "none" \/ Positive(j)}}

(* The values of a list that are there: of dates some may be empty texts.  *)
Filled(e, values) == IF e.op = "date" THEN SelectSeq(values, LAMBDA v : v # Str("")) ELSE values

(* A query gets what its template asks for: numbers and days between the   *)
(* two bounds, both included, texts and rows that have a weight, of a      *)
(* ulist() no two the same, and as many values as a list is said to have,  *)
(* or, of a list of dates, as its range has days, the last not counted.    *)
(* And whatever the template allows can be drawn: no number, text or row   *)
(* is left out at either end.  Dates fall short of that twice: one of the  *)
(* sales calendar is never the first of its range, and of a ulist(), which *)
(* eval.c:586 says returns "a unique set of values", there is none: its    *)
(* range is counted from the first day to the first day.                   *)
ValuesMeant ==
  \A i \in DOMAIN parsed :
    LET e == parsed[i].value
        name == parsed[i].name
    IN  name \in DOMAIN known /\ e.op \in {"random", "text", "date", "dist"} =>
          LET values == Filled(e, known[name]) IN
          /\ ToSet(values) \subseteq Meant(e, known)
          /\ e.modifier = "ulist" => IsInjective(values)
          /\ e.op # "date" \/ e.modifier = "none" => Len(values) = e.nValueCount
          /\ e.op = "date" /\ e.modifier = "list" =>
               Len(values) = Max({0, Min({e.nValueCount, Cardinality(Meant(e, known)) - 1})})
          /\ e.op = "date" /\ e.modifier = "ulist" => values = <<>>
          /\ e.op # "date" =>
               \A v \in Meant(e, known) : \E o \in Evaluations(e, known) : o.ok /\ v \in ToSet(o.values)

=============================================================================
