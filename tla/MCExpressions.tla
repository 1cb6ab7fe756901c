---------------------------- MODULE MCExpressions ----------------------------
(***************************************************************************)
(* Expressions with templates of a few substitutions, two distributions    *)
(* and a calendar of two years of four days.                               *)
(***************************************************************************)
EXTENDS Expressions

\* The definitions of query_templates, and what goes wrong.
MCDefined ==
  LET K(n) == MakeIntConstant(n)
      S(s) == MakeStringConstant(s)
      W(s) == MakeKeyword(s)
      F(f, parameters) == MakeFunctionCall(f, parameters)
      Ref(s, i) == MakeVariableReference(s, i)
      Random(a, b) == F("random", <<a, b, W("uniform")>>)
      Plus(a, b) == makeArithmeticExpr("+", a, b)
      D(n, v) == [name |-> n, value |-> v]
  IN  {<<>>,
      <<D("year", Random(K(1), K(2))),
          D("from", F("date", <<Plus(Ref("year", 0), S("-a")), Plus(Ref("year", 0), S("-d")), W("sales")>>)),
          D("to", F("date", <<Plus(Ref("year", 0), S("-b")), S("2-d"), W("uniform")>>))>>,
        <<D("days", MakeListExpr("list", F("date", <<S("1-b"), S("2-a"), W("uniform")>>), 2)),
          D("long", MakeListExpr("list", F("date", <<S("1-b"), S("1-d"), W("uniform")>>), 3)),
          D("unique", MakeListExpr("ulist", F("date", <<S("1-a"), S("1-d"), W("uniform")>>), 2))>>,
        <<D("short", F("date", <<S("1-b"), S("1-c"), W("sales")>>))>>,
        <<D("text", F("text", <<MakeReplacement("x", 0), MakeReplacement("y", 2), MakeReplacement("z", 1)>>)),
          D("row", Random(K(1), K(3))),
          D("value", F("dist", <<F("distmember", <<S("names"), Ref("row", 1), K(1)>>), K(1), K(1)>>)),
          D("size", F("dist", <<S("d"), K(2), K(2)>>))>>,
        <<D("list", MakeListExpr("ulist", Random(K(2), K(4)), 3)),
          D("next", Plus(Ref("list", 3), K(11))),
          D("about", makeArithmeticExpr("/", makeArithmeticExpr("-", Ref("list", 1), K(7)), Ref("list", 2)))>>,
        <<D("texts", MakeListExpr("ulist", F("dist", <<S("d"), K(1), K(1)>>), 2)),
          D("sizes", MakeListExpr("ulist", F("dist", <<S("d"), K(2), K(1)>>), 3)),
          D("any", MakeListExpr("list", F("dist", <<S("d"), K(1), K(1)>>), 2)),
          D("numbers", MakeListExpr("list", Random(K(1), K(3)), 2)),
          D("weight", F("distweight", <<S("d"), K(2), K(1)>>))>>,
        <<D("signs", Random(K(-1), makeArithmeticExpr("*", K(1), K(2)))), D("none", Random(K(2), K(1)))>>,
        <<D("many", MakeListExpr("ulist", F("dist", <<S("d"), K(1), K(1)>>), 3))>>,
        <<D("beyond", F("distmember", <<S("d"), K(4), K(1)>>))>>,
        <<D("unknown", Ref("nobody", 1))>>,
        <<D("two", F("random", <<K(1), K(2)>>))>>,
        <<D("dates", F("date", <<F("date", <<S("1-a"), S("1-d"), W("sales")>>), S("1-d"), W("sales")>>))>>}

MCDistValues ==
  [d |-> <<<<Str("red"), Num(7)>>, <<Str("blue"), Num(8)>>, <<Str("red"), Num(9)>>>>,
   names |-> <<<<Str("d")>>, <<Str("names")>>, <<Str("d")>>>>]
MCDistWeights == [d |-> <<<<2, 0>>, <<1, 3>>, <<0, 1>>>>, names |-> <<<<1>>, <<0>>, <<1>>>>]

\* Two years of two months of two days.
MCCalendarWeights == <<2, 1, 3, 2>>
MCDayOfMonth == <<1, 2, 1, 2>>
MCDateText == <<"1-a", "1-b", "1-c", "1-d", "2-a", "2-b", "2-c", "2-d">>

=============================================================================
