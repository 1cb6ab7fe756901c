------------------------------- MODULE MCParts -------------------------------
(***************************************************************************)
(* Nineteen parts of the system that share no state, each an instance of   *)
(* its own, in one run: the part is chosen at the start and the others     *)
(* stay as they are.                                                       *)
(***************************************************************************)
EXTENDS MCIndexSetup, Measurement, FactKeys, RowDraws, Calendar, QueryGen, MCGenRand, FlatFiles, Options,
  Distributions, UpdateSet, MCExpressions, Templates, Pricing, MCJoins, Validation, SourceText,
  DimensionCopies, TLC

CONSTANTS q3, q12, tier45, smoke,
          year, states, stateA, years, yearB, colors, counties

MCQueriesOf == tier45 :> <<q3, q12>> @@ smoke :> <<q3>>

\* As in query_templates: a reference before and after what it refers to, a
\* list of texts of which some rows have the same, and a list too long.
MCSubstitutionsOf == <<<<stateA, states, year>>, <<years, yearB>>, <<colors, counties>>>>

MCDefinition ==
  stateA :> [kind |-> "member", of |-> states, element |-> 2]
    @@ states :> [kind |-> "ulist", n |-> 3, m |-> 2]
    @@ year :> [kind |-> "random", n |-> 2]
    @@ years :> [kind |-> "random", n |-> 2]
    @@ yearB :> [kind |-> "member", of |-> years, element |-> 1]
    @@ colors :> [kind |-> "texts", m |-> 2]
    @@ counties :> [kind |-> "ulist", n |-> 2, m |-> 3]

MCTextOf == <<"red", "red", "blue">>
MCShuffles == <<2, 3, 2>>

\* All bits, a few, and the first ten.
MCDrawn == {0 .. 30, {2, 16}, 0 .. 9}

\* Bare and valued options, some twice, abbreviated or beginning two names;
\* a file that names another one, and one that names itself.
MCItems ==
  {<<"-DIR", "x">>, <<"-DIR", "y">>, <<"-FORCE">>, <<"-FORCE", "N">>, <<"-FO", "Y">>,
   <<"-SC", "100">>, <<"-SCALE", "1">>, <<"-S", "1">>, <<"-PARAMS", "f">>, <<"-PARAMS", "g">>,
   <<"-PARAL", "4">>, <<"-CHILD", "0">>, <<"-TAB", "web">>, <<"-TABLE", "web_sales">>}

MCFiles ==
  [f |-> <<<<"DIR", "z">>, <<"PARAMS", "h">>, <<"FORCE", "Y">>, <<"SCALE", "10">>, <<"DIR", "x">>>>,
   g |-> <<<<"FORCE", "">>, <<"SCALE", "1000">>, <<"PARAMS", "g">>, <<"NONE", "1">>>>,
   h |-> <<<<"FORCE", "N">>, <<"PARALLEL", "2">>, <<"SCALE", "100">>>>]

MCTableNames == <<"web_page", "web_sales", "web_site">>

MCLength == [short |-> 1, long |-> 3]
MCShapes == {<<1, 1>>, <<2, 1>>, <<1, 2>>}
MCAliases == <<"a", "bb", "c">>

\* Files as in query_templates, one with a second statement, one that
\* includes another, one without a limit and one that is wrong.
MCFileItems ==
  LET Define(n, parts, list) ==
        [kind |-> "define", name |-> n, parts |-> parts, list |-> list, constant |-> FALSE, text |-> ""]
      Constant(n, text) == [Define(n, 1, FALSE) EXCEPT !.constant = TRUE, !.text = text]
      Limit == [kind |-> "limit", n |-> 100]
      Sql(text) == [kind |-> "sql", text |-> text]
      Ref(n, i) == [kind |-> "reference", name |-> n, suffix |-> i]
      End == [kind |-> "end"]
  IN  [dialect |-> <<Constant("__LIMITA", ""), Constant("__LIMITC", "limit %d"),
                     Constant("_BEGIN", "-- start"), Constant("_END", "-- end")>>,
       one |-> <<Define("year", 1, FALSE), Define("color", 2, TRUE), Limit, Ref("_LIMITA", 0),
                 Sql("select"), Ref("color", 1), Ref("color", 2), Sql("from"), Ref("year", 0),
                 Ref("_LIMITC", 0), End>>,
       two |-> <<Limit, [kind |-> "include", file |-> "part"], Sql("with"), Ref("year", 0), End,
                 Sql("select"), Ref("state", 2), Ref("_QUERY", 0), Sql("order"), Ref("_LIMITC", 0), End>>,
       part |-> <<Define("state", 2, TRUE), Define("year", 2, TRUE), Define("year", 1, FALSE)>>,
       nolimit |-> <<Define("year", 1, FALSE), Sql("select"), Ref("year", 0), Ref("_LIMITC", 0), End>>,
       short |-> <<Define("color", 2, TRUE), Limit, Ref("color", 1), End>>,
       unknown |-> <<Sql("select"), Ref("state", 0), End>>]
MCInputs == {<<"one", "two">>, <<"-- all", "two", "", "one">>, <<"short">>, <<"nolimit">>, <<"unknown">>}
MCSorted ==
  <<"__LIMITA", "__LIMITC", "_BEGIN", "_END", "_LIMIT", "_LIMITA", "_LIMITB", "_LIMITC", "_QUERY",
    "color", "state", "year">>

\* Orders of one to three lines.
MCLinesDrawn == [p \in 1 .. 12 |-> ((2 * p) % 3) + 1]

\* Statements of tpcds.dst and definitions, SQL and references of templates.
MCDstStatements ==
  {<<"create", "d", ";">>, <<"add", "(", "\\;", ":", "2", ")", ";">>, <<"add", "(", "x-y", ":", "1", ")", ";">>}
MCTemplateStatements ==
  {<<"define", "YEAR", "=", "random", "(", "[", "a", ".", "1", "]", ",", "x", ")", ";">>,
   <<"select", "a", "[", "YEAR", ".", "1", "]", ",", "x", "from", "define", ";">>,
   <<"[", "YEAR", "]", "select", "1", "[", "YEAR", "]", ";">>}

\* About the radices of the demographics, and the ends of ranges of zips.
MCDemoKeys == {1, 2, 3, 11, 71, 1401, 5601, 39201, 274401, 960400, DemoRows}
MCZipRows == {1, 600, 601, 602, 10000, 10001, 34096, 58500, 58501, 99999, 100000}
MCCityHashes == {1, 599, 600, 8499, 8500, 9399, 9400, 9981}

VARIABLE part

Parts == {"indexes", "measurement", "revisions", "keys", "draws", "calendar", "queries", "streams",
          "files", "options", "distributions", "refresh", "expressions", "templates", "prices", "joins",
          "validation", "source", "copies"}

\* A part that is not chosen has one initial state, given before its own Init.
Init ==
  /\ part \in Parts
  /\ part # "revisions" => dim = [table |-> 1, rows |-> 1]
  /\ part # "keys" => fact = "sales"
  /\ part # "calendar" => walk = "update"
  /\ part # "queries" => qualify = FALSE
  /\ part # "streams" => initial = 0
  /\ part # "files" => root = "reason"
  /\ part # "options" => command = <<>>
  /\ part # "refresh" => source = "orders" /\ dayWeights = [day \in Dates |-> 0]
  /\ part # "expressions" => template = <<>>
  /\ part # "templates" => input = <<"one", "two">>
  /\ part # "validation" => vtable = "generic"
  /\ part # "source" => grammar = "distcomp"
  /\ part # "copies" => copyOf = "zip_to_gmt" /\ dimRows = 3
  /\ IndexInit /\ MeasureInit /\ RevInit /\ KeyInit /\ DrawInit
  /\ CalendarInit /\ QueryInit /\ RandInit /\ FileInit /\ OptionInit /\ DistInit /\ UpdateInit
  /\ ExprInit /\ TemplateInit /\ PricingInit /\ JoinInit /\ ValidInit /\ SourceInit
  /\ CopyInit

allVars ==
  <<indexVars, measureVars, revVars, keyVars, drawVars, calendarVars, queryVars, randVars, fileVars,
    optionVars, distVars, updateVars, exprVars, templateVars, pricingVars, joinVars,
    validVars, sourceVars, copyVars, part>>

\* Only part p moves.
Only(p) ==
  /\ part = p /\ UNCHANGED part
  /\ IF p = "indexes" THEN IndexNext ELSE UNCHANGED indexVars
  /\ IF p = "measurement" THEN MeasureNext ELSE UNCHANGED measureVars
  /\ IF p = "revisions" THEN RevNext ELSE UNCHANGED revVars
  /\ IF p = "keys" THEN KeyNext ELSE UNCHANGED keyVars
  /\ IF p = "draws" THEN DrawNext ELSE UNCHANGED drawVars
  /\ IF p = "calendar" THEN CalendarNext ELSE UNCHANGED calendarVars
  /\ IF p = "queries" THEN QueryNext ELSE UNCHANGED queryVars
  /\ IF p = "streams" THEN RandNext ELSE UNCHANGED randVars
  /\ IF p = "files" THEN FileNext ELSE UNCHANGED fileVars
  /\ IF p = "options" THEN OptionNext ELSE UNCHANGED optionVars
  /\ IF p = "distributions" THEN DistNext ELSE UNCHANGED distVars
  /\ IF p = "refresh" THEN UpdateNext ELSE UNCHANGED updateVars
  /\ IF p = "expressions" THEN ExprNext ELSE UNCHANGED exprVars
  /\ IF p = "templates" THEN TemplateNext ELSE UNCHANGED templateVars
  /\ IF p = "prices" THEN PricingNext ELSE UNCHANGED pricingVars
  /\ IF p = "joins" THEN JoinNext ELSE UNCHANGED joinVars
  /\ IF p = "validation" THEN ValidNext ELSE UNCHANGED validVars
  /\ IF p = "source" THEN SourceNext ELSE UNCHANGED sourceVars
  /\ IF p = "copies" THEN CopyNext ELSE UNCHANGED copyVars

\* dsdgen and dsqgen come to their end.
Ended ==
  /\ \/ part = "calendar" /\ crow = LastRow
     \/ part = "queries" /\ turn = 0 /\ nStream = STREAMS /\ nQuery = N /\ nCount = COUNT
     \/ part = "files" /\ finished
     \/ part = "options" /\ ostage # "options"
     \/ part = "distributions" /\ ~Parsing
     \/ part = "refresh" /\ Built
     \/ part = "expressions" /\ estage \in {"written", "refused", "stopped"}
     \/ part = "templates" /\ (tstage = "stopped" \/ (tstage = "next" /\ nQueryCount > MaxQueries))
     \/ part = "prices" /\ refund # <<>>
     \/ part = "joins" /\ (jback # <<>> \/ (Refresh /\ jline # <<>> /\ jline.number = LinesOf[jorder.channel]))
     \/ part = "validation" /\ vleft = 0
     \/ part = "source" /\ AllRead
     \/ part = "copies" /\ Len(copied) = CopyRows
  /\ UNCHANGED allVars

Next == (\E p \in Parts : Only(p)) \/ Ended

Spec == Init /\ [][Next]_allVars

=============================================================================
