------------------------------ MODULE Templates ------------------------------
(***************************************************************************)
(* dsqgen: what becomes of the text of a template.  Its files are parsed,  *)
(* the dialect before the query, into a list of substitutions and a list   *)
(* of segments: a text, what is to follow it, and whether the statement    *)
(* ends there.  A query is written by giving every substitution of its     *)
(* template a value, along the list, and printing the segments.            *)
(*                                                                         *)
(* What an expression evaluates to is module Expressions' matter: here it  *)
(* is a text that names the substitution, its element and the query.       *)
(* Names have no digits in them and references no number of a use, as in   *)
(* query_templates.                                                        *)
(***************************************************************************)
EXTENDS Integers, SequencesExt, TLC

CONSTANTS
  FileItems,        \* file -> the items in it, see TemplatesAssumption
  Dialect,      \* the file of the dialect
  Inputs,       \* the lines the file INPUT may have: query templates, and others
  Sorted,       \* all names, as strcasecmp() orders them
  MaxQueries    \* how many queries are written, at most

ASSUME TemplatesAssumption ==
  \A f \in DOMAIN FileItems : \A i \in DOMAIN FileItems[f] :
    LET item == FileItems[f][i] IN
    \/ item.kind = "define" /\ item.parts \in Nat \ {0} /\ {item.list, item.constant} \subseteq BOOLEAN
    \/ item.kind = "limit" /\ item.n \in Nat
    \/ item.kind = "sql" /\ item.text # ""
    \/ item.kind = "reference" /\ item.suffix \in Nat
    \/ item.kind = "include" /\ item.file \in DOMAIN FileItems
    \/ item.kind = "end"

VARIABLES
  input,          \* the lines of INPUT
  TemplateList,   \* the templates that were parsed
  pCurrentQuery,  \* the template being parsed, or written
  fileStack,      \* pCurrentFile: the files being read, the innermost first
  theLimit,       \* what g_Template's _LIMIT says
  arValues,       \* the values of the substitutions
  subTurn,           \* GenerateQuery(): the substitution whose turn it is
  nQueryCount,
  output,        \* what was output of this query
  tstage          \* "next", "parse", "evaluate" or "stopped"

templateVars ==
  <<input, TemplateList, pCurrentQuery, fileStack, theLimit, arValues, subTurn, nQueryCount, output,
    tstage>>

-----------------------------------------------------------------------------
(* A substitution; home is the template it was defined in, 0 for all.      *)
Substitution(item, home) ==
  [name |-> item.name, home |-> home, nSubParts |-> item.parts, list |-> item.list,
   constant |-> item.constant, text |-> item.text]

Keywords == {"_QUERY", "_STREAM", "_TEMPLATE", "_SEED", "_LIMIT", "_LIMITA", "_LIMITB", "_LIMITC"}

(* InitKeywords(): g_Template->SubstitutionList, one for all templates.    *)
Global(name) ==
  [name |-> name, home |-> 0, nSubParts |-> 1, list |-> FALSE, constant |-> FALSE, text |-> ""]

Segment(text) == [text |-> text, pSubstitution |-> <<>>, nSubUse |-> 0, eos |-> FALSE]

EmptyTemplate(file) ==
  [file |-> file, SubstitutionList |-> <<>>, SegmentList |-> <<>>, init |-> FALSE, own |-> 0]

Before(a, b) ==
  \E i, j \in DOMAIN Sorted : i < j /\ Sorted[i] = a /\ Sorted[j] = b

(* addList() of a list that is said to be sorted: a name that does not     *)
(* come after the first one's becomes the first, any other the second.     *)
addSorted(list, pSub) ==
  IF list # <<>> /\ Before(list[1].name, pSub.name)
  THEN <<list[1], pSub>> \o Tail(list) ELSE <<pSub>> \o list

InList(list, name) == \E i \in DOMAIN list : list[i].name = name
findList(list, name) == SelectSeq(list, LAMBDA pSub : pSub.name = name)[1]

Known(t, name) == InList(t.SubstitutionList, name) \/ name \in Keywords

(* findSubstitution(): a global one is added to the template's own.        *)
WithGlobal(t, name) ==
  IF InList(t.SubstitutionList, name) \/ name \notin Keywords THEN t
  ELSE [t EXCEPT !.SubstitutionList = addSorted(@, Global(name))]

findSubstitution(t, name) == findList(WithGlobal(t, name).SubstitutionList, name)

AddQuerySegment(t, text) == [t EXCEPT !.SegmentList = Append(@, Segment(text))]

(* Wrong variant of AddQuerySubstitution: also of a list, elements begin   *)
(* at 0.                                                                   *)
AddQuerySubstitutionFrom0(t, name, suffix) ==
  LET list == t.SegmentList
      u == IF list = <<>> \/ Last(list).pSubstitution # <<>> THEN AddQuerySegment(t, "") ELSE t
  IN  [WithGlobal(u, name) EXCEPT
         !.SegmentList[Len(u.SegmentList)].pSubstitution = <<findSubstitution(u, name)>>,
         !.SegmentList[Len(u.SegmentList)].nSubUse = suffix]

(* AddQuerySubstitution(): to the last segment, or an empty one if that    *)
(* has one.                                                                *)
AddQuerySubstitution(t, name, suffix) ==
  LET list == t.SegmentList
      u == IF list = <<>> \/ Last(list).pSubstitution # <<>> THEN AddQuerySegment(t, "") ELSE t
      pSub == findSubstitution(u, name)
  IN  [WithGlobal(u, name) EXCEPT
         !.SegmentList[Len(u.SegmentList)].pSubstitution = <<pSub>>,
         !.SegmentList[Len(u.SegmentList)].nSubUse = IF pSub.list THEN suffix - 1 ELSE suffix]

-----------------------------------------------------------------------------
TemplateInit ==
  /\ input \in Inputs
  /\ TemplateList = <<>> /\ pCurrentQuery = EmptyTemplate(Dialect) /\ fileStack = <<>>
  /\ theLimit = "0" /\ arValues = <<>> /\ subTurn = 0 /\ nQueryCount = 1 /\ output = <<>>
  /\ tstage = "next"

include_file(file) == <<[file |-> file, rest |-> FileItems[file]]>>

(* The files that INPUT lists: comments and empty lines do not count.      *)
parseQueries ==
  SelectSeq(input, LAMBDA line : line # "" /\ ~(Len(line) >= 2 /\ SubSeq(line, 1, 2) = "--"))

(* parseTemplate(): the dialect is put upon the query.                     *)
BeginTemplate ==
  /\ tstage = "next" /\ Len(TemplateList) < Len(parseQueries)
  /\ LET file == parseQueries[Len(TemplateList) + 1] IN
     /\ pCurrentQuery' = [EmptyTemplate(file) EXCEPT !.own = Len(TemplateList) + 1]
     /\ fileStack' = include_file(Dialect) \o include_file(file)
  /\ tstage' = "parse"
  /\ UNCHANGED <<input, TemplateList, theLimit, arValues, subTurn, nQueryCount, output>>

item == fileStack[1].rest[1]

(* The next item of the innermost file was read.                           *)
Read(file) == fileStack' = file \o <<[fileStack[1] EXCEPT !.rest = Tail(@)]>> \o Tail(fileStack)

Reading == tstage = "parse" /\ fileStack # <<>> /\ fileStack[1].rest # <<>>

DefineStatement ==
  /\ Reading /\ Read(<<>>)
  /\ \/ /\ item.kind = "define"
        /\ pCurrentQuery' = [pCurrentQuery EXCEPT
             !.SubstitutionList = addSorted(@, Substitution(item, pCurrentQuery.own))]
        /\ UNCHANGED theLimit
     \/ /\ item.kind = "limit"
        /\ pCurrentQuery' = WithGlobal(pCurrentQuery, "_LIMIT") /\ theLimit' = ToString(item.n)
  /\ UNCHANGED <<input, TemplateList, arValues, subTurn, nQueryCount, output, tstage>>

IncludeStatement ==
  /\ Reading /\ item.kind = "include" /\ Read(include_file(item.file))
  /\ UNCHANGED <<input, TemplateList, pCurrentQuery, theLimit, arValues, subTurn, nQueryCount, output,
                 tstage>>

(* A piece of a query: some text, a reference, or the semicolon.           *)
QueryStatement ==
  /\ Reading
  /\ \/ /\ item.kind = "sql" /\ Read(<<>>) /\ UNCHANGED tstage
        /\ pCurrentQuery' = AddQuerySegment(pCurrentQuery, item.text)
     \/ /\ item.kind = "reference" /\ Known(pCurrentQuery, item.name)
        /\ Read(<<>>) /\ UNCHANGED tstage
        /\ pCurrentQuery' = AddQuerySubstitution(pCurrentQuery, item.name, item.suffix)
     \/ /\ item.kind = "reference" /\ ~Known(pCurrentQuery, item.name)
        /\ tstage' = "stopped" /\ UNCHANGED <<pCurrentQuery, fileStack>>
     \/ /\ item.kind = "end" /\ Read(<<>>) /\ UNCHANGED tstage
        /\ pCurrentQuery' =
             [pCurrentQuery EXCEPT !.SegmentList[Len(pCurrentQuery.SegmentList)].eos = TRUE]
  /\ UNCHANGED <<input, TemplateList, theLimit, arValues, subTurn, nQueryCount, output>>

(* yywrap(): back to the file that included this one.                      *)
EndOfFile ==
  /\ tstage = "parse" /\ fileStack # <<>> /\ fileStack[1].rest = <<>>
  /\ fileStack' = Tail(fileStack)
  /\ UNCHANGED <<input, TemplateList, pCurrentQuery, theLimit, arValues, subTurn, nQueryCount, output,
                 tstage>>

(* After the last statement [_END]; then, in front of all, [_BEGIN], which *)
(* need not be defined.                                                    *)
EndTemplate ==
  /\ tstage = "parse" /\ fileStack = <<>>
  /\ IF ~Known(pCurrentQuery, "_END") THEN tstage' = "stopped" /\ UNCHANGED TemplateList
     ELSE LET t == AddQuerySegment(
                     AddQuerySubstitution(AddQuerySegment(pCurrentQuery, "\n"), "_END", 0), "\n")
              begin == IF InList(t.SubstitutionList, "_BEGIN")
                       THEN <<findList(t.SubstitutionList, "_BEGIN")>> ELSE <<>>
          IN  /\ TemplateList' = Append(TemplateList, [t EXCEPT
                   !.SegmentList = <<[Segment("") EXCEPT !.pSubstitution = begin],
                                     Segment("\n")>> \o @])
              /\ tstage' = "next"
  /\ UNCHANGED <<input, pCurrentQuery, fileStack, theLimit, arValues, subTurn, nQueryCount, output>>

-----------------------------------------------------------------------------
(* nUse is 1: the elements, one of what is no list, and no more.           *)
Buffers(pSub) == [i \in 1 .. pSub.nSubParts |-> ""]

CurrentTemplate == TemplateList[pCurrentQuery.own]

(* GenerateQuery() of any template: buffers, when it is its first time.    *)
BeginQuery ==
  /\ tstage = "next" /\ Len(TemplateList) = Len(parseQueries) /\ nQueryCount <= MaxQueries
  /\ \E n \in DOMAIN TemplateList :
       LET t == TemplateList[n] IN
       /\ pCurrentQuery' = t
       /\ TemplateList' = [TemplateList EXCEPT ![n].init = TRUE]
       /\ arValues' = IF t.init THEN arValues
                      ELSE [pSub \in ToSet(t.SubstitutionList) |-> Buffers(pSub)] @@ arValues
  /\ subTurn' = 1 /\ output' = <<>> /\ tstage' = "evaluate"
  /\ UNCHANGED <<input, fileStack, theLimit, nQueryCount>>

Value(name, i, query) == name \o "." \o ToString(i) \o "#" \o ToString(query)

(* EvalKeywordExpr(): the text of __LIMITC, with the limit in it.          *)
LimitText(text) == IF text = "limit %d" THEN "limit " \o theLimit ELSE text

LimitName(name) == CASE name = "_LIMITA" -> "__LIMITA" [] name = "_LIMITB" -> "__LIMITB"
                     [] name = "_LIMITC" -> "__LIMITC"

Evaluated(t, pSub) ==
  [i \in 1 .. pSub.nSubParts |->
     IF pSub.constant THEN pSub.text
     ELSE IF pSub.name \in {"_LIMITA", "_LIMITB", "_LIMITC"}
     THEN LimitText(findList(t.SubstitutionList, LimitName(pSub.name)).text)
     ELSE IF pSub.name = "_LIMIT" THEN theLimit
     ELSE Value(pSub.name, i, nQueryCount)]

(* The substitution whose turn it is gets its value.  One that needs the   *)
(* limit looks it up, which puts it into the list, without a buffer, if it *)
(* was not there.                                                          *)
EvaluateNext ==
  /\ tstage = "evaluate" /\ subTurn <= Len(CurrentTemplate.SubstitutionList)
  /\ LET pSub == CurrentTemplate.SubstitutionList[subTurn]
         limits == pSub.name \in {"_LIMITA", "_LIMITB", "_LIMITC"}
         t == IF limits THEN WithGlobal(CurrentTemplate, "_LIMIT") ELSE CurrentTemplate
     IN  IF pSub \notin DOMAIN arValues \/ (limits /\ ~InList(t.SubstitutionList, LimitName(pSub.name)))
         THEN tstage' = "stopped" /\ UNCHANGED <<TemplateList, arValues, subTurn>>
         ELSE /\ TemplateList' = [TemplateList EXCEPT ![t.own] = t]
              /\ arValues' = [arValues EXCEPT ![pSub] = Evaluated(t, pSub)]
              /\ subTurn' = 1 + CHOOSE i \in subTurn .. subTurn + 1 : t.SubstitutionList[i] = pSub
              /\ UNCHANGED tstage
  /\ UNCHANGED <<input, pCurrentQuery, fileStack, theLimit, nQueryCount, output>>

(* findValue(): memory beyond the elements is anything.                    *)
findValue(segment) ==
  LET pSub == segment.pSubstitution[1] IN
  IF segment.nSubUse \in 0 .. pSub.nSubParts - 1 THEN arValues[pSub][segment.nSubUse + 1]
  ELSE "memory"

PrintQuery ==
  /\ tstage = "evaluate" /\ subTurn > Len(CurrentTemplate.SubstitutionList)
  /\ output' = FoldLeft(LAMBDA out, segment :
       out \o <<segment.text>>
           \o (IF segment.pSubstitution = <<>> THEN <<>> ELSE <<findValue(segment)>>)
           \o (IF segment.eos THEN <<";">> ELSE <<>>), <<>>, CurrentTemplate.SegmentList)
  /\ nQueryCount' = nQueryCount + 1 /\ tstage' = "next"
  /\ UNCHANGED <<input, TemplateList, pCurrentQuery, fileStack, theLimit, arValues, subTurn>>

TemplateNext ==
  \/ BeginTemplate \/ DefineStatement \/ IncludeStatement \/ QueryStatement \/ EndOfFile
  \/ EndTemplate
  \/ BeginQuery \/ EvaluateNext \/ PrintQuery

TemplateSpec == TemplateInit /\ [][TemplateNext]_templateVars

-----------------------------------------------------------------------------
(* A file with the files it includes in their places.                      *)
RECURSIVE Inlined(_)
Inlined(file) ==
  FoldLeft(LAMBDA all, next : all \o IF next.kind = "include" THEN Inlined(next.file) ELSE <<next>>,
           <<>>, FileItems[file])

(* What is meant by a reference among these items, in a query.             *)
Shown(items, reference, query) ==
  LET defines(name) == SelectSeq(items, LAMBDA next : next.kind = "define" /\ next.name = name)
      limits == SelectSeq(items, LAMBDA next : next.kind = "limit")
      limit == IF limits = <<>> THEN "0" ELSE ToString(Last(limits).n)
      text == Last(defines(LimitName(reference.name))).text
  IN  IF defines(reference.name) # <<>> /\ Last(defines(reference.name)).constant
      THEN Last(defines(reference.name)).text
      ELSE IF reference.name = "_LIMIT" THEN limit
      ELSE IF reference.name \in {"_LIMITA", "_LIMITB", "_LIMITC"}
      THEN IF text = "limit %d" THEN "limit " \o limit ELSE text
      ELSE Value(reference.name, IF reference.suffix = 0 THEN 1 ELSE reference.suffix, query)

Reference(name) == [kind |-> "reference", name |-> name, suffix |-> 0]

(* A query is the text of its template with every reference replaced by    *)
(* the element it names, of this query's values, the limit as the dialect  *)
(* writes it, a semicolon where a statement ends, and what the dialect     *)
(* puts before and after it: whatever was written before, of this template *)
(* and of others, and however the names sort.  (Of templates such as those *)
(* of query_templates: a reference at the beginning of a later statement   *)
(* would be output before the semicolon of the one it follows, a list     *)
(* needs a number and anything else must have none, and the limit, which   *)
(* is one for all templates, is the same in all of them.)                  *)
PrintedAsWritten ==
  tstage = "next" /\ output # <<>> =>
    LET items == Inlined(Dialect) \o Inlined(pCurrentQuery.file)
        has(name) == \E i \in DOMAIN items : items[i].kind = "define" /\ items[i].name = name
        body == FoldLeft(LAMBDA out, next :
                  out \o CASE next.kind = "sql" -> <<next.text>>
                           [] next.kind = "reference" -> <<Shown(items, next, nQueryCount - 1)>>
                           [] next.kind = "end" -> <<";">>
                           [] OTHER -> <<>>, <<>>, items)
        begin == IF has("_BEGIN") THEN <<Shown(items, Reference("_BEGIN"), nQueryCount - 1)>> ELSE <<>>
        end == <<Shown(items, Reference("_END"), nQueryCount - 1)>>
        NotEmpty(out) == SelectSeq(out, LAMBDA text : text # "")
    IN  NotEmpty(output) = NotEmpty(begin \o <<"\n">> \o body \o <<"\n">> \o end \o <<"\n">>)

=============================================================================
