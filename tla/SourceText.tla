------------------------------ MODULE SourceText -----------------------------
(***************************************************************************)
(* How distcomp and dsqgen read the text of their files: ParseFile() of    *)
(* grammar.c puts the lines of *.dst together to statements, the rules of  *)
(* tokenizer.l (compiled as tokenizer.c) make tokens of a template.        *)
(*                                                                         *)
(* A text is a sequence of lexemes: words, numbers, literals and signs,    *)
(* "nl" for the end of a line, "--" for a comment up to there, and "\\;"   *)
(* for a semicolon that is not the end of a statement.  Blanks are left    *)
(* out.                                                                    *)
(***************************************************************************)
EXTENDS Integers, SequencesExt

CONSTANTS
  DstStatements,      \* statements of *.dst, without the ends of lines
  TemplateStatements, \* definitions and SQL of query_templates
  DstTokens,          \* pTokens[] of distcomp: words a statement may begin with
  KeyWords,           \* KeyWords[]: words that are tokens of their own
  Words,              \* other words
  Dashed,             \* lexemes of *.dst in which a '-' is
  BufferSize, BufferIncrement, \* 100 and 20 in the code, of longer lines
  MaxBreaks,          \* how often a statement goes on in another line
  MaxStatements

\* The end of a statement, and "\;", which is none.
Semicolon == ";"
Escaped == "\\;"

ASSUME BufferAssumption == BufferSize \in Nat \ {0} /\ BufferIncrement \in Nat \ {0}

(* A statement ends with its only semicolon that is not escaped.           *)
EndsOnce(s) ==
  /\ s # <<>> /\ s[Len(s)] = Semicolon
  /\ \A i \in 1 .. Len(s) - 1 : s[i] \notin {Semicolon, "nl", "--"}

(* tpcds.dst and what it includes escape one semicolon, english.dst:4666.  *)
ASSUME DstAssumption ==
  /\ DstStatements \subseteq Seq(STRING)
  /\ \A s \in DstStatements :
       /\ EndsOnce(s) /\ s[1] \in DstTokens
       /\ \A i, j \in DOMAIN s : s[i] = Escaped /\ s[j] = Escaped => i = j

(* What is no definition is SQL.                                           *)
IsSql(s) == s[1] # "define"

(* The i-th lexeme is one of a reference, "[" ... "]".                     *)
InReference(s, i) ==
  \E a, b \in DOMAIN s :
    s[a] = "[" /\ s[b] = "]" /\ a <= i /\ i <= b /\ \A k \in a .. b - 1 : s[k] # "]"

(* In a line a reference is whole, [name] or [name.number].                *)
MayBreak(s, i) == s[i] \notin {"[", "."} /\ s[i + 1] \notin {"]", "."}

(* So are those of query_templates: SQL begins, perhaps after references   *)
(* (_LIMITA), with select or with, and no id follows a reference of a      *)
(* definition.                                                             *)
ASSUME TemplateAssumption ==
  /\ TemplateStatements \subseteq Seq(STRING)
  /\ "define" \in KeyWords /\ Words \cap {"--", "nl", "[", "]", Semicolon} = {}
  /\ \A s \in TemplateStatements :
       /\ EndsOnce(s)
       /\ \A i \in DOMAIN s : s[i] \in {"[", "]"} => InReference(s, i)
       /\ \A i \in 1 .. Len(s) - 1 : InReference(s, i) /\ MayBreak(s, i) => s[i] = "]"
       /\ IF IsSql(s)
          THEN \E w \in DOMAIN s : /\ s[w] \in Words \ KeyWords /\ ~InReference(s, w)
                                  /\ \A i \in 1 .. w - 1 : InReference(s, i)
          ELSE \A i \in 1 .. Len(s) - 1 : s[i] = "]" => s[i + 1] \notin Words

VARIABLES
  grammar,   \* who reads: "distcomp", "dsqgen"
  written,   \* history: the statements the text is made of
  broken,    \* history: a line within a definition begins with an id
  rest,      \* the text that is not yet read; before, all there is
  complete,  \* the text is complete and is read
  pLineBuffer, \* ParseFile(): the lines of the statement so far, see InitBuffer
  handled,   \* ParseFile(): the statements given to handlers
  lexer,     \* yylex(): its state, nOldState and bFirstWord
  tokens     \* yylex(): the tokens returned

sourceVars == <<grammar, written, broken, rest, complete, pLineBuffer, handled, lexer, tokens>>

(* A StringBuffer_t: its text, how long that is, and what nBytesUsed and   *)
(* nBytesAllocated say of it.                                              *)
InitBuffer == [text |-> <<>>, length |-> 0, used |-> 0, allocated |-> BufferSize]

SourceInit ==
  /\ grammar \in {"distcomp", "dsqgen"}
  /\ written = <<>> /\ broken = FALSE /\ rest = <<>> /\ complete = FALSE
  /\ pLineBuffer = InitBuffer /\ handled = <<>> /\ tokens = <<>>
  /\ lexer = [state |-> "NORMAL", old |-> "NORMAL", first |-> TRUE]

(* A statement, broken where it may be, and its end of line.  A comment    *)
(* has a line of its own or follows the semicolon.                         *)
WriteStatement ==
  /\ ~complete /\ Len(written) < MaxStatements
  /\ \E s \in (IF grammar = "distcomp" THEN DstStatements ELSE TemplateStatements),
        between \in {<<"nl">>, <<"nl", "--", "nl">>}, after \in {<<"nl">>, <<"--", "nl">>} :
       \E breaks \in {b \in SUBSET (1 .. Len(s) - 1) : Cardinality(b) <= MaxBreaks} :
         /\ grammar = "dsqgen" => \A b \in breaks : MayBreak(s, b)
         /\ grammar = "dsqgen" /\ IsSql(s) => between = <<"nl">>
         /\ written' = Append(written, s)
         /\ broken' = (broken \/ (~IsSql(s) /\ \E b \in breaks : s[b + 1] \in Words))
         /\ LET broke(i) == IF i \in breaks THEN between ELSE <<>>
            IN  rest' = rest \o FlattenSeq([i \in DOMAIN s |-> <<s[i]>> \o broke(i)]) \o after
  /\ UNCHANGED <<grammar, complete, pLineBuffer, handled, lexer, tokens>>

EndOfText ==
  /\ ~complete /\ written # <<>> /\ complete' = TRUE
  /\ UNCHANGED <<grammar, written, broken, rest, pLineBuffer, handled, lexer, tokens>>

-----------------------------------------------------------------------------
(* distcomp                                                                *)

UpTo(s, set) == LET at == {i \in DOMAIN s : s[i] \in set}
                IN  IF at = {} THEN Len(s) ELSE CHOOSE i \in at : \A j \in at : i <= j

(* Only the first '-' of a line is looked at.                              *)
ProcessComments(line) ==
  LET dash == UpTo(line, Dashed \union {"--"})
  IN  IF line # <<>> /\ line[dash] = "--" THEN SubSeq(line, 1, dash - 1) ELSE line

(* The first semicolon of a line ends the statement; if that is an escaped *)
(* one, the next, whatever is before it.                                   *)
EndsStatement(line) ==
  LET semicolons == {i \in DOMAIN line : line[i] \in {Semicolon, Escaped}}
      first == UpTo(line, {Semicolon, Escaped})
  IN  semicolons # {} /\ (line[first] = Semicolon \/ Cardinality(semicolons) > 1)

(* strcat() behind what there is, which takes a byte more than n: the first *)
(* time nBytesUsed counts it, from then on it is there.                    *)
AddBuffer(b, text, n) ==
  LET remaining == b.allocated - b.used
      grown == IF n < remaining THEN 0 ELSE (n - remaining) \div BufferIncrement + 1
  IN  IF n = 0 THEN b
      ELSE [text |-> b.text \o text, length |-> b.length + n,
            used |-> (IF b.used = 0 THEN 1 ELSE b.used) + n,
            allocated |-> b.allocated + grown * BufferIncrement]

ResetBuffer(b) == [b EXCEPT !.text = <<>>, !.length = 0, !.used = 0]

(* The first word, of a copy.                                              *)
SafeStrtok(text) == Head(text)

FindToken(word) == IF word \in DstTokens THEN word ELSE "other"

(* fgets() and what follows it: the statement goes on in the next line,    *)
(* after a blank, or its handler gets it.  A lexeme counts as one byte.    *)
ParseLine ==
  /\ grammar = "distcomp" /\ complete /\ rest # <<>>
  /\ LET n == UpTo(rest, {"nl"})
         line == ProcessComments(SubSeq(rest, 1, n - 1))
         statement == AddBuffer(pLineBuffer, line, Len(line))
     IN  /\ rest' = SubSeq(rest, n + 1, Len(rest))
         /\ IF line # <<>> /\ EndsStatement(line)
            THEN /\ handled' = Append(handled, [handler |-> FindToken(SafeStrtok(statement.text)),
                                              text |-> statement.text])
                 /\ pLineBuffer' = ResetBuffer(statement)
            ELSE /\ pLineBuffer' = IF line = <<>> THEN pLineBuffer ELSE AddBuffer(statement, <<>>, 1)
                 /\ UNCHANGED handled
  /\ UNCHANGED <<grammar, written, broken, complete, lexer, tokens>>

-----------------------------------------------------------------------------
(* dsqgen                                                                  *)

FindKeyword(word) == word \in KeyWords

\* Wrong variant of AfterReference: nOldState is not looked at.
AfterReferenceNormal(l) == "NORMAL"

AfterReference(l) == l.old

Token(lexeme, text) == [lexeme |-> lexeme, text |-> text]

(* The rules of a state for what comes next: the lexemes taken, the tokens *)
(* of them, and the state after.                                           *)
Normal(c) ==
  LET Next1(tks, first) == [taken |-> 1, tokens |-> tks, lexer |-> [lexer EXCEPT !.first = first]]
  IN  CASE c = "--" -> Next1(<<>>, lexer.first)
        [] c = "nl" -> Next1(<<>>, TRUE)
        [] c = "[" -> [taken |-> 1, tokens |-> <<Token(c, FALSE)>>,
                       lexer |-> [lexer EXCEPT !.old = "NORMAL", !.state = "SUBST"]]
        [] c \in Words /\ lexer.first /\ ~FindKeyword(c) ->
             [taken |-> 1, tokens |-> <<Token(c, TRUE)>>, lexer |-> [lexer EXCEPT !.state = "SQLTEXT"]]
        [] c \in Words /\ ~lexer.first -> Next1(<<Token(c, FALSE)>>, FALSE)
        [] OTHER -> Next1(<<Token(c, FALSE)>>, FALSE)

Subst(c) ==
  [taken |-> 1, tokens |-> <<Token(c, FALSE)>>,
   lexer |-> [lexer EXCEPT !.state = IF c = "]" THEN AfterReference(lexer) ELSE "SUBST"]]

(* Text goes up to a bracket, a semicolon or the end of the line, which is *)
(* part of it.                                                             *)
SqlText(c) ==
  LET stop == UpTo(rest, {Semicolon, "[", "]", "nl"})
      n == IF rest[stop] \in {Semicolon, "[", "]"} THEN stop - 1 ELSE stop
      state == CASE c = "[" -> "SUBST" [] c = Semicolon -> "NORMAL" [] OTHER -> "SQLTEXT"
  IN  IF c \in {"[", "]", Semicolon}
      THEN [taken |-> 1, tokens |-> <<Token(c, FALSE)>>,
            lexer |-> [lexer EXCEPT !.state = state, !.old = IF c = "[" THEN "SQLTEXT" ELSE @]]
      ELSE [taken |-> n, tokens |-> [i \in 1 .. n |-> Token(rest[i], TRUE)], lexer |-> lexer]

yylex ==
  /\ grammar = "dsqgen" /\ complete /\ rest # <<>>
  /\ LET c == Head(rest)
         match == CASE lexer.state = "NORMAL" -> Normal(c)
                    [] lexer.state = "SUBST" -> Subst(c)
                    [] lexer.state = "SQLTEXT" -> SqlText(c)
     IN  /\ rest' = SubSeq(rest, match.taken + 1, Len(rest))
         /\ lexer' = match.lexer
         /\ tokens' = tokens \o match.tokens
  /\ UNCHANGED <<grammar, written, broken, complete, pLineBuffer, handled>>

SourceNext == WriteStatement \/ EndOfText \/ ParseLine \/ yylex

SourceSpec == SourceInit /\ [][SourceNext]_sourceVars

-----------------------------------------------------------------------------
AllRead == complete /\ rest = <<>>

\* The tokens a statement is meant to have: of SQL all but references is text.
TokensMeant(s) ==
  [i \in DOMAIN s |-> Token(s[i], IsSql(s) /\ s[i] # Semicolon /\ ~InReference(s, i))]

\* Without the ends of lines that are text.
WithoutEnds(ts) ==
  FlattenSeq([i \in DOMAIN ts |-> IF ts[i].lexeme = "nl" THEN <<>> ELSE <<ts[i]>>])

(* Wherever its lines end and comments stand, every statement is read as   *)
(* it was meant: by distcomp with all its words up to the semicolon that   *)
(* is not escaped, by dsqgen as a definition or as SQL, whose references   *)
(* are told from its text.  But a definition is taken for SQL from a line  *)
(* on that begins with an id.  The text put together never runs over the   *)
(* memory it is given.                                                     *)
ReadWhole ==
  /\ pLineBuffer.length < pLineBuffer.allocated
  /\ AllRead /\ grammar = "distcomp" =>
       /\ pLineBuffer.text = <<>>
       /\ \A i \in DOMAIN handled : handled[i].handler = handled[i].text[1]
       /\ [i \in DOMAIN handled |->
             SubSeq(handled[i].text, 1, UpTo(handled[i].text, {Semicolon}))] = written
  /\ AllRead /\ grammar = "dsqgen" /\ ~broken =>
       /\ WithoutEnds(tokens) = FlattenSeq([i \in DOMAIN written |-> TokensMeant(written[i])])
       /\ lexer.state = "NORMAL"

=============================================================================
