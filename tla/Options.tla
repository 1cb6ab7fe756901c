------------------------------ MODULE Options ------------------------------
(***************************************************************************)
(* dsdgen's options (r_params.c, params.h): set on the command line and in *)
(* parameter files, which -PARAMS names and which may name further ones.   *)
(* Any unique beginning of an option's name stands for it; that case is    *)
(* ignored and that files hold comments is left out.                       *)
(***************************************************************************)
EXTENDS Integers, Sequences, FiniteSets

CONSTANTS
  CommandItems, \* what may be on a command line: an option, with or without a value
  MaxItems,     \* how many of them, at most
  Files,        \* the lines of each parameter file: a name and a value, "" for none
  TableNames,   \* the names of the tables, in the order of w_tdefs[]
  MaxOpen       \* the files that may be open at once

ASSUME OptionsAssumption ==
  /\ CommandItems \subseteq Seq(STRING) /\ \A item \in CommandItems : Len(item) \in {1, 2}
  /\ {MaxItems, MaxOpen} \subseteq Nat
  /\ \A f \in DOMAIN Files : Files[f] \in Seq(Seq(STRING)) /\ \A i \in DOMAIN Files[f] : Len(Files[f][i]) = 2
  /\ TableNames \in Seq(STRING) /\ \A i, j \in DOMAIN TableNames : TableNames[i] = TableNames[j] => i = j

\* A row of params.h: the type of the option and its default.
Option(type, dflt) == [type |-> type, dflt |-> dflt]

options ==
  [ABREVIATION |-> Option("str", ""), DELIMITER |-> Option("str", "|"), DIR |-> Option("str", "."),
   DISTRIBUTIONS |-> Option("str", "tpcds.idx"), FORCE |-> Option("flag", "N"),
   HELP |-> Option("int", "0"), PARAMS |-> Option("str", ""), PROG |-> Option("str", "dsdgen"),
   QUIET |-> Option("flag", "N"), SCALE |-> Option("int", "1"), SUFFIX |-> Option("str", ".dat"),
   TABLE |-> Option("str", "ALL"), TERMINATE |-> Option("flag", "Y"), UPDATE |-> Option("int", ""),
   VERBOSE |-> Option("flag", "N"), _SCALE_INDEX |-> Option("int", "1"),
   PARALLEL |-> Option("int", ""), CHILD |-> Option("int", "1"), CHKSEEDS |-> Option("flag", "N"),
   RELEASE |-> Option("flag", "N"), _FILTER |-> Option("flag", "N"), VALIDATE |-> Option("flag", "N"),
   VCOUNT |-> Option("int", "50"), VSUFFIX |-> Option("str", ".vld"), RNGSEED |-> Option("int", "19620718")]

OptionNames == DOMAIN options
Missing == "no argument"
NotFound == "not found"

Begins(beginning, text) ==
  Len(beginning) <= Len(text) /\ SubSeq(text, 1, Len(beginning)) = beginning

fnd_param(name) ==
  LET found == {o \in OptionNames : Begins(name, o)}
  IN IF \E o \in OptionNames : found = {o} THEN CHOOSE o \in OptionNames : found = {o} ELSE NotFound

(* Only flags do without a value, which does not look like an option; and  *)
(* nobody sets the two options that params.h hides from users, of which it *)
(* says of one not to.                                                     *)
ASSUME ItemsAssumption ==
  \A item \in CommandItems :
    LET o == fnd_param(Tail(item[1])) IN
    /\ Begins("-", item[1]) /\ (Len(item) = 2 => ~Begins("-", item[2]))
    /\ Len(item) = 1 /\ o # NotFound => options[o].type = "flag"
    /\ o # "_SCALE_INDEX"

ASSUME LinesAssumption ==
  \A f \in DOMAIN Files : \A i \in DOMAIN Files[f] :
    fnd_param(Files[f][i][1]) \notin {"PROG", "_SCALE_INDEX"}

\* SetScaleIndex(): a band for each power of ten.
ScaleIndex(scale) == <<"1", "2", "3", "4", "5", "6">>[Len(scale)]

\* Of texts: what params.h has for the two defaults, and that one begins with
\* itself.
ASSUME TextsAssumption ==
  /\ ScaleIndex(options["SCALE"].dflt) = options["_SCALE_INDEX"].dflt
  /\ \A i \in DOMAIN TableNames : Begins(TableNames[i], TableNames[i])

FlagValue(param) == IF param = Missing \/ Begins("Y", param) \/ Begins("-", param) THEN "Y" ELSE "N"

----------------------------------------------------------------------------
VARIABLES
  command,    \* the items of the command line
  option_num, \* the word that is next, in args
  res,        \* how many words the last option took
  params,     \* the values of the options with OPT_SET; others have their default
  reading,    \* the open files, the innermost last, with the next line of each
  seen,       \* the lines that were read, in order
  ostage      \* "options", "failed" or "go"

optionVars == <<command, option_num, res, params, reading, seen, ostage>>

\* The words of the first items.
Joined ==
  LET join[n \in 0 .. Len(command)] == IF n = 0 THEN <<>> ELSE join[n - 1] \o command[n]
  IN  join

args == Joined[Len(command)]

get_str(o) == IF o \in DOMAIN params THEN params[o] ELSE options[o].dflt

is_set(o) ==
  IF options[o].type = "flag" THEN get_str(o) = "Y" ELSE o \in DOMAIN params \/ options[o].dflt # ""

OptionInit ==
  /\ command \in UNION {[1 .. n -> CommandItems] : n \in 0 .. MaxItems}
  /\ option_num = 1 /\ res = 1
  /\ params = [o \in {"PROG"} |-> options[o].dflt]
  /\ reading = <<>> /\ seen = <<>> /\ ostage = "options"

With(f, o, value) == [p \in DOMAIN f \union {o} |-> IF p = o THEN value ELSE f[p]]

\* set_option() of an option that was found: what params and the open files
\* are then.  An action comes before the value is set; that of PARAMS,
\* read_file(), here only opens the file, and CloseFile sets the value; those
\* of HELP and RELEASE end the program.
Outcome(p, r, failed) == [params |-> p, reading |-> r, failed |-> failed]

Opens(file, open) == file \in DOMAIN Files /\ Len(open) < MaxOpen

set_option(o, param, open) ==
  CASE options[o].type = "flag" ->
         Outcome(With(params, o, FlagValue(param)), open, o = "RELEASE" /\ FlagValue(param) = "Y")
    [] options[o].type # "flag" /\ param = Missing -> Outcome(params, open, TRUE)
    [] o = "SCALE" /\ param # Missing ->
         Outcome(With(With(params, "_SCALE_INDEX", ScaleIndex(param)), o, param), open, FALSE)
    [] o = "PARAMS" /\ param # Missing ->
         Outcome(params, Append(open, [file |-> param, next |-> 1]), ~Opens(param, open))
    [] o \notin {"SCALE", "PARAMS"} /\ options[o].type # "flag" /\ param # Missing ->
         Outcome(With(params, o, param), open, o = "HELP")

Become(outcome) ==
  /\ params' = outcome.params
  /\ reading' = outcome.reading
  /\ ostage' = IF outcome.failed THEN "failed" ELSE ostage

Unchanged == Outcome(params, reading, FALSE)
Fail == Outcome(params, reading, TRUE)

\* A word that is no option is passed over, with as many words as the option
\* before it took.
process_options ==
  /\ ostage = "options" /\ reading = <<>> /\ option_num <= Len(args)
  /\ LET word == args[option_num]
         o == fnd_param(Tail(word))
         param == IF option_num = Len(args) THEN Missing ELSE args[option_num + 1]
     IN /\ res' = IF ~Begins("-", word) \/ o = NotFound THEN res
                  ELSE IF options[o].type = "flag" THEN 1 ELSE 2
        /\ Become(IF ~Begins("-", word) THEN Unchanged
                  ELSE IF o = NotFound THEN Fail ELSE set_option(o, param, reading))
  /\ option_num' = option_num + res'
  /\ UNCHANGED <<command, seen>>

(* Wrong variant of Overridden: a file sets what was set before.           *)
NeverOverridden(o) == FALSE

Overridden(o) == o \in DOMAIN params

Innermost == reading[Len(reading)]
AtEnd == Innermost.next > Len(Files[Innermost.file])

\* A line of a file.  One that names no option, or has no value, is ignored.
read_file ==
  /\ ostage = "options" /\ reading # <<>> /\ ~AtEnd
  /\ LET line == Files[Innermost.file][Innermost.next]
         o == fnd_param(line[1])
         here == [reading EXCEPT ![Len(reading)].next = @ + 1]
     IN /\ seen' = Append(seen, line)
        /\ Become(IF o = NotFound \/ line[2] = "" \/ Overridden(o)
                    THEN Outcome(params, here, FALSE) ELSE set_option(o, line[2], here))
  /\ UNCHANGED <<command, option_num, res>>

CloseFile ==
  /\ ostage = "options" /\ reading # <<>> /\ AtEnd
  /\ params' = With(params, "PARAMS", Innermost.file)
  /\ reading' = SubSeq(reading, 1, Len(reading) - 1)
  /\ UNCHANGED <<command, option_num, res, seen, ostage>>

\* A name, or else the first that begins so; 0 if there is none.
find_table(tname) ==
  LET exact == {i \in DOMAIN TableNames : TableNames[i] = tname}
      begun == {i \in DOMAIN TableNames : Begins(tname, TableNames[i])}
      First(set) == CHOOSE i \in set : \A j \in set : i <= j
  IN  CASE exact # {} -> First(exact)
        [] exact = {} /\ begun # {} -> First(begun)
        [] begun = {} -> 0

\* main(): the tables to generate, in order; none if there is no such table.
TablesToBuild ==
  IF get_str("TABLE") = "ALL" THEN DOMAIN TableNames ELSE {find_table(get_str("TABLE"))} \ {0}

\* PARALLEL and CHILD are numbers; here, of one digit.  Then main() looks up
\* the table.
validate_options ==
  /\ ostage = "options" /\ reading = <<>> /\ option_num > Len(args)
  /\ LET refused == is_set("PARALLEL") /\ (get_str("PARALLEL") \in {"0", "1"} \/ get_str("CHILD") = "0")
     IN  ostage' = IF refused \/ TablesToBuild = {} THEN "failed" ELSE "go"
  /\ UNCHANGED <<command, option_num, res, params, reading, seen>>

OptionNext == process_options \/ read_file \/ CloseFile \/ validate_options

OptionSpec == OptionInit /\ [][OptionNext]_optionVars

----------------------------------------------------------------------------
\* The items and the lines that set an option, in order.
Setting(o) == {i \in DOMAIN command : fnd_param(Tail(command[i][1])) = o}
Lines(o) == {i \in DOMAIN seen : fnd_param(seen[i][1]) = o /\ seen[i][2] # ""}

ItemValue(i) == IF Len(command[i]) = 1 THEN Missing ELSE command[i][2]
ValueOf(o, given) == IF options[o].type = "flag" THEN FlagValue(given) ELSE given

ByRule(o) ==
  CASE Setting(o) # {} -> ValueOf(o, ItemValue(CHOOSE i \in Setting(o) : \A j \in Setting(o) : j <= i))
    [] Setting(o) = {} /\ Lines(o) # {} ->
         ValueOf(o, seen[CHOOSE i \in Lines(o) : \A j \in Lines(o) : i <= j][2])
    [] Setting(o) = {} /\ Lines(o) = {} -> options[o].dflt

(* The command line over-rides the files, wherever -PARAMS is among the    *)
(* options; of two items the last counts and of two lines, in whatever     *)
(* files, the first; and the band that distributions are looked up by is   *)
(* always that of the scale.  A table that is named is built, and no other *)
(* one unless its name begins with that.                                   *)
Precedence ==
  ostage = "go" =>
    /\ \A o \in OptionNames \ {"_SCALE_INDEX"} : get_str(o) = ByRule(o)
    /\ ByRule("TABLE") # "ALL" =>
         /\ Cardinality(TablesToBuild) = 1
         /\ \A i \in TablesToBuild : Begins(ByRule("TABLE"), TableNames[i])
         /\ \A i \in DOMAIN TableNames : TableNames[i] = ByRule("TABLE") => TablesToBuild = {i}
    /\ get_str("_SCALE_INDEX") = ScaleIndex(get_str("SCALE"))

=============================================================================
