----------------------------- MODULE IndexSetup -----------------------------
(***************************************************************************)
(* Stage 5 of docker/entrypoint.sh: the secondary indexes of database      *)
(* tpcds.  The database is the volume's, so a run finds the indexes and    *)
(* IGNORED flags that runs with other settings left, in the middle of a    *)
(* file of statements if they were killed.  Whether indexes must be built  *)
(* is decided by their number alone.                                       *)
(*                                                                         *)
(* A smoke run skips the stage and is left out, and so are indexes that no *)
(* file in sql/ defines (the scripts of pagesize/ create such ones).       *)
(***************************************************************************)
EXTENDS Integers, Sequences, FiniteSets

CONSTANTS
  FullFile,      \* what emit-index-ddl.py prints: the indexes of sql/05, 11,
                 \* 14 and 15, in that order, each one once
  KeptFile,      \* sql/indexes_kept.sql
  UnusedFile,    \* sql/drop_unused_indexes.sql: what indexes_kept leaves out,
                 \* as long as sql/15 did not exist
  UnrefFile      \* sql/drop_unreferenced_indexes.sql, a part of the former

IndexesOf(file) == {file[k] : k \in DOMAIN file}

Full == IndexesOf(FullFile)

IsFile(file) ==
  /\ file \in Seq(Full)
  /\ Cardinality(IndexesOf(file)) = Len(file)

ASSUME FilesAssumption ==
  /\ FullFile \in Seq(Full) /\ IsFiniteSet(Full)
  /\ \A file \in {FullFile, KeptFile, UnusedFile, UnrefFile} : IsFile(file)
  /\ IndexesOf(UnrefFile) \subseteq IndexesOf(UnusedFile)
  /\ IndexesOf(KeptFile) \intersect IndexesOf(UnusedFile) = {}

VARIABLES
  have,    \* the database: its secondary indexes
  hidden,  \* the database: those of them that are IGNORED
  istage,  \* where the stage is; "off" or "failed" between two runs
  icfg,    \* KEPT_INDEXES, PRUNE_INDEXES, IGNORE_UNUSED and IGNORE_SQL
  todo,    \* the statements the client has not run yet of a file
  cut      \* history: a build or a drop was killed, and no build has come to
           \* its end since

indexVars == <<have, hidden, istage, icfg, todo, cut>>

\* sql/ignore_unused_indexes.sql and sql/ignore_unreferenced_indexes.sql name
\* the indexes of the two files of drops, in the same order.
IndexConfigs ==
  [kept : BOOLEAN, prune : BOOLEAN, ignore : BOOLEAN, list : {UnusedFile, UnrefFile}]

IndexStages == {"decide", "unused", "build", "clear", "hide", "assert", "prune", "bench"}

Enter(stage, file) == istage' = stage /\ todo' = file

IndexInit ==
  /\ have = {} /\ hidden = {}
  /\ istage = "off" /\ todo = <<>> /\ cut = FALSE
  /\ icfg = [kept |-> FALSE, prune |-> FALSE, ignore |-> FALSE, list |-> UnusedFile]

(* A run that reaches the stage, on the database as it is or after a new   *)
(* load.                                                                   *)
IndexStart ==
  /\ istage \in {"off", "failed"} /\ Enter("decide", <<>>)
  /\ icfg' \in IndexConfigs
  /\ \/ UNCHANGED <<have, hidden, cut>>
     \/ have' = {} /\ hidden' = {} /\ cut' = FALSE

(* emit-index-ddl.py --exclude: the nth of the indexes that are left.      *)
Emitted(skipped) ==
  LET rest == {k \in DOMAIN FullFile : FullFile[k] \notin skipped}
      Nth(n) == CHOOSE k \in rest : Cardinality(rest \intersect 1 .. k) = n
  IN [n \in 1 .. Cardinality(rest) |-> FullFile[Nth(n)]]

(* Wrong variant of Wanted: the full set, whatever the run drops later.    *)
WantedFull == IF icfg.kept THEN KeptFile ELSE FullFile

(* The file to build from; its length is WANT_IDX.                         *)
Wanted ==
  IF icfg.kept THEN KeptFile
  ELSE Emitted(IF icfg.prune THEN IndexesOf(UnrefFile) ELSE {})

Enough == Cardinality(have) >= Len(Wanted)

(* HAVE_IDX against WANT_IDX.                                              *)
Decide ==
  /\ istage = "decide"
  /\ \/ icfg.kept /\ Cardinality(have) > Len(Wanted) /\ Enter("unused", UnusedFile)
     \/ ~(icfg.kept /\ Cardinality(have) > Len(Wanted)) /\ Enough /\ Enter("clear", <<>>)
     \/ ~Enough /\ Enter("build", Wanted)
  /\ UNCHANGED <<have, hidden, icfg, cut>>

(* DROP INDEX IF EXISTS, one statement of the file at a time.              *)
DropNext ==
  /\ have' = have \ {Head(todo)} /\ hidden' = hidden \ {Head(todo)}
  /\ todo' = Tail(todo)
  /\ UNCHANGED <<istage, icfg, cut>>

DropUnused ==
  \/ istage = "unused" /\ todo # <<>> /\ DropNext
  \/ /\ istage = "unused" /\ todo = <<>> /\ Enter("build", KeptFile)
     /\ UNCHANGED <<have, hidden, icfg, cut>>

(* CREATE INDEX IF NOT EXISTS.                                             *)
BuildIndex ==
  \/ /\ istage = "build" /\ todo # <<>>
     /\ have' = have \union {Head(todo)} /\ todo' = Tail(todo)
     /\ UNCHANGED <<hidden, istage, icfg, cut>>
  \/ /\ istage = "build" /\ todo = <<>> /\ Enter("clear", <<>>)
     /\ cut' = (cut /\ icfg.kept)
     /\ UNCHANGED <<have, hidden, icfg>>

(* Wrong variant of ClearIgnored: a static list, which stops at the first  *)
(* index that is not there.                                                *)
ClearStatic ==
  /\ istage = "clear"
  /\ hidden' = hidden \ {UnusedFile[k] : k \in {j \in DOMAIN UnusedFile :
                           \A l \in 1 .. j : UnusedFile[l] \in have}}
  /\ IF icfg.ignore THEN Enter("hide", icfg.list) ELSE Enter("assert", <<>>)
  /\ UNCHANGED <<have, icfg, cut>>

(* clear_ignored: a statement for each flag, whichever indexes there are.  *)
ClearIgnored ==
  \/ /\ istage = "clear" /\ hidden # {}
     /\ \E x \in hidden : hidden' = hidden \ {x}
     /\ UNCHANGED <<have, istage, icfg, todo, cut>>
  \/ /\ istage = "clear" /\ hidden = {}
     /\ IF icfg.ignore THEN Enter("hide", icfg.list) ELSE Enter("assert", <<>>)
     /\ UNCHANGED <<have, hidden, icfg, cut>>

IndexFail == Enter("failed", <<>>) /\ UNCHANGED <<have, hidden, icfg, cut>>

(* ALTER INDEX ... IGNORED; the client stops at an index that is not there.*)
HideIndex ==
  \/ /\ istage = "hide" /\ todo # <<>> /\ Head(todo) \in have
     /\ hidden' = hidden \union {Head(todo)} /\ todo' = Tail(todo)
     /\ UNCHANGED <<have, istage, icfg, cut>>
  \/ istage = "hide" /\ todo # <<>> /\ Head(todo) \notin have /\ IndexFail
  \/ /\ istage = "hide" /\ todo = <<>> /\ Enter("assert", <<>>)
     /\ UNCHANGED <<have, hidden, icfg, cut>>

(* As many flags as the list asks for.                                     *)
AssertHidden ==
  /\ istage = "assert"
  /\ Cardinality(hidden) = IF icfg.ignore THEN Len(icfg.list) ELSE 0
  /\ IF icfg.prune THEN Enter("prune", UnrefFile) ELSE Enter("bench", <<>>)
  /\ UNCHANGED <<have, hidden, icfg, cut>>

(* Wrong variant of Prune: the file of drops of the older test.            *)
PruneUnused ==
  /\ istage = "prune"
  /\ have' = have \ IndexesOf(UnusedFile) /\ hidden' = hidden \ IndexesOf(UnusedFile)
  /\ Enter("bench", <<>>)
  /\ UNCHANGED <<icfg, cut>>

(* A database that has the full set is pruned in place.                    *)
Prune ==
  \/ istage = "prune" /\ todo # <<>> /\ DropNext
  \/ /\ istage = "prune" /\ todo = <<>> /\ Enter("bench", <<>>)
     /\ UNCHANGED <<have, hidden, icfg, cut>>

Benched ==
  /\ istage = "bench" /\ Enter("off", <<>>)
  /\ UNCHANGED <<have, hidden, icfg, cut>>

(* The container goes down: the statements that ran have been run.         *)
IndexKill ==
  /\ istage \in IndexStages /\ Enter("off", <<>>)
  /\ cut' = (cut \/ istage = "unused" \/ (istage = "build" /\ ~icfg.kept))
  /\ UNCHANGED <<have, hidden, icfg>>

IndexNext ==
  \/ IndexStart \/ Decide \/ DropUnused \/ BuildIndex \/ ClearIgnored
  \/ HideIndex \/ AssertHidden \/ Prune \/ Benched \/ IndexKill

IndexSpec == IndexInit /\ [][IndexNext]_indexVars

-----------------------------------------------------------------------------
IndexTypeOK ==
  /\ have \subseteq Full /\ hidden \subseteq have
  /\ istage \in IndexStages \union {"off", "failed"}
  /\ icfg \in IndexConfigs
  /\ todo \in Seq(Full)
  /\ cut \in BOOLEAN

(* Whoever asks for the full or the pruned set measures that one, whatever *)
(* the runs before it built, dropped and left undone: that the number of   *)
(* indexes decides is enough there, because none of them is from elsewhere.*)
(* Whoever asks for the kept set has all of it and none that the file of   *)
(* drops names, but maybe others: see SetByConfiguration.  (Except, for    *)
(* the pruned and the kept set: after a build or a drop of the unused ones *)
(* that was killed and not made good, when another set may have the right  *)
(* number.)                                                                *)
TargetMeasured ==
  istage = "bench" =>
    /\ ~icfg.kept /\ ~icfg.prune => have = Full
    /\ ~cut /\ icfg.prune /\ ~icfg.kept => have = Full \ IndexesOf(UnrefFile)
    /\ ~cut /\ icfg.kept =>
         IndexesOf(KeptFile) \subseteq have /\ have \intersect IndexesOf(UnusedFile) = {}

Target == IF icfg.kept THEN IndexesOf(KeptFile)
          ELSE Full \ IF icfg.prune THEN IndexesOf(UnrefFile) ELSE {}

(* The set that is measured depends on the settings of the run, and not on *)
(* the runs before it, none of which was killed in a build.                *)
SetByConfiguration == istage = "bench" /\ ~cut => have = Target

(* What is hidden from the optimizer while queries are timed is what this  *)
(* run asked to hide, flags of earlier runs are gone, and no index that    *)
(* the run drops is there.  It is so already when the number of flags is   *)
(* compared, which therefore never stops a run.                            *)
HiddenExactly ==
  /\ istage = "assert" => hidden = IF icfg.ignore THEN IndexesOf(icfg.list) ELSE {}
  /\ istage = "bench" =>
       /\ hidden = IF icfg.ignore THEN have \intersect IndexesOf(icfg.list) ELSE {}
       /\ icfg.prune => have \intersect IndexesOf(UnrefFile) = {}

(* A run that finds the set it wants neither builds nor drops: without the *)
(* --exclude of the count, a pruned database would be built up to the full *)
(* set and pruned again on every run.                                      *)
TargetLeftAlone ==
  [][istage \notin {"off", "failed"} /\ have = Target => have' = have]_indexVars

=============================================================================
