---------------------------- MODULE Measurement -----------------------------
(***************************************************************************)
(* Stage 7 of docker/entrypoint.sh and docker/bench.py: the queries are    *)
(* timed and their answers kept, under one server configuration or both.   *)
(* A results directory outlives the run and is always found at the same    *)
(* path: what is in it is moved to .history before a run writes, in three  *)
(* renames that a kill may separate.  A client that times out leaves its   *)
(* statement running in the server, beside the queries that follow.        *)
(*                                                                         *)
(* Left out: the index usage report, and bench.py started by hand.         *)
(***************************************************************************)
EXTENDS Integers, Sequences, FiniteSets

CONSTANTS
  Workloads,   \* PROFILE and QUERYSET of a run: a name for each
  QueriesOf,   \* workload -> the queries of it, in order
  Origins,     \* SCALE and RNGSEED of the measured database
  Runs,        \* names for the runs whose files are still there, used again
  NoSummary,   \* no _summary.json
  NoRun        \* no log, no comparison, no run

Tags == {"baseline", "tuned"}

Queries == UNION {{QueriesOf[w][k] : k \in DOMAIN QueriesOf[w]} : w \in Workloads}

ASSUME MeasurementAssumption ==
  /\ QueriesOf \in [Workloads -> Seq(Queries)]
  /\ \A w \in Workloads : \A j, k \in DOMAIN QueriesOf[w] : QueriesOf[w][j] = QueriesOf[w][k] => j = k
  /\ Workloads # {} /\ NoRun \notin Runs

VARIABLES
  dir,      \* results/<tag>: the queryN.json of it, and _summary.json
  log,      \* results/<tag>.log: the run that wrote it
  compared, \* results/_answer_comparison.json: tag -> the run compared
  run, mstage, mcfg, \* this run, where it is and what it was asked for
  left,     \* the configurations still to be measured; the first is at work
  at,       \* how many of its queries have been run
  orphan,   \* a statement without a client runs in the server
  reported  \* the summaries the run has printed

results == <<dir, log, compared>>

measureVars == <<results, run, mstage, mcfg, left, at, orphan, reported>>

NoFiles == [q \in {} |-> NoRun]

EmptyDir == [answers |-> NoFiles, summary |-> NoSummary]

\* "keep" is KEEP_ALIVE=1, "skip" is SKIP_BENCH=1.
MeasureConfigs == [tuned : {"baseline", "tuned", "both"}, mode : {"bench", "keep", "skip"},
                   work : Workloads, origin : Origins]

(* The runs that the results directory knows of.                           *)
Traced ==
  {log[t] : t \in Tags} \union {compared[t] : t \in Tags}
    \union UNION {{dir[t].answers[q].run : q \in DOMAIN dir[t].answers} : t \in Tags}

Allowed == IF mcfg.tuned = "both" THEN Tags ELSE {mcfg.tuned}

Items == QueriesOf[mcfg.work]

tag == Head(left)

MeasureInit ==
  /\ dir = [t \in Tags |-> EmptyDir] /\ log = [t \in Tags |-> NoRun]
  /\ compared = [t \in Tags |-> NoRun]
  /\ run = NoRun /\ mstage = "off" /\ mcfg = NoRun /\ left = <<>> /\ at = 0
  /\ orphan = FALSE /\ reported = {}

MeasureStart ==
  /\ mstage = "off"
  /\ run' = CHOOSE r \in Runs : r \notin Traced
  /\ mcfg' \in MeasureConfigs
  /\ left' = IF mcfg'.tuned = "both" THEN <<"baseline", "tuned">> ELSE <<mcfg'.tuned>>
  /\ mstage' = IF mcfg'.mode = "skip" THEN "report" ELSE "server"
  /\ UNCHANGED <<results, at, orphan, reported>>

(* The container ends, and the server in it.                               *)
MeasureEnd ==
  /\ mstage' = "off" /\ run' = NoRun /\ mcfg' = NoRun /\ left' = <<>> /\ at' = 0
  /\ orphan' = FALSE /\ reported' = {}
  /\ UNCHANGED results

-----------------------------------------------------------------------------
(* run_one                                                                 *)

RestartServer ==
  /\ mstage = "server" /\ mstage' = "putaway"
  /\ orphan' = FALSE
  /\ UNCHANGED <<results, run, mcfg, left, at, reported>>

(* prepare_output: the directory, the log and the comparison are moved to  *)
(* .history, which nothing reads again.                                    *)
PutAwayDir ==
  /\ mstage = "putaway" /\ mstage' = "putlog"
  /\ dir' = [dir EXCEPT ![tag] = EmptyDir]
  /\ UNCHANGED <<log, compared, run, mcfg, left, at, orphan, reported>>

PutAwayLog ==
  /\ mstage = "putlog" /\ mstage' = "putcomparison"
  /\ log' = [log EXCEPT ![tag] = NoRun]
  /\ UNCHANGED <<dir, compared, run, mcfg, left, at, orphan, reported>>

(* Wrong variant of PutAwayComparison: only with its own baseline.         *)
PutAwayForBaseline ==
  /\ mstage = "putcomparison" /\ mstage' = "query"
  /\ compared' = IF tag = "baseline" THEN [t \in Tags |-> NoRun] ELSE compared
  /\ log' = [log EXCEPT ![tag] = run] /\ at' = 0
  /\ UNCHANGED <<dir, run, mcfg, left, orphan, reported>>

(* Then tee opens a new log.                                               *)
PutAwayComparison ==
  /\ mstage = "putcomparison" /\ mstage' = "query"
  /\ compared' = [t \in Tags |-> NoRun]
  /\ log' = [log EXCEPT ![tag] = run] /\ at' = 0
  /\ UNCHANGED <<dir, run, mcfg, left, orphan, reported>>

(* A query answers, alone in the server or not, fails, or outlasts its     *)
(* client.                                                                 *)
RunQuery ==
  /\ mstage = "query" /\ at < Len(Items)
  /\ \E how \in {IF orphan THEN "noisy" ELSE "quiet", "error", "timeout"} :
       /\ dir' = [dir EXCEPT ![tag].answers =
                    [q \in DOMAIN @ \union {Items[at + 1]} |->
                       IF q = Items[at + 1] THEN [run |-> run, how |-> how] ELSE @[q]]]
       /\ orphan' = (orphan \/ how = "timeout")
  /\ at' = at + 1
  /\ UNCHANGED <<log, compared, run, mstage, mcfg, left, reported>>

(* The statement ends on its own, or at max_statement_time.                *)
OrphanEnds ==
  /\ mstage = "query" /\ orphan /\ orphan' = FALSE
  /\ UNCHANGED <<results, run, mstage, mcfg, left, at, reported>>

(* Wrong variant of Failed: what the server reports, not the client.       *)
FailedInServer(files) == {q \in DOMAIN files : files[q].how = "error"}

Failed(files) == {q \in DOMAIN files : files[q].how \in {"error", "timeout"}}

WriteSummary ==
  /\ mstage = "query" /\ at = Len(Items) /\ mstage' = "verify"
  /\ dir' = [dir EXCEPT ![tag].summary =
               [run |-> run, work |-> mcfg.work, origin |-> mcfg.origin,
                errors |-> Cardinality(Failed(dir[tag].answers))]]
  /\ UNCHANGED <<log, compared, run, mcfg, left, at, orphan, reported>>

(* verify_run: a complete workload without an error, and no other files.   *)
Verified(d) ==
  /\ d.summary # NoSummary
  /\ d.summary.errors = 0
  /\ DOMAIN d.answers = {QueriesOf[d.summary.work][k] : k \in DOMAIN QueriesOf[d.summary.work]}

(* bench.py verifies its own output, and check_measured does so again.     *)
Verify ==
  \/ /\ mstage = "verify" /\ Verified(dir[tag]) /\ Len(left) > 1
     /\ mstage' = "server" /\ left' = Tail(left)
     /\ UNCHANGED <<results, run, mcfg, at, orphan, reported>>
  \/ /\ mstage = "verify" /\ Verified(dir[tag]) /\ Len(left) = 1 /\ mcfg.mode = "bench"
     /\ mstage' = "report"
     /\ UNCHANGED <<results, run, mcfg, left, at, orphan, reported>>
  \/ mstage = "verify" /\ Verified(dir[tag]) /\ Len(left) = 1 /\ mcfg.mode = "keep" /\ MeasureEnd
  \/ mstage = "verify" /\ ~Verified(dir[tag]) /\ MeasureEnd

-----------------------------------------------------------------------------
(* The results stage.                                                      *)

(* Wrong variant of Picked: whatever is there.                             *)
PickedAll == {t \in Tags : dir[t].summary # NoSummary /\ dir[t].summary.work = mcfg.work}

Picked == {t \in Allowed : dir[t].summary # NoSummary /\ dir[t].summary.work = mcfg.work}

(* compare_runs: both complete, of one data set.                           *)
Comparable ==
  /\ \A t \in Tags : Verified(dir[t])
  /\ dir["baseline"].summary.origin = dir["tuned"].summary.origin

Report ==
  \/ mstage = "report" /\ Picked = {} /\ MeasureEnd
  \/ /\ mstage = "report" /\ Picked # {} /\ (Picked # Tags \/ ~Comparable) /\ mstage' = "done"
     /\ reported' = {dir[t].summary : t \in Picked}
     /\ UNCHANGED <<results, run, mcfg, left, at, orphan>>
  \/ /\ mstage = "report" /\ Picked = Tags /\ Comparable /\ mstage' = "done"
     /\ reported' = {dir[t].summary : t \in Picked}
     /\ compared' = [t \in Tags |-> dir[t].summary.run]
     /\ UNCHANGED <<dir, log, run, mcfg, left, at, orphan>>

ReportEnds == mstage = "done" /\ MeasureEnd

MeasureKill == mstage # "off" /\ MeasureEnd

MeasureNext ==
  \/ MeasureStart \/ RestartServer \/ PutAwayDir \/ PutAwayLog \/ PutAwayComparison
  \/ RunQuery \/ OrphanEnds \/ WriteSummary \/ Verify \/ Report \/ ReportEnds \/ MeasureKill

MeasureSpec == MeasureInit /\ [][MeasureNext]_measureVars

-----------------------------------------------------------------------------
(* A directory holds the files of one run, the one that wrote the log      *)
(* beside it, and once it has a summary, all the queries of that: no       *)
(* result is put together from two runs, wherever they were killed.        *)
OneRunPerDirectory ==
  \A t \in Tags :
    LET d == dir[t] IN
    /\ \A p, q \in DOMAIN d.answers : d.answers[p].run = d.answers[q].run
    /\ d.summary # NoSummary =>
         /\ DOMAIN d.answers = {QueriesOf[d.summary.work][k] : k \in DOMAIN QueriesOf[d.summary.work]}
         /\ \A q \in DOMAIN d.answers : d.answers[q].run = d.summary.run
    /\ log[t] # NoRun => \A q \in DOMAIN d.answers : d.answers[q].run = log[t]

(* A summary without errors was measured alone: no statement that a client *)
(* gave up on ran beside any of its queries.                               *)
MeasuredAlone ==
  \A t \in Tags :
    dir[t].summary # NoSummary /\ dir[t].summary.errors = 0 =>
      \A q \in DOMAIN dir[t].answers : dir[t].answers[q].how = "quiet"

(* So no run touches the results of another, nor disturbs its own.         *)
RunsApart == OneRunPerDirectory /\ MeasuredAlone

(* A run that measures reports what it has measured, all of it and nothing *)
(* older, without an error.  (SKIP_BENCH=1 reports what it finds.)         *)
ReportsItsOwn ==
  mstage = "done" /\ mcfg.mode # "skip" =>
    reported = {[run |-> run, work |-> mcfg.work, origin |-> mcfg.origin, errors |-> 0]}
      /\ \A t \in Allowed : dir[t].summary \in reported

(* The comparison in the results directory is of the runs whose answers    *)
(* lie beside it, unless one was put away since, and of one data set.      *)
ComparisonCurrent ==
  \A t \in Tags :
    compared[t] # NoRun =>
      /\ \A q \in DOMAIN dir[t].answers : dir[t].answers[q].run = compared[t]
      /\ \A s \in Tags : dir[s].summary # NoSummary /\ dir[t].summary # NoSummary =>
           dir[s].summary.origin = dir[t].summary.origin

=============================================================================
