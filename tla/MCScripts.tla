------------------------------ MODULE MCScripts ------------------------------
(***************************************************************************)
(* The scripts that change what outlives them: the container's, over a     *)
(* volume (Pipeline), and the host's, on a server (PageSizeChange).  They  *)
(* share nothing, so a behaviour is about one of them.  Each is run in two *)
(* ways: under whatever can happen to it, and careful, with what it can    *)
(* recover from.                                                           *)
(***************************************************************************)
EXTENDS MCPipeline, PageSizeChange

VARIABLES
  host,    \* whether it is the host's script
  careful  \* whether it is run the careful way

-----------------------------------------------------------------------------
\* A kill in one of these stages leaves the volume usable.
SafeStages == Stages \ {"clean", "wipe", "loading"}

CarefulPipeline == INSTANCE Pipeline WITH KilledIn <- SafeStages, KilledBefore <- FALSE

\* The steps before a variable is set that says what the last command did.
NotedLate == {"note_config", "note_move"}

\* The commands that fail as a whole, or, like write_config(), in the middle.
Commands == {"dump", "save_config", "read_config", "stop", "move", "mkdir", "install",
             "start", "restore", "verify"}

AllCommands == Commands \union {"write_config"}

CarefulChange == INSTANCE PageSizeChange WITH
  FailsAt <- Commands, SubshellFailsAt <- {}, MayLinger <- FALSE,
  SignalAt <- (BeforeStop \union AfterStop) \ NotedLate, KilledAt <- {}

-----------------------------------------------------------------------------
\* The script that is not run has one initial state.
MCInit ==
  /\ host \in BOOLEAN /\ careful \in BOOLEAN
  /\ Init /\ ChangeInit
  /\ ~host => config_file = NoFile

MCNext ==
  /\ UNCHANGED <<host, careful>>
  /\ IF host
     THEN UNCHANGED vars /\ IF careful THEN CarefulChange!ChangeNext ELSE ChangeNext
     ELSE UNCHANGED changeVars /\ IF careful THEN CarefulPipeline!Next ELSE Next

MCSpec == MCInit /\ [][MCNext]_<<vars, changeVars, host, careful>>

-----------------------------------------------------------------------------
(* With no kill in the middle of rm -f or rm -rf, while tables are loaded, *)
(* or between the marker of a new data set and its load, a result is       *)
(* measured on the data set it is labelled with, whatever runs came before.*)
CarefulResultHonest == careful => ResultHonest

(* With no such kill the marker of the data speaks for every file.         *)
CarefulDataMarkHonest == careful => DataMarkHonest

(* With no such kill the server is started on a data directory of the size *)
(* that it is configured for.                                              *)
CarefulDatadirUsable == careful => DatadirUsable

(* With no such kill no run fails on what the runs before it left.         *)
CarefulRunsRecover == careful => RunsRecover

(* If commands fail in the script itself, signals come where its variables *)
(* say what it has done and a server that is told to stop does, a run that *)
(* fails leaves the server as it was found, as the script's head promises. *)
CarefulRollsBack == careful => RollsBack
=============================================================================
