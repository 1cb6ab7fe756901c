--------------------------- MODULE PageSizeChange ---------------------------
(***************************************************************************)
(* queries/change-innodb-page-size.sh: a server gets another page size by  *)
(* dumping its databases, making a new data directory and restoring them.  *)
(* A command that fails, or SIGINT or SIGTERM, makes the script undo what  *)
(* it has done, by what its variables say that is; anything else that ends *)
(* it (SIGHUP, SIGKILL, a second signal) leaves everything as it stands.   *)
(* A client that fails in a subshell is rolled back by the subshell, which *)
(* has the traps of the script (set -E), and then again by the script.     *)
(*                                                                         *)
(* Of the rollback's commands the script only reports which fail: here     *)
(* stopping the server, starting it and moving a directory that is not     *)
(* there may, and the others are taken to succeed.                         *)
(***************************************************************************)

EXTENDS Naturals

CONSTANTS
  Sizes,           \* page sizes
  Default,         \* the server's page size when no file sets it
  FailsAt,         \* the steps whose command may fail
  SubshellFailsAt, \* the steps whose client may fail in a subshell
  MayLinger,       \* whether a server may outlast the wait of a rollback for its stop
  SignalAt,        \* the steps a trapped signal is handled before
  KilledAt,        \* the steps the script may be ended before
  NoFile           \* no such file or directory

ASSUME SizesAssumption == Default \in Sizes /\ NoFile \notin Sizes

ASSUME FailuresAssumption == SubshellFailsAt \subseteq {"restore", "verify"} /\ MayLinger \in BOOLEAN

(* What a data directory holds: nothing a server could start on; no        *)
(* databases; some of their objects; all of them, but not all rows; all    *)
(* that was there when the run began.                                      *)
Dirs == [size : Sizes, data : {"none", "fresh", "some", "rows", "all"}]

ASSUME NoneAssumption == NoFile \notin Dirs /\ NoFile \notin {"done", "failed", "killed"}

VARIABLES
  datadir,      \* DATADIR
  olddir,       \* OLD_DATADIR of the last run
  aside,        \* what the last run has moved to DATADIR.failed-TS
  config_file,  \* the page size in CONFIG_FILE, NoFile without the file
  server,       \* whether the server runs
  leaving,      \* whether one runs that was told to stop
  backup,       \* what CONFIG_BACKUP holds, NoFile when there was no file
  page_kb,      \* PAGE_KB
  exact,        \* EXACT_COUNTS
  moved,        \* MOVED
  written,      \* CONFIG_WRITTEN
  left,         \* the rollbacks to come when a subshell's ends
  step,         \* the next step of the script; "off" between two runs
  ended,        \* how the last run ended
  was           \* data directory and configuration the last run began with

disk == <<datadir, olddir, aside, config_file>>

service == <<server, leaving>>

request == <<page_kb, exact, was>>

script == <<backup, moved, written, left>>

changeVars == <<disk, service, script, request, step, ended>>

(* The values of STAGE in which the server has not been touched.           *)
BeforeStop == {"dump", "save_config", "write_config", "note_config", "read_config"}

AfterStop == {"stop", "move", "note_move", "mkdir", "install", "start",
              "restore", "verify", "finish"}

Rollback == {"r_stop", "r_aside", "r_back", "r_config", "r_start"}

Steps == BeforeStop \union AfterStop \union {"revert"} \union Rollback

GoTo(from, to) == step = from /\ step' = to

(* A server starts on a directory of the size it is configured for.        *)
Startable(dir, conf) ==
  /\ dir # NoFile
  /\ dir.data # "none"
  /\ dir.size = IF conf = NoFile THEN Default ELSE conf

ChangeInit ==
  /\ config_file \in Sizes \union {NoFile}
  /\ datadir \in [size : Sizes, data : {"all"}] /\ Startable(datadir, config_file)
  /\ olddir = NoFile /\ aside = {}
  /\ server = TRUE /\ leaving = FALSE
  /\ backup = NoFile /\ moved = FALSE /\ written = FALSE /\ left = 0
  /\ page_kb = Default /\ exact = FALSE /\ was = [dir |-> datadir, conf |-> config_file]
  /\ step = "off" /\ ended = NoFile

NewSizes == Sizes \ {datadir.size}

(* The pre-checks: a server that runs, with another page size.  What it    *)
(* holds now is what this run has to keep.                                 *)
Begin ==
  /\ GoTo("off", "dump")
  /\ server
  /\ page_kb' \in NewSizes /\ exact' \in BOOLEAN
  /\ datadir' = [datadir EXCEPT !.data = "all"] /\ olddir' = NoFile /\ aside' = {}
  /\ was' = [dir |-> datadir', conf |-> config_file]
  /\ ended' = NoFile
  /\ UNCHANGED <<config_file, service, script>>

EndChange(how) ==
  /\ step' = "off" /\ ended' = how
  /\ backup' = NoFile /\ moved' = FALSE /\ written' = FALSE /\ left' = 0
  /\ UNCHANGED request

-----------------------------------------------------------------------------
(* 1. and 2.: the dump, and the file that sets the page size.              *)

Dump ==
  /\ GoTo("dump", "save_config")
  /\ UNCHANGED <<disk, service, script, request, ended>>

SaveConfig ==
  /\ GoTo("save_config", "write_config")
  /\ backup' = config_file
  /\ UNCHANGED <<disk, service, moved, written, left, request, ended>>

WriteConfig ==
  /\ GoTo("write_config", "note_config")
  /\ config_file' = page_kb
  /\ UNCHANGED <<datadir, olddir, aside, service, script, request, ended>>

NoteConfig ==
  /\ GoTo("note_config", "read_config")
  /\ written' = TRUE
  /\ UNCHANGED <<disk, service, backup, moved, left, request, ended>>

(* my_print_defaults says that the server will read it.                    *)
ReadConfig ==
  /\ GoTo("read_config", "stop")
  /\ UNCHANGED <<disk, service, script, request, ended>>

-----------------------------------------------------------------------------
(* 3. to 7.: the new data directory.                                       *)

(* Wrong variant of StopServer: the server is not waited for.              *)
StopServerOnly ==
  /\ GoTo("stop", "move")
  /\ UNCHANGED <<disk, service, script, request, ended>>

StopServer ==
  /\ GoTo("stop", "move")
  /\ server' = FALSE
  /\ UNCHANGED <<disk, leaving, script, request, ended>>

Move ==
  /\ GoTo("move", "note_move")
  /\ olddir' = datadir /\ datadir' = NoFile
  /\ UNCHANGED <<aside, config_file, service, script, request, ended>>

NoteMove ==
  /\ GoTo("note_move", "mkdir")
  /\ moved' = TRUE
  /\ UNCHANGED <<disk, service, backup, written, left, request, ended>>

MakeDir ==
  /\ GoTo("mkdir", "install")
  /\ datadir' = [size |-> page_kb, data |-> "none"]
  /\ UNCHANGED <<olddir, aside, config_file, service, script, request, ended>>

(* mariadb-install-db reads the same configuration as the server.          *)
Install ==
  /\ GoTo("install", "start")
  /\ datadir' = [size |-> IF config_file = NoFile THEN Default ELSE config_file, data |-> "fresh"]
  /\ UNCHANGED <<olddir, aside, config_file, service, script, request, ended>>

(* The server is up and reports PAGE_KB.                                   *)
StartNew ==
  /\ GoTo("start", "restore")
  /\ Startable(datadir, config_file) /\ datadir.size = page_kb
  /\ server' = TRUE
  /\ UNCHANGED <<disk, leaving, script, request, ended>>

(* The client reads the whole dump, and something may be missing.          *)
Restore ==
  /\ GoTo("restore", "verify")
  /\ \E got \in {"some", "rows", "all"} : datadir' = [datadir EXCEPT !.data = got]
  /\ UNCHANGED <<olddir, aside, config_file, service, script, request, ended>>

(* Wrong variant of Identical: --exact-counts has no effect.               *)
SameObjects(data) == data # "some"

(* Objects are counted, and with --exact-counts rows.                      *)
Identical(data) == data # "some" /\ (exact => data # "rows")

Verify ==
  /\ GoTo("verify", "finish")
  /\ Identical(datadir.data)
  /\ UNCHANGED <<disk, service, script, request, ended>>

Finish ==
  /\ step = "finish"
  /\ EndChange("done")
  /\ UNCHANGED <<disk, service>>

-----------------------------------------------------------------------------
(* Failures, and the way back.                                             *)

(* handle_failure(): before the server is stopped only the configuration   *)
(* is put back.                                                            *)
HandleFailure ==
  /\ \/ step \in BeforeStop /\ step' = "revert"
     \/ step \in AfterStop /\ step' = "r_stop"
  /\ UNCHANGED <<leaving, backup, moved, written, request, ended>>

(* A command, or the check after it, fails; some leave traces.             *)
CommandFails ==
  /\ step \in FailsAt
  /\ HandleFailure
  /\ left' = 0
  /\ \/ step \notin {"write_config", "start", "restore"} /\ UNCHANGED <<disk, server>>
     \/ step = "write_config" /\ config_file' = NoFile /\ UNCHANGED <<datadir, olddir, aside, server>>
     \/ step = "start" /\ UNCHANGED disk
        /\ server' \in BOOLEAN /\ (server' => Startable(datadir, config_file))
     \/ /\ step = "restore"
        /\ datadir' = [datadir EXCEPT !.data = "some"]
        /\ UNCHANGED <<olddir, aside, config_file, server>>

(* The client fails in a command substitution or in a pipeline.  Every     *)
(* subshell of the pipeline that counts the rows may be one that rolls     *)
(* back before the script does; they are taken one after the other.        *)
ClientFails ==
  /\ step \in SubshellFailsAt
  /\ HandleFailure
  /\ \/ /\ step = "restore" /\ left' = 1
        /\ datadir' \in {datadir, [datadir EXCEPT !.data = "some"]}
     \/ step = "verify" /\ exact /\ left' \in {1, 2} /\ UNCHANGED datadir
  /\ UNCHANGED <<olddir, aside, config_file, server>>

(* diff finds objects or rows missing.                                     *)
Differs ==
  /\ step = "verify" /\ ~Identical(datadir.data)
  /\ HandleFailure
  /\ UNCHANGED <<disk, server, left>>

Interrupted == step \in SignalAt /\ HandleFailure /\ UNCHANGED <<disk, server, left>>

(* The subshells have given up their traps and end, and the script, which  *)
(* has not, begins its own rollback.                                       *)
SubshellsInterrupted ==
  /\ step \in Rollback \intersect SignalAt /\ left > 0
  /\ step' = "r_stop" /\ left' = 0
  /\ UNCHANGED <<disk, service, backup, moved, written, request, ended>>

(* Wrong variant of RestoreConfig: the backup is not looked at.            *)
RemoveConfig ==
  /\ config_file' = IF written THEN NoFile ELSE config_file
  /\ UNCHANGED <<datadir, olddir, aside, service>>

(* restore_config().                                                       *)
RestoreConfig ==
  /\ config_file' = IF written THEN backup ELSE config_file
  /\ UNCHANGED <<datadir, olddir, aside, service>>

Revert == step = "revert" /\ RestoreConfig /\ EndChange("failed")

(* When the wait runs out, the script says so and goes on.                 *)
StopAgain ==
  /\ GoTo("r_stop", "r_aside")
  /\ server' = FALSE
  /\ leaving' \in BOOLEAN /\ (leaving' => MayLinger /\ (server \/ leaving))
  /\ UNCHANGED <<disk, script, request, ended>>

(* Wrong variant of MoveAside: the new directory is removed.               *)
RemoveAside ==
  /\ GoTo("r_aside", "r_back")
  /\ datadir' = IF moved THEN NoFile ELSE datadir
  /\ UNCHANGED <<olddir, aside, config_file, service, script, request, ended>>

(* What there is at DATADIR gets out of the way: to DATADIR.failed-TS, or  *)
(* into it where there is one by now.                                      *)
MoveAside ==
  /\ GoTo("r_aside", "r_back")
  /\ IF moved THEN datadir' = NoFile /\ aside' = aside \union ({datadir} \ {NoFile})
     ELSE UNCHANGED <<datadir, aside>>
  /\ UNCHANGED <<olddir, config_file, service, script, request, ended>>

(* mv only fails when there is nothing left at OLD_DATADIR.                *)
MoveBack ==
  /\ GoTo("r_back", "r_config")
  /\ IF moved THEN datadir' = olddir /\ olddir' = NoFile ELSE UNCHANGED <<datadir, olddir>>
  /\ UNCHANGED <<aside, config_file, service, script, request, ended>>

PutConfigBack ==
  /\ GoTo("r_config", "r_start")
  /\ RestoreConfig
  /\ UNCHANGED <<script, request, ended>>

(* A subshell's rollback leaves the variables of the script as they were.  *)
StartOld ==
  /\ step = "r_start"
  /\ leaving' \in BOOLEAN /\ (leaving' => leaving)
  /\ server' = (Startable(datadir, config_file) /\ ~leaving')
  /\ IF left = 0 THEN EndChange("failed")
     ELSE /\ step' = "r_stop" /\ left' = left - 1
          /\ UNCHANGED <<backup, moved, written, request, ended>>
  /\ UNCHANGED disk

Killed ==
  /\ step \in KilledAt
  /\ EndChange("killed")
  /\ UNCHANGED <<disk, service>>

ChangeNext ==
  \/ Begin \/ Dump \/ SaveConfig \/ WriteConfig \/ NoteConfig \/ ReadConfig
  \/ StopServer \/ Move \/ NoteMove \/ MakeDir \/ Install \/ StartNew \/ Restore
  \/ Verify \/ Finish
  \/ CommandFails \/ ClientFails \/ Differs \/ Interrupted \/ SubshellsInterrupted \/ Revert
  \/ StopAgain \/ MoveAside \/ MoveBack \/ PutConfigBack \/ StartOld
  \/ Killed

ChangeSpec == ChangeInit /\ [][ChangeNext]_changeVars

-----------------------------------------------------------------------------
ChangeTypeOK ==
  /\ datadir \in Dirs \union {NoFile} /\ olddir \in Dirs \union {NoFile} /\ aside \subseteq Dirs
  /\ config_file \in Sizes \union {NoFile} /\ backup \in Sizes \union {NoFile}
  /\ server \in BOOLEAN /\ leaving \in BOOLEAN
  /\ exact \in BOOLEAN /\ moved \in BOOLEAN /\ written \in BOOLEAN /\ left \in {0, 1, 2}
  /\ page_kb \in Sizes
  /\ was \in [dir : Dirs, conf : Sizes \union {NoFile}]
  /\ step \in Steps \union {"off"}
  /\ ended \in {NoFile, "done", "failed", "killed"}

(* A run that fails leaves the server as it found it: it runs, on its own  *)
(* data and configuration, as the script's head promises.                  *)
RollsBack ==
  ended = "failed" /\ Startable(was.dir, was.conf) =>
    server /\ datadir = was.dir /\ config_file = was.conf

(* A run that says it is done has what it promises, as far as it was asked *)
(* to compare: a server of the new page size with all the databases, and   *)
(* the old directory beside it.                                            *)
DoneIsComplete ==
  ended = "done" =>
    /\ server /\ Startable(datadir, config_file) /\ datadir.size = page_kb
    /\ datadir.data = "all" \/ (~exact /\ datadir.data = "rows")
    /\ olddir = was.dir

(* The data directory the run began with is never deleted, whatever fails  *)
(* and whenever the script is ended: it is in its place, at OLD_DATADIR, or*)
(* with what failed, where a second rollback takes it.                     *)
Kept == was.dir \in {datadir, olddir} \union aside

(* No directory is moved in or out while a server runs that nobody told to *)
(* stop, and, but by a rollback that has waited for it in vain (which says *)
(* so), none while one is still stopping.                                  *)
NeverUnderServer ==
  [][(datadir = NoFile) # (datadir' = NoFile) =>
       ~server /\ (leaving => step \in {"r_aside", "r_back"})]_changeVars

=============================================================================
