------------------------- MODULE PageSizeChangeProofs ------------------------
(***************************************************************************)
(* The change of the page size, for any sizes.  Of a script that fails, is *)
(* interrupted and is ended anywhere, itself or in its subshells: types,   *)
(* that the data is kept, that no directory moves under a server nobody    *)
(* told to stop, and what "done" means.  Of one that fails itself and is   *)
(* interrupted where its variables say what it has done, with a server     *)
(* that stops when told to: that it rolls back.                            *)
(***************************************************************************)
EXTENDS PageSizeChange, TLAPS

\* The old directory has been moved away, or there is no server.
Moved == {"note_move", "mkdir", "install", "start", "restore", "verify", "finish"}

Down == {"move", "note_move", "mkdir", "install", "start",
         "r_aside", "r_back", "r_config", "r_start"}

(* What every step preserves, whatever fails and whenever the script ends. *)
ScriptInv ==
  /\ ChangeTypeOK
  /\ IF step = "off" THEN ~moved /\ ~written ELSE ended = NoFile
  /\ step \notin Rollback => left = 0
  /\ leaving => ~server /\ step \in Rollback \union {"off"}
  /\ server => datadir # NoFile
  /\ step \in Down => ~server
  /\ step \in BeforeStop \union {"revert", "stop", "move"} => datadir = was.dir
  /\ step \in Moved => olddir = was.dir
  /\ step = "r_back" /\ moved => datadir = NoFile
  /\ step \in BeforeStop \union {"revert", "stop", "move", "note_move"} => ~moved
  /\ Kept
  /\ step = "restore" => server /\ datadir.size = page_kb /\ Startable(datadir, config_file)
  /\ step = "verify" => /\ server /\ datadir.size = page_kb /\ Startable(datadir, config_file)
                        /\ datadir.data \in {"some", "rows", "all"}
  /\ step = "finish" => /\ server /\ datadir.size = page_kb /\ Startable(datadir, config_file)
                        /\ datadir.data = "all" \/ (~exact /\ datadir.data = "rows")
  /\ DoneIsComplete

LEMMA ScriptInit == ChangeInit => ScriptInv
<1> SUFFICES ASSUME ChangeInit PROVE ScriptInv
  OBVIOUS
<1>1. datadir \in Dirs /\ config_file \in Sizes \union {NoFile}  BY DEF ChangeInit, Dirs
<1>2. was \in [dir : Dirs, conf : Sizes \union {NoFile}] /\ was.dir = datadir  BY <1>1 DEF ChangeInit
<1>3. ChangeTypeOK  BY <1>1, <1>2, SizesAssumption DEF ChangeInit, ChangeTypeOK
<1>4. datadir # NoFile  BY <1>1, NoneAssumption
<1>5. QED
  BY <1>2, <1>3, <1>4, SizesAssumption, NoneAssumption
  DEF ChangeInit, ScriptInv, Kept, DoneIsComplete, Down, BeforeStop, Moved, Rollback

LEMMA ScriptBegin == ScriptInv /\ Begin => ScriptInv'
<1> SUFFICES ASSUME ScriptInv, Begin PROVE ScriptInv'
  OBVIOUS
<1>1. datadir \in Dirs /\ step = "off" /\ step' = "dump"  BY DEF Begin, GoTo, ScriptInv, ChangeTypeOK
<1>2. datadir' \in Dirs /\ datadir' # NoFile  BY <1>1, NoneAssumption DEF Begin, Dirs
<1>3. was' \in [dir : Dirs, conf : Sizes \union {NoFile}] /\ was'.dir = datadir'
  BY <1>2 DEF Begin, ScriptInv, ChangeTypeOK
<1>4. /\ UNCHANGED <<config_file, server, leaving, backup, moved, written, left>>
      /\ ended' = NoFile /\ olddir' = NoFile /\ aside' = {} /\ server
  BY DEF Begin, script, service
<1>5. page_kb' \in Sizes /\ exact' \in BOOLEAN  BY DEF Begin, NewSizes
<1>6. ChangeTypeOK'  BY <1>1, <1>2, <1>3, <1>4, <1>5 DEF ChangeTypeOK, ScriptInv, Steps, BeforeStop
<1>7. QED
  BY <1>1, <1>2, <1>3, <1>4, <1>6, NoneAssumption
  DEF ScriptInv, Kept, DoneIsComplete, Down, BeforeStop, Moved, Rollback

LEMMA ScriptEnd ==
  ASSUME NEW how \in {"done", "failed", "killed"}, EndChange(how), UNCHANGED disk, ScriptInv,
         server' \in BOOLEAN, server' => datadir # NoFile,
         leaving' \in BOOLEAN, leaving' => ~server',
         how = "done" => step = "finish" /\ server'
  PROVE  ScriptInv'
<1>1. /\ step' = "off" /\ ended' = how /\ backup' = NoFile /\ ~moved' /\ ~written'
      /\ moved' \in BOOLEAN /\ written' \in BOOLEAN /\ left' = 0
      /\ UNCHANGED <<page_kb, exact, was, datadir, olddir, aside, config_file>>
  BY DEF EndChange, request, disk
<1>2. ChangeTypeOK'  BY <1>1 DEF ScriptInv, ChangeTypeOK
<1>3. DoneIsComplete'
  BY <1>1 DEF ScriptInv, DoneIsComplete, Startable, Moved
<1>4. QED  BY <1>1, <1>2, <1>3 DEF ScriptInv, Kept, Down, BeforeStop, Moved, Rollback

LEMMA ScriptConfig ==
  ScriptInv /\ (Dump \/ SaveConfig \/ WriteConfig \/ NoteConfig \/ ReadConfig) => ScriptInv'
<1> SUFFICES ASSUME ScriptInv
             PROVE  (Dump \/ SaveConfig \/ WriteConfig \/ NoteConfig \/ ReadConfig) => ScriptInv'
  OBVIOUS
<1> USE NoneAssumption
    DEF ScriptInv, ChangeTypeOK, GoTo, disk, service, script, request, Steps, BeforeStop, AfterStop, Rollback,
        Down, Moved, Kept, DoneIsComplete
<1>1. Dump => ScriptInv'  BY DEF Dump
<1>2. SaveConfig => ScriptInv'  BY DEF SaveConfig
<1>3. WriteConfig => ScriptInv'  BY DEF WriteConfig
<1>4. NoteConfig => ScriptInv'  BY DEF NoteConfig
<1>5. ReadConfig => ScriptInv'  BY DEF ReadConfig
<1>6. QED  BY <1>1, <1>2, <1>3, <1>4, <1>5

LEMMA ScriptMove == ScriptInv /\ (StopServer \/ Move \/ NoteMove \/ MakeDir \/ Install) => ScriptInv'
<1> SUFFICES ASSUME ScriptInv
             PROVE  (StopServer \/ Move \/ NoteMove \/ MakeDir \/ Install) => ScriptInv'
  OBVIOUS
<1> USE NoneAssumption
    DEF ScriptInv, ChangeTypeOK, GoTo, disk, service, script, request, Steps, BeforeStop, AfterStop, Rollback,
        Down, Moved, Kept, DoneIsComplete
<1>1. StopServer => ScriptInv'
  <2> SUFFICES ASSUME StopServer PROVE ScriptInv'
    OBVIOUS
  <2>1. ~server' /\ server' \in BOOLEAN  BY DEF StopServer
  <2>2. ChangeTypeOK'  BY <2>1 DEF StopServer
  <2>3. QED  BY <2>1, <2>2 DEF StopServer
<1>2. Move => ScriptInv'  BY DEF Move
<1>3. NoteMove => ScriptInv'  BY DEF NoteMove
<1>4. MakeDir => ScriptInv'
  <2>1. [size |-> page_kb, data |-> "none"] \in Dirs  BY DEF Dirs
  <2>2. QED  BY <2>1 DEF MakeDir
<1>5. Install => ScriptInv'
  <2>1. [size |-> IF config_file = NoFile THEN Default ELSE config_file, data |-> "fresh"] \in Dirs
    BY SizesAssumption DEF Dirs
  <2>2. QED  BY <2>1 DEF Install
<1>6. QED  BY <1>1, <1>2, <1>3, <1>4, <1>5

LEMMA ScriptRestore == ScriptInv /\ (StartNew \/ Restore \/ Verify \/ Finish) => ScriptInv'
<1> SUFFICES ASSUME ScriptInv
             PROVE  (StartNew \/ Restore \/ Verify \/ Finish) => ScriptInv'
  OBVIOUS
<1>1. StartNew => ScriptInv'
  BY DEF StartNew, Startable, ScriptInv, ChangeTypeOK, GoTo, disk, service, script, request, Steps, AfterStop,
         BeforeStop, Rollback, Down, Moved, Kept, DoneIsComplete
<1>2. Restore => ScriptInv'
  <2> SUFFICES ASSUME Restore PROVE ScriptInv'
    OBVIOUS
  <2>1. datadir \in Dirs /\ step = "restore" /\ step' = "verify" /\ server
    BY DEF Restore, GoTo, ScriptInv, ChangeTypeOK
  <2>2. PICK got \in {"some", "rows", "all"} : datadir' = [datadir EXCEPT !.data = got]
    BY DEF Restore
  <2>3. datadir' \in Dirs /\ datadir'.size = datadir.size /\ datadir'.data = got
    BY <2>1, <2>2 DEF Dirs
  <2>4. UNCHANGED <<olddir, aside, config_file, server, leaving, backup, moved, written, left,
                    page_kb, exact, was, ended>>
    BY DEF Restore, service, script, request
  <2>5. datadir' # NoFile /\ Startable(datadir', config_file)
    BY <2>1, <2>3, NoneAssumption DEF Startable, ScriptInv
  <2>6. ChangeTypeOK'  BY <2>1, <2>3, <2>4 DEF ChangeTypeOK, ScriptInv, Steps, AfterStop
  <2>7. QED
    BY <2>1, <2>3, <2>4, <2>5, <2>6, NoneAssumption
    DEF ScriptInv, Kept, DoneIsComplete, Down, BeforeStop, Moved, Rollback, Startable
<1>3. Verify => ScriptInv'
  BY DEF Verify, Identical, Startable, ScriptInv, ChangeTypeOK, GoTo, disk, service, script, request, Steps,
         AfterStop, BeforeStop, Rollback, Down, Moved, Kept, DoneIsComplete
<1>4. Finish => ScriptInv'  BY ScriptEnd DEF Finish, ScriptInv, ChangeTypeOK, service
<1>5. QED  BY <1>1, <1>2, <1>3, <1>4

LEMMA ScriptFails ==
  ScriptInv /\ (CommandFails \/ ClientFails \/ Differs \/ Interrupted) => ScriptInv'
<1> SUFFICES ASSUME ScriptInv, CommandFails \/ ClientFails \/ Differs \/ Interrupted PROVE ScriptInv'
  OBVIOUS
<1>1. /\ UNCHANGED <<olddir, aside, leaving, backup, moved, written, page_kb, exact, was, ended>>
      /\ \/ step \in BeforeStop /\ step' = "revert"
         \/ step \in AfterStop /\ step' = "r_stop"
  BY DEF CommandFails, ClientFails, Differs, Interrupted, HandleFailure, request, disk
<1>2. step \notin Rollback \union {"off"} /\ ~leaving /\ left = 0
  BY <1>1 DEF BeforeStop, AfterStop, Rollback, ScriptInv
<1>3. left' \in {0, 1, 2} /\ (step \in BeforeStop => left' = 0)
  BY <1>2 DEF CommandFails, ClientFails, Differs, Interrupted, BeforeStop
<1>4. /\ server' \in BOOLEAN /\ (server' => server \/ Startable(datadir, config_file))
      /\ step \in BeforeStop => UNCHANGED server
  <2>1. server \in BOOLEAN  BY DEF ScriptInv, ChangeTypeOK
  <2>2. QED  BY <2>1 DEF CommandFails, ClientFails, Differs, Interrupted, BeforeStop
<1>5. \/ config_file' \in {config_file, NoFile} /\ UNCHANGED datadir
      \/ /\ step = "restore" /\ UNCHANGED config_file
         /\ datadir' \in {datadir, [datadir EXCEPT !.data = "some"]}
  BY DEF CommandFails, ClientFails, Differs, Interrupted, disk
<1>6. datadir' \in Dirs \union {NoFile} /\ (datadir # NoFile => datadir' # NoFile)
  <2>1. datadir \in Dirs \/ datadir = NoFile  BY DEF ScriptInv, ChangeTypeOK
  <2>2. step = "restore" => datadir \in Dirs  BY <2>1 DEF ScriptInv, Startable
  <2>3. datadir \in Dirs => [datadir EXCEPT !.data = "some"] \in Dirs  BY DEF Dirs
  <2>4. QED  BY <1>5, <2>1, <2>2, <2>3, NoneAssumption
<1>7. ChangeTypeOK'  BY <1>1, <1>3, <1>4, <1>5, <1>6 DEF ScriptInv, ChangeTypeOK, Steps, Rollback
<1>8. server' => datadir' # NoFile  BY <1>4, <1>6 DEF ScriptInv, Startable
<1>9. Kept'
  <2>1. step \in Moved => olddir = was.dir  BY DEF ScriptInv
  <2>2. QED  BY <1>1, <1>5, <2>1 DEF ScriptInv, Kept, Moved
<1>10. QED
  BY <1>1, <1>2, <1>3, <1>4, <1>5, <1>7, <1>8, <1>9, NoneAssumption
  DEF ScriptInv, DoneIsComplete, Down, BeforeStop, AfterStop, Moved, Rollback

LEMMA ScriptRollsBack ==
  /\ ScriptInv
  /\ \/ Revert \/ StopAgain \/ MoveAside \/ MoveBack \/ PutConfigBack \/ StartOld
     \/ SubshellsInterrupted
  => ScriptInv'
<1> SUFFICES ASSUME ScriptInv
             PROVE  (\/ Revert \/ StopAgain \/ MoveAside \/ MoveBack \/ PutConfigBack \/ StartOld
                     \/ SubshellsInterrupted)
                      => ScriptInv'
  OBVIOUS
<1>1. Revert => ScriptInv'
  <2> SUFFICES ASSUME Revert PROVE ScriptInv'
    OBVIOUS
  <2>1. /\ step = "revert" /\ step' = "off" /\ ended' = "failed"
        /\ backup' = NoFile /\ ~moved' /\ ~written' /\ moved' \in BOOLEAN /\ written' \in BOOLEAN
        /\ left' = 0
        /\ UNCHANGED <<page_kb, exact, was, datadir, olddir, aside, server, leaving>>
    BY DEF Revert, EndChange, request, service, RestoreConfig
  <2>2. config_file' \in Sizes \union {NoFile}  BY DEF Revert, RestoreConfig, ScriptInv, ChangeTypeOK
  <2>3. ChangeTypeOK'  BY <2>1, <2>2 DEF ScriptInv, ChangeTypeOK
  <2>4. QED
    BY <2>1, <2>3 DEF ScriptInv, Kept, DoneIsComplete, Down, BeforeStop, Moved, Rollback
<1>2. StartOld => ScriptInv'
  <2> SUFFICES ASSUME StartOld PROVE ScriptInv'
    OBVIOUS
  <2>1. /\ leaving' \in BOOLEAN /\ server' \in BOOLEAN
        /\ server' => datadir # NoFile
        /\ leaving' => ~server'
    BY DEF StartOld, Startable
  <2>2. CASE left = 0  BY <2>1, <2>2, ScriptEnd DEF StartOld
  <2>3. CASE left # 0
    <3>1. left' \in {0, 1, 2}
      <4>1. left \in {1, 2} /\ left' = left - 1  BY <2>3 DEF StartOld, ScriptInv, ChangeTypeOK
      <4>2. QED  BY <4>1
    <3>2. /\ step = "r_start" /\ step' = "r_stop"
          /\ UNCHANGED <<datadir, olddir, aside, config_file, backup, moved, written, page_kb, exact, was,
                         ended>>
      BY <2>3 DEF StartOld, disk, request
    <3>3. ChangeTypeOK'  BY <2>1, <3>1, <3>2 DEF ScriptInv, ChangeTypeOK, Steps, Rollback
    <3>4. QED
      BY <2>1, <3>1, <3>2, <3>3, NoneAssumption
      DEF ScriptInv, Kept, DoneIsComplete, Down, BeforeStop, Moved, Rollback
  <2>4. QED  BY <2>2, <2>3
<1> USE NoneAssumption
    DEF ScriptInv, ChangeTypeOK, GoTo, disk, service, script, request, Steps, BeforeStop, AfterStop,
        Rollback, Down, Moved, Kept, DoneIsComplete
<1>3. StopAgain => ScriptInv'
  <2> SUFFICES ASSUME StopAgain PROVE ScriptInv'
    OBVIOUS
  <2>1. ~server' /\ server' \in BOOLEAN /\ leaving' \in BOOLEAN
    BY DEF StopAgain
  <2>2. ChangeTypeOK'  BY <2>1 DEF StopAgain
  <2>3. QED  BY <2>1, <2>2 DEF StopAgain
<1>4. MoveAside => ScriptInv'
  <2> SUFFICES ASSUME MoveAside PROVE ScriptInv'
    OBVIOUS
  <2>1. aside' \subseteq Dirs /\ datadir' \in Dirs \union {NoFile}  BY DEF MoveAside
  <2>2. Kept'
    <3>1. was.dir # NoFile  BY DEF MoveAside
    <3>2. QED  BY <3>1 DEF MoveAside
  <2>3. ChangeTypeOK'  BY <2>1 DEF MoveAside
  <2>4. QED  BY <2>2, <2>3 DEF MoveAside
<1>5. MoveBack => ScriptInv'
  <2> SUFFICES ASSUME MoveBack PROVE ScriptInv'
    OBVIOUS
  <2>1. was.dir # NoFile  BY DEF MoveBack
  <2>2. Kept'  BY <2>1 DEF MoveBack
  <2>3. ChangeTypeOK'  BY DEF MoveBack
  <2>4. QED  BY <2>2, <2>3 DEF MoveBack
<1>6. PutConfigBack => ScriptInv'  BY DEF PutConfigBack, RestoreConfig
<1>7. SubshellsInterrupted => ScriptInv'  BY DEF SubshellsInterrupted
<1>8. QED  BY <1>1, <1>2, <1>3, <1>4, <1>5, <1>6, <1>7

LEMMA ScriptNext == ScriptInv /\ [ChangeNext]_changeVars => ScriptInv'
<1> SUFFICES ASSUME ScriptInv, [ChangeNext]_changeVars PROVE ScriptInv'
  OBVIOUS
<1>1. CASE UNCHANGED changeVars
  BY <1>1 DEF ScriptInv, ChangeTypeOK, Kept, DoneIsComplete, Startable, changeVars, disk, service, script, request,
            Rollback
<1>2. CASE Killed  BY <1>2, ScriptEnd DEF Killed, ScriptInv, ChangeTypeOK, service
<1>3. QED
  BY <1>1, <1>2, ScriptBegin, ScriptConfig, ScriptMove, ScriptRestore, ScriptFails, ScriptRollsBack
  DEF ChangeNext

(* What is on disk at each step of the script, and what its variables say  *)
(* of it, whatever fails and whatever signal comes.                        *)
THEOREM ScriptInvariant == ChangeSpec => []ScriptInv
<1>1. QED  BY ScriptInit, ScriptNext, PTL DEF ChangeSpec

(* Every variable has its type, whatever fails.                            *)
THEOREM TypeAlwaysOK == ChangeSpec => []ChangeTypeOK
<1>1. ScriptInv => ChangeTypeOK  BY DEF ScriptInv
<1>2. QED  BY <1>1, ScriptInvariant, PTL

(* The data directory a run began with is in its place, at OLD_DATADIR or  *)
(* at DATADIR.failed-TS, whatever fails and whenever the script ends.      *)
THEOREM DataAlwaysKept == ChangeSpec => []Kept
<1>1. ScriptInv => Kept  BY DEF ScriptInv
<1>2. QED  BY <1>1, ScriptInvariant, PTL

(* "done" means what it promises, for any page sizes.                      *)
THEOREM DoneAlwaysComplete == ChangeSpec => []DoneIsComplete
<1>1. ScriptInv => DoneIsComplete  BY DEF ScriptInv
<1>2. QED  BY <1>1, ScriptInvariant, PTL

(* No directory is moved under a server nobody told to stop, and only the  *)
(* two moves of a rollback that has waited in vain under one that was.     *)
THEOREM AlwaysWithoutServer == ChangeSpec => NeverUnderServer
<1>1. ScriptInv /\ [ChangeNext]_changeVars =>
        [(datadir = NoFile) # (datadir' = NoFile) => ~server /\ (leaving => step \in {"r_aside", "r_back"})]_changeVars
  <2>1. SUFFICES ASSUME ScriptInv, ChangeNext,
                        server \/ (leaving /\ step \notin {"r_aside", "r_back"})
                 PROVE  (datadir = NoFile) <=> (datadir' = NoFile)
    OBVIOUS
  <2>2. CASE leaving /\ step \notin {"r_aside", "r_back"}
    <3>1. step \in {"off", "r_stop", "r_config", "r_start"} /\ ~server
      BY <2>1, <2>2 DEF ScriptInv, Rollback
    <3>2. CASE StopAgain \/ PutConfigBack \/ StartOld \/ Killed \/ SubshellsInterrupted
      BY <3>2 DEF StopAgain, PutConfigBack, RestoreConfig, StartOld, Killed, SubshellsInterrupted, disk
    <3>3. ~(CommandFails \/ ClientFails \/ Differs \/ Interrupted)
      BY <3>1 DEF CommandFails, ClientFails, Differs, Interrupted, HandleFailure, BeforeStop, AfterStop
    <3>4. ~(Begin \/ Dump \/ SaveConfig \/ WriteConfig \/ NoteConfig \/ ReadConfig \/ StopServer
            \/ Move \/ NoteMove \/ MakeDir \/ Install \/ StartNew \/ Restore \/ Verify \/ Finish
            \/ Revert \/ MoveAside \/ MoveBack)
      BY <3>1 DEF Begin, Dump, SaveConfig, WriteConfig, NoteConfig, ReadConfig, StopServer, Move,
                  NoteMove, MakeDir, Install, StartNew, Restore, Verify, Finish, Revert, MoveAside,
                  MoveBack, GoTo
    <3>5. QED  BY <2>1, <3>2, <3>3, <3>4 DEF ChangeNext
  <2>3. CASE server
    <3>1. datadir \in Dirs /\ datadir # NoFile /\ step \notin Down
      BY <2>1, <2>3 DEF ScriptInv, ChangeTypeOK
    <3>2. \A x \in {"some", "rows", "all"} : [datadir EXCEPT !.data = x] # NoFile
      <4>1. \A x \in {"some", "rows", "all"} : [datadir EXCEPT !.data = x] \in Dirs
        BY <3>1 DEF Dirs
      <4>2. QED  BY <4>1, NoneAssumption
    <3>3. CASE Begin  BY <3>1, <3>2, <3>3 DEF Begin
    <3>4. CASE Restore  BY <3>1, <3>2, <3>4 DEF Restore
    <3>5. CASE CommandFails \/ ClientFails \/ Differs \/ Interrupted
      BY <3>1, <3>2, <3>5 DEF CommandFails, ClientFails, Differs, Interrupted, disk
    <3>6. CASE Move \/ MakeDir \/ Install \/ MoveAside \/ MoveBack
      BY <3>1, <3>6 DEF Move, MakeDir, Install, MoveAside, MoveBack, GoTo, Down
    <3>7. CASE Dump \/ SaveConfig \/ WriteConfig \/ NoteConfig \/ ReadConfig \/ StopServer
               \/ NoteMove \/ StartNew \/ Verify \/ Finish
      BY <3>7 DEF Dump, SaveConfig, WriteConfig, NoteConfig, ReadConfig, StopServer, NoteMove,
                  StartNew, Verify, Finish, disk
    <3>8. CASE Revert \/ StopAgain \/ PutConfigBack \/ StartOld \/ Killed \/ SubshellsInterrupted
      BY <3>8 DEF Revert, RestoreConfig, StopAgain, PutConfigBack, StartOld, Killed,
                  SubshellsInterrupted, disk
    <3>9. QED  BY <2>1, <3>3, <3>4, <3>5, <3>6, <3>7, <3>8 DEF ChangeNext
  <2>4. QED  BY <2>1, <2>2, <2>3
<1>2. QED  BY <1>1, ScriptInvariant, PTL DEF ChangeSpec, NeverUnderServer

-----------------------------------------------------------------------------
(* Nothing fails, and no signal comes, between a command and the variable  *)
(* that says it has been run; what fails, fails in the script's own shell; *)
(* and a server stops before the wait for it runs out.                     *)
Noted ==
  /\ FailsAt \intersect {"write_config", "note_config", "note_move"} = {}
  /\ SignalAt \intersect {"note_config", "note_move"} = {}
  /\ SubshellFailsAt = {}
  /\ ~MayLinger

(* What the rollback relies on.                                            *)
RollbackInv ==
  /\ left = 0 /\ ~leaving
  /\ step \in {"dump", "save_config", "write_config"} => ~written /\ config_file = was.conf
  /\ step \in {"write_config", "note_config"} => backup = was.conf
  /\ step = "note_config" => ~written
  /\ step \in {"read_config"} \union AfterStop \union (Rollback \ {"r_start"}) =>
       written /\ backup = was.conf
  /\ step \in BeforeStop \union {"revert", "stop"} => server
  /\ step \in AfterStop \ {"stop", "move", "note_move"} => moved
  /\ step = "revert" => IF written THEN backup = was.conf ELSE config_file = was.conf
  /\ step \in {"r_stop", "r_aside", "r_back"} => IF moved THEN olddir = was.dir ELSE datadir = was.dir
  /\ step \in {"r_config", "r_start"} => datadir = was.dir
  /\ step = "r_start" => config_file = was.conf
  /\ RollsBack

LEMMA RollbackInit == ChangeInit => RollbackInv
  BY NoneAssumption DEF ChangeInit, RollbackInv, RollsBack, BeforeStop, AfterStop, Rollback

LEMMA RollbackNext == Noted /\ ScriptInv /\ RollbackInv /\ [ChangeNext]_changeVars => RollbackInv'
<1> SUFFICES ASSUME Noted, ScriptInv, RollbackInv, [ChangeNext]_changeVars PROVE RollbackInv'
  OBVIOUS
<1> USE NoneAssumption
    DEF RollbackInv, RollsBack, GoTo, BeforeStop, AfterStop, Rollback, disk, service, script, request
<1>1. CASE Begin  BY <1>1 DEF Begin, ScriptInv
<1>2. CASE Dump \/ SaveConfig \/ WriteConfig
  BY <1>2 DEF Dump, SaveConfig, WriteConfig, ScriptInv
<1>3. CASE NoteConfig \/ ReadConfig  BY <1>3 DEF NoteConfig, ReadConfig, ScriptInv
<1>4. CASE StopServer \/ Move \/ NoteMove  BY <1>4 DEF StopServer, Move, NoteMove, ScriptInv
<1>5. CASE MakeDir \/ Install  BY <1>5 DEF MakeDir, Install, ScriptInv
<1>6. CASE StartNew \/ Restore \/ Verify  BY <1>6 DEF StartNew, Restore, Verify, ScriptInv
<1>7. CASE Finish \/ Killed  BY <1>7 DEF Finish, Killed, EndChange
<1>8. CASE CommandFails \/ Differs \/ Interrupted
  <2>1. /\ UNCHANGED <<leaving, left, backup, moved, written, was, ended, olddir, config_file>>
        /\ step \in BeforeStop \union {"stop"} => UNCHANGED server
        /\ step # "restore" => datadir' = datadir
        /\ step \notin {"note_config", "note_move"}
        /\ \/ step \in BeforeStop /\ step' = "revert"
           \/ step \in AfterStop /\ step' = "r_stop"
    BY <1>8 DEF CommandFails, Differs, Interrupted, HandleFailure, Noted
  <2>2. step \in Moved => olddir = was.dir  BY DEF ScriptInv
  <2>3. step \in {"stop", "move"} => datadir = was.dir /\ ~moved  BY DEF ScriptInv
  <2>4. ended = NoFile /\ ended' = NoFile  BY <2>1 DEF ScriptInv
  <2>5. QED  BY <2>1, <2>2, <2>3, <2>4 DEF Moved
<1>9. CASE Revert  BY <1>9 DEF Revert, RestoreConfig, EndChange, ScriptInv
<1>10. CASE StopAgain \/ MoveAside \/ MoveBack
  BY <1>10 DEF StopAgain, MoveAside, MoveBack, ScriptInv, Noted
<1>11. CASE PutConfigBack  BY <1>11 DEF PutConfigBack, RestoreConfig, ScriptInv
<1>12. CASE StartOld
  BY <1>12 DEF StartOld, EndChange
<1>13. ~ClientFails /\ ~SubshellsInterrupted  BY DEF ClientFails, SubshellsInterrupted, Noted
<1>14. CASE UNCHANGED changeVars  BY <1>14 DEF changeVars
<1>15. QED
  BY <1>1, <1>2, <1>3, <1>4, <1>5, <1>6, <1>7, <1>8, <1>9, <1>10, <1>11, <1>12, <1>13, <1>14
  DEF ChangeNext

(* Under Noted a run that fails leaves the server as it found it, for any  *)
(* page sizes and whatever the server's file said.                         *)
THEOREM AlwaysRollsBack == ASSUME Noted PROVE ChangeSpec => []RollsBack
<1>1. ChangeInit => ScriptInv /\ RollbackInv  BY ScriptInit, RollbackInit
<1>2. ScriptInv /\ RollbackInv /\ [ChangeNext]_changeVars => (ScriptInv /\ RollbackInv)'
  BY ScriptNext, RollbackNext
<1>3. RollbackInv => RollsBack  BY DEF RollbackInv
<1>4. QED  BY <1>1, <1>2, <1>3, PTL DEF ChangeSpec

=============================================================================
