------------------------------ MODULE Pipeline ------------------------------
(***************************************************************************)
(* A benchmark run in its container: docker/entrypoint.sh, from the data   *)
(* it generates to the result it records.  Generated files, database and   *)
(* two marker files live in a volume that the next run reuses; a run may   *)
(* ask for another data set or page size than the last one, and may be     *)
(* killed at any point, which leaves the volume as it is and loses what    *)
(* the script keeps in its own variables.                                  *)
(*                                                                         *)
(* The index and ANALYZE stages change nothing a result's rows depend on   *)
(* and are left out, as are a dsdgen that fails and a full disk.           *)
(***************************************************************************)
EXTENDS Sequences, Naturals

CONSTANTS
  Datasets,    \* "SCALE:RNGSEED", what identifies a generated data set
  Pages,       \* the values of PAGE_SIZE
  Tables,
  Files,       \* the order dsdgen writes the tables in, and rm removes them
  LoadOrder,   \* the order sql/04_load_data.sql loads them in
  Sales,       \* store_sales, the table whose file and rows are looked at
  KilledIn,    \* the stages a run is killed in
  KilledBefore,\* whether it is killed too between the marker of a new data
               \* set and the reload, which only the variable RELOAD asks for
  None,        \* no such file, table or directory; an unknown marker
  Torn,        \* a system database mariadb-install-db has not finished
  Empty        \* a table without rows

ASSUME TablesAssumption ==
  /\ Files \in Seq(Tables) /\ Tables = {Files[k] : k \in DOMAIN Files}
  /\ LoadOrder \in Seq(Tables) /\ Tables = {LoadOrder[k] : k \in DOMAIN LoadOrder}
  /\ Len(Files) = Len(LoadOrder)
  /\ \A j, k \in 1 .. Len(Files) : Files[j] = Files[k] \/ LoadOrder[j] = LoadOrder[k] => j = k
  /\ Sales \in Tables
  /\ KilledBefore \in BOOLEAN

(* What a file or a loaded table holds: the rows of a data set, all or     *)
(* some of them.                                                           *)
Rows(d) == [of |-> d, whole |-> TRUE]

SomeRows(d) == [of |-> d, whole |-> FALSE]

Contents == [of : Datasets, whole : BOOLEAN]

ASSUME NamesAssumption ==
  /\ None # Torn /\ None # Empty
  /\ None \notin Datasets \union Pages \union Contents
  /\ Torn \notin Pages
  /\ Empty \notin Contents

VARIABLES
  dat,      \* the volume: table -> its .dat file
  mark,     \* the volume: .scale, the data set the files belong to
  dd,       \* the volume: the page size of the data directory
  ddmark,   \* the volume: .innodb_page_size
  db,       \* the volume: table -> its rows in database tpcds
  pc,       \* where the run is; "off" or "failed" between two runs
  want,     \* SCALE and RNGSEED of the run
  page,     \* PAGE_SIZE of the run
  reload,   \* RELOAD
  i         \* the file or table dsdgen, the schema or the load is at

volume == <<dat, mark, dd, ddmark, db>>

config == <<want, page>>

vars == <<volume, config, pc, reload, i>>

Stages == {"data", "clean", "generate", "mark", "server", "wipe", "install",
           "ddmark", "start", "load", "schema", "loading", "rows", "bench"}

Goto(from, to) == pc = from /\ pc' = to

Init ==
  /\ dat = [t \in Tables |-> None] /\ mark = None
  /\ dd = None /\ ddmark = None
  /\ db = [t \in Tables |-> None]
  /\ pc = "off" /\ want = None /\ page = None /\ reload = FALSE /\ i = 1

(* A run is started, with settings of its own.                             *)
Start ==
  /\ pc \in {"off", "failed"} /\ pc' = "data"
  /\ want' \in Datasets /\ page' \in Pages
  /\ UNCHANGED <<volume, reload, i>>

(* The run is over, and its variables with it.                             *)
End(how) ==
  /\ pc' = how /\ want' = None /\ page' = None /\ reload' = FALSE /\ i' = 1
  /\ UNCHANGED volume

(* exit 1, or a command that fails under set -e.                           *)
Fail == End("failed")

-----------------------------------------------------------------------------
(* Stage 2: the generated data.                                            *)

CheckData ==
  /\ \/ Goto("data", "clean") /\ dat[Sales] # None /\ mark # want /\ reload' = TRUE
     \/ Goto("data", "server") /\ dat[Sales] # None /\ mark = want /\ UNCHANGED reload
     \/ Goto("data", "generate") /\ dat[Sales] = None /\ UNCHANGED reload
  /\ UNCHANGED <<volume, config, i>>

(* rm -f *.dat .scale: the files in order, the marker last.                *)
RemoveFile ==
  /\ pc = "clean" /\ i <= Len(Files)
  /\ dat' = [dat EXCEPT ![Files[i]] = None]
  /\ i' = i + 1
  /\ UNCHANGED <<mark, dd, ddmark, db, pc, config, reload>>

(* Wrong variant of RemoveMark: rm -f *.dat only.                          *)
KeepMark ==
  /\ Goto("clean", "generate") /\ i > Len(Files)
  /\ i' = 1
  /\ UNCHANGED <<volume, config, reload>>

RemoveMark ==
  /\ Goto("clean", "generate") /\ i > Len(Files)
  /\ mark' = None
  /\ i' = 1
  /\ UNCHANGED <<dat, dd, ddmark, db, config, reload>>

(* dsdgen -FORCE writes one table's file after another.                    *)
OpenFile ==
  /\ pc = "generate" /\ i <= Len(Files)
  /\ dat[Files[i]] # SomeRows(want)
  /\ dat' = [dat EXCEPT ![Files[i]] = SomeRows(want)]
  /\ UNCHANGED <<mark, dd, ddmark, db, pc, config, reload, i>>

FinishFile ==
  /\ pc = "generate" /\ i <= Len(Files)
  /\ dat[Files[i]] = SomeRows(want)
  /\ dat' = [dat EXCEPT ![Files[i]] = Rows(want)]
  /\ i' = i + 1
  /\ UNCHANGED <<mark, dd, ddmark, db, pc, config, reload>>

Generated ==
  /\ Goto("generate", "mark") /\ i > Len(Files)
  /\ i' = 1
  /\ UNCHANGED <<volume, config, reload>>

WriteMark ==
  /\ Goto("mark", "server")
  /\ mark' = want
  /\ reload' = TRUE
  /\ UNCHANGED <<dat, dd, ddmark, db, config, i>>

-----------------------------------------------------------------------------
(* Stage 3: the server.                                                    *)

(* Wrong variant of Reusable: the marker is not looked at.                 *)
AnyReusable(p) == TRUE

Reusable(p) == ddmark = p

(* A data directory made with another page size, or without a marker, is   *)
(* removed.                                                                *)
CheckDatadir ==
  /\ \/ Goto("server", "start") /\ dd # None /\ Reusable(page)
     \/ Goto("server", "wipe") /\ dd # None /\ ~Reusable(page)
     \/ Goto("server", "install") /\ dd = None
  /\ UNCHANGED <<volume, config, reload, i>>

(* rm -rf of the directory takes its parts in any order: the system        *)
(* database, the marker, the tables.                                       *)
Wipe ==
  /\ pc = "wipe"
  /\ \/ dd' = None /\ UNCHANGED <<ddmark, db>>
     \/ ddmark' = None /\ UNCHANGED <<dd, db>>
     \/ db' = [t \in Tables |-> None] /\ UNCHANGED <<dd, ddmark>>
  /\ pc' = IF dd' = None /\ ddmark' = None /\ \A t \in Tables : db'[t] = None
           THEN "install" ELSE "wipe"
  /\ UNCHANGED <<dat, mark, config, reload, i>>

(* Wrong variant of BeginInstall: the marker is written beforehand.        *)
MarkThenInstall ==
  /\ pc = "install" /\ dd = None
  /\ dd' = Torn /\ ddmark' = page
  /\ UNCHANGED <<dat, mark, db, pc, config, reload, i>>

(* mariadb-install-db: a directory whose system database is begun, then    *)
(* done.                                                                   *)
BeginInstall ==
  /\ pc = "install" /\ dd = None
  /\ dd' = Torn
  /\ UNCHANGED <<dat, mark, ddmark, db, pc, config, reload, i>>

EndInstall ==
  /\ Goto("install", "ddmark") /\ dd = Torn
  /\ dd' = page
  /\ UNCHANGED <<dat, mark, ddmark, db, config, reload, i>>

WriteDatadirMark ==
  /\ Goto("ddmark", "start")
  /\ ddmark' = page
  /\ UNCHANGED <<dat, mark, dd, db, config, reload, i>>

(* The server starts on a finished directory of its own page size only.    *)
StartServer ==
  \/ /\ Goto("start", "load") /\ dd = page
     /\ UNCHANGED <<volume, config, reload, i>>
  \/ pc = "start" /\ dd # page /\ Fail

-----------------------------------------------------------------------------
(* Stage 4: schema and rows.                                               *)

(* Wrong variants of MustLoad: RELOAD is not looked at; to be sure.        *)
OnlyIfMissing == \E t \in Tables : db[t] = None

AlwaysLoad == TRUE

(* RELOAD is set or one of the expected tables is missing.                 *)
MustLoad == reload \/ \E t \in Tables : db[t] = None

(* drop database if exists tpcds; create database tpcds.                   *)
CheckTables ==
  \/ /\ Goto("load", "rows") /\ ~MustLoad
     /\ UNCHANGED <<volume, config, reload, i>>
  \/ /\ Goto("load", "schema") /\ MustLoad
     /\ db' = [t \in Tables |-> None]
     /\ i' = 1
     /\ UNCHANGED <<dat, mark, dd, ddmark, config, reload>>

(* sql/01_schema.sql, one CREATE TABLE after another.                      *)
CreateTable ==
  /\ pc = "schema"
  /\ db' = [db EXCEPT ![LoadOrder[i]] = Empty]
  /\ IF i = Len(LoadOrder) THEN pc' = "loading" /\ i' = 1 ELSE i' = i + 1 /\ UNCHANGED pc
  /\ UNCHANGED <<dat, mark, dd, ddmark, config, reload>>

(* sql/04_load_data.sql: a statement per table, all of its rows or none;   *)
(* the client stops at the first file that is not there, or that ends in   *)
(* the middle of a line.                                                   *)
LoadTable ==
  \/ /\ pc = "loading" /\ i <= Len(LoadOrder)
     /\ dat[LoadOrder[i]] # None
     /\ db' = [db EXCEPT ![LoadOrder[i]] = dat[LoadOrder[i]]]
     /\ i' = i + 1
     /\ UNCHANGED <<dat, mark, dd, ddmark, pc, config, reload>>
  \/ /\ pc = "loading" /\ i <= Len(LoadOrder)
     /\ dat[LoadOrder[i]] \notin {Rows(d) : d \in Datasets}
     /\ Fail

Loaded ==
  /\ Goto("loading", "rows") /\ i > Len(LoadOrder)
  /\ i' = 1
  /\ UNCHANGED <<volume, config, reload>>

(* store_sales has at least 1000 rows.                                     *)
CheckRows ==
  \/ /\ Goto("rows", "bench") /\ db[Sales] # Empty
     /\ UNCHANGED <<volume, config, reload, i>>
  \/ pc = "rows" /\ db[Sales] = Empty /\ Fail

(* Stage 7: bench.py measures the database there is and labels the summary *)
(* with the SCALE and RNGSEED it was told.                                 *)
Bench == pc = "bench" /\ End("off")

-----------------------------------------------------------------------------
(* The marker says that the new data set is there, and only this run knows *)
(* that the database does not hold it yet.                                 *)
ReloadPending == reload /\ mark = want

(* The container or the host goes down.                                    *)
Kill ==
  /\ pc \in KilledIn
  /\ KilledBefore \/ ~ReloadPending
  /\ End("off")

Next ==
  \/ Start
  \/ CheckData \/ RemoveFile \/ RemoveMark \/ OpenFile \/ FinishFile \/ Generated \/ WriteMark
  \/ CheckDatadir \/ Wipe \/ BeginInstall \/ EndInstall \/ WriteDatadirMark \/ StartServer
  \/ CheckTables \/ CreateTable \/ LoadTable \/ Loaded \/ CheckRows \/ Bench
  \/ Kill

Spec == Init /\ [][Next]_vars

-----------------------------------------------------------------------------
TypeOK ==
  /\ dat \in [Tables -> {None} \union Contents]
  /\ mark \in {None} \union Datasets
  /\ dd \in {None, Torn} \union Pages
  /\ ddmark \in {None} \union Pages
  /\ db \in [Tables -> {None, Empty} \union Contents]
  /\ \/ pc \in {"off", "failed"} /\ want = None /\ page = None
     \/ pc \in Stages /\ want \in Datasets /\ page \in Pages
  /\ reload \in BOOLEAN
  /\ i \in 1 .. Len(Files) + 1

(* A result is measured on all the rows of the data set it is labelled     *)
(* with, and on those only, whatever the runs before it asked for and      *)
(* wherever they were killed.  (Except: between the marker of a new data   *)
(* set and its load; while they load; in the middle of rm -f.)             *)
ResultHonest == pc = "bench" => \A t \in Tables : db[t] = Rows(want)

(* A run that generated its data set measures that one, wherever the runs  *)
(* before it were killed: to remove the marker is a cure for any volume.   *)
RegeneratedHonest ==
  pc = "bench" /\ reload => \A t \in Tables : db[t] = Rows(want)

(* While the marker of the generated data is there, no file is of another  *)
(* data set or half written.  (Except after a kill in the middle of rm -f: *)
(* the marker outlives store_sales.dat, the file that is looked at.)       *)
DataMarkHonest ==
  mark # None => \A t \in Tables : dat[t] \in {None, Rows(mark)}

(* The data directory that stage 3 decides to reuse, or builds, is one the *)
(* server starts on.  (Except after a kill in the middle of rm -rf: the    *)
(* marker can outlive the directory it describes.)                         *)
DatadirUsable == pc = "start" => dd = page

(* A run that is not killed ends with a result: what earlier runs left in  *)
(* the volume, killed or not, is used or replaced and never in the way.    *)
(* (With all the exceptions above.)                                        *)
RunsRecover == pc # "failed"

(* The volume holds what this run asks for.                                *)
Current ==
  /\ mark = want /\ \A t \in Tables : dat[t] = Rows(want) /\ db[t] = Rows(want)
  /\ dd = page /\ ddmark = page

(* A run that finds what it asks for in the volume leaves it alone: hours  *)
(* of generating and loading are not repeated.  (A run that found its      *)
(* store_sales.dat missing makes every file again, also those that are     *)
(* whole.)                                                                 *)
NoRework == [][pc # "generate" /\ ~reload /\ Current => UNCHANGED volume]_vars

=============================================================================
