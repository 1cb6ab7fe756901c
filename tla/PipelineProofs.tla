---------------------------- MODULE PipelineProofs ---------------------------
(***************************************************************************)
(* The container's runs over one volume, for any data sets, page sizes and *)
(* tables in any order.  Of runs that are killed anywhere: types, and that *)
(* a run measures the data set it has generated.  Of runs that are killed  *)
(* where the markers say what the volume holds: results, markers and data  *)
(* directories are honest, and no run gets stuck.                          *)
(***************************************************************************)
EXTENDS Pipeline, TLAPS

N == Len(Files)

LEMMA OrderFacts ==
  /\ N \in Nat \ {0} /\ Len(LoadOrder) = N
  /\ \A k \in 1 .. N : Files[k] \in Tables /\ LoadOrder[k] \in Tables
  /\ \A t \in Tables : (\E k \in 1 .. N : Files[k] = t) /\ (\E k \in 1 .. N : LoadOrder[k] = t)
  /\ \A j, k \in 1 .. N : Files[j] = Files[k] \/ LoadOrder[j] = LoadOrder[k] => j = k
<1>1. N \in Nat /\ Len(LoadOrder) = N /\ DOMAIN Files = 1 .. N /\ DOMAIN LoadOrder = 1 .. N
  BY TablesAssumption DEF N
<1>2. \A k \in 1 .. N : Files[k] \in Tables /\ LoadOrder[k] \in Tables
  BY <1>1, TablesAssumption
<1>3. \A t \in Tables : (\E k \in 1 .. N : Files[k] = t) /\ (\E k \in 1 .. N : LoadOrder[k] = t)
  BY <1>1, TablesAssumption
<1>4. N # 0
  <2>1. PICK k \in 1 .. N : Files[k] = Sales  BY <1>3, TablesAssumption
  <2>2. QED  BY <1>1, <2>1
<1>5. \A j, k \in 1 .. N : Files[j] = Files[k] \/ LoadOrder[j] = LoadOrder[k] => j = k
  BY TablesAssumption DEF N
<1>6. QED  BY <1>1, <1>2, <1>3, <1>4, <1>5

LEMMA LaterTables ==
  ASSUME NEW j \in 1 .. N
  PROVE  \A k \in j + 1 .. N : LoadOrder[k] # LoadOrder[j] /\ LoadOrder[k] \in Tables
<1> TAKE k \in j + 1 .. N
<1>1. k \in 1 .. N /\ k # j  BY OrderFacts
<1>2. QED  BY <1>1, OrderFacts

LEMMA RowsFacts ==
  ASSUME NEW d \in Datasets
  PROVE  /\ Rows(d) \in Contents /\ SomeRows(d) \in Contents
         /\ Rows(d) # None /\ SomeRows(d) # None /\ Rows(d) # Empty
         /\ Rows(d) # SomeRows(d)
<1>1. Rows(d) \in Contents /\ SomeRows(d) \in Contents  BY DEF Rows, SomeRows, Contents
<1>2. Rows(d) # SomeRows(d)
  <2>1. Rows(d).whole # SomeRows(d).whole  BY DEF Rows, SomeRows
  <2>2. QED  BY <2>1
<1>3. QED  BY <1>1, <1>2, NamesAssumption

Running == {"server", "wipe", "install", "ddmark", "start", "load", "schema",
            "loading", "rows", "bench"}

AllRows(content) == \A t \in Tables : content[t] = Rows(want)

(* What every step preserves, wherever runs are killed.                    *)
RunInv ==
  /\ TypeOK
  /\ pc \in {"off", "failed", "data"} => ~reload /\ i = 1
  /\ pc \in {"clean"} => reload
  /\ pc \in {"mark", "load", "rows", "bench"} \union (Running \ {"schema", "loading"}) => i = 1
  /\ pc = "schema" => i \in 1 .. N /\ \A k \in i .. N : db[LoadOrder[k]] = None
  /\ pc = "generate" => \A k \in 1 .. i - 1 : dat[Files[k]] = Rows(want)
  /\ pc = "mark" => AllRows(dat)
  /\ pc \in Running /\ reload => AllRows(dat)
  /\ pc = "loading" /\ reload => \A k \in 1 .. i - 1 : db[LoadOrder[k]] = Rows(want)
  /\ pc \in {"rows", "bench"} /\ reload => AllRows(db)
  /\ pc = "wipe" => ddmark # page
  /\ pc = "install" => dd \in {None, Torn}
  /\ pc = "ddmark" => dd = page

LEMMA RunInvInit == Init => RunInv
<1> SUFFICES ASSUME Init PROVE RunInv
  OBVIOUS
<1>1. 1 \in 1 .. N + 1  BY OrderFacts
<1>2. TypeOK  BY <1>1 DEF Init, TypeOK, N
<1>3. QED  BY <1>2 DEF Init, RunInv, Running

LEMMA EndKeeps == ASSUME NEW how \in {"off", "failed"} PROVE RunInv /\ End(how) => RunInv'
<1> SUFFICES ASSUME RunInv, End(how) PROVE RunInv'
  OBVIOUS
<1>1. 1 \in 1 .. N + 1  BY OrderFacts
<1>2. TypeOK'  BY <1>1 DEF RunInv, End, TypeOK, volume, N
<1>3. pc' \in {"off", "failed"} /\ ~reload' /\ i' = 1  BY DEF End
<1>4. QED  BY <1>2, <1>3 DEF RunInv, Running

LEMMA CheckDataSteps ==
  CheckData /\ reload \in BOOLEAN =>
    /\ reload' \in BOOLEAN
    /\ \/ pc' = "clean" /\ reload'
       \/ pc' \in {"server", "generate"} /\ (reload' <=> reload)
<1> SUFFICES ASSUME CheckData, reload \in BOOLEAN
             PROVE  /\ reload' \in BOOLEAN
                    /\ \/ pc' = "clean" /\ reload'
                       \/ pc' \in {"server", "generate"} /\ (reload' <=> reload)
  OBVIOUS
<1>1. \/ pc' = "clean" /\ reload' = TRUE
      \/ pc' \in {"server", "generate"} /\ reload' = reload
  BY Zenon DEF CheckData, Goto
<1>2. CASE pc' = "clean" /\ reload' = TRUE  BY <1>2
<1>3. CASE pc' \in {"server", "generate"} /\ reload' = reload  BY <1>3
<1>4. QED  BY <1>1, <1>2, <1>3

LEMMA RunInvData == RunInv /\ (Start \/ CheckData \/ RemoveFile \/ RemoveMark) => RunInv'
<1> SUFFICES ASSUME RunInv PROVE (Start \/ CheckData \/ RemoveFile \/ RemoveMark) => RunInv'
  OBVIOUS
<1> USE OrderFacts DEF RunInv, TypeOK, volume, config, Goto, Running, Stages, N, AllRows
<1>1. Start => RunInv'  BY DEF Start
<1>2. CheckData => RunInv'
  <2> SUFFICES ASSUME CheckData PROVE RunInv'
    OBVIOUS
  <2>1. UNCHANGED <<dat, mark, dd, ddmark, db, want, page, i>> /\ i = 1 /\ pc = "data" /\ ~reload
    BY DEF CheckData
  <2>2. reload \in BOOLEAN  OBVIOUS
  <2>3. /\ reload' \in BOOLEAN
        /\ \/ pc' = "clean" /\ reload'
           \/ pc' \in {"server", "generate"} /\ (reload' <=> reload)
    BY <2>2, CheckDataSteps
  <2>4. TypeOK'  BY <2>1, <2>3
  <2>5. QED  BY <2>1, <2>3, <2>4
<1>3. RemoveFile => RunInv'  BY DEF RemoveFile
<1>4. RemoveMark => RunInv'  BY DEF RemoveMark
<1>5. QED  BY <1>1, <1>2, <1>3, <1>4

LEMMA RunInvGenerate == RunInv /\ (OpenFile \/ FinishFile \/ Generated \/ WriteMark) => RunInv'
<1> SUFFICES ASSUME RunInv PROVE (OpenFile \/ FinishFile \/ Generated \/ WriteMark) => RunInv'
  OBVIOUS
<1> USE OrderFacts, RowsFacts DEF RunInv, TypeOK, volume, config, Goto, Running, Stages, N, AllRows
<1>1. OpenFile => RunInv'
  <2> SUFFICES ASSUME OpenFile PROVE RunInv'
    OBVIOUS
  <2>1. i \in 1 .. N /\ want \in Datasets  BY DEF OpenFile
  <2>2. \A k \in 1 .. i - 1 : Files[k] # Files[i] /\ Files[k] \in Tables  BY <2>1
  <2>3. \A k \in 1 .. i - 1 : dat'[Files[k]] = dat[Files[k]]  BY <2>2 DEF OpenFile
  <2>4. TypeOK'  BY <2>1 DEF OpenFile
  <2>5. QED  BY <2>3, <2>4 DEF OpenFile
<1>2. FinishFile => RunInv'  BY DEF FinishFile
<1>3. Generated => RunInv'
  <2> SUFFICES ASSUME Generated PROVE RunInv'
    OBVIOUS
  <2>1. /\ pc = "generate" /\ pc' = "mark" /\ i' = 1 /\ i > Len(Files)
        /\ UNCHANGED <<dat, mark, dd, ddmark, db, want, page, reload>>
    BY DEF Generated
  <2>2. TypeOK'  BY <2>1
  <2>3. \A k \in 1 .. N : dat[Files[k]] = Rows(want)  BY <2>1
  <2>4. AllRows(dat)  BY <2>3
  <2>5. QED  BY <2>1, <2>2, <2>4
<1>4. WriteMark => RunInv'  BY DEF WriteMark
<1>5. QED  BY <1>1, <1>2, <1>3, <1>4

LEMMA RunInvServer ==
  RunInv /\ (CheckDatadir \/ Wipe \/ BeginInstall \/ EndInstall \/ WriteDatadirMark \/ StartServer)
    => RunInv'
<1> SUFFICES ASSUME RunInv
             PROVE  (CheckDatadir \/ Wipe \/ BeginInstall \/ EndInstall \/ WriteDatadirMark
                       \/ StartServer) => RunInv'
  OBVIOUS
<1> USE OrderFacts, NamesAssumption
    DEF RunInv, TypeOK, volume, config, Goto, Running, Stages, N, AllRows
<1>1. CheckDatadir => RunInv'
  <2> SUFFICES ASSUME CheckDatadir PROVE RunInv'
    OBVIOUS
  <2>1. UNCHANGED <<dat, mark, dd, ddmark, db, want, page, reload, i>> /\ i = 1 /\ pc = "server"
    BY DEF CheckDatadir
  <2>2. \/ pc' = "start"
        \/ pc' = "wipe" /\ ddmark # page
        \/ pc' = "install" /\ dd = None
    BY DEF CheckDatadir, Reusable
  <2>3. TypeOK'  BY <2>1, <2>2
  <2>4. QED  BY <2>1, <2>2, <2>3
<1>2. Wipe => RunInv'  BY DEF Wipe
<1>3. BeginInstall => RunInv'  BY DEF BeginInstall
<1>4. EndInstall => RunInv'  BY DEF EndInstall
<1>5. WriteDatadirMark => RunInv'  BY DEF WriteDatadirMark
<1>6. StartServer => RunInv'
  <2>1. CASE Goto("start", "load") /\ UNCHANGED <<volume, config, reload, i>>  BY <2>1
  <2>2. CASE End("failed")
    <3> HIDE DEF RunInv
    <3>1. QED  BY <2>2, EndKeeps
  <2>3. QED  BY <2>1, <2>2 DEF StartServer, Fail
<1>7. QED  BY <1>1, <1>2, <1>3, <1>4, <1>5, <1>6

LEMMA RunInvLoad ==
  RunInv /\ (CheckTables \/ CreateTable \/ LoadTable \/ Loaded \/ CheckRows \/ Bench \/ Kill)
    => RunInv'
<1> SUFFICES ASSUME RunInv
             PROVE  (CheckTables \/ CreateTable \/ LoadTable \/ Loaded \/ CheckRows \/ Bench \/ Kill)
                      => RunInv'
  OBVIOUS
<1> USE OrderFacts, RowsFacts, NamesAssumption
    DEF RunInv, TypeOK, volume, config, Goto, Running, Stages, N, AllRows
<1>1. CheckTables => RunInv'  BY DEF CheckTables, MustLoad
<1>2. CreateTable => RunInv'
  <2> SUFFICES ASSUME CreateTable PROVE RunInv'
    OBVIOUS
  <2>1. pc = "schema" /\ i \in 1 .. N  BY DEF CreateTable
  <2>2. UNCHANGED <<dat, mark, dd, ddmark, want, page, reload>>  BY DEF CreateTable
  <2>3. \/ i = N /\ pc' = "loading" /\ i' = 1
        \/ i # N /\ pc' = "schema" /\ i' = i + 1
    BY DEF CreateTable
  <2>4. \A k \in i + 1 .. N : LoadOrder[k] # LoadOrder[i] /\ LoadOrder[k] \in Tables
    BY <2>1, LaterTables
  <2>5. \A k \in i + 1 .. N : db'[LoadOrder[k]] = None  BY <2>1, <2>4 DEF CreateTable
  <2>6. db' \in [Tables -> {None, Empty} \union Contents]  BY DEF CreateTable
  <2>7. i' \in 1 .. N + 1 /\ (pc' = "schema" => i' \in 1 .. N)
    <3>1. N \in Nat  BY OrderFacts
    <3> HIDE DEF RunInv, N
    <3>2. QED  BY <2>1, <2>3, <3>1
  <2>8. TypeOK'  BY <2>1, <2>2, <2>3, <2>6, <2>7
  <2>9. CASE i = N  BY <2>1, <2>2, <2>3, <2>7, <2>8, <2>9
  <2>10. CASE i # N
    <3>1. pc' = "schema" /\ i' = i + 1  BY <2>3, <2>10
    <3>2. QED  BY <2>1, <2>2, <2>5, <2>7, <2>8, <3>1
  <2>11. QED  BY <2>9, <2>10
<1>3. LoadTable => RunInv'
  <2>1. CASE /\ pc = "loading" /\ i <= N /\ dat[LoadOrder[i]] # None
             /\ db' = [db EXCEPT ![LoadOrder[i]] = dat[LoadOrder[i]]]
             /\ i' = i + 1 /\ UNCHANGED <<dat, mark, dd, ddmark, pc, config, reload>>
    <3>1. i \in 1 .. N /\ i' \in 1 .. N + 1  BY <2>1
    <3>2. dat[LoadOrder[i]] \in Contents  BY <2>1, <3>1
    <3>3. db' \in [Tables -> {None, Empty} \union Contents]  BY <2>1, <3>2
    <3>4. TypeOK'  BY <2>1, <3>1, <3>3
    <3>5. reload => \A k \in 1 .. i : db'[LoadOrder[k]] = Rows(want)
      BY <2>1, <3>1
    <3>6. pc' = "loading" /\ reload' = reload /\ i' - 1 = i /\ want' = want /\ dat' = dat
      BY <2>1, <3>1
    <3>7. (reload => AllRows(dat))'
      BY <2>1
    <3>8. reload' => \A k \in 1 .. i' - 1 : db'[LoadOrder[k]] = Rows(want')
      BY <3>5, <3>6
    <3> HIDE DEF TypeOK, AllRows
    <3>9. pc' \notin {"off", "failed", "data", "clean", "mark", "load", "rows", "bench"} \union (Running \ {"schema", "loading"})
      BY <3>6
    <3>10. QED  BY <3>4, <3>6, <3>7, <3>8, <3>9
  <2>2. CASE End("failed")
    <3> HIDE DEF RunInv
    <3>1. QED  BY <2>2, EndKeeps
  <2>3. QED  BY <2>1, <2>2 DEF LoadTable, Fail
<1>4. Loaded => RunInv'  BY DEF Loaded
<1>5. CheckRows => RunInv'
  <2>1. CASE /\ pc = "rows" /\ pc' = "bench"
             /\ UNCHANGED <<dat, mark, dd, ddmark, db, want, page, reload, i>>
    BY <2>1
  <2>2. CASE End("failed")
    <3> HIDE DEF RunInv
    <3>1. QED  BY <2>2, EndKeeps
  <2>3. QED  BY <2>1, <2>2 DEF CheckRows, Fail
<1>6. Bench => RunInv'  BY EndKeeps DEF Bench
<1>7. Kill => RunInv'  BY EndKeeps DEF Kill
<1>8. QED  BY <1>1, <1>2, <1>3, <1>4, <1>5, <1>6, <1>7

LEMMA RunInvNext == RunInv /\ [Next]_vars => RunInv'
<1> SUFFICES ASSUME RunInv, [Next]_vars PROVE RunInv'
  OBVIOUS
<1>1. CASE UNCHANGED vars
  BY <1>1 DEF RunInv, TypeOK, vars, volume, config, Running, AllRows
<1>2. CASE Next
  BY <1>2, RunInvData, RunInvGenerate, RunInvServer, RunInvLoad DEF Next
<1>3. QED  BY <1>1, <1>2

(* What a run has done so far is on the volume, in every stage of it and   *)
(* wherever runs are killed.                                               *)
THEOREM RunInvariant == Spec => []RunInv
<1>1. QED  BY RunInvInit, RunInvNext, PTL DEF Spec

(* Every variable has its type, wherever runs are killed.                  *)
THEOREM TypeAlwaysOK == Spec => []TypeOK
<1>1. RunInv => TypeOK  BY DEF RunInv
<1>2. QED  BY <1>1, RunInvariant, PTL

(* A run that generated its data set measures that one, for any number of  *)
(* tables, data sets and page sizes, wherever runs are killed.             *)
THEOREM RegeneratedAlwaysHonest == Spec => []RegeneratedHonest
<1>1. RunInv => RegeneratedHonest  BY DEF RunInv, RegeneratedHonest, AllRows
<1>2. QED  BY <1>1, RunInvariant, PTL

(* A run that finds what it asks for leaves it alone, whatever the others  *)
(* did before.                                                             *)
THEOREM NeverRework == Spec => NoRework
<1>1. RunInv /\ [Next]_vars => [pc # "generate" /\ ~reload /\ Current => UNCHANGED volume]_vars
  <2>1. SUFFICES ASSUME RunInv, Next, pc # "generate", ~reload, Current PROVE UNCHANGED volume
    OBVIOUS
  <2>2. /\ mark = want /\ dd = page /\ ddmark = page
        /\ \A t \in Tables : dat[t] = Rows(want) /\ db[t] = Rows(want)
    BY <2>1 DEF Current
  <2>3. /\ dat \in [Tables -> {None} \union Contents]
        /\ db \in [Tables -> {None, Empty} \union Contents]
    BY <2>1 DEF RunInv, TypeOK
  <2>4. CASE Start \/ CheckData \/ Generated \/ CheckDatadir \/ StartServer \/ Loaded
             \/ CheckRows \/ Bench \/ Kill
    BY <2>4 DEF Start, CheckData, Generated, CheckDatadir, StartServer, Loaded, CheckRows, Bench,
                Kill, Fail, End
  <2>5. CASE RemoveFile \/ RemoveMark \/ OpenFile \/ FinishFile
    BY <2>1, <2>5 DEF RemoveFile, RemoveMark, OpenFile, FinishFile, RunInv, Goto
  <2>6. CASE WriteMark  BY <2>2, <2>6 DEF WriteMark, volume
  <2>7. CASE Wipe \/ BeginInstall \/ EndInstall
    <3>1. page # None /\ page # Torn
      BY <2>1, <2>7, NamesAssumption DEF RunInv, TypeOK, Wipe, BeginInstall, EndInstall, Goto
    <3>2. QED  BY <2>1, <2>2, <2>7, <3>1 DEF Wipe, BeginInstall, EndInstall, RunInv, Goto
  <2>8. CASE WriteDatadirMark  BY <2>2, <2>8 DEF WriteDatadirMark, volume
  <2>9. ASSUME pc \in Running, \E t \in Tables : db[t] \in {None, Empty} PROVE FALSE
    <3>1. want \in Datasets  BY <2>1, <2>9 DEF RunInv, TypeOK, Running
    <3>2. QED  BY <2>2, <2>9, <3>1, RowsFacts
  <2>10. CASE CheckTables
    BY <2>1, <2>9, <2>10 DEF CheckTables, MustLoad, Goto, Running
  <2>11. CASE CreateTable
    <3>1. pc = "schema" /\ i \in 1 .. N /\ db[LoadOrder[i]] = None
      BY <2>1, <2>11, OrderFacts DEF CreateTable, RunInv
    <3>2. QED  BY <2>9, <3>1, OrderFacts DEF Running
  <2>12. CASE LoadTable
    <3>1. CASE End("failed")  BY <3>1 DEF End
    <3>2. CASE /\ pc = "loading" /\ i <= N
               /\ db' = [db EXCEPT ![LoadOrder[i]] = dat[LoadOrder[i]]]
               /\ UNCHANGED <<dat, mark, dd, ddmark>>
      <4>1. i \in 1 .. N  BY <2>1, <3>2 DEF RunInv, TypeOK
      <4>2. LoadOrder[i] \in Tables  BY <4>1, OrderFacts
      <4>3. dat[LoadOrder[i]] = db[LoadOrder[i]]  BY <2>2, <4>2
      <4>4. db' = db  BY <2>3, <3>2, <4>2, <4>3
      <4>5. QED  BY <3>2, <4>4 DEF volume
    <3>3. QED  BY <2>12, <3>1, <3>2, OrderFacts DEF LoadTable, Fail
  <2>13. QED  BY <2>1, <2>4, <2>5, <2>6, <2>7, <2>8, <2>10, <2>11, <2>12 DEF Next
<1>2. QED  BY <1>1, RunInvariant, PTL DEF Spec, NoRework

-----------------------------------------------------------------------------
(* Runs are killed where the markers and the variables of the script say   *)
(* what the volume holds.                                                  *)
SafeKills == KilledIn \intersect {"clean", "wipe", "loading"} = {} /\ ~KilledBefore

(* The marker of the generated data.                                       *)
DataSafe ==
  /\ mark # None => \A t \in Tables : dat[t] = Rows(mark) \/ (pc = "clean" /\ dat[t] = None)
  /\ pc \in {"generate", "mark"} => mark = None
  /\ pc \in Running => mark = want

(* The marker of the data directory.                                       *)
DirSafe ==
  /\ ddmark # None /\ pc # "wipe" => dd = ddmark
  /\ pc \in {"install", "ddmark"} => ddmark = None
  /\ pc \in {"start", "load", "schema", "loading", "rows", "bench"} => dd = page

(* The database: of the marked data set or with a table missing, unless    *)
(* this run knows better.                                                  *)
DbSafe ==
  /\ mark # None /\ ~ReloadPending /\ pc # "loading" =>
       (\E t \in Tables : db[t] = None) \/ (\A t \in Tables : db[t] = Rows(mark))
  /\ pc = "loading" => \A k \in 1 .. i - 1 : db[LoadOrder[k]] = Rows(want)
  /\ pc \in {"rows", "bench"} => AllRows(db)
  /\ pc # "failed"

LEMMA SafeInit == Init => DataSafe /\ DirSafe /\ DbSafe
  BY DEF Init, DataSafe, DirSafe, DbSafe, Running

LEMMA DataSafeNext == SafeKills /\ RunInv /\ DataSafe /\ [Next]_vars => DataSafe'
<1> SUFFICES ASSUME SafeKills, RunInv, DataSafe, [Next]_vars PROVE DataSafe'
  OBVIOUS
<1>1. /\ dat \in [Tables -> {None} \union Contents] /\ mark \in {None} \union Datasets
      /\ pc \notin {"off", "failed"} => want \in Datasets
      /\ Sales \in Tables
  BY TablesAssumption DEF RunInv, TypeOK
<1>2. ASSUME NEW how, how \in {"off", "failed"}, End(how), pc # "clean" PROVE DataSafe'
  BY <1>2 DEF End, DataSafe, volume, Running
<1>3. CASE Start  BY <1>3 DEF Start, DataSafe, volume, Running
<1>4. CASE CheckData
  <2>1. UNCHANGED <<dat, mark, want>> /\ pc = "data"  BY <1>4 DEF CheckData, Goto, volume, config
  <2>2. \/ pc' = "clean"
        \/ pc' = "server" /\ mark = want
        \/ pc' = "generate" /\ dat[Sales] = None
    BY <1>4 DEF CheckData, Goto
  <2>3. dat[Sales] = None => mark = None  BY <1>1, <2>1, RowsFacts DEF DataSafe
  <2>4. QED  BY <2>1, <2>2, <2>3 DEF DataSafe, Running
<1>5. CASE RemoveFile  BY <1>1, <1>5 DEF RemoveFile, DataSafe, config, Running
<1>6. CASE RemoveMark  BY <1>6 DEF RemoveMark, DataSafe, config, Running, Goto
<1>7. CASE OpenFile \/ FinishFile  BY <1>7 DEF OpenFile, FinishFile, DataSafe, config, Running
<1>8. CASE Generated  BY <1>8 DEF Generated, DataSafe, config, volume, Running, Goto
<1>9. CASE WriteMark
  <2>1. AllRows(dat) /\ pc = "mark"  BY <1>9 DEF RunInv, WriteMark, Goto
  <2>2. QED  BY <1>9, <2>1 DEF WriteMark, DataSafe, config, Running, Goto, AllRows
<1>10. ASSUME UNCHANGED <<dat, mark, want>>, pc \in Running, pc' \in Running PROVE DataSafe'
  BY <1>10 DEF DataSafe, Running
<1>11. CASE CheckDatadir \/ Wipe \/ BeginInstall \/ EndInstall \/ WriteDatadirMark
  BY <1>10, <1>11 DEF CheckDatadir, Wipe, BeginInstall, EndInstall, WriteDatadirMark, Goto, Running,
                      volume, config
<1>12. CASE StartServer
  BY <1>2, <1>10, <1>12 DEF StartServer, Goto, Running, volume, config, Fail
<1>13. CASE CheckTables \/ CreateTable \/ Loaded
  BY <1>10, <1>13 DEF CheckTables, CreateTable, Loaded, Goto, Running, volume, config
<1>14. CASE LoadTable \/ CheckRows \/ Bench
  BY <1>2, <1>10, <1>14 DEF LoadTable, CheckRows, Bench, Fail, Goto, Running, volume, config
<1>15. CASE Kill  BY <1>2, <1>15 DEF Kill, SafeKills
<1>16. CASE UNCHANGED vars  BY <1>16 DEF DataSafe, vars, volume, config, Running
<1>17. QED  BY <1>3, <1>4, <1>5, <1>6, <1>7, <1>8, <1>9, <1>11, <1>12, <1>13, <1>14, <1>15, <1>16
            DEF Next

LEMMA DirSafeNext == SafeKills /\ RunInv /\ DirSafe /\ [Next]_vars => DirSafe'
<1> SUFFICES ASSUME SafeKills, RunInv, DirSafe, [Next]_vars PROVE DirSafe'
  OBVIOUS
<1>1. /\ dd \in {None, Torn} \union Pages /\ ddmark \in {None} \union Pages
      /\ pc \notin {"off", "failed"} => page \in Pages
  BY DEF RunInv, TypeOK
<1>2. ASSUME NEW how, how \in {"off", "failed"}, End(how), pc # "wipe" PROVE DirSafe'
  BY <1>2 DEF End, DirSafe, volume
<1>3. CASE Start  BY <1>3 DEF Start, DirSafe, volume
<1>4. ASSUME UNCHANGED <<dd, ddmark, page>>, pc' \in Stages \ {"wipe", "install", "ddmark"},
             pc' \in {"start", "load", "schema", "loading", "rows", "bench"} => dd = page,
             pc # "wipe"
      PROVE  DirSafe'
  BY <1>4 DEF DirSafe
<1>5. CASE CheckData \/ RemoveFile \/ RemoveMark
  BY <1>4, <1>5 DEF CheckData, RemoveFile, RemoveMark, Goto, volume, config, Stages
<1>6. CASE OpenFile \/ FinishFile \/ Generated \/ WriteMark
  BY <1>4, <1>6 DEF OpenFile, FinishFile, Generated, WriteMark, Goto, volume, config, Stages
<1>7. CASE CheckDatadir
  <2>1. UNCHANGED <<dd, ddmark, page>> /\ pc = "server"  BY <1>7 DEF CheckDatadir, Goto, volume, config
  <2>2. \/ pc' = "start" /\ ddmark = page
        \/ pc' = "wipe"
        \/ pc' = "install" /\ dd = None
    BY <1>7 DEF CheckDatadir, Goto, Reusable
  <2>3. QED  BY <1>1, <2>1, <2>2, NamesAssumption DEF DirSafe
<1>8. CASE Wipe  BY <1>8 DEF Wipe, DirSafe
<1>9. CASE BeginInstall \/ EndInstall
  BY <1>9 DEF BeginInstall, EndInstall, DirSafe, Goto, config
<1>10. CASE WriteDatadirMark
  <2>1. pc = "ddmark" /\ dd = page  BY <1>10 DEF WriteDatadirMark, Goto, RunInv
  <2>2. QED  BY <1>10, <2>1 DEF WriteDatadirMark, DirSafe, Goto, config
<1>11. CASE StartServer
  BY <1>2, <1>4, <1>11 DEF StartServer, Fail, Goto, volume, config, Stages
<1>12. CASE CheckTables \/ CreateTable \/ Loaded
  BY <1>12 DEF CheckTables, CreateTable, Loaded, Goto, volume, config, DirSafe
<1>13. CASE LoadTable \/ CheckRows \/ Bench
  BY <1>2, <1>13 DEF LoadTable, CheckRows, Bench, Fail, Goto, volume, config, DirSafe
<1>14. CASE Kill  BY <1>2, <1>14 DEF Kill, SafeKills
<1>15. CASE UNCHANGED vars  BY <1>15 DEF DirSafe, vars, volume, config
<1>16. QED  BY <1>3, <1>5, <1>6, <1>7, <1>8, <1>9, <1>10, <1>11, <1>12, <1>13, <1>14, <1>15 DEF Next

LEMMA DbSafeNext ==
  SafeKills /\ RunInv /\ DataSafe /\ DirSafe /\ DbSafe /\ [Next]_vars => DbSafe'
<1> SUFFICES ASSUME SafeKills, RunInv, DataSafe, DirSafe, DbSafe, [Next]_vars PROVE DbSafe'
  OBVIOUS
<1>1. /\ db \in [Tables -> {None, Empty} \union Contents] /\ mark \in {None} \union Datasets
      /\ pc \notin {"off", "failed"} => want \in Datasets
      /\ Sales \in Tables
  BY TablesAssumption DEF RunInv, TypeOK
<1>2. ASSUME End("off"), pc # "loading", ~ReloadPending \/ (AllRows(db) /\ mark = want)
      PROVE  DbSafe'
  BY <1>2 DEF End, DbSafe, volume, ReloadPending, AllRows
<1>3. CASE Start
  <2>1. ~reload  BY <1>3 DEF Start, RunInv
  <2>2. QED  BY <1>3, <2>1 DEF Start, DbSafe, volume, ReloadPending
<1>4. ASSUME UNCHANGED <<db, want>>, pc' \in Stages \ {"loading", "rows", "bench"},
             mark' # None /\ ~ReloadPending' => mark' = mark /\ ~ReloadPending /\ pc # "loading"
      PROVE  DbSafe'
  BY <1>4 DEF DbSafe, Stages
<1>5. CASE CheckData
  <2>1. ~reload /\ pc = "data"  BY <1>5 DEF CheckData, Goto, RunInv
  <2>2. UNCHANGED <<db, want, mark>> /\ pc' \in {"clean", "server", "generate"}
    BY <1>5 DEF CheckData, Goto, volume, config
  <2>3. QED  BY <1>4, <2>1, <2>2 DEF ReloadPending, Stages
<1>6. CASE RemoveFile \/ OpenFile \/ FinishFile
  BY <1>4, <1>6 DEF RemoveFile, OpenFile, FinishFile, ReloadPending, Stages, config
<1>7. CASE RemoveMark
  BY <1>4, <1>7 DEF RemoveMark, Stages, config, Goto
<1>8. CASE Generated
  BY <1>4, <1>8 DEF Generated, ReloadPending, Stages, config, volume, Goto
<1>9. CASE WriteMark
  BY <1>4, <1>9 DEF WriteMark, ReloadPending, Stages, config, Goto
<1>10. CASE CheckDatadir \/ BeginInstall \/ EndInstall \/ WriteDatadirMark
  BY <1>4, <1>10 DEF CheckDatadir, BeginInstall, EndInstall, WriteDatadirMark, ReloadPending,
                     Stages, config, volume, Goto
<1>11. ASSUME db' = [t \in Tables |-> None], pc' \in {"wipe", "install", "schema"} PROVE DbSafe'
  BY <1>1, <1>11 DEF DbSafe
<1>12. CASE Wipe
  <2>1. pc' \in {"wipe", "install"} /\ UNCHANGED <<want, mark, reload>> /\ pc = "wipe"
    BY <1>12 DEF Wipe, config
  <2>2. db' = db \/ db' = [t \in Tables |-> None]  BY <1>12 DEF Wipe
  <2>3. QED  BY <1>4, <1>11, <2>1, <2>2 DEF ReloadPending, Stages
<1>13. CASE StartServer
  <2>1. pc = "start" => dd = page  BY DEF DirSafe
  <2>2. QED  BY <1>4, <1>13, <2>1 DEF StartServer, ReloadPending, Stages, config, volume, Goto
<1>14. CASE CheckTables
  <2>1. CASE pc' = "schema"  BY <1>11, <1>14, <2>1 DEF CheckTables, Goto
  <2>2. CASE pc' = "rows"
    <3>1. /\ pc = "load" /\ ~reload /\ \A t \in Tables : db[t] # None
          /\ UNCHANGED <<db, want, mark, reload>>
      BY <1>14, <2>2 DEF CheckTables, MustLoad, Goto, volume, config
    <3>2. mark = want /\ mark # None
      BY <1>1, <3>1, NamesAssumption DEF DataSafe, Running
    <3>3. AllRows(db)  BY <3>1, <3>2 DEF DbSafe, ReloadPending, AllRows
    <3>4. QED  BY <2>2, <3>1, <3>2, <3>3 DEF DbSafe, AllRows
  <2>3. QED  BY <1>14, <2>1, <2>2 DEF CheckTables, Goto
<1>15. CASE CreateTable
  <2>1. pc = "schema" /\ i \in 1 .. N /\ UNCHANGED <<mark, want, reload>>
    BY <1>15 DEF CreateTable, RunInv, config
  <2>2. CASE i = N
    <3>1. pc' = "loading" /\ i' = 1  BY <1>15, <2>2, OrderFacts DEF CreateTable
    <3>2. QED  BY <3>1 DEF DbSafe
  <2>3. CASE i # N
    <3>1. pc' = "schema" /\ i + 1 \in i + 1 .. N  BY <1>15, <2>1, <2>3, OrderFacts DEF CreateTable
    <3>2. LoadOrder[i + 1] # LoadOrder[i] /\ LoadOrder[i + 1] \in Tables
      BY <2>1, <3>1, LaterTables
    <3>3. db[LoadOrder[i + 1]] = None  BY <2>1, <3>1 DEF RunInv
    <3>4. db'[LoadOrder[i + 1]] = None  BY <1>1, <1>15, <3>2, <3>3 DEF CreateTable
    <3>5. QED  BY <3>1, <3>2, <3>4 DEF DbSafe
  <2>4. QED  BY <2>2, <2>3
<1>16. \A t \in Tables : pc \in Running => dat[t] = Rows(want)
  <2>1. pc \in Running => mark = want /\ pc # "clean" /\ want \in Datasets
    BY <1>1 DEF DataSafe, Running
  <2>2. QED  BY <2>1, NamesAssumption DEF DataSafe
<1>17. CASE LoadTable
  <2>1. pc = "loading" /\ i \in 1 .. N /\ want \in Datasets /\ LoadOrder[i] \in Tables
    <3>1. pc = "loading" /\ i <= N
      BY <1>17, OrderFacts DEF LoadTable, N
    <3>2. i \in 1 .. N + 1 /\ want \in Datasets
      BY <1>1, <3>1 DEF RunInv, TypeOK, N
    <3>3. QED  BY <3>1, <3>2, OrderFacts
  <2>2. dat[LoadOrder[i]] = Rows(want)  BY <1>16, <2>1 DEF Running
  <2>3. /\ db' = [db EXCEPT ![LoadOrder[i]] = Rows(want)] /\ i' = i + 1
        /\ UNCHANGED <<pc, want>>
    BY <1>17, <2>1, <2>2 DEF LoadTable, config
  <2>4. \A k \in 1 .. N : LoadOrder[k] \in Tables  BY OrderFacts
  <2>5. \A k \in 1 .. i : db'[LoadOrder[k]] = Rows(want)
    <3>1. TAKE k \in 1 .. i
    <3>2. k \in 1 .. N /\ (k = i \/ k \in 1 .. i - 1)  BY <2>1, OrderFacts
    <3>3. QED  BY <1>1, <2>1, <2>3, <2>4, <3>2 DEF DbSafe
  <2>6. QED  BY <2>1, <2>3, <2>5 DEF DbSafe
<1>18. CASE Loaded
  <2>1. /\ pc = "loading" /\ pc' = "rows" /\ UNCHANGED <<db, mark, want>> /\ i > N
        /\ i \in 1 .. N + 1
    BY <1>18, OrderFacts DEF Loaded, Goto, volume, config, RunInv, TypeOK, N
  <2>2. \A k \in 1 .. N : db[LoadOrder[k]] = Rows(want)  BY <2>1, OrderFacts DEF DbSafe
  <2>3. AllRows(db)  BY <2>2, OrderFacts DEF AllRows
  <2>4. mark = want  BY <2>1 DEF DataSafe, Running
  <2>5. QED  BY <2>1, <2>3, <2>4 DEF DbSafe, AllRows
<1>19. CASE CheckRows \/ Bench
  <2>1. pc \in {"rows", "bench"} /\ AllRows(db)  BY <1>19 DEF CheckRows, Bench, DbSafe, Goto
  <2>2. mark = want /\ db[Sales] # Empty
    BY <1>1, <2>1, RowsFacts DEF DataSafe, Running, AllRows
  <2>3. CASE Bench  BY <1>2, <2>1, <2>2, <2>3 DEF Bench
  <2>4. CASE CheckRows  BY <2>1, <2>2, <2>4 DEF CheckRows, Goto, DbSafe, AllRows, volume, config
  <2>5. QED  BY <1>19, <2>3, <2>4
<1>20. CASE Kill  BY <1>2, <1>20 DEF Kill, SafeKills
<1>21. CASE UNCHANGED vars
  BY <1>21 DEF DbSafe, AllRows, ReloadPending, vars, volume, config
<1>22. QED
  BY <1>3, <1>5, <1>6, <1>7, <1>8, <1>9, <1>10, <1>12, <1>13, <1>14, <1>15, <1>17, <1>18, <1>19,
     <1>20, <1>21 DEF Next

LEMMA SafeInvariant == ASSUME SafeKills PROVE Spec => [](RunInv /\ DataSafe /\ DirSafe /\ DbSafe)
<1> DEFINE Safe == RunInv /\ DataSafe /\ DirSafe /\ DbSafe
<1>1. Init => Safe  BY RunInvInit, SafeInit
<1>2. Safe /\ [Next]_vars => Safe'  BY RunInvNext, DataSafeNext, DirSafeNext, DbSafeNext
<1>3. QED  BY <1>1, <1>2, PTL DEF Spec

(* Every result is measured on the data set it is labelled with, for any   *)
(* data sets, page sizes, tables and safe kills.                           *)
THEOREM ResultAlwaysHonest == ASSUME SafeKills PROVE Spec => []ResultHonest
<1>1. DbSafe => ResultHonest  BY DEF DbSafe, ResultHonest, AllRows
<1>2. QED  BY <1>1, SafeInvariant, PTL

(* The marker of the generated data speaks for every file.                 *)
THEOREM DataMarkAlwaysHonest == ASSUME SafeKills PROVE Spec => []DataMarkHonest
<1>1. DataSafe => DataMarkHonest  BY DEF DataSafe, DataMarkHonest
<1>2. QED  BY <1>1, SafeInvariant, PTL

(* The server finds a data directory it can start on.                      *)
THEOREM DatadirAlwaysUsable == ASSUME SafeKills PROVE Spec => []DatadirUsable
<1>1. DirSafe => DatadirUsable  BY DEF DirSafe, DatadirUsable
<1>2. QED  BY <1>1, SafeInvariant, PTL

(* No run fails on what the runs before it left.                           *)
THEOREM RunsAlwaysRecover == ASSUME SafeKills PROVE Spec => []RunsRecover
<1>1. DbSafe => RunsRecover  BY DEF DbSafe, RunsRecover
<1>2. QED  BY <1>1, SafeInvariant, PTL

=============================================================================
