---------------------------- MODULE ParallelGen ----------------------------
(***************************************************************************)
(* A parallel build of the data set by dsdgen: independent processes, one  *)
(* per CHILD, each running main() of tools/driver.c.  A process visits the *)
(* tables in order; for each it finds its rows (split_work), moves the     *)
(* random number streams of the table forward over the rows it leaves out  *)
(* (row_skip), and then builds its rows one by one (gen_tbl).              *)
(*                                                                         *)
(* What a row holds is decided by where the streams of its table stand     *)
(* when its builder starts and, for the one sales table that prints it, by *)
(* the sale date the builder has walked to.  A row is therefore modelled   *)
(* by those two, and a stream by the number of values drawn from it since  *)
(* its initial seed.                                                       *)
(***************************************************************************)
EXTENDS SplitWork, FiniteSets

CONSTANTS
  ParallelArgs, \* the values of the PARALLEL parameter, Unset among them
  NTables,      \* main() visits tables 1 .. NTables in this order
  RowsIn,       \* get_rowcount(): table -> rows (orders, for a sales table)
  ChildOf,      \* tdef.nParam of an FL_PARENT table; NoTable without the flag
  DatedTable,   \* the sales table whose rows print the walked date, or NoTable
  Streams,      \* the random number streams, one per column that draws
  StreamTable,  \* rng_t.nTable
  PerRow,       \* rng_t.nUsedPerRow
  DuplicateOf,  \* rng_t.nDuplicateOf: a stream names another one, or itself
  Draws,        \* table -> how many values a call of its builder may take from
                \* each stream: some columns are drawn once per line item of
                \* an order, some only for a line item that is returned
  LastDay,      \* the calendar is the days 0 .. LastDay
  DayRows,      \* dateScaling(): the rows of DatedTable sold on a day
  DayEnd        \* running total of DayRows, plus one

NoTable == 0

Tables == 1 .. NTables

(* FL_CHILD: built by the builder of another table, never on its own.      *)
IsChild(t) == \E u \in Tables : ChildOf[u] = t

Roots == {t \in Tables : ~IsChild(t)}

ChildTable(t) == IF t \in Tables THEN ChildOf[t] ELSE NoTable

(* The tables one call of t's builder writes: an order, its line items and *)
(* their returns.                                                          *)
Family(t) == {t, ChildTable(t), ChildTable(ChildTable(t))} \ {NoTable}

StreamsOf(T) == {s \in Streams : StreamTable[s] \in T}

ASSUME TablesAssumption ==
  /\ NTables \in Nat
  /\ RowsIn \in [Tables -> Nat]
  /\ ChildOf \in [Tables -> Tables \union {NoTable}]
  /\ \A t, u \in Roots : t # u => Family(t) \intersect Family(u) = {}
  /\ DatedTable \in Roots \union {NoTable}
  /\ ParallelArgs \subseteq Nat

ASSUME StreamsAssumption ==
  /\ StreamTable \in [Streams -> Tables]
  /\ PerRow \in [Streams -> Nat]
  /\ DuplicateOf \in [Streams -> Streams]
  /\ DOMAIN Draws = Roots
  /\ \A t \in Roots : \A d \in Draws[t] :
       /\ d \in [Streams -> Nat]
       /\ \A s \in Streams \ StreamsOf(Family(t)) : d[s] = 0

(* What a run with CHKSEEDS reports as a seed overrun does not happen.     *)
ASSUME NoSeedOverrun ==
  \A t \in Roots : \A d \in Draws[t] : \A s \in Streams : d[s] <= PerRow[s]

(* dateScaling() knows every date.  LastDay is far enough for every row to *)
(* find its day, also for a process that is a day ahead of the others.     *)
ASSUME CalendarAssumption ==
  /\ LastDay \in Nat
  /\ DayRows \in [0 .. LastDay -> Nat]
  /\ DayEnd \in [0 .. LastDay -> Nat]
  /\ DayEnd[0] = 1 + DayRows[0]
  /\ \A d \in 1 .. LastDay : DayEnd[d] = DayEnd[d - 1] + DayRows[d]
  /\ DatedTable # NoTable =>
       \A d \in 0 .. LastDay : RowsIn[DatedTable] + DayRows[d] <= DayEnd[LastDay]

-----------------------------------------------------------------------------
(* The walk over the calendar.  A process keeps the day (jDate) and the    *)
(* last row of that day (kNewDateIndex).                                   *)

Least(S) == CHOOSE d \in S : \A e \in S : d <= e

(* Wrong variant of SkipDays: never back one day.                          *)
SkipDaysTooFar(first) ==
  IF first = 1
  THEN [day |-> 0, index |-> DayEnd[0]]
  ELSE LET d == Least({e \in 0 .. LastDay : DayEnd[e] >= first})
       IN  [day |-> d + 1, index |-> DayEnd[d]]

(* skipDays(): from the first day, forward while the rows of the days      *)
(* passed do not reach the first row of this process; then back one day    *)
(* when they go beyond it.                                                 *)
SkipDays(first) ==
  IF first = 1
  THEN [day |-> 0, index |-> DayEnd[0]]
  ELSE LET d == Least({e \in 0 .. LastDay : DayEnd[e] >= first})
       IN  [day   |-> IF DayEnd[d] > first THEN d ELSE d + 1,
            index |-> DayEnd[d]]

(* The loop of mk_master(): forward while the row is past the day.         *)
WalkTo(walk, i) ==
  LET d == Least({e \in walk.day .. LastDay :
                    i <= walk.index + (DayEnd[e] - DayEnd[walk.day])})
  IN  [day |-> d, index |-> walk.index + (DayEnd[d] - DayEnd[walk.day])]

-----------------------------------------------------------------------------
VARIABLES
  parallel, \* the PARALLEL all processes of this build were started with
  tabid,    \* the table named by -table, or NoTable for all of them
  pc,       \* process -> where it is in main() and gen_tbl()
  tab,      \* process -> i of main()'s loop, the table
  row,      \* process -> i of gen_tbl()'s loop, the next row
  left,     \* process -> kRowCount, the rows still to build
  walk,     \* process -> mk_master()'s static jDate and kNewDateIndex
  drawn,    \* process -> stream -> values drawn since the initial seed
  used,     \* process -> stream -> rng_t.nUsed
  out       \* process -> the rows it has written

args == <<parallel, tabid>>

vars == <<parallel, tabid, pc, tab, row, left, walk, drawn, used, out>>

Procs == Children(parallel)

AllProcs == UNION {Children(p) : p \in ParallelArgs}

NotStarted == [day |-> -1, index |-> 0]     \* bInit is still 0

First(t, c) == FirstRow(RowsIn[t], parallel, c)

Count(t, c) == RowCount(RowsIn[t], parallel, c)

Init ==
  /\ parallel \in ParallelArgs
  /\ tabid \in Roots \union {NoTable}
  /\ pc = [c \in Procs |-> "table"]
  /\ tab = [c \in Procs |-> 1]
  /\ row = [c \in Procs |-> 0]
  /\ left = [c \in Procs |-> 0]
  /\ walk = [c \in Procs |-> NotStarted]
  /\ drawn = [c \in Procs |-> [s \in Streams |-> 0]]
  /\ used = [c \in Procs |-> [s \in Streams |-> 0]]
  /\ out = [c \in Procs |-> {}]

Moves(c, from, to) == pc[c] = from /\ pc' = [pc EXCEPT ![c] = to]

(* The streams row_skip(t, .) sets: those of t and, whatever t is, every   *)
(* stream that another one duplicates.                                     *)
Skipped(t) ==
  StreamsOf({t}) \union
  {s \in Streams : \E r \in Streams : r # s /\ DuplicateOf[r] = s}

(* Wrong variant of SkippedFor: the child table is forgotten.              *)
SkippedForParent(t) == Skipped(t)

(* main() skips for a table and, if it has one, for its child table.       *)
SkippedFor(t) ==
  Skipped(t) \union (IF ChildOf[t] = NoTable THEN {} ELSE Skipped(ChildOf[t]))

(* main(), the head of the loop over the tables: a child table, or a table *)
(* that -table did not ask for.                                            *)
PassOver(c) ==
  /\ pc[c] = "table"
  /\ tab[c] \in Tables
  /\ IsChild(tab[c]) \/ (tabid # NoTable /\ tab[c] # tabid)
  /\ tab' = [tab EXCEPT ![c] = @ + 1]
  /\ UNCHANGED <<args, pc, row, left, walk, drawn, used, out>>

(* main(), the general case: split_work(), then row_skip() if the first    *)
(* row is not row 1, up to the call of gen_tbl().  skip_random() counts    *)
(* from the initial seed of the stream, not from where it stands.          *)
StartTable(c) ==
  LET t == tab[c] IN
  /\ Moves(c, "table", "row")
  /\ t \in Roots
  /\ tabid \in {NoTable, t}
  /\ row' = [row EXCEPT ![c] = First(t, c)]
  /\ left' = [left EXCEPT ![c] = Count(t, c)]
  /\ LET skip == IF First(t, c) = 1 THEN {} ELSE SkippedFor(t) IN
     /\ drawn' = [drawn EXCEPT ![c] =
                    [s \in Streams |-> IF s \in skip
                                       THEN (First(t, c) - 1) * PerRow[s]
                                       ELSE @[s]]]
     /\ used' = [used EXCEPT ![c] =
                   [s \in Streams |-> IF s \in skip THEN 0 ELSE @[s]]]
  /\ UNCHANGED <<args, tab, walk, out>>

(* Wrong variant of Stopped: the child tables are forgotten.               *)
StoppedParent(t) == StreamsOf({t})

(* The streams row_stop(t) brings up to their allowance: it follows        *)
(* FL_PARENT through three generations.                                    *)
Stopped(t) == StreamsOf(Family(t))

(* gen_tbl(): the builder of the table makes and writes the row and the    *)
(* rows of the child tables that belong to it.                             *)
BuildRow(c) ==
  LET t == tab[c]
      w == IF t # DatedTable THEN walk[c]
           ELSE WalkTo(IF walk[c] = NotStarted THEN SkipDays(First(t, c))
                                               ELSE walk[c], row[c])
  IN
  /\ Moves(c, "row", "stop")
  /\ left[c] > 0
  /\ walk' = [walk EXCEPT ![c] = w]
  /\ out' = [out EXCEPT ![c] = @ \union
               {[tbl |-> t, row |-> row[c],
                 day |-> IF t = DatedTable THEN w.day ELSE 0,
                 at  |-> [s \in StreamsOf(Family(t)) |-> drawn[c][s]]]}]
  /\ \E d \in Draws[t] :
       /\ drawn' = [drawn EXCEPT ![c] = [s \in Streams |-> @[s] + d[s]]]
       /\ used' = [used EXCEPT ![c] = [s \in Streams |-> @[s] + d[s]]]
  /\ UNCHANGED <<args, tab, row, left>>

(* row_stop(): checkSeeds() draws from each stream of the table what the   *)
(* row left of its allowance, for the child tables too.  Then the loop's   *)
(* i++ and kRowCount--.                                                    *)
RowStop(c) ==
  LET S == Stopped(tab[c]) IN
  /\ Moves(c, "stop", "row")
  /\ drawn' = [drawn EXCEPT ![c] =
                 [s \in Streams |-> IF s \in S /\ used[c][s] < PerRow[s]
                                    THEN @[s] + (PerRow[s] - used[c][s])
                                    ELSE @[s]]]
  /\ used' = [used EXCEPT ![c] = [s \in Streams |-> IF s \in S THEN 0 ELSE @[s]]]
  /\ row' = [row EXCEPT ![c] = @ + 1]
  /\ left' = [left EXCEPT ![c] = @ - 1]
  /\ UNCHANGED <<args, tab, walk, out>>

(* gen_tbl() returns when no row is left, and main() goes on.              *)
EndTable(c) ==
  /\ Moves(c, "row", "table")
  /\ left[c] = 0
  /\ tab' = [tab EXCEPT ![c] = @ + 1]
  /\ UNCHANGED <<args, row, left, walk, drawn, used, out>>

Step(c) == PassOver(c) \/ StartTable(c) \/ BuildRow(c) \/ RowStop(c) \/ EndTable(c)

Next == \E c \in Procs : Step(c)

(* A process that is started runs to its end.                              *)
Fairness == \A c \in AllProcs : WF_vars(c \in Procs /\ Step(c))

Spec == Init /\ [][Next]_vars /\ Fairness

-----------------------------------------------------------------------------
(* The row a single process gives number i of table t: it has built the    *)
(* i - 1 rows before, each has moved the streams by their allowance, and   *)
(* it has walked to the first day whose last row is not before i.          *)
SerialDay(i) == Least({d \in 0 .. LastDay : i <= DayEnd[d]})

SerialRow(t, i) ==
  [tbl |-> t, row |-> i,
   day |-> IF t = DatedTable THEN SerialDay(i) ELSE 0,
   at  |-> [s \in StreamsOf(Family(t)) |-> (i - 1) * PerRow[s]]]

SerialRows ==
  UNION {{SerialRow(t, i) : i \in 1 .. RowsIn[t]} : t \in Roots}

-----------------------------------------------------------------------------
(* Two conditions on the tables and the calendar under which a parallel    *)
(* build is the serial one.  The code checks neither.                      *)

(* No builder writes more than an order and its returns: true of the data  *)
(* set itself, not of the update sets, whose line items have returns.      *)
TwoGenerations == \A t \in Roots : ChildTable(ChildTable(t)) = NoTable

(* No day of sales ends with the first row of a chunk, save at row 1.      *)
NoDayEndsAtAChunk ==
  DatedTable # NoTable =>
    \A p \in ParallelArgs : \A c \in Children(p) :
      LET first == FirstRow(RowsIn[DatedTable], p, c) IN
      first # 1 => \A d \in 0 .. LastDay : DayEnd[d] # first

-----------------------------------------------------------------------------
Walks == [day : 0 .. LastDay, index : Nat] \union {NotStarted}

RowType(t) ==
  [tbl : {t}, row : Nat, day : Nat, at : [StreamsOf(Family(t)) -> Nat]]

(* The values the variables of a process can have.                         *)
TypeOK ==
  /\ parallel \in ParallelArgs
  /\ tabid \in Roots \union {NoTable}
  /\ pc \in [Procs -> {"table", "row", "stop"}]
  /\ tab \in [Procs -> 1 .. NTables + 1]
  /\ row \in [Procs -> Nat]
  /\ left \in [Procs -> Nat]
  /\ walk \in [Procs -> Walks]
  /\ drawn \in [Procs -> [Streams -> Nat]]
  /\ used \in [Procs -> [Streams -> Nat]]
  /\ DOMAIN out = Procs
  /\ \A c \in Procs : \A o \in out[c] : o.tbl \in Roots /\ o \in RowType(o.tbl)

(* No row number of a table is built by two processes, and none outside    *)
(* the table is built at all: the chunks split_work() computes apart from  *)
(* one another fit together.                                               *)
ChunksFit ==
  /\ \A c \in Procs : \A o \in out[c] : o.row \in 1 .. RowsIn[o.tbl]
  /\ \A c, e \in Procs : \A o \in out[c], q \in out[e] :
       (o.tbl = q.tbl /\ o.row = q.row) => c = e

(* Every row was built with the random number streams where a serial build *)
(* has them: row_skip() leaves the streams of a table and of its children  *)
(* where building the skipped rows, with row_stop() after each, would.     *)
StreamsInStep ==
  \A c \in Procs : \A o \in out[c] : o.at = SerialRow(o.tbl, o.row).at

(* Every order carries the sale date a serial build gives it: skipDays()   *)
(* leaves a process where walking over the earlier rows would.             *)
DatesInStep ==
  \A c \in Procs : \A o \in out[c] : o.day = SerialRow(o.tbl, o.row).day

(* The build, however many processes it is made of, does what TableGen     *)
(* promises: each step that writes a row writes one that a serial build    *)
(* has and that is still missing.                                          *)
Data == INSTANCE TableGen WITH
          wanted <- IF tabid = NoTable THEN Roots ELSE {tabid},
          built  <- UNION {out[c] : c \in Procs}

ImplementsTableGen == Data!Spec

(* And when its processes run to their end no row is missing: the chunks   *)
(* leave no gap.                                                           *)
BuildCompletes == Data!Completes

=============================================================================
