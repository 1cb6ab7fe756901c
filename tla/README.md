# TLA+ models of the TPC-DS on MariaDB project

This directory holds a formal model of the repository: the data generator
`dsdgen` and the query generator `dsqgen` (`DSGen-software-code-4.0.0/tools`),
the container that generates, loads, indexes and measures a database over a
volume it reuses (`docker/`), and the script that rebuilds a server with
another page size (`queries/`). TLC checks the models on small instances;
TLAPS proves the main results about the parallel generator, the random
streams, the dimensions with history and their copies, the keys and amounts of
facts, refresh sets, validation, the reading of distributions and templates, the
streams of queries, the stages of the container and the
page-size script for every value of their parameters.

## 1. Inventory

### dsdgen, the data generator (C, `DSGen-software-code-4.0.0/tools`)

| part | state | operations | correct if |
|---|---|---|---|
| main loop, `driver.c` | table, row, rows left; `PARALLEL`, `CHILD`, `-TABLE` | visit tables, skip rows, `gen_tbl` | the chunks are the serial data set |
| parallel build, `parallel.c` | per random stream: seed, draws used by the row (`nUsed`), allowance (`nUsedPerRow`) | `split_work`, `row_skip`, `row_stop` (`checkSeeds`) | streams are where a serial build has them |
| random streams, `genrand.c` | seed per stream | `next_random`, `skip_random` | a skip equals that many draws |
| row builders, `w_*.c`, `s_*.c` | the row, for sales the walk over the calendar (`jDate`, `kNewDateIndex`) and the item permutation | `mk_w_*`, `mk_master`, `mk_detail` | no row draws more than its allowance; keys are unique |
| history, `scd.c` | `arBKeys`, `g_OldValues` | `setSCDKeys`, `changeSCD`, `matchSCDSK` | one valid row of a member on every day |
| joins, `join.c` | - (from a draw and a day to a row) | `mk_join`, `cp_join`, `web_join`, ... | rows and days fit together |
| amounts, `pricing.c`, `decimal.c` | decimals | `set_pricing` | the amounts of a sale add up |
| calendar, `date.c`, `w_datetbl.c` | `set_dow`'s last year, the current day | conversions, `mk_w_date`, `setUpdateDates` | a row is the day it says |
| scaling, `scaling.c` | row counts, rows per day, update windows | `get_rowcount`, `dateScaling`, `setUpdateScaling` | a refresh set has its rows on its days |
| distributions, `dcomp.c`, `dcgram.c`, `dist.c` | index and bodies of the compiled file | compile `*.dst`, find, load and draw | what was written is drawn, with its weight |
| flat files, `print.c`, `nulls.c` | open files, null map of each table | `pr_w_*`, `nullSet` | a line loads into its table |
| options, `r_params.c` | option table, parameter files | parse, over-ride | the command line wins |
| validation, `validate.c` | rows drawn; the builders' memory | `vld_*` | a row is printed as it was built |

A data set is built by one process or by `PARALLEL` of them, each started with
its own `CHILD` number. The processes never communicate. That each computes
the right rows, and computes them as a serial build would, rests on
arithmetic each does for itself. What is hard: row numbers at chunk
boundaries, tables written by the builder of another table, streams that must
be moved over rows never built, dates that follow from the number of rows
before, and rows of a dimension that other builders refer to without ever
seeing them.

### dsqgen, the query generator (the same directory)

| part | state | operations | correct if |
|---|---|---|---|
| text, `tokenizer.l`, `qgen.y`, `grammar.c` | files open, statement so far | tokens, definitions, includes | a statement is read as it is meant |
| templates, `substitution.c`, `query_handler.c` | list of substitutions and segments | `AddQuerySubstitution`, `AddQuerySegment` | a query is its template, filled in |
| expressions, `expr.c`, `eval.c` | values of each substitution, the query they are for | build, check, evaluate | what a template allows, and all of it, can be drawn |
| streams, `QgenMain.c`, `permute.c` | the order of a stream, seed | `GenerateQueries` | the order depends on the stream alone |

It runs sequentially and keeps no state from run to run; what is hard is the
memory within a run: values left of the query before, lists that must be
sorted, one `_LIMIT` for all templates, references before what they refer to.

### The container (shell and Python, `docker/`, `reproduce.sh`, `run-scales.sh`)

| part | state | operations |
|---|---|---|
| launch: `reproduce.sh`, `docker/profiles.sh`, `run-scales.sh` | resolved settings; one volume, one results directory | start a container, one per scale factor |
| stage 2, data | `.dat` files and their marker `.scale`, in the volume | check, `rm -f`, `dsdgen`, write marker |
| stage 3, server | data directory and its marker `.innodb_page_size`, in the volume | check, `rm -rf`, `mariadb-install-db`, write marker, start |
| stage 4, load | database `tpcds`, in the volume; `RELOAD`, in the script | drop and create, schema, `LOAD DATA` per table, count rows |
| stage 5, indexes | secondary indexes and their flags IGNORED, in the database | count, drop the unused, build, clear, ignore, check the count, prune |
| stage 6, statistics | - | `ANALYZE` |
| stage 7, `docker/bench.py` | results directories and logs, comparison; what runs in the server | put away the old, time the queries, summary, compare answers, report |

What is hard: the volume outlives the run, the settings change from run to
run, the container can be stopped at any command, and the script's decisions
are made from markers, from the presence of one file, from a number of indexes
and from variables that die with it. It is correct if a result is measured on
the data and with the indexes it is labelled with, if no result mixes two
runs, if no volume makes later runs fail, and if work is not repeated.

### Host scripts

`queries/change-innodb-page-size.sh` dumps a server's databases, moves its data
directory aside, makes a new one with another page size and restores the dump.
Its state is the two directories and the configuration file on disk, and three
variables (`MOVED`, `CONFIG_WRITTEN`, `STAGE`) from which a failure or a signal
decides what to undo. What is hard: any command may fail, in the script or in a
subshell of it that has inherited its traps, a signal may come between a command
and the variable that notes it, a server may outlast the wait for its stop, and
the script may be ended without its traps. It is correct if a run that fails leaves the server as it
was, a run that succeeds has all it promised, and the data is never lost.

`pagesize/*.sh` drove past experiments one command after another,
`scripts/*.py` derive the lists of indexes, `queries/*.py` rewrite queries and
`analysis/` evaluates results. They keep no state that outlives a step.

### How the parts interact

`reproduce.sh` resolves the settings and starts one container; `entrypoint.sh`
in it calls `dsdgen` (one process there; builds by hand use `PARALLEL`), starts
the server, loads, indexes and calls `bench.py`. They share files in one
volume. The processes of a parallel build share nothing at run time: their
agreement is in the arithmetic of `split_work()`, `row_skip()` and
`skip_random()`. The builders of a sale and of a dimension share nothing
either: they agree in the arithmetic of `scd.c` and `join.c`. `distcomp`
writes `tpcds.idx` for both `dsdgen` and `dsqgen`.
`change-innodb-page-size.sh` is run by hand on a server outside any container.

`PROJECT.json` lists every component with what is modelled of it, and the
hazards of the code line by line, with the properties that cover them.

## 2. Modules

| module | what it is | code |
|---|---|---|
| `SplitWork` | constant operators: the chunk of rows of each process | `parallel.c` `split_work` |
| `TableGen` | abstract specification: each row of a serial build is written once, in any order, and all are written in the end | - |
| `ParallelGen` | the processes of a parallel build; extends `SplitWork`, implements `TableGen` | `driver.c` `main`, `gen_tbl`, `skipDays`; `parallel.c` `row_skip`, `row_stop`, `checkSeeds`; `w_catalog_sales.c` |
| `GenRand` | one random stream: draws, and skips bit by bit | `genrand.c` `init_rand`, `next_random`, `skip_random` |
| `Draws` | constant operators: the numbers a call draws | `genrand.c`, `join.c`, `nulls.c`, `address.c`, `text.c`, `pricing.c` |
| `DimensionDraws`, `RefreshDraws` | the numbers a row of a dimension or of a refresh set draws | `w_*.c`, `s_*.c`, `streams.h` |
| `RowDraws` | the rows of all tables, line by line, against the allowances; extends these two | the builders of facts, `parallel.c` `row_stop` |
| `Revisions` | a dimension with history, and which row of it others refer to | `scd.c` |
| `FactKeys` | item permutation, orders, inventory; extends `Revisions` | `permute.c`, `w_store_sales.c` and its like, `w_inventory.c` |
| `Joins` | what an order, its lines and returns refer to, and when; instantiates `Revisions` | `join.c`, `w_catalog_sales.c` and its like, `s_*order*.c` |
| `Pricing` | the amounts of a line and its return | `pricing.c`, `decimal.c` |
| `Calendar` | dates and their numbers, `date_dim`, the days of refresh sets | `date.c`, `w_datetbl.c`, `scaling.c` |
| `UpdateSet` | the rows of a refresh set and their dates; extends `FactKeys` | `scaling.c` |
| `FlatFiles` | lines, empty fields and files, and what is loaded of them | `pr_*`, `print.c`, `nulls.c`, `tdefs.c`; `04_load_data.sql` |
| `Options` | the options and their files | `params.h`, `r_params.c` |
| `Distributions` | compile, find, load and draw | `dcgram.c`, `dcomp.c`, `dist.c` |
| `Validation` | rows validated in any order | `validate.c`, `driver.c`, `vld_*` |
| `DimensionCopies` | the copies of dimensions in a refresh set; extends `Revisions` | `s_item.c` and its like, `s_customer.c`, `s_zip_to_gmt.c`, `permute.c` |
| `SourceText` | statements of `*.dst` and of templates from their text | `grammar.c`, `tokenizer.c`, `StringBuffer.c` |
| `Expressions` | the definitions of a template and what they come to | `expr.c`, `eval.c` |
| `Templates` | a template and the queries printed from it | `substitution.c`, `list.c`, `query_handler.c`, `y.tab.c` |
| `QueryGen` | streams of queries and the values in them | `QgenMain.c`, `eval.c`, `permute.c` |
| `Pipeline` | runs, one after another, over one volume | `docker/entrypoint.sh` stages 2 to 4 and 7 |
| `IndexSetup` | runs, one after another, over one database's indexes | `docker/entrypoint.sh` stage 5, `emit-index-ddl.py` |
| `Measurement` | runs, one after another, over one results directory | `docker/entrypoint.sh` stage 7, `bench.py` |
| `PageSizeChange` | runs of the page-size script on one server | `queries/change-innodb-page-size.sh` |
| `MCParallelGen`, `MCParallelUpdate`, `MCGenRand`, `MCPipeline`, `MCIndexSetup`, `MCExpressions`, `MCJoins` | instances for TLC | - |
| `MCScripts` | the container's and the host's script in one run, each under whatever can happen to it and, as instances, with what it can recover from | - |
| `MCParts` | nineteen parts in one run | - |
| `...Proofs` | theorems and proofs: `ParallelGen` with `SplitWork`, `SourceText`, `Pipeline`, `PageSizeChange`; `GenRand` with `Validation`; `Input` for `QueryGen`, `Options` and `Distributions`; `Row` for `Revisions`, `FactKeys`, `Pricing`, `UpdateSet` and `DimensionCopies`; `Stage` for the container's later stages and the files of `FlatFiles` | - |

### ParallelGen

A process is a record of the variables of `main()` and `gen_tbl()`: the table
it is at (`tab`), the next row and how many are left (`row`, `left`), its walk
over the calendar (`walk`), and for each stream how many numbers have been
drawn from it (`drawn`) and how many of them by this row (`used`). `out` is
what it has written. The actions are the points where the code changes that
state: `PassOver` a table, `StartTable` (split, skip), `BuildRow`, `RowStop`,
`EndTable`. Actions of different processes interleave freely.

A row is represented by what determines it: its number, its date and the
position of its streams when its builder starts. How many numbers a row draws
is free (`Draws`), as it depends on what the row draws: lines per order,
returns, gifts. That a builder never takes more than the allowance of a stream
(`NoSeedOverrun`) is an assumption on the tables: `checkSeeds()` reports it only
in a run with `CHKSEEDS`. `RowDraws` counts what the builders take and shows for
which streams the assumption holds. The numbers themselves do not matter, with
one exception: that a stream which was skipped goes on like one which was drawn
from. That is what `GenRand` is about.

### GenRand

`Draw` is a call of `next_random()`; `SkipRandom`, `SkipBit` and `SkipEnd` are
the beginning, an iteration of the loop and the end of `skip_random()`. The
constant `Serial` is the sequence of seeds by draws alone, for each initial
seed: its defining equations are the assumption `SerialAssumption`, and TLC
computes it. C's division truncates towards zero, and seeds can be negative:
`init_rand()` adds `int`s, so that with a large `RNGSEED` (`docker/profiles.sh`
accepts any nonnegative integer) the seeds of later streams overflow. The model
takes either outcome, wrapped or not.

### Rows: RowDraws, Revisions, FactKeys, Joins, Pricing, DimensionCopies

`RowDraws` keeps a bag: how many numbers the row has drawn from each stream.
`Draws` says for each kind of call how many that may be, as a set; where it
depends on text (`gen_text`, `mk_sentence`) it is the worst case of the words in
`english.dst`. The bags were compared with those of an instrumented build.

`Revisions` builds a dimension row by row with the memory the code has (`bkey`,
`old`), and an attribute is the number of the row its value was drawn for.
`FactKeys` makes the permutation swap by swap and takes orders from it.
`Joins` has the day of an order, what its lines refer to and what their returns
refer to as three steps, with the real Julian days; the run has the row counts of
10 GB, as only there a dimension (`web_page`) ends with a member cut off.
`Pricing` computes with `decimal.c`'s pairs of number and precision.
`DimensionCopies` makes a permutation as `FactKeys` does and takes the rows of a
copy from its beginning, each by way of a revision of the id; that the
permutation is long enough is an assumption (`EnoughIds`) about the row counts
in `scaling.dst`, which TLC evaluates for the nine scale factors.

### Files: FlatFiles, Options, Distributions, SourceText

In `FlatFiles` a builder's row has a null map and some missing keys or dates,
then its line and those of its child are printed; the columns of a line, its
order and its masks are data, taken table by table from the `pr_` functions,
`columns.h` and `tdefs.h`, and so are the columns of the statement that loads it.
`Options` handles a command line item by item and files line by line.
`Distributions` parses statement by statement, with the scratch arrays and
their capacities, writes the file, and looks up what it wrote as `dist.c` does.
In `SourceText` a text is written as lexemes, with line ends and comments at
any place, and then read as `ParseFile()` or the scanner would.

### Queries: Expressions, Templates, QueryGen

`Expressions` gives for an expression the set of everything `EvalExpr()` can
come to. `Templates` is the text around it: the parser's actions add to
`TemplateList`, a query evaluates and prints. `QueryGen` is the state that
lasts: the order of a stream, and the values with the query they were drawn for.

### Validation

A row drawn by `row_skip()` to it is built by the same builder that has built
others before, so `memory` is what the builder keeps: positions of streams,
day, old values. `asBuilt` is what a serial build writes.

### Pipeline

The volume is the variables `dat`, `mark`, `dd`, `ddmark` and `db`; a run's own
are `want`, `page`, `reload`, `i` and `pc`. `Start` begins a run with any
settings; each command that changes the volume is an action, and a command over
many files is one action per file (`RemoveFile`, `OpenFile` and `FinishFile`,
`CreateTable`, `LoadTable`; `Wipe` in any order). `Kill` ends the run in a
stage of `KilledIn`: it keeps the volume and resets the variables of the run.
The 25 tables are three: `store_sales`, at which the script looks, one that is
handled before it and one after it.

### IndexSetup and Measurement

`IndexSetup` has the database's `have` and `hidden` and the statements the
client has not run yet (`todo`): a file of statements is one action per
statement, and a kill leaves the rest. `cut` remembers that a build or a drop
was killed. `Measurement` has the files of a results directory by their
origin: a summary and answers name the run that wrote them. Putting away what
is there is three renames; a client that times out leaves an orphan, which
ends at any time; the server is restarted between configurations.

### PageSizeChange

On disk are `datadir`, `olddir`, what was moved to `DATADIR.failed-TS` (`aside`)
and `config_file`; `server` says whether the server runs, `leaving` whether one
runs that was told to stop; `backup`, `moved` and `written` are the variables that
die with the script. One action per command that matters, in the order of the
script, with the assignment that notes a command (`NoteMove`, `NoteConfig`) an
action of its own, as a trap can run in between. `CommandFails` and `Differs` are
`die` and the `ERR` trap in the script's own shell, `Interrupted` the trap of `INT`
and `TERM`; both lead to the steps of `rollback()`, or to `restore_config()` alone
before the server is stopped.

`set -E` lets subshells inherit the `ERR` trap. `ClientFails` is a client that
fails in one of them: in `pv | cli_new` (lines 556-557), `ORIG_FLUSH=$(q_new ...)`
(552) or `exact_counts` (180, called in 576). The subshell rolls back and ends, the
script sees its command fail and rolls back again, with the variables it had:
`left` counts the rollbacks that are still to come. In a pipeline of which both
ends fail there are three; those of the two ends, which run side by side, are
taken one after another. A client that fails in line 542 is rolled back only once:
its subshell's messages become the operand of the comparison, and the script
ends, without a trap, on a variable that is not bound. `StopAgain` lets the server
outlast the wait (`wait_for_stop || err`, line 198), after which the script goes
on to move directories. `Killed` is what no trap handles; a subshell is killed with
its script. `was` remembers what the run found.

## 3. Runs

| run | instance | distinct states | shows |
|---|---|---|---|
| `parallel_gen` | 4 tables (one parent and its child, one small), 6 streams, 1, 2 or 3 processes, all tables or one | 9,356 | `ChunksFit`, `StreamsInStep`, `DatesInStep`, `ImplementsTableGen`, `BuildCompletes` hold |
| `parallel_dates` | 2 processes, a day that ends with the first row of a chunk | | `DatesInStep` fails |
| `parallel_update` | 3 generations of tables, 2 processes | | `StreamsInStep` fails |
| `refresh_seeds` | orders of every channel with their lines and returns | | `OrdersWithinSeeds` fails |
| `scripts` | the container's script: 2 data sets, 2 page sizes, 3 tables; the host's: 3 page sizes; each with kills, failures, subshells and signals anywhere, and careful | 812,182 | `CarefulResultHonest`, `CarefulDataMarkHonest`, `CarefulDatadirUsable`, `CarefulRunsRecover`, `RegeneratedHonest`, `NoRework`; `CarefulRollsBack`, `DoneIsComplete`, `Kept`, `NeverUnderServer` hold |
| `parts` | nineteen parts, below | 1,327,992 | their properties hold |
| `pipeline_reload` | a kill between the marker of a new data set and its load | | `ResultHonest` fails |
| `page_size_signal` | a signal between `mv` and `MOVED=1` | | `RollsBack` fails |
| `page_size_subshell` | a client that fails in a subshell | | `RollsBack` fails |
| `indexes_kept` | runs with the full, the pruned and the kept set, none killed in a build | | `SetByConfiguration` fails |
| `calendar_leap` | `date_dim` from its first row | | `SkipsLeapDay` fails |
| `joins_valid` | sales of a data set of 10 GB | | `ValidWhenSold` fails |

In `scripts` a variable says which script the behaviour is about and another
whether it is run the careful way. Careful is, for the container, that no run is
killed in three windows: in the middle of `rm -f` or `rm -rf`, while tables are
loaded, and between the marker of a new data set and its load. For the host it is
that commands fail as a whole and in the script's own shell, that no signal comes
before an assignment that notes a command, that a server told to stop does, and
that nothing kills the script. The `Careful...` properties are claimed of these
behaviours only, the others of all; what goes wrong in the windows is in section 4.

`parts` is one run of parts that share no state. A variable says which part the
behaviour is about, the others stay in one initial state (`Only`), and a part
that comes to its end stutters there (`Ended`), so that a deadlock anywhere else
is an error.

| part | instance | states | properties |
|---|---|---|---|
| indexes | 7 indexes in the groups the files of `sql/` make of them: never used or unreferenced in three combinations, kept, and one that is only in `sql/15` | 13,856 | `TargetMeasured`, `HiddenExactly`, `TargetLeftAlone` |
| measurement | 2 workloads, 2 origins, 5 runs | 836,587 | `RunsApart`, `ReportsItsOwn`, `ComparisonCurrent` |
| revisions | up to 10 rows, days 7 to 19, table numbers 0 and 1, 2 attributes | 3,442 | `RevisionsMatch`, `ValuesStay` |
| keys | 7 rows of item (4 ids), 1 to 4 lines, 2 warehouses, 2 weeks | 17,554 | `KeysUnique` |
| draws | a row of every table that is ever split or validated | 4,271 | `SeedsSuffice` |
| calendar | all 73,049 rows of `date_dim`; refresh sets of 1998 to 2002 | 74,877 | `DatesTrue` |
| queries | 3 templates, 3 streams of each 2 rounds | 111,472 | `QueriesFixed` |
| streams | modulus 127 = 5 * 25 + 2, 22 initial seeds, up to 13 draws | 21,697 | `SkipsAgree`, `DrawsInRange` |
| files | a line of every table that is built, 3 rows of a builder | 5,744 | `RowsLoad` |
| options | command lines of up to 3 of 14 items, 3 files that name each other and themselves | 23,325 | `Precedence` |
| distributions | 2 distributions of 3 shapes, 2 rows, space for one row and 8 bytes at a time | 37,105 | `ReadsBack` |
| refresh | 24 rows of sales, days of weight 0, 3 or 7 of 20 | 5,982 | `SpreadOverDates` |
| expressions | templates with every form of definition in `query_templates`, lists of dates that fit and that do not, and what is refused or fails | 2,938 | `ValuesMeant` |
| templates | a dialect, two templates in both orders, an include, and wrong ones; 4 queries | 741 | `PrintedAsWritten` |
| prices | limits and odd amounts of each number drawn | 18,361 | `AmountsAddUp` |
| joins | 10 GB; ids with one to three revisions; days at which a catalog, a revision, a year or the data begins or ends | 54,861 | `JoinsFit` |
| validation | two blocks of six rows, three rows validated in any order, 3 orders a day of 1 to 3 lines | 868 | `ValidatedAsBuilt` |
| copies | dimensions of 3 to 8 rows, up to 5 ids in every order; 2 customers; zips at the ends of ranges | 25,005 | `CopiesFit` |
| source | statements of `*.dst` and of templates, two in a text with a line end or a comment in any place; buffers of 4 + 2 bytes | 69,306 | `ReadWhole` |

What the properties say:

- `ResultHonest`: a result is measured on the data set it is labelled with;
  `DataMarkHonest`, `DatadirUsable`: a marker speaks for all files, and the server
  is started on a directory of its page size; `RunsRecover`: no run fails on what
  those before it left; `RegeneratedHonest`: a run that regenerates its data measures
  that; `NoRework`: a run that finds what it asks for changes nothing.
- `RollsBack`: a change of the page size that fails leaves the server as it was
  found. `DoneIsComplete`: one that is done has all it promises. `Kept`: the
  old data directory is in its place, at `OLD_DATADIR` or in `DATADIR.failed-TS`,
  never deleted. `NeverUnderServer`: no directory is moved under a server that
  nobody told to stop, and under one that is still stopping only by a rollback.
- `TargetMeasured`: queries are timed with exactly the full set of indexes if
  that was asked for, after any history of runs; with exactly the pruned set, and
  with all of the kept set and nothing that `sql/drop_unused_indexes.sql` names,
  unless a build or a drop was killed before. `HiddenExactly`:
  what is IGNORED then is what was asked to be; `TargetLeftAlone`: a run that
  finds its set neither builds nor drops.
- `RunsApart`: no results directory has files of two runs, and no result
  without errors was measured beside an orphan. `ReportsItsOwn`: a run reports
  all it measured and nothing older. `ComparisonCurrent`: the comparison is of
  the answers beside it, and of one data set.
- `RevisionsMatch`: a member of a dimension has exactly one valid row on any
  day, and the row other builders compute is the one of 6 days a table number
  before: it is that of the day exactly where no revision begins in between. `ValuesStay`: a value that
  was replaced does not come back, and none is another member's.
- `KeysUnique`: no order sells an item twice, no row of inventory has the key
  of another. `SeedsSuffice`: no row draws more from a stream than allowed, but
  for six groups of streams the module names (section 4). `JoinsFit`: what a
  sale, a line and its return refer to exists, and is the revision of the shifted
  day, a page of a catalog of the year, a store in its first revision, a site opened
  before the sale; a return comes after its sale, and what is shipped is shipped
  after the order. That it is valid and active on the day, as the code's comments
  say, is `ValidWhenSold`, which fails. `AmountsAddUp`: prices, discounts, coupons and taxes add up to the
  cent, and a return gives back what was paid for it.
- `DatesTrue`: each row of `date_dim` is the day it should be in all its
  columns, also when it is validated out of order, and the dates of a refresh
  set are those of its zone, both with the exceptions of section 4. From March 1
  of a common year on, the entry of "calendar" is that of the day before: that it
  is the day's own is `SkipsLeapDay`, which fails.
  `SpreadOverDates`: a refresh set has each date's share of rows, and an
  inventory every item and warehouse once a date.
- `RowsLoad`: the printed line, read back by the delimiters, has the columns
  the load statement names, none that may not be NULL nor the id of a copy is
  empty, and no file is opened, and emptied, twice. `CopiesFit`: a row of a copy
  names a member of its dimension, and no other row does; a customer has the
  attributes of one row of `customer_demographics`; every zip of an address has
  a row that is printed. `Precedence`: the command line over the files, the last item, the first line; and the table named is built.
  `ReadsBack`: what `distcomp` compiled is found and drawn by its weight, and
  nothing was written outside the memory it has. `ValidatedAsBuilt`: a row
  validated after any others is the row a serial build has.
- `ReadWhole`: every statement is read as meant, wherever lines end and
  comments stand. `ValuesMeant`: a substitution gets what its definition
  allows, and all of it can be drawn; a list of dates has as many as its range has
  days, the last not counted, at most, and a `ulist()` of dates none. `PrintedAsWritten`: a query is its
  template with each reference replaced by this query's value.
  `QueriesFixed`: the order of a stream does not depend on the seed, and what
  is computed from an element is computed from the one that is shown.

Why the bounds are enough. In `parallel_gen`, 6 rows in 2 or 3 chunks and 4 rows
in 3 chunks have every case of `split_work()`: chunks with and without an extra
row, a table that is not split, a build by one process. The calendar has days
without sales, days that end inside a chunk and days that span chunks. In
`scripts` and the part "indexes" nothing is bounded but the number
of values: runs follow each other for ever, and every volume meets both a run
that fits it and one that does not. Five runs of the part "measurement" are
enough for a result that is put away, one that is not and one that is compared
with it. Of dimensions, ten rows are more than one period of six, by which the
number of revisions repeats. With lines for all four ids, an order can take the
whole permutation. The generator's streams are checked with a small modulus and
proved for the real one; 13 draws have all patterns of up to four bits. The null
maps are those with all 31 bits, the worst case for a column that must not be
empty, and two others that show whether a row keeps the map of the row before;
keys and dates that may be missing are missing all or none.
Each limit of `distcomp` is met by space for a single row. For prices, joins and
the calendar the formulas are evaluated at the code's own numbers and only the
inputs are chosen, at and beside each place where a formula changes.

Each property of a passing run is checked to be one the code can break: for
each of them `PROJECT.json` names a wrong variant of a definition (a dropped
guard, a swapped order, a forgotten child table) that TLC refutes.

Fairness is assumed in `ParallelGen` only: weak fairness of each process's
steps. The code has no waiting and no communication, so a process that is
started runs until it has written its last row; a build in which one is killed
is not complete and not claimed to be. The container's and the host's scripts
may be killed for ever, so their models state safety only; the other programs
are sequential and their models end where the programs do.

Deadlock is checked in `parts`, and in the failing runs but those of a build,
`calendar_leap` and `joins_valid`. A build ends when all processes have, in these
two a row is made and no more, and a server that is down after a killed or twice
rolled back run of `change-innodb-page-size.sh` (`scripts`) is not a server the
script can be run on.

## 4. What the failing runs say, and what else was met

1. `parallel_dates`: when a day's orders end exactly at the first row of a
   chunk, `skipDays()` starts the chunk a day too far (`driver.c:128`,
   `index > kFirstRow`) and stays ahead: every order of the chunk is dated a day
   later than in a serial build. Seen with the built tools: `-SCALE 10 -PARALLEL
   53 -CHILD 9` dates the orders 241513 to 271701 of `catalog_sales` one day later
   than `-PARALLEL 5 -CHILD 1` dates the same orders.
2. `parallel_update`: `main()` skips the streams of a table and its child
   (`driver.c:553-558`), `row_stop()` those of three generations. Update tables
   have three (`s_purchase`, `s_purchase_lineitem`, `s_store_returns`): the
   returns of every chunk but the first come from streams that were not moved.
   It takes update sets with more than a million rows to split.
3. `refresh_seeds`: `streams.h:534-546` allows `s_catalog_order_lineitem` the
   numbers of one line item where an order has nine, so that a chunk of a
   refresh set does not begin where the one before it ends. Seen with the tools
   at `-SCALE 3000 -UPDATE 1`: the first order of `-PARALLEL 40 -CHILD 2` is the one
   of `-PARALLEL 20 -CHILD 1` and has other line items.
4. `pipeline_reload`: a run killed after it wrote `.scale` and before it finished
   loading leaves a marker that fits and a database that does not; `RELOAD` is
   forgotten and the next run reports the old rows under the new label.
5. `page_size_signal`: a signal between `mv` and `MOVED=1` is rolled back as if
   nothing had been moved. The server does not start; the data is safe in the
   directory the script printed (`Kept`).
6. `page_size_subshell`: a client that fails in a subshell is rolled back by the
   subshell and again by the script, in which `FAILING` and `MOVED` are as they were.
   The second rollback moves the directory that the first has put back into
   `DATADIR.failed-TS`, and `mv` finds nothing at `OLD_DATADIR`: no server runs, and
   the data is neither where it was nor where the script says (`Kept` knows where).
   Seen when the script is run with stand-ins for brew and the client.
7. `indexes_kept`: `entrypoint.sh:382-385` says that the set of indexes depends on
   the configuration and not on the order of runs. `sql/drop_unused_indexes.sql`
   is older than `sql/15_candidate_indexes.sql` and names none of its 23 indexes:
   with `KEPT_INDEXES=1` after a full build they stay and are measured with, after a
   fresh one they are not there.
8. `calendar_leap`: `date.c:537-538` says that `day_number()` "needs to skip over the
   leap day". It does not: from March 1 on, a common year has the entry of
   "calendar" of the day before, with its holiday and quarter, and December 31 is
   never looked up.
9. `joins_valid`: the page of a catalog sale "needs to be from a catlog active at
   the time of the sale" (`w_catalog_sales.c:208`), and those of a quarter or a month
   are counted from the first of all 18 catalogs of the year. Two more parts of the
   property, `WebPageValid` and `SiteOpen`, fail when TLC is given each alone: a web page
   "needs to be valid for the sale date" (`w_web_sales.c:180`), and is the revision
   of 120 days before (`scd.c:112`); the date must "fit within the lifetime" of the site
   (`join.c:269-270`), and a site that is closed is closed before it opens, as
   `join.c:336` takes its duration away.

Two other windows of the container, which `scripts` keeps out of what it calls
careful, have the effect of 4. `rm -f` removes `store_sales.dat` before `.scale`: a
run killed in between, followed by one killed while it generates, leaves files of
two data sets beside the marker of the first (`ResultHonest` fails). `rm -rf` can
remove the system database before the marker, and the marker then vouches for a
data directory of another page size (`DatadirUsable` fails). With `KilledIn` set
to the stages `clean` or `wipe` TLC finds both. In all three windows removing the
marker by hand is a cure: `RegeneratedHonest` holds with kills anywhere.

The models found more. The properties hold with these as stated exceptions, in
the comment of the property:

- Calendar. `is_leap()` takes 1900 and 2100 for leap years. `d_last_dom` adds up
  months twice (`OP_LAST_DOM`), the current day and week are never set, the
  weekend is Friday and Saturday, `d_quarter_seq` begins its quarters in March.
  The two dates of a refresh set can come reversed, or one day outside their
  zone, at its end; a delete file then has an empty range (`scaling.c:475`).
- Sales. Besides finding 9: stores are joined as of day 1, so always in their first
  revision; a page of a bi-annual catalog may be of one that ended three days
  ago; `web_join()` compares dates in memory that was freed; in a refresh set the catalog named beside a page is the
  one before the page's (`join.c:264`); no sale in a store or on the web is of
  January 1, 1998, or of March 2 of a common year, and one may be of January 2, 2003.
- Amounts. A return's `net_paid` does not know of the coupon
  (`pricing.c:212-213`), so more may be refunded than was paid. `set_pricing()`
  has no case for the returns of a refresh set.
- Allowances. Besides those of finding 3: a text of `CC_MARKET_DESC` may need 61
  numbers of 50, one of `WEB_MARKET_CLASS` 36 of 20; the time of a return takes two
  and its reason is chosen twice; the item's container comes from the
  stream `CC_HOURS` has the number of, `s_customer`'s address from those of
  `customer_address`.
- Dimensions. The last of the 200 rows of `web_page` at 10 GB is the first of two
  revisions, and the second is not built: on later days `matchSCDSK()` stops at the
  last row and the sale has a page that is valid no more (`LastCutOff`). At the other eight scale factors and in the other dimensions the
  last member is whole. An item may keep class and brand of the old row with a new
  category. A web order near the end of the permutation reads behind it
  (`s_web_order_lineitem.c:102-103`).
- Copies of dimensions. The builder of the dimension is called for one revision
  out of order, and `changeSCD()` keeps what `g_OldValues` has of whatever member
  was built before it, or nothing (`s_item.c:86`; only `vld_s_item()` clears it):
  in the first refresh set of 1 GB some items have no description. The id of
  `s_call_center` is made of the row's key (`s_call_center.c:116`), which is an id
  for first revisions only; `s_customer` has one of its customers by a permutation
  and the address by the row's number (`s_customer.c:172`). `arGMTOffset` has a
  range `{58500, 58499}`, which no zip is in: zips from 58500 have Montana's
  offset, which is the same.
- Files. `store_sales` prints `coupon_amt` where `ss_ext_discount_amt` is loaded;
  `s_catalog_returns.c:150-151` prints two columns in the other order than
  `tpcds_source.sql`; `t_time` is `NOT NULL` but not masked, and saved by a
  percentage of 0; names of chunks' files leave out the number of the update.
- Options. A flag set by a lower-case `y` is cleared (`r_params.c:562`); a stray
  word after a value swallows the next option; a value that is missing
  crashes; a file that names itself is read until none can be opened.
- Distributions. `DistNameIndex()` never finds the first weight alias, `pick`
  tests a weight before the bound, names are cut at 20 characters, and
  `IntegrateDist()` and `findDistValue()` are off by one. No distribution that
  ships meets any of these.
- Templates. `define _LIMIT` is global: a template without one prints the limit
  of another, or "limit 0". A `ulist()` longer than there are values reads
  behind its permutation (queries 27, 34 and 36 at scale 1). A reference at
  the beginning of a later statement is printed before the semicolon of the one
  before. A text referred to before its turn is empty.
  A `ulist()` of dates, which `eval.c:586` says returns "a unique set of values", has
  none: its range is counted from its first day to its first day (`eval.c:590`). A
  list of dates never has the last day of its range, and one longer than that is
  cut with a warning, the rest of its values being empty. `date(..., sales)` never
  gives the first day of its range, and crashes or loops on a range of less than
  two days.
- Source text. Only the first `-` of a line can begin a comment; what follows a
  `;` on its line belongs to the same statement; two `\;` on one line of a
  statement of several lines end it early; a line of a definition that begins
  with an id is taken for SQL (queries 4 and 11 begin theirs with a comma).
- Refresh sets. `getUpdateBase()` (`scaling.c:742`) indexes `arRowcount` with
  `nTable - S_BRAND` where `setUpdateScaling()` filled it by `nTable`: the orders
  of every set begin with the same number.
- Stages. `SKIP_BENCH=1` reports the
  results it finds, of whatever run.

## 5. Proofs

The theorems are about every number of tables, rows, days, streams and
processes, every day of the calendar, every modulus and multiplier, every list of indexes and queries, and
every data set and page size.

`ParallelGenProofs`: the chunks of `split_work()` lie within the table
(`ChunksWithin`), do not overlap (`ChunksDisjoint`) and cover it (`ChunksCover`).
With q = n / p and r = n % p, the first r chunks have q + 1 rows and the others q;
the proofs are the arithmetic of that. `Inv` adds to `TypeOK` what links the loop to the chunk
(`InChunk`: `row` is the first row plus those built, `left` the rest) and that the
calendar reaches every row (`WalksReach`), without which a step of `WalkTo`
could not be shown to have a day to go to. From it follow `TypeCorrect`,
`SpecWrittenInChunk` and with the lemmas on chunks `ChunksAlwaysFit`.
`StreamsAlwaysInStep` needs `InStep`: at the start of each row, the streams of the
row's family have been drawn from (row - 1) * `PerRow` times; within a row the
draws are those and what `used` says. It assumes `TwoGenerations`, the
condition that run `parallel_update` violates. `DatesAlwaysInStep` needs that the
walk is on the serial day of the last row built; it assumes `NoDayEndsAtAChunk`,
the condition that `parallel_dates` violates. `BuildImplementsTableGen` puts the
two together: a step of `BuildRow` is a step of `TableGen`, all others stutter.
The assumptions on constants are those of the modules: `TablesAssumption`,
`StreamsAssumption`, `NoSeedOverrun`, `CalendarAssumption`.

`GenRandProofs`: `SchrageMethod` says that `next_random()` computes
Mult * s modulo MAXINT, for the negative and the too large seeds as well; it needs
2 * `nR` < `nQ` (5672 < 127773), which is Schrage's condition with room for those
seeds. `SkipsAlwaysAgree` rests on the loop invariant `SkipInv`: for some p (a power
of two), n * p draws are left, `z` is the seed before them, and p draws multiply
by `m`. No induction over draws is needed, as squaring `m` doubles p.
`DrawsAlwaysInRange` says that a stream never goes dead. It needs that the
multiplier has an inverse (`InverseAssumption`: MAXINT is a prime), that with a
number its square has one (`SquareInvertible`), and that what has one makes no
multiple of MAXINT of a number that is none (`NoneMadeZero`); `LifeInv` says
that the seed, and within a skip `z` and `m`, are such.

`AlwaysValidatedAsBuilt`: a row is a function of its number in closed form
(`BuiltRow`), although the builders count days and draws from row to row.
`ValidInv` says that a build writes these rows and that, between two rows, the
memory is what `HasBuilt` says of a process that has built that many; of a
process that validates it says only the type, as `vld_` functions must put
back everything that matters. That they do is `WalkedTo`, `MasterOfValidation`
and `RevisionsBuilt`: the last goes through the one to three revisions of an id.

`InputProofs`: for `QueriesAlwaysFixed`, `OrderInv` says that the order is a permutation, and the
one of `Applied`; `ListsInv` that every list's permutation is one and its values
are `Shaped`; `TurnInv` that a substitution, once it had its turn, keeps the value
that what refers to it was computed from. The shuffles are loops over
arrays, written as recursive functions: `Recursion` gives their values and
`Upwards`, from the well-foundedness of the numbers, an induction over a set of
them that SMT can use. `Shuffled`: a shuffle applies to what is there one
permutation that depends on the draws alone, hence `AppliedIs`.
`DistinctIs`: as long as the list is short of `m` texts it has all there were, so
that enough distinct texts make a full one.

`OptionsByRule`, in the same module: `OptionInv` says that for some n all values are
those that the rule of `Precedence` gives after the first n items of the command
line and the lines read so far (`SoFar`); `PARAMS` is the exception, which is set
only when its file was read (`ParamsSoFar`). A new item is the last that sets its
option, and a line counts only when no item and no line before it set the option,
which is what `Overridden` tests. `ScaleFits` says that the band of the
distributions is that of the scale. The line and the table that a choice of a least number finds exist by the
well-foundedness of the numbers (`FirstIn`).
Assumed are that options have the values they need and that nobody sets those that
`params.h` hides (`ItemsAssumption`, `LinesAssumption`).

`AlwaysReadsBack`, in the same module: `DistInv` says that each distribution
`distcomp` has in memory tells what the statements said (`Told`), with each value
in a place of its own among its strings (`OneWordEach`), that the scratch arrays
of the last one are as long as its rows (`ScratchFits`), and that the file, once there is
one, is that of the distributions (`OnDisk`). Where a part begins is a
sum over the parts before it (`FlatPlaced`, `BodyPlaces`, `BlockPlaces`); parts that are not
empty begin in different places (`SumsGrow`), so `ReadPart` has what was written there.
`PicksAreWeights` counts the random numbers that stand for a row. Assumed are that the
values of a row fit into the 1000 bytes by which the space grows, which nothing checks,
and that the aliases of a distribution differ (`DistributionsAssumption`).

`SourceTextProofs`: `TextsReadWhole` compares what a reader made of a text with
what the text was made from. Both programs read as if lexeme by lexeme: what one
makes of the state of the reader, and where it may stand, is a relation (`DstMakes`,
`LexMakes`). `SourceInv` says that the text that is not yet read leads (`Leads`: there
is a run of the relation over it) from what the reader has to what it is meant to
have. It is inductive as the two who change the text do so at its two ends.
Writing a statement, with its breaks and comments, makes the run longer at its
end (`DstWrites`, `LexWrites`, by induction over the lexemes of the statement).
Reading takes its beginning away: a line of `*.dst` is its lexemes, one after
another (`LineReads`), and so is a piece of SQL text (`PieceTaken`), although the code
takes each as a whole. With nothing left to read, both ends of the run are the same
(`OfText`). `BufferFits` keeps of the line buffer that there is room for one more
than its text, as it grows by more than is needed (`StillFits`).
Assumed are sizes that are not 0 (`BufferAssumption`); that a statement of `*.dst`
ends with its only semicolon and has at most one that is escaped, as
`english.dst:4666` (`DstAssumption`: with two on a line the statement ends early); and
of templates that SQL begins with a word that is no keyword of `dsqgen`, if not with a
reference like `[_LIMITA]`, that references are whole, and that in definitions no id follows one
(`TemplateAssumption`). Breaks that begin a line of a definition with an id are
not excluded by an assumption but by `broken`, which `ReadWhole` names.

`RowProofs`: `RevInv` says that business key and days of each row built are
functions of its number, and that the old values are those of the last row. `MatchIsOwn` and
`MatchDistinct` are about the operators that others compute with: the row they
find belongs to the id, and ids do not share rows; `MatchValid`, that it is the
revision of 6 days a table number before, valid on the day itself exactly where
none begins in between. From these follow `MatchAlwaysAgrees`, `RevisionsAlwaysMatch` and `ValuesAlwaysStay`.

In the same module, `KeyInv` says that the permutation is one after every swap, that
an order's items are those from its start on, and that each row of inventory
has the key its number gives it. `KeysAlwaysUnique` uses `MatchDistinct`: two ids of the
permutation are two items on any day. `ItemsAlwaysSold`: every item sold exists.

There, too, are the other rows that are computed by their numbers.
`AmountsAlwaysAddUp`: a product of decimals is cut off (`CutOff`), so that a part
of an amount is an amount and not above it (`PartOfMoney`) and the rest is what
is missing to the cent; nothing is assumed but the ranges of what is drawn.
`PricingInv` keeps of a sale what its return is computed from
(`SaleFigures`). `AlwaysSpreadOverDates`: `UpdateInv` says that each date's rows
begin where those of the date before end (`RowcountsSum`, over the six dates) and
that a row is what its number gives; `Rounding` bounds a date's share, and
`EveryItem` takes the number of a row of inventory apart and puts it together
again. `CopiesAlwaysFit`: `CopyInv` says that the permutation is one, is finished
before the first row, and that the n-th row names the member at its n-th place
(`MemberAt`); with `MatchDistinct` two ids are two members. `AttributesOfOneKey`
is about eight divisions, one after another, by which `bitmap_to_dist()` takes a key apart, and
`ZipHasRow` about the search through the ranges of `arGMTOffset`. `EnoughIds`
is the assumption about `scaling.dst`.

Then come the joins. `JoinInv` says what an order, each of its lines and each return
fit to, and that a line of a refresh order has the entry as many behind that of the
order as its number; it has one lemma per action. `MatchFits` compares the days of
the row that is computed with the day that it is computed for: it needs `DaysOfRevision`,
how the days of a row depend on its place among six; the day is the shifted one, and
nothing is claimed of the sale's own (finding 9). `PageJoins` multiplies and divides by the
pages of a catalog, `SiteOpens` bounds the days of a web site. `JoinsAlwaysFit` is for
every number of rows and pages; `JoinsAssumption` says of what is drawn that it is an
id there is, a page of a catalog and a day between that of the first data and today.

Last comes the calendar, of which the formulas are proved to be what they stand for.
A day is counted from the first of March before it (`MarchFirst`), so that a leap day
is the last of its year: `NumberOfDate` says that `dttoj()` adds up years, months
(`MonthBegins`: 153 m - 457 over 5) and days, `DateOfMarchDay` that `jtodt()` finds century, year and month
again, and `DateOfNumber` puts them together for every date of 1801 to 2198.
`NumberOfYearDay` counts the same days from January, as `m_days[]` and "calendar"
do, and `EntryOfDay` says which entry `day_number()` finds. `DoomsdayLast` and
`DayOfWeek` show `set_dow()` to be the day number modulo seven, but in January and February of
1900 and 2100. `WalkInv` says that the row is a day of the Gregorian calendar whose
number is its own (`IsDay`), that what `set_dow()` keeps is what any year leaves
(so that a row does not depend on the rows before it: `KeptAgain`), and which
flags are set. `CalendarTrue` and `DatesValidated` follow for each row by one lemma
per column. For a refresh set, `DrawnDay` says which day of its year a draw is, and `NearDay`
what `day_number()` and the zone say of any day up to a month before or behind that year;
the rest is arithmetic with the ends of the zones (`PairFits`, `ThursdayOfZone`,
`OtherFits`). It also shows what the code takes for granted: the third
of the Thursdays that `setUpdateDates()` tries, which it does not look up, is always in the zone. `DatesAlwaysTrue` is for
every row there can be (`CalendarAssumption`: 73,049, the first of January 2100)
and any years from 1901 to 2099; the run goes through all rows and five years.

`PipelineProofs`: `RunInv` links `pc` to what this run has done and is enough for
`RegeneratedAlwaysHonest` and `NeverRework` with kills anywhere. `DataSafe`,
`DirSafe` and `DbSafe` say what the markers and the database vouch for; they are
preserved under `SafeKills`, no kill in `clean`, `wipe` and `loading` or between the
marker of a new data set and its load, the windows of section 4.
From them follow `ResultHonest`, `DataMarkHonest`, `DatadirUsable` and `RunsRecover`,
which the run `scripts` checks of its careful behaviours. Assumed of the
constants are `TablesAssumption`, that the orders name each table once, and
`NamesAssumption`, which keeps values apart.

`PageSizeChangeProofs`: `ScriptInv` says at each step where the old data is, how
many rollbacks are to come and whether the server runs; `Kept`, `DoneIsComplete` and
`NeverUnderServer` follow whatever fails, in the script or in a subshell, and
however long a server takes to stop. A second rollback finds the old data in
`DATADIR` and takes it to `DATADIR.failed-TS`, which is why `Kept` names that place,
and `NeverUnderServer` excepts the rollback that waited in vain. `AlwaysRollsBack`
needs `RollbackInv` and the assumption `Noted`: nothing fails at the write of the
configuration or at an assignment that notes a command, no signal comes at one,
no client fails in a subshell, and a server told to stop does. Each part is needed:
`page_size_signal` and `page_size_subshell` show what happens without.
`NoneAssumption` keeps values apart.

`StageProofs`: `HiddenInv` is how far the stage has come with the flags;
`FilesAssumption` says that a list names an index once. `TargetInv` is what
the runs before can have left (`Legacy`): unless a build or a drop was killed, all but some
unreferenced indexes, or nothing unused and either all or only kept ones. In
these sets, and in no others, the number of indexes tells whether the target is there
(`CountDecides`), and `Ready` follows whatever the run has to build or drop: for the
kept set, that nothing of the file of drops is there, and no more. From it
follow `TargetAlwaysMeasured` and `TargetAlwaysLeftAlone`. For the
measurement, `DirsType` and `RunSoFar` say what the run has in the directory at
each stage, and give `RunsAlwaysApart` and `AlwaysReportsItsOwn` for any workloads
and kills, under `MeasurementAssumption` (a workload has each query once);
`ComparedInv`, that a comparison is gone before a run writes its first answer,
gives `ComparisonAlwaysCurrent`. `LinesAlwaysKept` is the first part of `RowsLoad`:
no file is opened twice, as a file that is not open has no line as long as lines
are to come (`KeptInv`).

Only model-checked are:

- liveness (`BuildCompletes`), which this prover does not do;
- `ValuesMeant` and `PrintedAsWritten`: expressions and the text around them are
  trees, and their modules use recursive operators, which it cannot expand;
- `SeedsSuffice` and what is left of `RowsLoad`: they are about the table of
  allowances and the columns of each table. These are numbers in the code and no
  parameters; TLC goes through all of them.

## 6. What is not modelled, and why

- Parallel builds: tables that are not generated (`FL_NOP`, about twenty `s_*.c`
  whose rows nobody writes), `CHKSEEDS` and `DBLOAD` builds, which change no row
  of the default build. `CHILD` is taken to be in 1 .. `PARALLEL`: nothing checks
  it. Counts are integers without a width.
- Values that no other value depends on: names, addresses, texts, and how
  `genrand_integer()` and its relatives reduce a number to a range.
- Scaling between the fixed scale factors (`LogScale()`, whose index is always 1,
  and `LinearScale()`): the row counts are constants of the models. So are the
  weights of the days of sales.
- The values that copies of dimensions keep (section 4: `g_OldValues`, stale at
  `s_item.c:86`) and their validation; which of two columns of one type is printed
  first (`RowsLoad` counts columns and looks at those that may not be `NULL`, so that it
  does not see `s_catalog_returns.c:150-151`); the ids from which `getUpdateBase()`
  counts the orders of a refresh set (section 4);
  `delete_` files; shared memory. The codes of cities (`city_hash()`): for the
  1000 names of `cities.dst` the function gives 1 to 9981, which is what
  `CopiesFit` takes.
- The tables of the generated parser and scanner; `range()`, `list()` and
  `ulist()` of a text, leap days and names of columns in expressions, digits in
  the names of substitutions: no template uses them. `mkheader.c`, which writes
  headers once; `IntegrateDist()`, `MatchDistWeight()`, `findDistValue()`; how
  `distcomp` reports errors.
- `entrypoint.sh`: the build of the tools and `ANALYZE`, which do not change the
  rows; a `dsdgen` that fails, which `|| true` hides, and a full disk: any file
  could then hold anything. Two runs at once on one volume: nothing locks it and
  nothing documents it. The comparison of indexes by name, which only prints, and
  smoke runs, which skip the indexes.
- `bench.py`: parsing and hashing of answers, the report of used indexes, and
  starting it by hand.
- `change-innodb-page-size.sh`: commands of the rollback that fail are reported
  and left to the user; here only the stop and the start of the server may fail,
  and `mv` where there is nothing to move. Two rollbacks that run side by side, at the
  two ends of a pipeline; pre-checks that refuse change nothing. Writes to the
  database after the dump are lost, as the script says itself.
- Launch and sweep start one container after another, each with a volume and a
  results directory of its own. The page-size experiments of `pagesize/` can no
  longer be run: the databases they compared were removed, and each script stops at
  `require-local-db.sh`. `queries/*.py`, `scripts/*.py` and `analysis/` are
  about text and statistics and keep no state.

## 7. Plan

Every module that was planned is there. What could be added:

1. `IndexSetup` composed with `Pipeline`: a reload drops every index, so that a
   kill in one stage meets the decisions of the other.
2. `GenRand` for rows: `row_skip()` by rows times allowance, so that `ParallelGen`'s
   counts become a refinement of streams of numbers.
3. Row counts between the fixed scale factors, and delete files.
