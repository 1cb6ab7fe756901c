---------------------------- MODULE Distributions ----------------------------
(***************************************************************************)
(* distcomp and what dsdgen makes of its file: distributions are compiled  *)
(* statement by statement (dcgram.c), written as one binary file with an   *)
(* index at its end (dcomp.c) and looked up and loaded from there (dist.c).*)
(*                                                                         *)
(* A distribution has rows; each row has values, one of each value set,    *)
(* and weights, one of each weight set.  Values are strings; where one of  *)
(* them begins in the strings of its distribution is kept as an offset.    *)
(***************************************************************************)
EXTENDS Integers, SequencesExt, TLC

CONSTANTS
  DistNames,  \* names of distributions
  Shapes,     \* pairs: value sets, weight sets
  Values,      \* values
  ValueLength,     \* and their lengths
  Aliases,    \* the names a distribution may have for its sets
  Weights,    \* the weights of a row
  MaxRowsOfAll, \* how many rows there are, at most
  RowsAtOnce, \* the rows storage is extended by, 100
  StrSpace    \* and the space for strings, 1000

ASSUME DistributionsAssumption ==
  /\ ValueLength \in [Values -> Nat] /\ Weights \subseteq Nat /\ MaxRowsOfAll \in Nat
  /\ {RowsAtOnce, StrSpace} \subseteq Nat \ {0}
  /\ \A shape \in Shapes : {shape[1], shape[2]} \subseteq Nat \ {0}
  \* The values of a row fit.
  /\ \A shape \in Shapes : \A word \in Values : shape[1] * (ValueLength[word] + 1) <= StrSpace
  \* There are names for all sets, each another one.
  /\ Aliases \in Seq(STRING) /\ \A shape \in Shapes : shape[1] + shape[2] <= Len(Aliases)
  /\ \A i, j \in DOMAIN Aliases : Aliases[i] = Aliases[j] => i = j
  /\ \A i \in DOMAIN Aliases : Len(Aliases[i]) \in Nat

NoWord == "nothing"
Integer == 4       \* sizeof(int32_t)
D_NAME_LEN == 20
IDX_SIZE == D_NAME_LEN + 7 * Integer

VARIABLES
  entries,         \* distcomp: pDistIndex, the distributions in the order of the file
  capacity,        \* for each, the rows and the bytes of strings there is space for
  arValueLengths,  \* the space of the scratch arrays for a row's values
  nMaxValueWidth,
  nMaxWeightWidth,
  arWeights,       \* how many weights the scratch array has space for
  overrun,         \* something was written where there was no space
  stated,          \* what the statements said
  disk,            \* the file: pairs of an offset and what begins there
  fileSize

distVars == <<entries, capacity, arValueLengths, nMaxValueWidth, nMaxWeightWidth, arWeights,
              overrun, stated, disk, fileSize>>

DistInit ==
  /\ entries = <<>> /\ capacity = <<>> /\ stated = <<>>
  /\ arValueLengths = <<>> /\ nMaxValueWidth = 0 /\ nMaxWeightWidth = 0 /\ arWeights = 0
  /\ overrun = FALSE /\ disk = {} /\ fileSize = 0

CurrentEntry == Len(entries)
Parsing == fileSize = 0

NewEntry(name) ==
  [name |-> name, index |-> CurrentEntry + 1, length |-> 0, v_width |-> 0, w_width |-> 0,
   weight_sets |-> <<>>, value_sets |-> <<>>, names |-> <<>>, strings |-> <<>>, str_space |-> 0]

\* create <name>;
ProcessDistribution ==
  /\ Parsing
  /\ \E name \in DistNames \ {entries[i].name : i \in DOMAIN entries} :
       /\ entries' = Append(entries, NewEntry(name))
       /\ stated' = Append(stated, [name |-> name, aliases |-> <<>>, rows |-> <<>>])
  /\ capacity' = Append(capacity, [rows |-> 0, strings |-> 0])
  /\ UNCHANGED <<arValueLengths, nMaxValueWidth, nMaxWeightWidth, arWeights, overrun, disk, fileSize>>

ProcessTypes(v) == [i \in 1 .. v |-> "varchar"]

\* set types = (...);  This and what follows, once for each distribution.
SetTypes ==
  /\ Parsing /\ CurrentEntry > 0 /\ entries[CurrentEntry].v_width = 0
  /\ \E shape \in Shapes :
       LET v == shape[1]
       IN /\ entries[CurrentEntry].w_width \in {0, shape[2]}
          /\ entries' = [entries EXCEPT ![CurrentEntry].v_width = v,
                           ![CurrentEntry].value_sets = [i \in 1 .. v |-> <<>>]]
          /\ arValueLengths' =
               IF v > nMaxValueWidth
                 THEN [i \in 1 .. v |-> IF i <= nMaxValueWidth THEN arValueLengths[i] ELSE -1]
                 ELSE arValueLengths
          /\ nMaxValueWidth' = v
  /\ UNCHANGED <<capacity, nMaxWeightWidth, arWeights, overrun, stated, disk, fileSize>>

\* set weights = n;  The greatest width is kept only when it is not exceeded,
\* that is never: the array is allocated anew for each distribution.
SetWeights ==
  /\ Parsing /\ CurrentEntry > 0 /\ entries[CurrentEntry].w_width = 0
  /\ \E shape \in Shapes :
       LET w == shape[2]
       IN /\ entries[CurrentEntry].v_width \in {0, shape[1]}
          /\ entries' = [entries EXCEPT ![CurrentEntry].w_width = w,
                           ![CurrentEntry].weight_sets = [i \in 1 .. w |-> <<>>]]
          /\ arWeights' = IF w > nMaxWeightWidth THEN w ELSE arWeights
          /\ nMaxWeightWidth' = IF w > nMaxWeightWidth THEN nMaxWeightWidth ELSE w
  /\ UNCHANGED <<capacity, arValueLengths, nMaxValueWidth, overrun, stated, disk, fileSize>>

ProcessNames(count) == SubSeq(Aliases, 1, count)

\* set names = (...:...);  An alias for each set, after types and weights.
SetNames ==
  /\ Parsing /\ CurrentEntry > 0 /\ entries[CurrentEntry].names = <<>>
  /\ entries[CurrentEntry].v_width > 0 /\ entries[CurrentEntry].w_width > 0
  /\ LET aliases == ProcessNames(entries[CurrentEntry].v_width + entries[CurrentEntry].w_width)
     IN /\ entries' = [entries EXCEPT ![CurrentEntry].names = aliases]
        /\ stated' = [stated EXCEPT ![CurrentEntry].aliases = aliases]
  /\ UNCHANGED <<capacity, arValueLengths, nMaxValueWidth, nMaxWeightWidth, arWeights, overrun,
                 disk, fileSize>>

SumTo(s, n) == LET sum[i \in 0 .. n] == IF i = 0 THEN 0 ELSE sum[i - 1] + s[i] IN sum[n]

RowsOfAll(e) == SumTo([i \in DOMAIN e |-> e[i].length], Len(e))

\* Where each value of a row begins, from the end of the strings on.
Starts(e, values) ==
  [i \in DOMAIN values |-> e.str_space + SumTo([j \in DOMAIN values |-> ValueLength[values[j]] + 1], i - 1)]

\* add(values : weights);
ProcessAdd ==
  /\ Parsing /\ CurrentEntry > 0 /\ RowsOfAll(entries) < MaxRowsOfAll
  /\ LET e == entries[CurrentEntry]
         c == capacity[CurrentEntry]
     IN /\ e.v_width > 0 /\ e.w_width > 0
        /\ \E values \in [1 .. e.v_width -> Values], weights \in [1 .. e.w_width -> Weights] :
             LET needed == SumTo([i \in DOMAIN values |-> ValueLength[values[i]] + 1], e.v_width)
                 rows == IF c.rows = e.length THEN e.length + RowsAtOnce ELSE c.rows
                 remaining == c.strings - e.str_space
                 space == IF remaining <= needed THEN e.str_space + StrSpace ELSE c.strings
                 starts == Starts(e, values)
             IN /\ arValueLengths' =
                     [i \in DOMAIN arValueLengths |->
                        IF i <= e.v_width /\ ValueLength[values[i]] > arValueLengths[i]
                          THEN ValueLength[values[i]] ELSE arValueLengths[i]]
                /\ capacity' = [capacity EXCEPT ![CurrentEntry] = [rows |-> rows, strings |-> space]]
                /\ entries' = [entries EXCEPT
                     ![CurrentEntry].length = @ + 1,
                     ![CurrentEntry].weight_sets = [i \in DOMAIN @ |-> Append(@[i], weights[i])],
                     ![CurrentEntry].value_sets = [i \in DOMAIN @ |-> Append(@[i], starts[i])],
                     ![CurrentEntry].strings =
                        @ \o [i \in DOMAIN values |-> [at |-> starts[i], word |-> values[i]]],
                     ![CurrentEntry].str_space = @ + needed]
                /\ overrun' = (overrun \/ e.v_width > Len(arValueLengths) \/ e.w_width > arWeights
                                \/ e.length >= rows \/ e.str_space + needed > space)
                /\ stated' = [stated EXCEPT ![CurrentEntry].rows =
                                Append(@, [values |-> values, weights |-> weights])]
  /\ UNCHANGED <<nMaxValueWidth, nMaxWeightWidth, arWeights, disk, fileSize>>

----------------------------------------------------------------------------
\* WriteIndex().  A file holds vectors of numbers, aliases and strings; disk
\* tells where each begins, and any other offset is the middle of something.

NameSpace(e) == SumTo([i \in DOMAIN e.names |-> Len(e.names[i]) + 1], Len(e.names))

InFile(item, bytes) == [item |-> item, bytes |-> bytes]
Sets(sets, length) == [i \in DOMAIN sets |-> InFile(sets[i], Integer * length)]

\* A distribution in the file: types, weights, offsets, aliases and strings.
Body(e) ==
  <<InFile(ProcessTypes(e.v_width), Integer * e.v_width)>>
    \o Sets(e.weight_sets, e.length) \o Sets(e.value_sets, e.length)
    \o <<InFile(e.names, NameSpace(e)), InFile(e.strings, e.str_space)>>

(* Wrong variant of BodySize: the aliases are not counted.                 *)
BodySizeWithoutNames(e) ==
  Integer * (e.v_width + (e.v_width + e.w_width) * e.length) + e.str_space

\* What WriteIndex() counts offset up by.
BodySize(e) ==
  Integer * (e.v_width + (e.v_width + e.w_width) * e.length) + NameSpace(e) + e.str_space

IndexEntry(e, offset) ==
  [name |-> e.name, offset |-> offset, str_space |-> e.str_space, length |-> e.length,
   w_width |-> e.w_width, v_width |-> e.v_width, name_space |-> NameSpace(e)]

\* What is written, one after the other: the number of distributions, each of
\* them, and the index, whose entries say where they are.
WrittenItems ==
  LET sizes == [i \in DOMAIN entries |-> BodySize(entries[i])]
      Entry(n) == IndexEntry(entries[n], Integer + SumTo(sizes, n - 1))
  IN  FlattenSeq(<<<<InFile(CurrentEntry, Integer)>>>> \o [n \in DOMAIN entries |-> Body(entries[n])]
                   \o <<[n \in DOMAIN entries |-> InFile(Entry(n), IDX_SIZE)]>>)

Begin(items, i) == SumTo([j \in DOMAIN items |-> items[j].bytes], i - 1)

WriteIndex ==
  /\ Parsing /\ CurrentEntry > 0
  /\ LET items == WrittenItems
         written == {i \in DOMAIN items : items[i].bytes > 0}
     IN /\ disk' = {<<Begin(items, i), items[i].item>> : i \in written}
        /\ fileSize' = Begin(items, Len(items) + 1)
  /\ UNCHANGED <<entries, capacity, arValueLengths, nMaxValueWidth, nMaxWeightWidth, arWeights,
                 overrun, stated>>

DistNext == ProcessDistribution \/ SetTypes \/ SetWeights \/ SetNames \/ ProcessAdd \/ WriteIndex

DistSpec == DistInit /\ [][DistNext]_distVars

----------------------------------------------------------------------------
\* dsdgen and dsqgen: what find_dist() and load_dist() make of the file.

\* fread() of a number of bytes; from the middle of something, nothing sensible.
ReadAt(offset, bytes) ==
  IF bytes > 0 /\ \E p \in disk : p[1] = offset THEN (CHOOSE p \in disk : p[1] = offset)[2] ELSE <<>>

\* The index is read from the end of the file.
find_dist(name) ==
  LET count == ReadAt(0, Integer)
  IN CHOOSE d \in {ReadAt(fileSize - IDX_SIZE * i, IDX_SIZE) : i \in 1 .. count} : d.name = name

\* load_dist() goes through the file from offset on; weights are summed up.
load_dist(d) ==
  LET set == Integer * d.length
      weights == d.offset + Integer * d.v_width
      values == weights + set * d.w_width
      names == values + set * d.v_width
      Cumulative(weight_set) == [row \in DOMAIN weight_set |-> SumTo(weight_set, row)]
  IN [length |-> d.length, v_width |-> d.v_width, w_width |-> d.w_width,
      weight_sets |-> [i \in 1 .. d.w_width |-> Cumulative(ReadAt(weights + set * (i - 1), set))],
      value_sets |-> [i \in 1 .. d.v_width |-> ReadAt(values + set * (i - 1), set)],
      names |-> ReadAt(names, d.name_space),
      strings |-> ReadAt(names + d.name_space, d.str_space)]

\* dist_op(): the value of a row, and the row that a random number stands for.
dist_member(dist, row, vset) ==
  LET offset == dist.value_sets[vset][row]
  IN IF \E i \in DOMAIN dist.strings : dist.strings[i].at = offset
       THEN dist.strings[CHOOSE i \in DOMAIN dist.strings : dist.strings[i].at = offset].word
       ELSE NoWord

dist_max(dist, wset) == IF dist.length = 0 THEN 0 ELSE dist.weight_sets[wset][dist.length]

pick_distribution(dist, wset, level) ==
  CHOOSE row \in 1 .. dist.length :
    /\ level <= dist.weight_sets[wset][row]
    /\ \A r \in 1 .. row - 1 : level > dist.weight_sets[wset][r]

dist_weight(dist, row, wset) ==
  dist.weight_sets[wset][row] - (IF row > 1 THEN dist.weight_sets[wset][row - 1] ELSE 0)

\* The first weight set is never found under its alias.
DistNameIndex(dist, type, alias) ==
  LET found == {i \in DOMAIN dist.names : dist.names[i] = alias}
      res == IF found = {} THEN dist.v_width + dist.w_width
             ELSE (CHOOSE i \in found : \A j \in found : i <= j) - 1
  IN CASE dist.names = <<>> -> -1
       [] dist.names # <<>> /\ type = "value" /\ res < dist.v_width -> res + 1
       [] dist.names # <<>> /\ type = "weight" /\ res > dist.v_width -> res - dist.v_width + 1
       [] OTHER -> -1

----------------------------------------------------------------------------
AsStated(s) ==
  LET d == find_dist(s.name)
      dist == load_dist(d)
      sets == dist.weight_sets \o dist.value_sets
  IN /\ dist.length = Len(s.rows) /\ \A i \in DOMAIN sets : Len(sets[i]) = dist.length
     /\ \A row \in DOMAIN s.rows :
          /\ \A v \in DOMAIN s.rows[row].values : dist_member(dist, row, v) = s.rows[row].values[v]
          /\ \A w \in DOMAIN s.rows[row].weights :
               /\ dist_weight(dist, row, w) = s.rows[row].weights[w]
               /\ Cardinality({level \in 1 .. dist_max(dist, w) : pick_distribution(dist, w, level) = row})
                    = s.rows[row].weights[w]
     /\ \A i \in DOMAIN s.aliases :
          /\ i <= d.v_width => DistNameIndex(dist, "value", s.aliases[i]) = i
          /\ i > d.v_width + 1 => DistNameIndex(dist, "weight", s.aliases[i]) = i - d.v_width

(* Every distribution is found in the compiled file with the values,       *)
(* weights and aliases it was given, among distributions of other shapes,  *)
(* and each of its rows is drawn by as many random numbers as its weight;  *)
(* and compiling it wrote nothing where distcomp had no space, although    *)
(* scratch arrays shrink and the space for strings grows by the block.     *)
ReadsBack == ~overrun /\ (fileSize > 0 => \A n \in DOMAIN stated : AsStated(stated[n]))

=============================================================================
