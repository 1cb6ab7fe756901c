SPECIFICATION Spec
CONSTANTS
  ca_address = ca_address
  s_baddr = s_baddr
  cs_order = cs_order
  cs_gift = cs_gift
  cs_nulls = cs_nulls
  cr_nulls = cr_nulls
  SmallTable = 4
  ParallelArgs = {0, 2, 3}
  NTables = 4
  DatedTable = 2
  LastDay = 5
  RowsIn <- MCRowsIn
  ChildOf <- MCChildOf
  Streams <- MCStreams
  StreamTable <- MCStreamTable
  PerRow <- MCPerRow
  DuplicateOf <- MCDuplicateOf
  Draws <- MCDraws
  DayRows <- MCDayRows
  DayEnd <- MCDayEnd
INVARIANTS
  ChunksFit
  StreamsInStep
  DatesInStep
PROPERTIES
  ImplementsTableGen
  BuildCompletes
CHECK_DEADLOCK FALSE
