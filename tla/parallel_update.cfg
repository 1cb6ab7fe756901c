\* Three generations of tables in one chunk: the streams of the third one.
SPECIFICATION Spec
CONSTANTS
  s_purchase_clerk = s_purchase_clerk
  s_pline_nulls = s_pline_nulls
  s_sret_return_date = s_sret_return_date
  SmallTable = 4
  ParallelArgs = {2}
  NTables = 3
  DatedTable = 0
  LastDay = 0
  RowsIn <- MCRowsIn
  ChildOf <- MCChildOf
  Streams <- MCStreams
  StreamTable <- MCStreamTable
  PerRow <- MCPerRow
  DuplicateOf <- MCDuplicateOf
  Draws <- MCDraws
  DayRows <- MCDayRows
  DayEnd <- MCDayEnd
INVARIANT
  StreamsInStep
CHECK_DEADLOCK FALSE
