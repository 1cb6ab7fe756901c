\* date_dim up to the May of a common year.
SPECIFICATION CalendarSpec
CONSTANTS
  LastRow = 500
  Years = {1998}
\* The last row is built, and no more.
CHECK_DEADLOCK FALSE
INVARIANT
  SkipsLeapDay
