\* Sales of a data set of 10 GB.
SPECIFICATION JoinSpec
CONSTANTS
  RowsOf <- MCRowsOf
  NumberOf <- MCNumberOf
  IdsOf <- MCIdsOf
  WalkedDays <- MCWalkedDays
  SaleEntries <- MCSaleEntries
  Pages = {1, 111}
\* A fact is made, and no more.
CHECK_DEADLOCK FALSE
INVARIANT
  ValidWhenSold
