\* Everything can happen to the scripts; on the careful ones see MCScripts.
SPECIFICATION MCSpec
CONSTANTS
  None = None
  Torn = Torn
  Empty = Empty
  call_center = call_center
  store_sales = store_sales
  web_sales = web_sales
  Datasets = {"1:10", "4:10"}
  Pages = {"16K", "32K"}
  Tables <- MCTables
  Files <- MCOrder
  LoadOrder <- MCOrder
  Sales = store_sales
  KilledIn <- Stages
  KilledBefore = TRUE
  NoFile = NoFile
  Sizes = {"8K", "16K", "32K"}
  Default = "16K"
  FailsAt <- AllCommands
  SubshellFailsAt = {"restore", "verify"}
  MayLinger = TRUE
  SignalAt <- Steps
  KilledAt <- Steps
\* After a run of the host's script that was killed the server may be down, and
\* no run begins.
CHECK_DEADLOCK FALSE
INVARIANTS
  CarefulResultHonest
  CarefulDataMarkHonest
  CarefulDatadirUsable
  CarefulRunsRecover
  RegeneratedHonest
  DoneIsComplete
  Kept
  CarefulRollsBack
PROPERTIES
  NoRework
  NeverUnderServer
