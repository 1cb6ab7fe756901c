\* The client fails in $(...) or in a pipeline.
SPECIFICATION ChangeSpec
CONSTANTS
  NoFile = NoFile
  Sizes = {"8K", "16K", "32K"}
  Default = "16K"
  FailsAt = {}
  SubshellFailsAt = {"restore", "verify"}
  MayLinger = FALSE
  SignalAt = {}
  KilledAt = {}
INVARIANT
  RollsBack
