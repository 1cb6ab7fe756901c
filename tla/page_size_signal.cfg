\* A signal between mv and MOVED=1.
SPECIFICATION ChangeSpec
CONSTANTS
  NoFile = NoFile
  Sizes = {"8K", "16K", "32K"}
  Default = "16K"
  FailsAt = {}
  SubshellFailsAt = {}
  MayLinger = FALSE
  SignalAt = {"note_move"}
  KilledAt = {}
INVARIANT
  RollsBack
