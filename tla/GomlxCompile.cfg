SPECIFICATION Spec
CONSTANTS
  Goroutines = {"g1", "g2"}
  Units = {"all", "cpu"}
  Default = "all"
  NOutputs = 2
  MaxCompiles = 2
CHECK_DEADLOCK FALSE
INVARIANTS
  TypeOK
  DirsAccountedFor
  ModelsKeepTheirDirectory
  LeftoversFromFailedMoves
  OneSettingHolds
