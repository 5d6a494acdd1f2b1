SPECIFICATION Spec
CONSTANTS
  Threads = {t1, t2, t3}
  NInputs = 2
  NOutputs = 2
  MaxCalls = 3
CHECK_DEADLOCK FALSE
INVARIANTS
  TypeOK
  ModelAliveInPrediction
  ReleasedOnceInOrder
  ExecuteNeverPanics
  CleanupCoversPaths
PROPERTIES
  CallsReturn
