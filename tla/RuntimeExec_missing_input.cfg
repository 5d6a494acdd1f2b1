SPECIFICATION Spec
CONSTANTS
  Threads = {t1, t2}
  NInputs = 2
  NOutputs = 1
  MaxCalls = 2
CHECK_DEADLOCK FALSE
INVARIANTS
  EarlyReturnCleansUp
