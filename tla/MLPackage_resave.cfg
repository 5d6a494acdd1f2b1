SPECIFICATION Spec
CONSTANTS
  large = large
  small = small
  bools = bools
  Tensors = {large, small, bools}
  Size <- MCSize
  Opaque = {bools}
  Thresholds = {1, 1024}
  Paths = {"p", "q"}
  MaxSaves = 2
CHECK_DEADLOCK FALSE
INVARIANTS
  LargeTensorsStored
