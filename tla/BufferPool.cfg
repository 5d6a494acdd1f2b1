SPECIFICATION Spec
CONSTANTS
  Threads = {t1, t2}
  b1 = b1
  b2 = b2
  Buffers = {b1, b2}
  row = row
  column = column
  scalar = scalar
  Shapes = {row, column, scalar}
  PoolKey <- MCPoolKey
  MaxCalls = 4
SYMMETRY MCSymmetry
CHECK_DEADLOCK FALSE
INVARIANTS
  TypeOK
  NoSharing
  HandlesIntact
  NoFalseAlarm
