SPECIFICATION Spec
CONSTANTS
  UserNames <- MCUserNames
  UserTypes <- MCTypes
  Clients <- ConstPredicates
  MaxDepth = 1
CHECK_DEADLOCK FALSE
INVARIANTS
  CondPredicateDefined
