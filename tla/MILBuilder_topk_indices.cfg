SPECIFICATION Spec
CONSTANTS
  UserNames <- MCUserNames
  UserTypes <- MCTypes
  Clients <- TopKClients
  MaxDepth = 0
CHECK_DEADLOCK FALSE
INVARIANTS
  TopKIndicesDefined
