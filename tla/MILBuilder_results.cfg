SPECIFICATION Spec
CONSTANTS
  UserNames <- MCUserNames
  UserTypes <- MCTypes
  Clients <- MCClients
  MaxDepth = 2
CHECK_DEADLOCK FALSE
INVARIANTS
  TypeOK
  DefinedBeforeUse
  NamesUnique
  ControlFlowAgrees
  OutputSpecsMatch
PROPERTIES
  FailureLeavesNoTrace
