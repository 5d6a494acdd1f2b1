SPECIFICATION Spec
CONSTANTS
  ParameterLists <- MCParameterLists
  Layouts <- MCLayouts
  MaxOps = 1
CHECK_DEADLOCK FALSE
INVARIANTS
  TypeOK
  ShapesAgree
  LoweringMeansTheSame
  DisagreementsAreReal
