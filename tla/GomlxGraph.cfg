SPECIFICATION Spec
CONSTANTS
  Outlines <- MCOutlines
CHECK_DEADLOCK FALSE
INVARIANTS
  TypeOK
  NeverSilentlyWrong
  SupportedIsComplete
  BlocksApart
