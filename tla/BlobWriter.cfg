SPECIFICATION Spec
CONSTANTS
  empty = empty
  one = one
  short = short
  full = full
  over = over
  Blobs = {empty, one, short, full, over}
  Size <- MCSize
  MaxBlobs = 4
CHECK_DEADLOCK FALSE
INVARIANTS
  TypeOK
  SectionsApart
  SectionsAligned
  SavedFileComplete
PROPERTIES
  KeepsPromise
