SPECIFICATION Spec
CONSTANTS
  large = large
  small = small
  bools = bools
  Tensors = {large, small, bools}
  Size <- MCSize
  Opaque = {bools}
  Thresholds = {1, 1024}
  Paths = {"p", "q"}
  MaxSaves = 3
CHECK_DEADLOCK FALSE
INVARIANTS
  TypeOK
  ManifestPublishesWhole
  OkMeansPublished
PROPERTIES
  PublishedStays
