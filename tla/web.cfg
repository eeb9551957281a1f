\* A page that waits for its first load before it starts another.
SPECIFICATION FairSpec
CONSTANTS
  Tok = {t1, t2, t3}
  Instance = {i1, i2, i3}
  NULL = NULL
  OverlappingLoads = FALSE
CHECK_DEADLOCK FALSE
INVARIANTS
  TypeOK
  VectorsMatchHandle
PROPERTIES
  LoadSettles
