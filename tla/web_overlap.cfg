\* A page that starts two loads at once, as Promise.all does.
SPECIFICATION FairSpec
CONSTANTS
  Tok = {t1, t2}
  Instance = {i1, i2}
  NULL = NULL
  OverlappingLoads = TRUE
CHECK_DEADLOCK FALSE
INVARIANT
  VectorsMatchHandle
