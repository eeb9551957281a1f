\* A model that loads and one that does not, a build without SentencePiece.
SPECIFICATION Spec
CONSTANTS
  short = short
  long = long
  bad = bad
  Text <- MCText
  BadText = {bad}
  Batch <- MCBatch
  FlagWord <- MCFlagWord
  Ids <- MCIds
CHECK_DEADLOCK FALSE
INVARIANTS
  EncodeReportsFailures
