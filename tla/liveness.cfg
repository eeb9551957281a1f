\* The same threads under fair scheduling, one text a call; as many addresses as
\* two calls and the scratch strings can need.
SPECIFICATION FairSpec
CONSTANTS
  special = special
  added = added
  word = word
  not_utf8 = not_utf8
  c1 = c1
  c2 = c2
  Piece <- MCPiece
  AddedToken <- MCAddedToken
  SpecialToken <- MCSpecialToken
  Utf8Text <- LivenessTexts
  MalformedText = not_utf8
  PostIds <- MCPostIds
  WideId <- MCWideId
  FlagWord <- LivenessFlagWords
  Batch <- LivenessBatch
  MaxBatch = 1
  IdSeq <- MCIdSeq
  LookupId <- NoLookupId
  Client = {c1, c2}
  CppClient = {c1}
  Addr = {a1, a2, a3}
  NULL = NULL
  Wrapper = Wrapper
  None = None
CHECK_DEADLOCK FALSE
PROPERTIES
  EveryCallReturns
