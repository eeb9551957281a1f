\* A C++ thread and a thread on the C functions, batches of two texts, memory.
SPECIFICATION Spec
CONSTANTS
  special = special
  added = added
  word = word
  not_utf8 = not_utf8
  c1 = c1
  c2 = c2
  Piece <- MCPiece
  AddedToken <- MCAddedToken
  SpecialToken <- MCSpecialToken
  Utf8Text <- MemoryTexts
  MalformedText = not_utf8
  PostIds <- MCPostIds
  WideId <- MCWideId
  FlagWord <- MemoryFlagWords
  Batch <- MemoryBatch
  MaxBatch = 2
  IdSeq <- MCIdSeq
  LookupId <- MCLookupId
  Client = {c1, c2}
  CppClient = {c1}
  Addr = {a1, a2, a3, a4, a5}
  NULL = NULL
  Wrapper = Wrapper
  None = None
SYMMETRY AddrSymmetry
CHECK_DEADLOCK FALSE
INVARIANTS
  MemoryOwnedOnce
  StatusTellsWhatToFree
  PointerStaysValid
PROPERTIES
  BuffersStayPut
  ImplementsApi
