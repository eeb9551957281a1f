\* Two C++ threads, every flag word, batches of at most one text.
SPECIFICATION Spec
CONSTANTS
  special = special
  added = added
  word = word
  not_utf8 = not_utf8
  c1 = c1
  c2 = c2
  Piece <- MCPiece
  AddedToken <- MCAddedToken
  SpecialToken <- MCSpecialToken
  Utf8Text <- PolicyTexts
  MalformedText = not_utf8
  PostIds <- MCPostIds
  WideId <- MCWideId
  FlagWord <- PolicyFlagWords
  Batch <- PolicyBatch
  MaxBatch = 1
  IdSeq <- MCIdSeq
  LookupId <- MCLookupId
  Client = {c1, c2}
  CppClient = {c1, c2}
  Addr = {a1, a2, a3, a4}
  NULL = NULL
  Wrapper = Wrapper
  None = None
SYMMETRY Symmetry
CHECK_DEADLOCK FALSE
INVARIANTS
  TypeOK
PROPERTIES
  ImplementsApi
