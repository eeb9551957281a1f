\* A thread on the C++ factories and one on the C functions, good and bad blobs.
SPECIFICATION FairSpec
CONSTANTS
  a = a
  b = b
  ab = ab
  version = version
  empty_string = empty_string
  text = text
  Token <- MCToken
  NoToken = empty_string
  VersionToken <- MCVersionToken
  Concat <- MCConcat
  U32Max = 3
  NotUnsigned = text
  JsonBlob <- MCJsonBlob
  BpeInput <- MCBpeInput
  Client = {c1, c2}
  CppClient = {c1}
  Addr = {p1, p2}
  NULL = NULL
  None = None
CHECK_DEADLOCK FALSE
INVARIANTS
  TypeOK
  OwnedOnce
  StatusTellsOwnership
  LookupsAgree
  RoomToAnswer
PROPERTIES
  ImplementsFactoryApi
  EveryLoadReturns
