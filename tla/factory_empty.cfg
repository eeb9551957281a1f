\* A vocabulary without tokens among the inputs.
SPECIFICATION Spec
CONSTANTS
  a = a
  b = b
  ab = ab
  version = version
  empty_string = empty_string
  text = text
  Token <- MCToken
  NoToken = empty_string
  VersionToken <- MCVersionToken
  Concat <- MCConcat
  U32Max = 3
  NotUnsigned = text
  JsonBlob <- MCJsonBlob
  BpeInput <- EmptyInput
  Client = {c1, c2}
  CppClient = {c1}
  Addr = {p1, p2}
  NULL = NULL
  None = None
CHECK_DEADLOCK FALSE
INVARIANTS
  VocabSizePositive
