\* Every small vocabulary, loaded in every order.
SPECIFICATION FairSpec
CONSTANTS
  a = a
  b = b
  Byte <- MCByte
  Vocabulary <- MCVocabulary
  Text <- MCText
  Batch <- MCBatch
  Token <- MCToken
  Spelling <- MCSpelling
  UNK = UNK
  NoWord = NoWord
CHECK_DEADLOCK FALSE
INVARIANTS
  TypeOK
  TablesAgree
  EncodeIsGreedy
  ThrowsOnlyWhenStuck
  RoundTrip
PROPERTIES
  RoundsAreGreedy
  EncodeReturns
