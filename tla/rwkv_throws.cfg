\* What the header says of one method, for this backend.
SPECIFICATION Spec
CONSTANTS
  a = a
  b = b
  Byte <- MCByte
  Vocabulary <- MCVocabulary
  Text <- MCText
  Batch <- MCBatch
  Token <- MCToken
  Spelling <- MCSpelling
  UNK = UNK
  NoWord = NoWord
CHECK_DEADLOCK FALSE
INVARIANT
  EncodeThrowsTokenizerError
