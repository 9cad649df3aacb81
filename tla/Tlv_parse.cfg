\* Arbitrary bytes and encoded objects; the parser ends, so a state without a step is no error.
SPECIFICATION Spec
CONSTANTS
  Strings <- Arbitrary
  Written <- WrittenPairs
  Alphabet = {0, 1, 2, 31, 128, 129, 130, 132, 218, 219}
  MaxLength = 5
  BlockSizes = {8, 16}
  None = None
INVARIANTS
  TypeOK
  ObjectsTile
  WellFormedIsRead
  PaddingComesOff
CHECK_DEADLOCK FALSE
