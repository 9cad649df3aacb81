\* Every type of card and failure of one read.
SPECIFICATION FairSpec
CONSTANTS
  Types = {"1", "2", "05", "07", "99"}
INVARIANTS
  IInv
  ChunksInOrder
  SuccessIsComplete
  CopiesAreWiped
  RefusedCardsAreUntouched
PROPERTIES
  SignatureNeverCostsTheRead
  ImplementsCardRead
\* One read: it stops when it has returned.
CHECK_DEADLOCK FALSE
