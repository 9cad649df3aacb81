\* Every configuration, card and failure of one read.
SPECIFICATION FairSpec
CONSTANTS
  Scopes = {"business", "authorized_test_all"}
INVARIANTS
  NoImageSurvives
  SuccessIsComplete
  FilesComeFromTheirPlace
  FaceReadOnlyWhenNeeded
PROPERTIES
  AddressNeverCostsTheRead
  ImplementsCardRead
\* One read: it stops when it has returned.
CHECK_DEADLOCK FALSE
