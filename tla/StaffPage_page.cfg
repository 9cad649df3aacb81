\* One page, two requests on their way at once, two readers, two processes one after the other.
SPECIFICATION FairSpec
CONSTANTS
  Fetches = {f1, f2}
  MaxReaders = 2
  MaxProcesses = 2
  Comprehensive = {"1"}
  Individual = {"0"}
  None = None
INVARIANTS
  IInv
  ResultIsOfThisServer
  PageShowsStored
PROPERTIES
  BusyEnds
\* With its last server gone and nothing rendered there is nothing left to do.
CHECK_DEADLOCK FALSE
