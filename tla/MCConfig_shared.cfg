\* Overlapping loads and saves, with crashes, failing saves and failing reads.
SPECIFICATION Spec
CONSTANTS
  Threads = {t1, t2, t3}
  ReaderIds = {0, 1, 2}
  Faults = {"crash", "save_error", "read_error"}
  None = None
  Keep = Keep
  Look = Look
SYMMETRY Symmetry
INVARIANTS
  IInv
  SelectionKept
  RestsInCurrentForm
PROPERTIES
  AloneDefaultsReplaceOnlyUnreadable
