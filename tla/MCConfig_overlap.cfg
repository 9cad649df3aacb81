\* A load that overlaps another client's save.
SPECIFICATION Spec
CONSTANTS
  Threads = {t1, t2}
  ReaderIds = {0, 1, 2}
  Faults = {}
  None = None
  Keep = Keep
  Look = Look
PROPERTIES
  DefaultsReplaceOnlyMalformed
