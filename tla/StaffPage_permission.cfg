\* Cards with every pair of permission codes, the absent ones included.
SPECIFICATION Spec
CONSTANTS
  Fetches = {f1}
  MaxReaders = 1
  MaxProcesses = 1
  Comprehensive = {"", "0", "1", "2"}
  Individual = {"", "0", "1"}
  None = None
INVARIANT
  PermissionAgrees
CHECK_DEADLOCK FALSE
