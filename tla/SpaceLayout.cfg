SPECIFICATION Spec
CONSTANTS
  MAX_MOUNTS = 16
  MaxPaths = 80
  MaxEntries = 2
  Fds = {3, 1023}
  Handle = {1}
  Page = 64
INVARIANTS FewMountsExact OthersExact
CHECK_DEADLOCK FALSE
