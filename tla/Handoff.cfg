SPECIFICATION MCSpec
CONSTANTS
  Pid = {p1, p2}
  MAX_FILES = 4
  Reserved = 1
  File = {f1, f2, f3}
  NULL = NULL
  ReuseFds = 3
CONSTRAINT ReuseBound
SYMMETRY Symmetry
INVARIANTS TypeOK OrderlyServedExactly OrderlyListIsOpened  
CHECK_DEADLOCK FALSE
