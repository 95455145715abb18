SPECIFICATION AnyCloseSpec
CONSTANTS
  Pid = {p1, p2}
  MAX_FILES = 4
  Reserved = 1
  File = {f1, f2, f3}
  NULL = NULL
INVARIANTS SaveSurvives
CHECK_DEADLOCK FALSE
