SPECIFICATION ColdSpec
CONSTANTS
  Thread = {t1, t2}
  MAX_FILES = 2
  OPEN_MAX = 2
  Handle = {h1, h2, h3}
  NULL = NULL
INVARIANT ServedByOwn
