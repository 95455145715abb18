SPECIFICATION MCSpec
CONSTANTS
  Thread = {t1, t2}
  MAX_FILES = 2
  OPEN_MAX = 3
  Handle = {h1, h2, h3, h4}
  NULL = NULL
  PosBound = 2
  MixedFds = 2
CONSTRAINT PosBounded
SYMMETRY Symmetry
INVARIANTS TypeOK WarmServedByOwn WarmFreeFdHasEmptySlot WarmHandlesAccounted WarmLeaksOnlyPastTable 
PROPERTIES CallsAtomic
