SPECIFICATION MCSpec
CONSTANTS
  MAX_FILES = 3
  Addr = {a1, a2}
  Data = {d1, d2}
  NULL = NULL
  MaxUse = 3
CONSTRAINT UseBound
INVARIANTS TypeOK NoDanglingEntry PosCountsEntries MuslCountsExactly
PROPERTY ImplementsMap
