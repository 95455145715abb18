SPECIFICATION Spec
CONSTANTS
  Proc = {p1, p2}
  MaxPos = 3
  MaxCount = 2
  IntMax = 1
SYMMETRY Symmetry
INVARIANTS TypeOK AloneIsKept
PROPERTIES AloneIsAtomic SeekReportsPosition

