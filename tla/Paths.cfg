SPECIFICATION PathFairSpec
CONSTANTS
  Char = {"/", ".", "a"}
  Mounts <- MCMounts
  Cwd <- MCCwd
  MaxLen = 8
INVARIANTS Idempotent SameWalk ResolvesAsWalked  UnderMountServed
PROPERTIES ResolveEnds
CHECK_DEADLOCK FALSE
