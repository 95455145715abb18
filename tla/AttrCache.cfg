SPECIFICATION Spec
CONSTANTS
  Thread = {t1, t2}
  Dir = Dir
  FileA = FileA
  Path = {Dir, FileA}
  Parent <- MCParent
  stat_timeout_secs = 1
  clean_interval_secs = 1
  min_clean_interval_secs = 0
  max_size = 1
  MaxVersion = 3
  MaxNow = 5
  None = None
SYMMETRY Symmetry
INVARIANTS TypeOK OwnChangesSeen ExpiredAreCollected
