SPECIFICATION FairSpec
CONSTANTS
  Thread = {t1, t2}
  Opener = {t1}
  MaxLosses = 1
  None = None
INVARIANTS TypeOK NoUseAfterFree NothingLeaks
PROPERTIES CallsEnd
CHECK_DEADLOCK FALSE
