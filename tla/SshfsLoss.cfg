SPECIFICATION FairSpec
CONSTANTS
  Thread = {t1}
  Opener = {t1}
  MaxLosses = 1
  None = None
PROPERTY Harakiri
CHECK_DEADLOCK FALSE
