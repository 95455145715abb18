SPECIFICATION FairSpec
CONSTANTS
  Thread = {t1, t2, t3}
  Main = t1
  Worker = worker
  None = None
  MaxCalls = 2
INVARIANTS TypeOK 
PROPERTIES CallsEnd LeaseRenewed
CHECK_DEADLOCK FALSE
