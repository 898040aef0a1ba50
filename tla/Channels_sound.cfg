SPECIFICATION FairSpec
CONSTANTS
  Threads = {t1, t2}
  MaxSends = 3
  NoThread = NoThread
INVARIANTS
  Conserved
PROPERTIES
  NothingAfterClose
  ReceiveReturns
CHECK_DEADLOCK FALSE
