SPECIFICATION FairSystem
CONSTANTS
  Thread = {t1, t2}
  NoThread = NoThread
  MaxMutex = 1
  Eager = {}
PROPERTY DeadlockReported
CHECK_DEADLOCK FALSE
