SPECIFICATION Spec
CONSTANTS
  Thread = {t1, t2, t3}
  NoThread = NoThread
  MaxMutex = 2
  Eager = {2}
SYMMETRY Threads
INVARIANT TypeOK
INVARIANT OwnerRecordExact
INVARIANT WaitRecordExact
INVARIANT TableLockNotLeaked
PROPERTY ImplementsMutex
CHECK_DEADLOCK FALSE
