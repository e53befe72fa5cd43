SPECIFICATION PhiloFairSpec
CONSTANTS
  NumPhilosophers = 2
  CorrectOptions = {TRUE, FALSE}
  Thread <- Table2
  NoThread = NoThread
  MaxMutex = 2
  Eager = {}
INVARIANT PhiloTypeOK
INVARIANT EatersShareNoFork
INVARIANT NoDeadlock
PROPERTY TerminationCompletes
 
CHECK_DEADLOCK FALSE
