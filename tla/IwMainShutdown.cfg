SPECIFICATION MainFairSpec
CONSTANTS
  Worker = {w1, w2}
  Main = Main
  Cmd = Cmd
  Caller <- Callers
  NoWorker = NoWorker
  RequestSets <- OneOrTwo
INVARIANT MainTypeOK
INVARIANT OrderlyShutdown
INVARIANT NothingRunsAfterExit
PROPERTY WaitAllWaits
PROPERTY TerminationEnds
CHECK_DEADLOCK FALSE
