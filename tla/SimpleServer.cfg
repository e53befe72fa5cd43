SPECIFICATION SimpleFairSpec
CONSTANTS
  p1 = p1
  p2 = p2
  p3 = p3
  Node = {p1, p2, p3}
  NULL = NULL
  HashRank <- MCHashRank
  BuffSize = 12
  Scripts <- MCScripts
  Serve = serve
  CmdThread = cmd
  Web = web
  SERVE_ID = "7f01"
  OTHER_ID = "7f02"
  Fd = {4, 5}
  Budgets <- MCBudgets
  EarlyCommands = FALSE
INVARIANTS SimpleTypeOK CommandsAsSent RecvDoesNotBlock RelayedToAllOthers
PROPERTIES ImplementsConnections QuitEndsServer
CHECK_DEADLOCK FALSE
