SPECIFICATION Spec
CONSTANTS
  c1 = c1
  c2 = c2
  a = a
  b = b
  Main = Main
  None = None
  Conns <- TwoConns
  Ids <- OneId
  MaxStarts = 2
  MaxRequests = 3
  MaxOut = 1
  Serialized = FALSE
  MaxShutdowns = 0
  KillMayFail = TRUE
  StopOnExit = TRUE
INVARIANTS
  MutexCoherent
  ExclusiveStop
  HandlersTracked
CHECK_DEADLOCK FALSE
