SPECIFICATION Spec
CONSTANTS
  c1 = c1
  c2 = c2
  a = a
  b = b
  Main = Main
  None = None
  Conns <- OneConn
  Ids <- OneId
  MaxStarts = 1
  MaxRequests = 1
  MaxOut = 1
  Serialized = TRUE
  MaxShutdowns = 1
  KillMayFail = FALSE
  StopOnExit = TRUE
INVARIANT CleanExit
CHECK_DEADLOCK FALSE
