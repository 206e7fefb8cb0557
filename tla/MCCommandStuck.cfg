SPECIFICATION Spec
CONSTANTS
  c1 = c1
  c2 = c2
  a = a
  b = b
  Main = Main
  None = None
  Conns <- OneConn
  Ids <- OneId
  MaxStarts = 2
  MaxRequests = 2
  MaxOut = 1
  Serialized = TRUE
  MaxShutdowns = 0
  KillMayFail = FALSE
  StopOnExit = TRUE
PROPERTY CommandAnswered
CHECK_DEADLOCK FALSE
