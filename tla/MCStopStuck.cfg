SPECIFICATION Spec
CONSTANTS
  c1 = c1
  c2 = c2
  a = a
  b = b
  Main = Main
  None = None
  Conns <- TwoConns
  Ids <- OneId
  MaxStarts = 1
  MaxRequests = 2
  MaxOut = 1
  Serialized = FALSE
  MaxShutdowns = 0
  KillMayFail = FALSE
  StopOnExit = TRUE
PROPERTY StopAnswered
CHECK_DEADLOCK FALSE
