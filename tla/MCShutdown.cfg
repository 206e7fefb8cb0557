SPECIFICATION Spec
CONSTANTS
  c1 = c1
  c2 = c2
  a = a
  b = b
  Main = Main
  None = None
  Conns <- TwoConns
  Ids <- TwoIds
  MaxStarts = 2
  MaxRequests = 2
  MaxOut = 1
  Serialized = TRUE
  MaxShutdowns = 1
  KillMayFail = FALSE
  StopOnExit = TRUE
SYMMETRY Interchangeable
INVARIANTS
  FoundAreStopped
  ExclusiveStop
  HandlersTracked
CHECK_DEADLOCK FALSE
