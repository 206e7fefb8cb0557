SPECIFICATION Spec
CONSTANTS
  c1 = c1
  c2 = c2
  s1 = s1
  s2 = s2
  None = None
  Conns <- MCConns
  Subs <- MCSubs
  MaxEvents = 2
INVARIANTS
  MapLocked
  EachEventOnce
PROPERTY RequestEnds
CHECK_DEADLOCK FALSE
