SPECIFICATION Spec
CONSTANTS
  a = a
  b = b
  Empty = Empty
  System = System
  Star = Star
  Hash = Hash
  Segments <- MCSegments
  Names <- MCNames
  MaxLen = 3
INVARIANTS
  MatchesAsDocumented
  Isolated
  OwnEventsReachable
CHECK_DEADLOCK FALSE
