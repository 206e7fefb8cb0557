SPECIFICATION Spec
CONSTANTS
  a = a
  b = b
  Empty = Empty
  System = System
  Star = Star
  Hash = Hash
  Segments <- MCSegments
  Names <- DottedNames
  MaxLen = 3
INVARIANTS
  NoEavesdropping
CHECK_DEADLOCK FALSE
