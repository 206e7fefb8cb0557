SPECIFICATION DataSpec
CONSTANTS
  m1 = m1
  k1 = k1
  k2 = k2
  inside = inside
  outside = outside
  None = None
  Modules <- MCModules
  Keys <- MCKeys
  Values <- MCValues
  Paths <- MCPaths
  Bodies <- MCBodies
  Capacity = 1
  MaxPipe = 2
  MaxNotices = 1
INVARIANTS
  ReadBack
  NoticedIsStored
  AnswersInOrder
