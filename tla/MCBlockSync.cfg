SPECIFICATION SyncSpec
CONSTANTS
  n1 = n1
  n2 = n2
  Node = {n1, n2}
  dialler = n1
  Limit = 1
  MaxBlocks = 3
  MaxConnects = 2
\* blocks and connections are bounded
CHECK_DEADLOCK FALSE
PROPERTIES
  CatchesUp
