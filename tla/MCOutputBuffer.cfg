SPECIFICATION Spec
CONSTANTS
  NL = 0
  MaxSize = 20
  MaxLines = 3
  Width = 256
  Chunks <- MCChunks
CHECK_DEADLOCK FALSE
INVARIANT TrimEnds
