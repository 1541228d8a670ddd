SPECIFICATION MCSpec
CONSTANTS
  Job = {1, 2}
  Size <- MCSize
  Modes = {"download"}
  FaultModes = {"download"}
  LostModes = {}
  Leftover <- MCLeftover
  MaxFaults = 1
  MaxLost = 1
CHECK_DEADLOCK FALSE
PROPERTY JobEnds
