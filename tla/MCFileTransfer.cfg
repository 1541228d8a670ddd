SPECIFICATION MCSpec
CONSTANTS
  Job = {1, 2}
  Size <- MCSize
  Modes = {"upload", "download", "downloadCM"}
  FaultModes = {"upload", "downloadCM"}
  LostModes = {"download", "downloadCM"}
  Leftover <- MCLeftover
  MaxFaults = 1
  MaxLost = 1
CHECK_DEADLOCK FALSE
INVARIANTS TypeOK ConfirmsFit  CancelClean
  
