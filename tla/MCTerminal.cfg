SPECIFICATION Spec
CONSTANTS
  Conns = 2
  Ids = {1, 2}
  OpenRows = {3}
  Rows = {2, 3}
  ChannelSize = 1
  ReplayBytes = 3
  Attempts = 2
  LineEnds = {2}
  MaxOut <- MCMaxOut
  MaxErrors = 1
  Scenarios <- MCScenarios
  NL <- MCNL
  MaxSize = 3
  MaxLines = 2
  Width = 16
CHECK_DEADLOCK FALSE
INVARIANTS TypeOK  Reachable
PROPERTIES SurvivesDrop 
