\* One display, one client that acknowledges itself; fair service threads, while the
\* connections stall, close and lose answers.
SPECIFICATION FairSpec
CONSTANTS
  c1 = c1
  c2 = c2
  monitor0 = monitor0
  monitor1 = monitor1
  camera0 = camera0
  Conn = {c1, c2}
  AckConn = {c2}
  Vid = {monitor0}
  Monitor <- MCMonitor
  IdxOf <- MCIdxOf
  MaxFrames = 2
  MaxSlices = 2
INVARIANTS TypeOK FlowControlled
PROPERTY NeverStuck
