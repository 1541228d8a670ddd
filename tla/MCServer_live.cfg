\* Two connections around one display; fair threads.
SPECIFICATION MCFairSpec
CONSTANTS
  c1 = c1
  c2 = c2
  monitor0 = monitor0
  monitor1 = monitor1
  camera0 = camera0
  cursor = cursor
  window_focus = window_focus
  None = None
  MaxRequests = 2
  Conn = {c1, c2}
  Video = {monitor0}
  Camera = {}
  NeedSnapshot = {monitor0}
  Svc = {monitor0, window_focus}
  PrimaryDisplay = monitor0
  PrimaryCamera = None
  WindowFocus = window_focus
INVARIANTS TypeOK SharedEncoder
PROPERTIES RegistryRefined NewSubscriberServed RefreshServed DropEnds
