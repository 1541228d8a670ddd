\* One connection with two displays, a camera and the cursor.
SPECIFICATION MCSpec
CONSTANTS
  c1 = c1
  c2 = c2
  monitor0 = monitor0
  monitor1 = monitor1
  camera0 = camera0
  cursor = cursor
  window_focus = window_focus
  None = None
  MaxRequests = 2
  Conn = {c1}
  Video = {monitor0, monitor1, camera0}
  Camera = {camera0}
  NeedSnapshot = {monitor0, monitor1, camera0, cursor}
  Svc = {monitor0, monitor1, camera0, cursor, window_focus}
  PrimaryDisplay = monitor0
  PrimaryCamera = camera0
  WindowFocus = window_focus
VIEW MCView
INVARIANTS SubscribesDisjoint ClosedNotSubscribed SubscribeHonoured
