CONSTANTS
  c1 = c1 c2 = c2 c3 = c3 k1 = k1
  Conn = {c1, c2, c3}
  Key = {k1}
  KeyOf <- MCKeyOf
  Remote = {c1, c3}
  Require2fa = {c2}
  Timeout = 1
  MaxTime = 1
  MaxPw = 3
  MaxOpen = 2
  MaxQueue = 2
SPECIFICATION Spec
INVARIANTS TypeOK WallpaperBack Awake
 
CHECK_DEADLOCK FALSE
