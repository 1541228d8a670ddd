\* Two servers, the second one with another machine under the same id; one restart.  Over TCP
\* nothing is due once the key is confirmed.
SPECIFICATION FairSpec
CONSTANTS
  h1 = h1
  h2 = h2
  OwnPk = OwnPk
  RootPk = RootPk
  None = None
  Host = {h1, h2}
  Lists = {{h1, h2}, {h2}}
  Taken = {h2}
  MaxId = 4
  MaxStarts = 2
  MaxNet = 1
  RootConfirmed = FALSE
  Tcp = {TRUE, FALSE}
CHECK_DEADLOCK FALSE
INVARIANTS TypeOK 
PROPERTIES  ExitTogether
