\* The code's constants in units of three seconds; a public server, so the
\* timeout is backed off.
SPECIFICATION AnswerSpec
CONSTANTS
  None = None
  PublicServer = TRUE
  MaxRegTimeout = 10
  RegInterval = 5
  DnsInterval = 20
INVARIANTS TypeOK OnlineFresh
PROPERTIES SocketReplaced Recovers
