CONSTANTS
  Workers = {w1}
  Clients = {a}
  FDs = {3, 4}
  NoFD = NoFD
  NoClient = NoClient
  Listener = Listener
  Unused = Unused
SPECIFICATION FairSpec
PROPERTY StopEndsLoop
\* A destroyed server, or one that nobody connects to, takes no step.
CHECK_DEADLOCK FALSE
