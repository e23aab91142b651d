CONSTANTS
  Workers = {w1}
  Clients = {a, b}
  FDs = {3, 4, 5}
  NoFD = NoFD
  NoClient = NoClient
  Listener = Listener
  Unused = Unused
SPECIFICATION Spec
INVARIANT UserManagerOutlivesTasks
\* A destroyed server, or one that nobody connects to, takes no step.
CHECK_DEADLOCK FALSE
