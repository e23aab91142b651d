CONSTANTS
  Workers = {w1}
  Clients = {a, b, c}
  FDs = {3, 4, 5}
  NoFD = NoFD
  NoClient = NoClient
  Listener = Listener
  Unused = Unused
SPECIFICATION FairSpec
PROPERTIES
  ClosedByOwner
  StopEndsLoopUnlessBlocked
  EveryClientServed
INVARIANTS
  TypeOK
  OwnSockets
  OpenSocketsHeld
  OneLateClient
\* A destroyed server, or one that nobody connects to, takes no step.
CHECK_DEADLOCK FALSE
