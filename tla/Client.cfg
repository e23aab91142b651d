CONSTANTS
  Chats = {a, b}
  FDs = {fd3, fd4, fd5, fd6}
  listenerSocket = fd3
  serverSocket = fd4
  Inheritable = {fd6}
  Inherited = Inherited
  NoChat = NoChat
  NoFD = NoFD
  Listener = Listener
  ToServer = ToServer
  Unused = Unused
SPECIFICATION FairSpec
INVARIANTS
  TypeOK
  ChatSocketsHeld
  OnlyReuseConfuses
  OwnSocketsKept
PROPERTIES
  ExitEndsUnlessBlocked
  ReceiversEnd
\* A client that has exited takes no step.
CHECK_DEADLOCK FALSE
