CONSTANTS
  Chats = {a, b}
  FDs = {fd3, fd4, fd5}
  listenerSocket = fd3
  serverSocket = fd4
  Inheritable = {}
  Inherited = Inherited
  NoChat = NoChat
  NoFD = NoFD
  Listener = Listener
  ToServer = ToServer
  Unused = Unused
SPECIFICATION Spec
INVARIANTS
  MessagesGoToOwnPeer
\* A client that has exited takes no step.
CHECK_DEADLOCK FALSE
