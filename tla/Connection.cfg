CONSTANTS
  alice = alice
  bob = bob
  pw1 = pw1
  pw2 = pw2
  ip1 = ip1
  ip2 = ip2
  c1 = c1
  c2 = c2
  Threads = {c1, c2}
  Names = {alice, bob}
  Passwords = {pw1, pw2}
  IPs = {ip1, ip2}
  NoThread = NoThread
  NoIP = NoIP
  TornIP = TornIP
  NullUser = NullUser
  NoCommand = NoCommand
  Commands <- AllCommands
  ClientIP <- HostOf
SPECIFICATION FairQuietSpec
INVARIANTS
  TypeOK
  RecordsWhole
  InfoFromOwnLogins
  UndisturbedInfoWasPublished
PROPERTIES
  ImplementsUserDirectory
  SomeoneIsAnswered
