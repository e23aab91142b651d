CONSTANTS
  bo = bo
  bob = bob
  pw = pw
  c1 = c1
  c2 = c2
  Clients = {c1, c2}
  Ports = {5, 50}
  TypedNames = {bob}
  TypedPasswords = {pw}
  NoWord = NoWord
  NamePrefixes <- ShortNames
  PasswordPrefixes <- ShortPasswords
  NoCommand = NoCommand
  MaxCuts = 0
SPECIFICATION Spec
INVARIANTS
  LogoutLogsOut
CHECK_DEADLOCK FALSE
