CONSTANTS
  a = a
  login = login
  register = register
  logout = logout
  Bar = Bar
  Char <- AnyChar
  LoginText <- LoginLine
  RegisterText <- RegisterLine
  LogoutText <- LogoutLine
  Orders <- AnyOrder
  Answers <- AnyAnswer
  Shipped <- ShippedAccount
  MaxAhead = 2
  MaxAccounts = 2
SPECIFICATION FairSpec
INVARIANTS
  TypeOK
  RegisteredCanLogin
  LoggedInWasRegistered
  NoMutualWait
PROPERTIES
  ServerEndsWithClient
