------------------------ MODULE ConnectionRefinement ------------------------
(***************************************************************************)
(* Connection implements UserDirectory, for any number of workers and any  *)
(* users, passwords, hosts and commands.                                   *)
(***************************************************************************)
EXTENDS ConnectionProofs

(* The parts of the refinement mapping, as Directory has them.             *)
Accounts == [n \in DOMAIN userDatabase |-> userDatabase[n].passwordHash[2]]
OnLine == [n \in getActiveUsers |-> Final(n)]
AnswerOf(c) == IF InFlight(c) THEN cmd[c].op
               ELSE IF pc[c] = "flag" /\ user[c] = NullUser THEN "USER_NOT_FOUND"
               ELSE reply[c].status

(* An empty database is an empty directory.                                *)
LEMMA DirectoryInit == Init => Directory!Init
<1> SUFFICES ASSUME Init PROVE Directory!Init
  OBVIOUS
<1>1. DOMAIN userDatabase = {} /\ getActiveUsers = {}
  BY DEF Init, UserInit, getActiveUsers
<1>2. \A c \in Threads : AnswerOf(c) = "none"
  BY DEF Init, AnswerOf, InFlight, Answer
<1>3. QED
  BY <1>1, <1>2 DEF Init, Directory!Init, AnswerOf

(* There is one writer at most, and so the CHOOSE of Final has no choice.  *)
FinalOK ==
  \A n \in DOMAIN userDatabase :
    /\ \A c \in Threads : InFlight(c) /\ cmd[c].name = n => Final(n) = Address(c, cmd[c])
    /\ (\A c \in Threads : InFlight(c) => cmd[c].name # n) =>
         Final(n) = <<userDatabase[n].ipAddress, userDatabase[n].port>>
LEMMA FinalFacts == IInv => FinalOK
<1> SUFFICES ASSUME IInv, NEW n \in DOMAIN userDatabase
             PROVE  /\ \A c \in Threads : InFlight(c) /\ cmd[c].name = n =>
                         Final(n) = Address(c, cmd[c])
                    /\ (\A c \in Threads : InFlight(c) => cmd[c].name # n) =>
                         Final(n) = <<userDatabase[n].ipAddress, userDatabase[n].port>>
  BY DEF FinalOK
<1> DEFINE writers == {c \in Threads : InFlight(c) /\ cmd[c].name = n}
<1>1. ASSUME NEW c \in Threads, InFlight(c), cmd[c].name = n PROVE Final(n) = Address(c, cmd[c])
  <2>1. writers = {c}
    BY <1>1 DEF IInv, OwnerInv
  <2>2. QED
    BY <2>1 DEF Final
<1>2. ASSUME \A c \in Threads : InFlight(c) => cmd[c].name # n
      PROVE  Final(n) = <<userDatabase[n].ipAddress, userDatabase[n].port>>
  <2>1. writers = {}
    BY <1>2
  <2>2. QED
    BY <2>1 DEF Final
<1>3. QED
  BY <1>1, <1>2

(* The same of the next state.                                             *)
LEMMA FinalFactsNext == IInv' => FinalOK'
  BY FinalFacts, PTL

(* While the mutex is free nobody is in the middle of a write.             *)
LEMMA FreeFacts == IInv /\ Free => \A c \in Threads : ~InFlight(c)
  BY UserManagerAssumption DEF IInv, OwnerInv, Free

(* The directory does not see writes of a record's fields while the writer *)
(* keeps the mutex, nor steps that write no record.                        *)
LEMMA DirectorySame ==
  ASSUME IInv, IInv',
         DOMAIN userDatabase' = DOMAIN userDatabase,
         \A n \in DOMAIN userDatabase :
            /\ userDatabase'[n].isLoggedIn = userDatabase[n].isLoggedIn
            /\ userDatabase'[n].passwordHash = userDatabase[n].passwordHash
            /\ \/ userDatabase'[n] = userDatabase[n]
               \/ \E c \in Threads : InFlight(c) /\ cmd[c].name = n,
         \A c \in Threads : /\ InFlight(c)' <=> InFlight(c)
                            /\ InFlight(c) => cmd'[c] = cmd[c]
  PROVE  Accounts' = Accounts /\ OnLine' = OnLine
<1>1. Accounts' = Accounts
  BY DEF Accounts
<1>2. getActiveUsers' = getActiveUsers
  BY DEF getActiveUsers
<1>3. FinalOK /\ FinalOK'
  BY FinalFacts, FinalFactsNext
<1> USE DEF FinalOK
<1>4. ASSUME NEW n \in DOMAIN userDatabase PROVE Final(n)' = Final(n)
  <2>1. CASE \E c \in Threads : InFlight(c) /\ cmd[c].name = n
    <3>1. PICK c \in Threads : InFlight(c) /\ cmd[c].name = n
      BY <2>1
    <3>2. Final(n) = Address(c, cmd[c]) /\ Final(n)' = Address(c, cmd'[c])
      BY <1>3, <3>1
    <3>3. QED
      BY <3>1, <3>2
  <2>2. CASE \A c \in Threads : InFlight(c) => cmd[c].name # n
    BY <1>3, <2>2
  <2>3. QED
    BY <2>1, <2>2
<1>5. QED
  BY <1>1, <1>2, <1>4 DEF OnLine, getActiveUsers

(* Nor does it see the last write, after which the address is the one it   *)
(* has shown since the first.                                              *)
LEMMA DirectoryLastWrite ==
  ASSUME IInv, IInv', NEW c \in Threads, SetPort(c)
  PROVE  Accounts' = Accounts /\ OnLine' = OnLine
<1> DEFINE k == cmd[c]
<1> USE UserManagerAssumption DEF IInv, TypeOK, UserTypeOK
<1>1. /\ InFlight(c) /\ k.name \in DOMAIN userDatabase
      /\ userDatabase[k.name].isLoggedIn <=> k.op = "LOGIN"
      /\ userDatabase[k.name].ipAddress = IF k.op = "LOGIN" THEN ClientIP[c] ELSE NoIP
  BY DEF SetPort, InFlight, WriterInv
<1>2. /\ userDatabase' = [userDatabase EXCEPT ![k.name].port =
                            (IF k.op = "LOGIN" THEN k.port ELSE 0) % PortWidth]
      /\ userMutex' = NoThread
  BY DEF SetPort, WritePort
<1>3. Accounts' = Accounts /\ getActiveUsers' = getActiveUsers
  BY <1>1, <1>2 DEF Accounts, getActiveUsers, User
<1>4. \A d \in Threads : ~InFlight(d)' /\ (InFlight(d) => d = c)
  BY <1>1, <1>2 DEF OwnerInv
<1>5. ASSUME NEW n \in getActiveUsers PROVE Final(n)' = Final(n)
  <2>1. n \in DOMAIN userDatabase /\ n \in DOMAIN userDatabase'
    BY <1>2 DEF getActiveUsers
  <2>2. Final(n)' = <<userDatabase'[n].ipAddress, userDatabase'[n].port>>
    BY <1>4, <2>1, FinalFactsNext DEF FinalOK
  <2>3. CASE n # k.name
    <3>1. Final(n) = <<userDatabase[n].ipAddress, userDatabase[n].port>>
      BY <1>4, <2>1, <2>3, FinalFacts DEF FinalOK
    <3>2. userDatabase'[n] = userDatabase[n]
      BY <1>2, <2>1, <2>3
    <3>3. QED
      BY <2>2, <3>1, <3>2
  <2>4. CASE n = k.name
    <3>1. k.op = "LOGIN"
      BY <1>1, <2>4 DEF getActiveUsers
    <3>2. Final(n) = <<ClientIP[c], k.port % PortWidth>>
      BY <1>1, <2>1, <2>4, FinalFacts DEF FinalOK, Address
    <3>3. userDatabase'[n].ipAddress = ClientIP[c] /\ userDatabase'[n].port = k.port % PortWidth
      BY <1>1, <1>2, <2>1, <2>4, <3>1 DEF User
    <3>4. QED
      BY <2>2, <3>2, <3>3
  <2>5. QED
    BY <2>3, <2>4
<1>6. QED
  BY <1>3, <1>5 DEF OnLine

(* A step of one worker leaves the commands and the answers of the others  *)
(* alone.                                                                  *)
Step(c) == Connect(c) \/ (\E k \in Commands : Receive(c, k)) \/ Disconnect(c) \/ Serve(c)
LEMMA OthersKept ==
  ASSUME TypeOK, NEW c \in Threads, Step(c), NEW d \in Threads, d # c
  PROVE  cmd'[d] = cmd[d] /\ (InFlight(d)' <=> InFlight(d)) /\ AnswerOf(d)' = AnswerOf(d)
<1>1. pc'[d] = pc[d] /\ cmd'[d] = cmd[d] /\ user'[d] = user[d] /\ reply'[d] = reply[d]
  <2> USE DEF TypeOK, Goto, Decide
  <2>1. CASE \/ Connect(c) \/ (\E k \in Commands : Receive(c, k)) \/ Disconnect(c) \/ Send(c)
             \/ BeginIP(c) \/ EndIP(c) \/ SetPort(c)
    BY <2>1 DEF Connect, Receive, Disconnect, Send, BeginIP, EndIP, SetPort
  <2>2. CASE ProcessRegister(c) \/ ProcessUnknown(c) \/ ProcessLogin(c) \/ ProcessLogout(c)
    BY <2>2 DEF ProcessRegister, ProcessUnknown, ProcessLogin, ProcessLogout
  <2>3. CASE GetInfo(c)
    BY <2>3 DEF GetInfo, GetInfoFind, GetInfoTest, GetInfoRead
  <2>4. QED
    BY <2>1, <2>2, <2>3 DEF Step, Serve
<1>2. QED
  BY <1>1 DEF AnswerOf, InFlight

(* What the directory is told: c's request, or c's answer.                 *)
Told == [c \in Threads |-> AnswerOf(c)]
LEMMA ToldStep ==
  ASSUME TypeOK, NEW c \in Threads, Step(c)
  PROVE  Told' = [Told EXCEPT ![c] = AnswerOf(c)']
  BY OthersKept DEF Told

(* ... and nothing, if that stays the same.                                *)
LEMMA ToldSame ==
  ASSUME TypeOK, NEW c \in Threads, Step(c), AnswerOf(c)' = AnswerOf(c)
  PROVE  Told' = Told
  BY ToldStep DEF Told

(* A record no login or logout is writing, before and after a step.        *)
LEMMA FinalSame ==
  ASSUME IInv, IInv', NEW n \in DOMAIN userDatabase, n \in DOMAIN userDatabase',
         userDatabase'[n] = userDatabase[n],
         \A c \in Threads : InFlight(c) => cmd[c].name # n,
         \A c \in Threads : InFlight(c)' => cmd'[c].name # n
  PROVE  Final(n)' = Final(n)
<1>1. Final(n) = <<userDatabase[n].ipAddress, userDatabase[n].port>>
  BY FinalFacts DEF FinalOK
<1>2. Final(n)' = <<userDatabase'[n].ipAddress, userDatabase'[n].port>>
  BY FinalFactsNext DEF FinalOK
<1>3. QED
  BY <1>1, <1>2

(* Steps that the directory does not see at all.                           *)
LEMMA DirectoryStutter ==
  ASSUME IInv, IInv', SessionInv, SessionInv', NEW c \in Threads,
         \/ Connect(c) \/ Disconnect(c) \/ BeginIP(c) \/ EndIP(c) \/ SetPort(c)
         \/ GetInfoFind(c) /\ user'[c] # NullUser
         \/ GetInfoTest(c) /\ user[c] = NullUser
         \/ \E f \in {"ipAddress", "port"} : GetInfoRead(c, f)
  PROVE  Accounts' = Accounts /\ OnLine' = OnLine /\ cmd' = cmd /\ Told' = Told
<1> USE DEF IInv, TypeOK, UserTypeOK, SessionInv, Goto, Decide, Answer
<1>1. Step(c)
  BY DEF Step, Serve, GetInfo
<1>2. cmd' = cmd
  BY DEF Connect, Disconnect, BeginIP, EndIP, SetPort, GetInfoFind, GetInfoTest, GetInfoRead
<1>3. AnswerOf(c)' = AnswerOf(c)
  <2> USE DEF AnswerOf, InFlight
  <2>1. CASE Connect(c) \/ Disconnect(c)
    BY <2>1 DEF Connect, Disconnect
  <2>2. CASE BeginIP(c) \/ EndIP(c)
    BY <2>2 DEF BeginIP, EndIP
  <2>3. CASE SetPort(c)
    BY <2>3 DEF SetPort
  <2>4. CASE GetInfoFind(c) /\ user'[c] # NullUser
    BY <2>4 DEF GetInfoFind, Calls
  <2>5. CASE GetInfoTest(c) /\ user[c] = NullUser
    BY <2>5 DEF GetInfoTest
  <2>6. CASE \E f \in {"ipAddress", "port"} : GetInfoRead(c, f)
    BY <2>6 DEF GetInfoRead, Reply
  <2>7. QED
    BY <2>1, <2>2, <2>3, <2>4, <2>5, <2>6
<1>4. Told' = Told
  BY <1>1, <1>3, ToldSame
<1>5. Accounts' = Accounts /\ OnLine' = OnLine
  <2>1. CASE SetPort(c)
    BY <2>1, DirectoryLastWrite
  <2>2. CASE ~SetPort(c)
    <3>1. \A d \in Threads : InFlight(d)' <=> InFlight(d)
      <4>1. InFlight(c)' <=> InFlight(c)
        BY <2>2 DEF InFlight, Connect, Disconnect, BeginIP, EndIP, GetInfoFind, GetInfoTest,
                    GetInfoRead, Calls
      <4>2. QED
        BY <1>1, <4>1, OthersKept
    <3>2. CASE BeginIP(c) \/ EndIP(c)
      <4>1. InFlight(c) /\ cmd[c].name \in DOMAIN userDatabase
        BY <3>2 DEF BeginIP, EndIP, InFlight, WriterInv
      <4>2. \E ip : userDatabase' = [userDatabase EXCEPT ![cmd[c].name].ipAddress = ip]
        BY <3>2 DEF BeginIP, EndIP, BeginWriteIP, EndWriteIP
      <4>3. /\ DOMAIN userDatabase' = DOMAIN userDatabase
            /\ \A n \in DOMAIN userDatabase :
                  /\ userDatabase'[n].isLoggedIn = userDatabase[n].isLoggedIn
                  /\ userDatabase'[n].passwordHash = userDatabase[n].passwordHash
                  /\ n # cmd[c].name => userDatabase'[n] = userDatabase[n]
        BY <4>1, <4>2 DEF User
      <4>4. QED
        BY <1>2, <3>1, <4>1, <4>3, DirectorySame
    <3>3. CASE ~BeginIP(c) /\ ~EndIP(c)
      <4>1. userDatabase' = userDatabase
        BY <2>2, <3>3 DEF Connect, Disconnect, GetInfoFind, GetInfoTest, GetInfoRead, userVars
      <4>2. QED
        BY <1>2, <3>1, <4>1, DirectorySame
    <3>4. QED
      BY <3>2, <3>3
  <2>3. QED
    BY <2>1, <2>2
<1>6. QED
  BY <1>2, <1>4, <1>5

(* Commands that are refused, or write nothing, change only the answer.    *)
LEMMA DirectoryOnlyAnswer ==
  ASSUME IInv, IInv', NEW c \in Threads, Step(c), userDatabase' = userDatabase,
         InFlight(c)' <=> InFlight(c), InFlight(c) => cmd'[c] = cmd[c]
  PROVE  Accounts' = Accounts /\ OnLine' = OnLine
<1>1. TypeOK
  BY DEF IInv
<1>2. \A d \in Threads : /\ InFlight(d)' <=> InFlight(d)
                         /\ InFlight(d) => cmd'[d] = cmd[d]
  BY <1>1, OthersKept
<1>3. QED
  BY <1>2, DirectorySame

(* A worker in processData(), before it has decided of its command.        *)
LEMMA Executing ==
  ASSUME IInv, SessionInv, NEW c \in Threads, pc[c] = "call"
  PROVE  cmd[c] # NoCommand /\ AnswerOf(c) = "none" /\ ~InFlight(c) /\ cmd[c] \in Command
BY ConnectionAssumption DEF IInv, CommandInv, SessionInv, AnswerOf, InFlight

(* registerUser() is one step of the directory.                            *)
LEMMA DirectoryRegister ==
  ASSUME IInv, IInv', SessionInv, NEW c \in Threads, ProcessRegister(c)
  PROVE  Directory!Register(c)
<1> DEFINE n == cmd[c].name
           a == IF Registered(n) THEN "USER_EXISTS" ELSE "REGISTERED"
<1> USE DEF IInv, TypeOK, UserTypeOK
<1>1. /\ pc[c] = "call" /\ cmd[c].op = "REGISTER" /\ cmd' = cmd /\ Step(c) /\ Free
      /\ reply' = [reply EXCEPT ![c] = Answer(a)] /\ pc' = [pc EXCEPT ![c] = "reply"]
  BY DEF ProcessRegister, Calls, Decide, Goto, Step, Serve, Register
<1>2. cmd[c] # NoCommand /\ AnswerOf(c) = "none" /\ ~InFlight(c)
  BY <1>1, Executing
<1>3. AnswerOf(c)' = a
  BY <1>1 DEF AnswerOf, InFlight, Answer
<1>4. Told' = [Told EXCEPT ![c] = a]
  BY <1>1, <1>3, ToldStep
<1>5. ~InFlight(c)'
  BY <1>1 DEF InFlight
<1>6. CASE Registered(n)
  <2>1. userDatabase' = userDatabase
    BY <1>6 DEF ProcessRegister, Register
  <2>2. Accounts' = Accounts /\ OnLine' = OnLine
    BY <1>1, <1>2, <1>5, <2>1, DirectoryOnlyAnswer
  <2>3. QED
    BY <1>1, <1>2, <1>4, <1>6, <2>2 DEF Directory!Register, Directory!Executes, Directory!Say,
       Told, AnswerOf, Accounts, OnLine, Registered
<1>7. CASE ~Registered(n)
  <2>1. userDatabase' = [m \in DOMAIN userDatabase \cup {n} |->
               IF m = n
               THEN [passwordHash |-> hashPassword(cmd[c].password), ipAddress |-> NoIP,
                     port |-> 0, isLoggedIn |-> FALSE]
               ELSE userDatabase[m]]
    BY <1>7 DEF ProcessRegister, Register
  <2>2. Accounts' = [m \in DOMAIN Accounts \cup {n} |-> IF m = n THEN cmd[c].password ELSE Accounts[m]]
    BY <1>7, <2>1 DEF Accounts, hashPassword, Registered
  <2>3. getActiveUsers' = getActiveUsers
    BY <1>7, <2>1 DEF getActiveUsers, Registered
  <2>4. \A d \in Threads : ~InFlight(d) /\ ~InFlight(d)'
    <3>1. \A d \in Threads : ~InFlight(d)
      BY <1>1, FreeFacts
    <3>2. QED
      BY <1>1, <1>5, <3>1, OthersKept
  <2>5. ASSUME NEW m \in getActiveUsers PROVE Final(m)' = Final(m)
    <3>1. m \in DOMAIN userDatabase /\ m # n /\ m \in DOMAIN userDatabase'
      BY <1>7, <2>1 DEF getActiveUsers, Registered
    <3>2. QED
      BY <2>1, <2>4, <3>1, FinalSame
  <2>6. OnLine' = OnLine
    BY <2>3, <2>5 DEF OnLine
  <2>7. n \notin DOMAIN Accounts
    BY <1>7 DEF Accounts, Registered
  <2>8. QED
    BY <1>1, <1>2, <1>4, <1>7, <2>2, <2>6, <2>7 DEF Directory!Register, Directory!Executes,
       Directory!Say, Directory!Put, Told, AnswerOf, Accounts, OnLine
<1>8. QED
  BY <1>6, <1>7

(* So is a login, at its first write: the directory shows the address that *)
(* the next writes are going to put into the record.                       *)
LEMMA DirectoryLogin ==
  ASSUME IInv, IInv', SessionInv, NEW c \in Threads, ProcessLogin(c)
  PROVE  Directory!Login(c)
<1> DEFINE n == cmd[c].name
           k == cmd[c]
<1>0. /\ pc[c] = "call" /\ k.op = "LOGIN" /\ cmd' = cmd /\ Step(c) /\ Free /\ TypeOK
      /\ k.password \in Passwords
  <2>1. pc[c] = "call" /\ k.op = "LOGIN" /\ cmd' = cmd /\ Step(c) /\ Free /\ TypeOK
    BY DEF IInv, ProcessLogin, Calls, Step, Serve, WriteIsLoggedIn, Refuse
  <2>2. QED
    BY <2>1, Executing DEF Command
<1>1. k # NoCommand /\ AnswerOf(c) = "none" /\ ~InFlight(c)
  BY <1>0, Executing
<1>2. /\ n \in DOMAIN Accounts <=> Registered(n)
      /\ Registered(n) => (Accounts[n] = k.password <=> CredentialsOK(n, k.password))
  <2>1. Registered(n) => \E p \in Passwords : userDatabase[n].passwordHash = <<"hashed_", p>>
    BY <1>0 DEF TypeOK, UserTypeOK, User, Hash, hashPassword, Registered
  <2>2. QED
    BY <2>1 DEF Accounts, CredentialsOK, Registered, hashPassword
<1>3. CASE ~CredentialsOK(n, k.password)
  <2>1. /\ userDatabase' = userDatabase /\ pc' = [pc EXCEPT ![c] = "reply"]
        /\ reply' = [reply EXCEPT ![c] = Answer("INVALID_CREDENTIALS")]
    BY <1>3 DEF ProcessLogin, Refuse, userVars, Decide, Goto
  <2>2. AnswerOf(c)' = "INVALID_CREDENTIALS" /\ ~InFlight(c)'
    BY <1>0, <2>1 DEF AnswerOf, InFlight, Answer, TypeOK
  <2>3. Told' = [Told EXCEPT ![c] = "INVALID_CREDENTIALS"]
    BY <1>0, <2>2, ToldStep
  <2>4. Accounts' = Accounts /\ OnLine' = OnLine
    BY <1>0, <1>1, <2>1, <2>2, DirectoryOnlyAnswer
  <2>5. QED
    BY <1>0, <1>1, <1>2, <1>3, <2>3, <2>4 DEF Directory!Login, Directory!Executes, Directory!Say,
       Told, AnswerOf, Accounts, OnLine, CredentialsOK
<1>4. CASE CredentialsOK(n, k.password)
  <2>1. /\ userDatabase' = [userDatabase EXCEPT ![n].isLoggedIn = TRUE]
        /\ pc' = [pc EXCEPT ![c] = "ip"] /\ reply' = reply
    BY <1>4 DEF ProcessLogin, WriteIsLoggedIn, Goto
  <2>2. AnswerOf(c)' = "LOGIN" /\ InFlight(c)'
    BY <1>0, <2>1 DEF AnswerOf, InFlight, TypeOK
  <2>3. Told' = [Told EXCEPT ![c] = "LOGIN"]
    BY <1>0, <2>2, ToldStep
  <2>4. n \in DOMAIN userDatabase
    BY <1>4 DEF CredentialsOK, Registered
  <2>5. /\ DOMAIN userDatabase' = DOMAIN userDatabase /\ userDatabase'[n].isLoggedIn
        /\ \A m \in DOMAIN userDatabase :
              /\ userDatabase'[m].passwordHash = userDatabase[m].passwordHash
              /\ m # n => userDatabase'[m] = userDatabase[m]
    BY <1>0, <2>1, <2>4 DEF TypeOK, UserTypeOK, User
  <2>6. Accounts' = Accounts
    BY <2>5 DEF Accounts
  <2>7. getActiveUsers' = getActiveUsers \cup {n}
    BY <2>4, <2>5 DEF getActiveUsers
  <2>8. Final(n)' = Address(c, k)
    BY <1>0, <2>2, <2>4, <2>5, FinalFactsNext DEF FinalOK
  <2>9. ASSUME NEW m \in getActiveUsers, m # n PROVE Final(m)' = Final(m)
    <3>1. m \in DOMAIN userDatabase /\ m \in DOMAIN userDatabase' /\ userDatabase'[m] = userDatabase[m]
      BY <2>5, <2>9 DEF getActiveUsers
    <3>2. \A d \in Threads : ~InFlight(d)
      BY <1>0, FreeFacts
    <3>3. \A d \in Threads : InFlight(d)' => d = c
      BY <1>0, <3>2, OthersKept
    <3>4. QED
      BY <1>0, <2>9, <3>1, <3>2, <3>3, FinalSame
  <2>10. OnLine' = [m \in DOMAIN OnLine \cup {n} |-> IF m = n THEN Address(c, k) ELSE OnLine[m]]
    <3> DEFINE G(m) == IF m = n THEN Address(c, k) ELSE OnLine[m]
    <3>1. DOMAIN OnLine = getActiveUsers /\ \A m \in getActiveUsers : OnLine[m] = Final(m)
      BY DEF OnLine
    <3>2. \A m \in getActiveUsers' : Final(m)' = G(m)
      BY <1>0, <2>7, <2>8, <2>9, <3>1
    <3> HIDE DEF G
    <3>3. OnLine' = [m \in getActiveUsers' |-> G(m)]
      BY <3>2 DEF OnLine
    <3>4. QED
      BY <2>7, <3>1, <3>3 DEF G
  <2>11. QED
    BY <1>0, <1>1, <1>2, <1>4, <2>3, <2>6, <2>10 DEF Directory!Login, Directory!Executes,
       Directory!Say, Directory!Put, Told, AnswerOf, Accounts, OnLine, CredentialsOK
<1>5. QED
  BY <1>3, <1>4

(* A logout, at its first write.                                           *)
LEMMA DirectoryLogout ==
  ASSUME IInv, IInv', SessionInv, NEW c \in Threads, ProcessLogout(c)
  PROVE  Directory!Logout(c)
<1> DEFINE n == cmd[c].name
<1>0. pc[c] = "call" /\ cmd[c].op = "LOGOUT" /\ cmd' = cmd /\ Step(c) /\ Free /\ TypeOK
  BY DEF IInv, ProcessLogout, Calls, Step, Serve, WriteIsLoggedIn, Refuse
<1>1. cmd[c] # NoCommand /\ AnswerOf(c) = "none" /\ ~InFlight(c)
  BY <1>0, Executing
<1>2. n \in DOMAIN OnLine <=> LoggedIn(n)
  BY DEF OnLine, getActiveUsers, LoggedIn, Registered
<1>3. CASE ~LoggedIn(n)
  <2>1. /\ userDatabase' = userDatabase /\ pc' = [pc EXCEPT ![c] = "reply"]
        /\ reply' = [reply EXCEPT ![c] = Answer("NOT_LOGGED_IN")]
    BY <1>3 DEF ProcessLogout, Refuse, userVars, Decide, Goto
  <2>2. AnswerOf(c)' = "NOT_LOGGED_IN" /\ ~InFlight(c)'
    BY <1>0, <2>1 DEF AnswerOf, InFlight, Answer, TypeOK
  <2>3. Told' = [Told EXCEPT ![c] = "NOT_LOGGED_IN"]
    BY <1>0, <2>2, ToldStep
  <2>4. Accounts' = Accounts /\ OnLine' = OnLine
    BY <1>0, <1>1, <2>1, <2>2, DirectoryOnlyAnswer
  <2>5. QED
    BY <1>0, <1>1, <1>2, <1>3, <2>3, <2>4 DEF Directory!Logout, Directory!Executes, Directory!Say,
       Told, AnswerOf, Accounts, OnLine
<1>4. CASE LoggedIn(n)
  <2>1. /\ userDatabase' = [userDatabase EXCEPT ![n].isLoggedIn = FALSE]
        /\ pc' = [pc EXCEPT ![c] = "ip"] /\ reply' = reply
    BY <1>4 DEF ProcessLogout, WriteIsLoggedIn, Goto
  <2>2. AnswerOf(c)' = "LOGOUT" /\ InFlight(c)'
    BY <1>0, <2>1 DEF AnswerOf, InFlight, TypeOK
  <2>3. Told' = [Told EXCEPT ![c] = "LOGOUT"]
    BY <1>0, <2>2, ToldStep
  <2>4. n \in DOMAIN userDatabase
    BY <1>4 DEF LoggedIn, Registered
  <2>5. /\ DOMAIN userDatabase' = DOMAIN userDatabase /\ ~userDatabase'[n].isLoggedIn
        /\ \A m \in DOMAIN userDatabase :
              /\ userDatabase'[m].passwordHash = userDatabase[m].passwordHash
              /\ m # n => userDatabase'[m] = userDatabase[m]
    BY <1>0, <2>1, <2>4 DEF TypeOK, UserTypeOK, User
  <2>6. Accounts' = Accounts
    BY <2>5 DEF Accounts
  <2>7. getActiveUsers' = getActiveUsers \ {n}
    BY <2>4, <2>5 DEF getActiveUsers
  <2>8. ASSUME NEW m \in getActiveUsers, m # n PROVE Final(m)' = Final(m)
    <3>1. m \in DOMAIN userDatabase /\ m \in DOMAIN userDatabase' /\ userDatabase'[m] = userDatabase[m]
      BY <2>5, <2>8 DEF getActiveUsers
    <3>2. \A d \in Threads : ~InFlight(d)
      BY <1>0, FreeFacts
    <3>3. \A d \in Threads : InFlight(d)' => d = c
      BY <1>0, <3>2, OthersKept
    <3>4. QED
      BY <1>0, <2>8, <3>1, <3>2, <3>3, FinalSame
  <2>9. OnLine' = [m \in DOMAIN OnLine \ {n} |-> OnLine[m]]
    BY <2>7, <2>8 DEF OnLine
  <2>10. QED
    BY <1>0, <1>1, <1>2, <1>4, <2>3, <2>6, <2>9 DEF Directory!Logout, Directory!Executes,
       Directory!Say, Directory!Drop, Told, AnswerOf, Accounts, OnLine
<1>5. QED
  BY <1>3, <1>4

(* A GETINFO is of nobody when findUser() returns nullptr, of somebody     *)
(* else when it reads isLoggedIn, which may be a moment later.             *)
LEMMA DirectoryGetInfo ==
  ASSUME IInv, IInv', SessionInv, NEW c \in Threads,
         \/ GetInfoFind(c) /\ user'[c] = NullUser
         \/ GetInfoTest(c) /\ user[c] # NullUser
  PROVE  Directory!GetInfo(c)
<1> DEFINE n == cmd[c].name
           a == AnswerOf(c)'
<1>0. /\ cmd[c].op = "GETINFO" /\ cmd' = cmd /\ Step(c) /\ TypeOK /\ userDatabase' = userDatabase
      /\ pc[c] \in {"call", "flag"}
  BY DEF GetInfoFind, GetInfoTest, Calls, Step, Serve, GetInfo, IInv, SessionInv, userVars
<1>1. cmd[c] # NoCommand /\ AnswerOf(c) = "none" /\ ~InFlight(c)
  <2>1. cmd[c] \in Commands
    BY <1>0 DEF IInv, CommandInv
  <2>2. AnswerOf(c) = "none" /\ ~InFlight(c)
    BY <1>0 DEF AnswerOf, InFlight, SessionInv, GetInfoFind, GetInfoTest, Calls
  <2>3. QED
    BY <2>1, <2>2, ConnectionAssumption
<1>2. ~InFlight(c)' /\ a = IF n \in getActiveUsers THEN "INFO" ELSE "USER_NOT_FOUND"
  <2>1. CASE GetInfoFind(c) /\ user'[c] = NullUser
    <3>1. n \notin getActiveUsers
      BY <1>0, <2>1, UserManagerAssumption DEF GetInfoFind, findUser, LoggedIn, Registered, getActiveUsers, TypeOK, UserTypeOK
    <3>2. QED
      BY <1>0, <2>1, <3>1 DEF GetInfoFind, Goto, AnswerOf, InFlight, TypeOK
  <2>2. CASE GetInfoTest(c) /\ user[c] # NullUser
    <3>1. user[c] = n /\ n \in DOMAIN userDatabase
      BY <2>2 DEF SessionInv, IInv, CommandInv
    <3>2. n \in getActiveUsers <=> userDatabase[n].isLoggedIn
      BY <3>1 DEF getActiveUsers
    <3>3. QED
      BY <1>0, <2>2, <3>1, <3>2 DEF GetInfoTest, Goto, Decide, Answer, AnswerOf, InFlight, TypeOK
  <2>3. QED
    BY <2>1, <2>2
<1>3. Told' = [Told EXCEPT ![c] = a]
  BY <1>0, ToldStep
<1>4. Accounts' = Accounts /\ OnLine' = OnLine
  BY <1>0, <1>1, <1>2, DirectoryOnlyAnswer
<1>5. QED
  BY <1>0, <1>1, <1>2, <1>3, <1>4 DEF Directory!GetInfo, Directory!Executes, Directory!Say,
     Told, AnswerOf, Accounts, OnLine

(* An unknown command.                                                     *)
LEMMA DirectoryUnknown ==
  ASSUME IInv, IInv', SessionInv, NEW c \in Threads, ProcessUnknown(c)
  PROVE  Directory!Unknown(c)
<1>0. /\ pc[c] = "call" /\ cmd[c].op = "UNKNOWN" /\ cmd' = cmd /\ Step(c) /\ TypeOK
      /\ userDatabase' = userDatabase /\ pc' = [pc EXCEPT ![c] = "reply"]
      /\ reply' = [reply EXCEPT ![c] = Answer("UNKNOWN_COMMAND")]
  BY DEF ProcessUnknown, Calls, Decide, Goto, Step, Serve, IInv, userVars
<1>1. cmd[c] # NoCommand /\ AnswerOf(c) = "none" /\ ~InFlight(c)
  BY <1>0, Executing
<1>2. AnswerOf(c)' = "UNKNOWN_COMMAND" /\ ~InFlight(c)'
  BY <1>0 DEF AnswerOf, InFlight, Answer, TypeOK
<1>3. Told' = [Told EXCEPT ![c] = "UNKNOWN_COMMAND"]
  BY <1>0, <1>2, ToldStep
<1>4. Accounts' = Accounts /\ OnLine' = OnLine
  BY <1>0, <1>1, <1>2, DirectoryOnlyAnswer
<1>5. QED
  BY <1>0, <1>1, <1>3, <1>4 DEF Directory!Unknown, Directory!Executes, Directory!Say,
     Told, AnswerOf, Accounts, OnLine

(* recv() is the request ...                                               *)
LEMMA DirectoryRequest ==
  ASSUME IInv, IInv', SessionInv, NEW c \in Threads, NEW k \in Commands, Receive(c, k)
  PROVE  Directory!Request(c)
<1>0. /\ pc[c] = "recv" /\ cmd' = [cmd EXCEPT ![c] = k] /\ pc' = [pc EXCEPT ![c] = "call"]
      /\ Step(c) /\ TypeOK /\ userDatabase' = userDatabase /\ user' = user /\ reply' = reply
  BY DEF Receive, Goto, Step, IInv, userVars
<1>1. cmd[c] = NoCommand /\ ~InFlight(c) /\ ~InFlight(c)' /\ AnswerOf(c)' = AnswerOf(c)
  BY <1>0 DEF SessionInv, InFlight, AnswerOf, TypeOK
<1>2. Told' = Told
  BY <1>0, <1>1, ToldSame
<1>3. Accounts' = Accounts /\ OnLine' = OnLine
  BY <1>0, <1>1, DirectoryOnlyAnswer
<1>4. cmd'[c] = k
  BY <1>0 DEF TypeOK
<1>5. QED
  BY <1>0, <1>1, <1>2, <1>3, <1>4 DEF Directory!Request, Told, AnswerOf, Accounts, OnLine

(* ... and send() the return.                                              *)
LEMMA DirectoryReturn ==
  ASSUME IInv, IInv', SessionInv, SessionInv', NEW c \in Threads, Send(c)
  PROVE  Directory!Return(c)
<1>0. /\ pc[c] = "reply" /\ cmd' = [cmd EXCEPT ![c] = NoCommand] /\ pc' = [pc EXCEPT ![c] = "recv"]
      /\ reply' = [reply EXCEPT ![c] = Answer("none")]
      /\ Step(c) /\ TypeOK /\ userDatabase' = userDatabase
  BY DEF Send, Goto, Step, Serve, IInv, userVars
<1>1. AnswerOf(c) # "none" /\ ~InFlight(c) /\ ~InFlight(c)' /\ AnswerOf(c)' = "none"
  BY <1>0 DEF SessionInv, InFlight, AnswerOf, TypeOK, Answer
<1>2. Told' = [Told EXCEPT ![c] = "none"]
  BY <1>0, <1>1, ToldStep
<1>3. Accounts' = Accounts /\ OnLine' = OnLine
  BY <1>0, <1>1, DirectoryOnlyAnswer
<1>4. QED
  BY <1>0, <1>1, <1>2, <1>3 DEF Directory!Return, Told, AnswerOf, Accounts, OnLine

(* Every step is a step of the directory, or none.                         *)
LEMMA DirectoryStep ==
  ASSUME IInv, IInv', SessionInv, SessionInv', [Next]_vars
  PROVE  [Directory!Next]_(Directory!dirVars)
<1>1. CASE UNCHANGED vars
  <2>1. Accounts' = Accounts /\ OnLine' = OnLine /\ cmd' = cmd /\ Told' = Told
    <3>1. \A c \in Threads : (InFlight(c)' <=> InFlight(c)) /\ AnswerOf(c)' = AnswerOf(c)
      BY <1>1 DEF vars, locals, InFlight, AnswerOf
    <3>2. userDatabase' = userDatabase /\ cmd' = cmd
      BY <1>1 DEF vars, locals, userVars
    <3>3. QED
      BY <3>1, <3>2, DirectorySame DEF Told
  <2>2. QED
    BY <2>1 DEF Directory!dirVars, Accounts, OnLine, Told, AnswerOf
<1>2. ASSUME NEW c \in Threads, Step(c) PROVE Directory!Next \/ UNCHANGED Directory!dirVars
  <2>1. CASE \/ Connect(c) \/ Disconnect(c) \/ BeginIP(c) \/ EndIP(c) \/ SetPort(c)
             \/ GetInfoFind(c) /\ user'[c] # NullUser
             \/ GetInfoTest(c) /\ user[c] = NullUser
             \/ \E f \in {"ipAddress", "port"} : GetInfoRead(c, f)
    <3>1. Accounts' = Accounts /\ OnLine' = OnLine /\ cmd' = cmd /\ Told' = Told
      BY <2>1, DirectoryStutter
    <3>2. QED
      BY <3>1 DEF Directory!dirVars, Accounts, OnLine, Told, AnswerOf
  <2>2. CASE \/ \E k \in Commands : Receive(c, k)
             \/ Send(c) \/ ProcessRegister(c) \/ ProcessUnknown(c) \/ ProcessLogin(c)
             \/ ProcessLogout(c)
             \/ GetInfoFind(c) /\ user'[c] = NullUser
             \/ GetInfoTest(c) /\ user[c] # NullUser
    <3>1. \/ Directory!Request(c) \/ Directory!Return(c) \/ Directory!Register(c)
          \/ Directory!Unknown(c) \/ Directory!Login(c) \/ Directory!Logout(c)
          \/ Directory!GetInfo(c)
      BY <2>2, DirectoryRequest, DirectoryReturn, DirectoryRegister, DirectoryUnknown,
         DirectoryLogin, DirectoryLogout, DirectoryGetInfo
    <3>2. QED
      BY <3>1 DEF Directory!Next
  <2>3. QED
    BY <1>2, <2>1, <2>2 DEF Step, Serve, GetInfo
<1>3. QED
  BY <1>1, <1>2 DEF Next, Step

(* The commands implement a directory in which each is atomic.             *)
THEOREM DirectoryRefinement == Spec => ImplementsUserDirectory
  BY DirectoryInit, DirectoryStep, SessionInvariance, PTL
     DEF Spec, ImplementsUserDirectory, Directory!Spec
=============================================================================
