-------------------------- MODULE ConnectionProofs --------------------------
(***************************************************************************)
(* The safety properties of Connection and ConnectionQuiet, proved for any *)
(* number of workers and any set of users, passwords, hosts and commands.  *)
(***************************************************************************)
EXTENDS ConnectionQuiet, TLAPS

(* A worker has a command from receiveData() until its reply is sent.      *)
CommandInv ==
  \A c \in Threads :
    /\ pc[c] \notin {"closed", "recv"} => cmd[c] \in Commands
    /\ pc[c] = "fields" => user[c] # NullUser
    /\ user[c] # NullUser => user[c] \in DOMAIN userDatabase

(* userMutex_ is held exactly by the thread between the first write of a   *)
(* login or a logout and the last one.                                     *)
OwnerInv == \A c \in Threads : InFlight(c) <=> userMutex = c

(* What that thread has written so far.                                    *)
WriterInv ==
  \A c \in Threads :
    InFlight(c) =>
      LET k == cmd[c] IN
      /\ k.op \in {"LOGIN", "LOGOUT"}
      /\ k.name \in DOMAIN userDatabase
      /\ userDatabase[k.name].isLoggedIn <=> k.op = "LOGIN"
      /\ k.op = "LOGIN" => LoginOf(c, k) \in published
      /\ pc[c] = "port" => userDatabase[k.name].ipAddress =
                             IF k.op = "LOGIN" THEN ClientIP[c] ELSE NoIP

(* A record nobody is writing to is whole.                                 *)
Whole(n) == LET u == userDatabase[n]
            IN IF u.isLoggedIn THEN <<n, u.ipAddress, u.port>> \in published
                               ELSE u.ipAddress = NoIP /\ u.port = 0
WholeInv ==
  \A n \in DOMAIN userDatabase :
    (\A c \in Threads : InFlight(c) => cmd[c].name # n) => Whole(n)

IInv == /\ TypeOK
        /\ CommandInv
        /\ OwnerInv
        /\ WriterInv
        /\ WholeInv

-----------------------------------------------------------------------------
(* Every initial state satisfies the inductive invariant.                  *)
LEMMA InitIInv == Init => IInv
<1> SUFFICES ASSUME Init PROVE IInv
  OBVIOUS
<1> USE UserManagerAssumption, ConnectionAssumption DEF Init, UserInit
<1>1. TypeOK
  BY DEF TypeOK, UserTypeOK, ConnectionPC, Reply, Answer, Status, Port, PortWidth
<1>2. CommandInv
  BY DEF CommandInv
<1>3. OwnerInv
  BY DEF OwnerInv, InFlight
<1>4. WriterInv /\ WholeInv
  BY DEF WriterInv, WholeInv, InFlight
<1>5. QED
  BY <1>1, <1>2, <1>3, <1>4 DEF IInv

(* What is left of a division.                                             *)
LEMMA Remainder ==
  ASSUME NEW m \in Int, NEW w \in Int, w > 0
  PROVE  m % w \in 0 .. w - 1
  BY SMT

(* A port is what is left of an int by the conversion to uint16_t.         *)
LEMMA PortTypes == 0 \in Port /\ 0 % PortWidth = 0 /\ \A n \in Int : n % PortWidth \in Port
<1>1. 0 \in Port
  BY DEF Port, PortWidth
<1>2. 0 % PortWidth = 0
  BY DEF PortWidth
<1>3. ASSUME NEW n \in Int PROVE n % PortWidth \in Port
  <2>1. PortWidth \in Int /\ PortWidth > 0
    BY DEF PortWidth
  <2>2. QED
    BY <2>1, Remainder DEF Port
<1>4. QED
  BY <1>1, <1>2, <1>3

(* What a command carries has the type of the field it is stored in.       *)
LEMMA CommandTypes ==
  ASSUME NEW k \in Commands
  PROVE  /\ k.name \in Names
         /\ hashPassword(k.password) \in Hash
         /\ k.port % PortWidth \in Port
<1>1. k \in Command
  BY ConnectionAssumption
<1>2. k.name \in Names /\ k.password \in Passwords /\ k.port \in Int
  BY <1>1 DEF Command
<1>3. QED
  BY <1>2, PortTypes DEF Hash

(* A record is a User after the assignment of a field.                     *)
LEMMA FieldWrites ==
  ASSUME NEW D, NEW db \in [D -> User], NEW n \in D
  PROVE  /\ \A b \in BOOLEAN : [db EXCEPT ![n].isLoggedIn = b] \in [D -> User]
         /\ \A ip \in IPs \cup {NoIP, TornIP} : [db EXCEPT ![n].ipAddress = ip] \in [D -> User]
         /\ \A p \in Port : [db EXCEPT ![n].port = p] \in [D -> User]
BY DEF User

(* The database keeps its type; in particular a port always fits its field.*)
LEMMA DatabaseStep ==
  ASSUME TypeOK, CommandInv, WriterInv, [Next]_vars
  PROVE  UserTypeOK'
<1> USE DEF TypeOK, UserTypeOK, CommandInv
<1> DEFINE Same == userDatabase' = userDatabase /\ userMutex' = userMutex
<1>1. ASSUME NEW c \in Threads, ProcessRegister(c) PROVE UserTypeOK'
  <2>1. cmd[c] \in Commands /\ userMutex' = userMutex
    BY <1>1 DEF ProcessRegister, Calls, Register
  <2>2. CASE Registered(cmd[c].name)
    BY <1>1, <2>1, <2>2 DEF ProcessRegister, Register
  <2>3. CASE ~Registered(cmd[c].name)
    <3> DEFINE new == [passwordHash |-> hashPassword(cmd[c].password), ipAddress |-> NoIP,
                       port |-> 0, isLoggedIn |-> FALSE]
    <3>1. new \in User /\ cmd[c].name \in Names
      BY <2>1, CommandTypes, PortTypes DEF User
    <3>2. userDatabase' = [m \in DOMAIN userDatabase \cup {cmd[c].name} |->
                             IF m = cmd[c].name THEN new ELSE userDatabase[m]]
      BY <1>1, <2>3 DEF ProcessRegister, Register
    <3>3. QED
      BY <2>1, <3>1, <3>2
  <2>4. QED
    BY <2>2, <2>3
<1>2. ASSUME NEW c \in Threads, ProcessLogin(c) \/ ProcessLogout(c) PROVE UserTypeOK'
  <2>1. CASE Same
    BY <2>1
  <2>2. CASE ~Same
    <3>1. /\ cmd[c].name \in DOMAIN userDatabase
          /\ userMutex' = c
          /\ \E b \in BOOLEAN : userDatabase' = [userDatabase EXCEPT ![cmd[c].name].isLoggedIn = b]
      BY <1>2, <2>2 DEF ProcessLogin, ProcessLogout, CredentialsOK, LoggedIn, Registered,
                        WriteIsLoggedIn, Refuse, userVars
    <3>2. QED
      BY <3>1, FieldWrites
  <2>3. QED
    BY <2>1, <2>2
<1>3. ASSUME NEW c \in Threads, BeginIP(c) \/ EndIP(c) PROVE UserTypeOK'
  <2>1. cmd[c].name \in DOMAIN userDatabase /\ userMutex' = userMutex
    BY <1>3 DEF BeginIP, EndIP, BeginWriteIP, EndWriteIP, WriterInv, InFlight
  <2>2. \E ip \in IPs \cup {NoIP, TornIP} :
          userDatabase' = [userDatabase EXCEPT ![cmd[c].name].ipAddress = ip]
    <3>1. CASE BeginIP(c)
      BY <3>1 DEF BeginIP, BeginWriteIP
    <3>2. CASE EndIP(c)
      <4>1. ClientIP[c] \in IPs
        BY ConnectionAssumption
      <4>2. QED
        BY <3>2, <4>1 DEF EndIP, EndWriteIP
    <3>3. QED
      BY <1>3, <3>1, <3>2
  <2>3. QED
    BY <2>1, <2>2, FieldWrites
<1>4. ASSUME NEW c \in Threads, SetPort(c) PROVE UserTypeOK'
  <2>1. cmd[c].name \in DOMAIN userDatabase /\ cmd[c] \in Commands /\ userMutex' = NoThread
    BY <1>4 DEF SetPort, WritePort, WriterInv, InFlight
  <2>2. \E p \in Port : userDatabase' = [userDatabase EXCEPT ![cmd[c].name].port = p]
    BY <1>4, <2>1, CommandTypes, PortTypes DEF SetPort, WritePort
  <2>3. QED
    BY <2>1, <2>2, FieldWrites
<1>5. ASSUME NEW c \in Threads,
             \/ Connect(c) \/ Disconnect(c) \/ Send(c) \/ ProcessUnknown(c)
             \/ GetInfo(c)
             \/ \E k \in Commands : Receive(c, k)
      PROVE  UserTypeOK'
  <2>1. Same
    BY <1>5 DEF Connect, Disconnect, Send, ProcessUnknown, GetInfo, GetInfoFind, GetInfoTest,
                GetInfoRead, Receive, userVars
  <2>2. QED
    BY <2>1
<1>6. CASE UNCHANGED vars
  BY <1>6 DEF vars, userVars
<1>7. QED
  BY <1>1, <1>2, <1>3, <1>4, <1>5, <1>6 DEF Next, Serve

(* So do the local variables of handleClient() and processData() ...       *)
LocalsOK == /\ pc \in [Threads -> ConnectionPC]
            /\ cmd \in [Threads -> Commands \cup {NoCommand}]
            /\ user \in [Threads -> Names \cup {NullUser}]
            /\ unread \in [Threads -> SUBSET {"ipAddress", "port"}]

(* They keep their types.                                                  *)
LEMMA LocalsStep ==
  ASSUME TypeOK, CommandInv, [Next]_vars
  PROVE  LocalsOK'
<1> USE DEF TypeOK, LocalsOK, Goto, Decide, ConnectionPC
<1>1. ASSUME NEW c \in Threads, Connect(c) PROVE LocalsOK'
  BY <1>1 DEF Connect
<1>2. ASSUME NEW c \in Threads, NEW k \in Commands, Receive(c, k) PROVE LocalsOK'
  BY <1>2 DEF Receive
<1>3. ASSUME NEW c \in Threads, Disconnect(c) PROVE LocalsOK'
  BY <1>3 DEF Disconnect
<1>4. ASSUME NEW c \in Threads, Send(c) PROVE LocalsOK'
  BY <1>4 DEF Send
<1>5. ASSUME NEW c \in Threads, ProcessRegister(c) PROVE LocalsOK'
  BY <1>5 DEF ProcessRegister
<1>6. ASSUME NEW c \in Threads, ProcessUnknown(c) PROVE LocalsOK'
  BY <1>6 DEF ProcessUnknown
<1>7. ASSUME NEW c \in Threads, ProcessLogin(c) PROVE LocalsOK'
  BY <1>7 DEF ProcessLogin
<1>8. ASSUME NEW c \in Threads, ProcessLogout(c) PROVE LocalsOK'
  BY <1>8 DEF ProcessLogout
<1>9. ASSUME NEW c \in Threads, BeginIP(c) PROVE LocalsOK'
  BY <1>9 DEF BeginIP
<1>10. ASSUME NEW c \in Threads, EndIP(c) PROVE LocalsOK'
  BY <1>10 DEF EndIP
<1>11. ASSUME NEW c \in Threads, SetPort(c) PROVE LocalsOK'
  BY <1>11 DEF SetPort
<1>12. ASSUME NEW c \in Threads, GetInfoFind(c) PROVE LocalsOK'
  BY <1>12 DEF GetInfoFind, findUser, LoggedIn, Registered, Calls, UserTypeOK
<1>13. ASSUME NEW c \in Threads, GetInfoTest(c) PROVE LocalsOK'
  BY <1>13 DEF GetInfoTest
<1>14. ASSUME NEW c \in Threads, NEW f \in {"ipAddress", "port"}, GetInfoRead(c, f) PROVE LocalsOK'
  BY <1>14 DEF GetInfoRead
<1>15. CASE UNCHANGED vars
  BY <1>15 DEF vars, locals, userVars
<1>16. QED
  BY <1>1, <1>2, <1>3, <1>4, <1>5, <1>6, <1>7, <1>8, <1>9, <1>10, <1>11, <1>12, <1>13, <1>14, <1>15 DEF Next, Serve, GetInfo

(* Every answer has the type of a reply.                                   *)
LEMMA Answers == \A status \in Status : Answer(status) \in Reply
  BY PortTypes DEF Answer, Reply

(* ... the reply ...                                                       *)
LEMMA ReplyStep ==
  ASSUME TypeOK, CommandInv, WriterInv, [Next]_vars
  PROVE  reply' \in [Threads -> Reply]
<1>1. reply \in [Threads -> Reply]
  BY DEF TypeOK
<1>2. ASSUME NEW c \in Threads,
             \/ Connect(c) \/ Disconnect(c) \/ BeginIP(c) \/ EndIP(c) \/ GetInfoFind(c)
             \/ \E k \in Commands : Receive(c, k)
      PROVE  reply' = reply
  BY <1>2 DEF Connect, Disconnect, BeginIP, EndIP, GetInfoFind, Receive
<1>3. ASSUME NEW c \in Threads,
             \/ Send(c) \/ ProcessRegister(c) \/ ProcessUnknown(c)
             \/ ProcessLogin(c) \/ ProcessLogout(c) \/ GetInfoTest(c)
      PROVE  reply' = reply \/ \E status \in Status : reply' = [reply EXCEPT ![c] = Answer(status)]
  BY <1>3 DEF Send, ProcessRegister, ProcessUnknown, ProcessLogin, ProcessLogout, GetInfoTest,
              Decide, Status
<1>4. ASSUME NEW c \in Threads, SetPort(c)
      PROVE  \E status \in Status : reply' = [reply EXCEPT ![c] = Answer(status)]
  BY <1>4 DEF SetPort, Decide, Status, WriterInv, InFlight
<1>5. ASSUME NEW c \in Threads, NEW f \in {"ipAddress", "port"}, GetInfoRead(c, f)
      PROVE  reply' \in [Threads -> Reply]
  <2>1. userDatabase[user[c]] \in User
    BY <1>5 DEF GetInfoRead, TypeOK, UserTypeOK, CommandInv
  <2>2. QED
    BY <1>1, <1>5, <2>1 DEF GetInfoRead, Reply, User
<1>6. CASE UNCHANGED vars
  BY <1>1, <1>6 DEF vars, locals
<1>7. QED
  BY <1>1, <1>2, <1>3, <1>4, <1>5, <1>6, Answers DEF Next, Serve, GetInfo

(* ... and the history of logins.                                          *)
LEMMA PublishedStep ==
  ASSUME TypeOK, CommandInv, [Next]_vars
  PROVE  published' \subseteq Names \X IPs \X Port
<1> USE DEF TypeOK
<1>1. ASSUME NEW c \in Threads, ProcessLogin(c) PROVE published' \subseteq Names \X IPs \X Port
  <2>1. cmd[c] \in Commands
    BY <1>1 DEF ProcessLogin, Calls, CommandInv
  <2>2. LoginOf(c, cmd[c]) \in Names \X IPs \X Port
    BY <2>1, CommandTypes, ConnectionAssumption DEF LoginOf
  <2>3. QED
    BY <1>1, <2>2 DEF ProcessLogin
<1>2. ASSUME NEW c \in Threads, ~ProcessLogin(c),
             Serve(c) \/ Connect(c) \/ Disconnect(c) \/ \E k \in Commands : Receive(c, k)
      PROVE  published' = published
  BY <1>2 DEF Serve, Connect, Disconnect, Receive, ProcessRegister, ProcessUnknown, ProcessLogout,
              BeginIP, EndIP, SetPort, GetInfo, GetInfoFind, GetInfoTest, GetInfoRead, Send
<1>3. CASE UNCHANGED vars
  BY <1>3 DEF vars
<1>4. QED
  BY <1>1, <1>2, <1>3 DEF Next

(* All of TypeOK together.                                                 *)
LEMMA TypeStep ==
  ASSUME TypeOK, CommandInv, WriterInv, [Next]_vars
  PROVE  TypeOK'
BY DatabaseStep, LocalsStep, ReplyStep, PublishedStep DEF TypeOK, LocalsOK

(* Records are never removed, so the pointers findUser() gave out last.    *)
LEMMA CommandStep ==
  ASSUME TypeOK, CommandInv, WriterInv, [Next]_vars
  PROVE  CommandInv'
<1> USE UserManagerAssumption, ConnectionAssumption
        DEF vars, locals, userVars, Goto, Decide, Calls, TypeOK, UserTypeOK, CommandInv, WriterInv, InFlight
<1>1. ASSUME NEW c \in Threads, Connect(c) PROVE CommandInv'
  BY <1>1 DEF Connect
<1>2. ASSUME NEW c \in Threads, NEW k \in Commands, Receive(c, k) PROVE CommandInv'
  BY <1>2 DEF Receive
<1>3. ASSUME NEW c \in Threads, Disconnect(c) PROVE CommandInv'
  BY <1>3 DEF Disconnect
<1>4. ASSUME NEW c \in Threads, Send(c) PROVE CommandInv'
  BY <1>4 DEF Send, Answer
<1>5. ASSUME NEW c \in Threads, ProcessRegister(c) PROVE CommandInv'
  BY <1>5 DEF ProcessRegister, Register, Registered, Free
<1>6. ASSUME NEW c \in Threads, ProcessUnknown(c) PROVE CommandInv'
  BY <1>6 DEF ProcessUnknown
<1>7. ASSUME NEW c \in Threads, ProcessLogin(c) PROVE CommandInv'
  BY <1>7 DEF ProcessLogin, CredentialsOK, Registered, WriteIsLoggedIn, Free, Refuse, LoginOf
<1>8. ASSUME NEW c \in Threads, ProcessLogout(c) PROVE CommandInv'
  BY <1>8 DEF ProcessLogout, LoggedIn, Registered, WriteIsLoggedIn, Free, Refuse
<1>9. ASSUME NEW c \in Threads, BeginIP(c) PROVE CommandInv'
  BY <1>9 DEF BeginIP, BeginWriteIP
<1>10. ASSUME NEW c \in Threads, EndIP(c) PROVE CommandInv'
  BY <1>10 DEF EndIP, EndWriteIP
<1>11. ASSUME NEW c \in Threads, SetPort(c) PROVE CommandInv'
  BY <1>11 DEF SetPort, WritePort
<1>12. ASSUME NEW c \in Threads, GetInfoFind(c) PROVE CommandInv'
  BY <1>12 DEF GetInfoFind, Free, findUser, LoggedIn, Registered
<1>13. ASSUME NEW c \in Threads, GetInfoTest(c) PROVE CommandInv'
  BY <1>13 DEF GetInfoTest
<1>14. ASSUME NEW c \in Threads, NEW f \in {"ipAddress", "port"}, GetInfoRead(c, f) PROVE CommandInv'
  BY <1>14 DEF GetInfoRead
<1>15. CASE UNCHANGED vars
  BY <1>15
<1> HIDE DEF vars, locals, userVars, Goto, Decide, Calls, TypeOK, UserTypeOK, CommandInv, WriterInv, InFlight
<1>16. QED
  BY <1>1, <1>2, <1>3, <1>4, <1>5, <1>6, <1>7, <1>8, <1>9, <1>10, <1>11, <1>12, <1>13, <1>14, <1>15 DEF Next, Serve, GetInfo

(* The lock_guard's scope.                                                 *)
LEMMA OwnerStep ==
  ASSUME TypeOK, OwnerInv, [Next]_vars
  PROVE  OwnerInv'
<1> USE UserManagerAssumption, ConnectionAssumption
        DEF vars, locals, userVars, Goto, Decide, Calls, TypeOK, UserTypeOK, OwnerInv, InFlight, ConnectionPC
<1>1. ASSUME NEW c \in Threads, Connect(c) PROVE OwnerInv'
  BY <1>1 DEF Connect
<1>2. ASSUME NEW c \in Threads, NEW k \in Commands, Receive(c, k) PROVE OwnerInv'
  BY <1>2 DEF Receive
<1>3. ASSUME NEW c \in Threads, Disconnect(c) PROVE OwnerInv'
  BY <1>3 DEF Disconnect
<1>4. ASSUME NEW c \in Threads, Send(c) PROVE OwnerInv'
  BY <1>4 DEF Send, Answer
<1>5. ASSUME NEW c \in Threads, ProcessRegister(c) PROVE OwnerInv'
  BY <1>5 DEF ProcessRegister, Register, Registered, Free
<1>6. ASSUME NEW c \in Threads, ProcessUnknown(c) PROVE OwnerInv'
  BY <1>6 DEF ProcessUnknown
<1>7. ASSUME NEW c \in Threads, ProcessLogin(c) PROVE OwnerInv'
  BY <1>7 DEF ProcessLogin, CredentialsOK, Registered, WriteIsLoggedIn, Free, Refuse, LoginOf
<1>8. ASSUME NEW c \in Threads, ProcessLogout(c) PROVE OwnerInv'
  BY <1>8 DEF ProcessLogout, LoggedIn, Registered, WriteIsLoggedIn, Free, Refuse
<1>9. ASSUME NEW c \in Threads, BeginIP(c) PROVE OwnerInv'
  BY <1>9 DEF BeginIP, BeginWriteIP
<1>10. ASSUME NEW c \in Threads, EndIP(c) PROVE OwnerInv'
  BY <1>10 DEF EndIP, EndWriteIP
<1>11. ASSUME NEW c \in Threads, SetPort(c) PROVE OwnerInv'
  BY <1>11 DEF SetPort, WritePort
<1>12. ASSUME NEW c \in Threads, GetInfoFind(c) PROVE OwnerInv'
  BY <1>12 DEF GetInfoFind, Free, findUser, LoggedIn, Registered
<1>13. ASSUME NEW c \in Threads, GetInfoTest(c) PROVE OwnerInv'
  BY <1>13 DEF GetInfoTest
<1>14. ASSUME NEW c \in Threads, NEW f \in {"ipAddress", "port"}, GetInfoRead(c, f) PROVE OwnerInv'
  BY <1>14 DEF GetInfoRead
<1>15. CASE UNCHANGED vars
  BY <1>15
<1> HIDE DEF vars, locals, userVars, Goto, Decide, Calls, TypeOK, UserTypeOK, OwnerInv, InFlight, ConnectionPC
<1>16. QED
  BY <1>1, <1>2, <1>3, <1>4, <1>5, <1>6, <1>7, <1>8, <1>9, <1>10, <1>11, <1>12, <1>13, <1>14, <1>15 DEF Next, Serve, GetInfo

(* Only the owner of userMutex_ writes to a record.                        *)
LEMMA WriterStep ==
  ASSUME TypeOK, CommandInv, OwnerInv, WriterInv, [Next]_vars
  PROVE  WriterInv'
<1> USE UserManagerAssumption, ConnectionAssumption
        DEF vars, locals, userVars, Goto, Decide, Calls, TypeOK, UserTypeOK, CommandInv, OwnerInv,
            WriterInv, InFlight, User, LoginOf, ConnectionPC
<1>1. ASSUME NEW c \in Threads, Connect(c) PROVE WriterInv'
  BY <1>1 DEF Connect
<1>2. ASSUME NEW c \in Threads, NEW k \in Commands, Receive(c, k) PROVE WriterInv'
  BY <1>2 DEF Receive
<1>3. ASSUME NEW c \in Threads, Disconnect(c) PROVE WriterInv'
  BY <1>3 DEF Disconnect
<1>4. ASSUME NEW c \in Threads, Send(c) PROVE WriterInv'
  BY <1>4 DEF Send, Answer
<1>5. ASSUME NEW c \in Threads, ProcessRegister(c) PROVE WriterInv'
  BY <1>5 DEF ProcessRegister, Register, Registered, Free
<1>6. ASSUME NEW c \in Threads, ProcessUnknown(c) PROVE WriterInv'
  BY <1>6 DEF ProcessUnknown
<1>7. ASSUME NEW c \in Threads, ProcessLogin(c) PROVE WriterInv'
  BY <1>7 DEF ProcessLogin, CredentialsOK, Registered, WriteIsLoggedIn, Free, Refuse, LoginOf
<1>8. ASSUME NEW c \in Threads, ProcessLogout(c) PROVE WriterInv'
  BY <1>8 DEF ProcessLogout, LoggedIn, Registered, WriteIsLoggedIn, Free, Refuse
<1>9. ASSUME NEW c \in Threads, BeginIP(c) PROVE WriterInv'
  BY <1>9 DEF BeginIP, BeginWriteIP
<1>10. ASSUME NEW c \in Threads, EndIP(c) PROVE WriterInv'
  BY <1>10 DEF EndIP, EndWriteIP
<1>11. ASSUME NEW c \in Threads, SetPort(c) PROVE WriterInv'
  BY <1>11 DEF SetPort, WritePort
<1>12. ASSUME NEW c \in Threads, GetInfoFind(c) PROVE WriterInv'
  BY <1>12 DEF GetInfoFind, Free, findUser, LoggedIn, Registered
<1>13. ASSUME NEW c \in Threads, GetInfoTest(c) PROVE WriterInv'
  BY <1>13 DEF GetInfoTest
<1>14. ASSUME NEW c \in Threads, NEW f \in {"ipAddress", "port"}, GetInfoRead(c, f) PROVE WriterInv'
  BY <1>14 DEF GetInfoRead
<1>15. CASE UNCHANGED vars
  BY <1>15
<1> HIDE DEF vars, locals, userVars, Goto, Decide, Calls, TypeOK, UserTypeOK, CommandInv, OwnerInv,
             WriterInv, InFlight, User, LoginOf, ConnectionPC
<1>16. QED
  BY <1>1, <1>2, <1>3, <1>4, <1>5, <1>6, <1>7, <1>8, <1>9, <1>10, <1>11, <1>12, <1>13, <1>14, <1>15 DEF Next, Serve, GetInfo

(* The last write of a login or a logout completes the record.             *)
LEMMA WholeStep ==
  ASSUME TypeOK, CommandInv, OwnerInv, WriterInv, WholeInv, [Next]_vars
  PROVE  WholeInv'
<1> USE UserManagerAssumption, ConnectionAssumption
        DEF vars, locals, userVars, Goto, Decide, Calls, TypeOK, UserTypeOK, CommandInv, OwnerInv,
            WriterInv, WholeInv, Whole, InFlight, User, LoginOf, ConnectionPC
<1>1. ASSUME NEW c \in Threads, Connect(c) PROVE WholeInv'
  BY <1>1 DEF Connect
<1>2. ASSUME NEW c \in Threads, NEW k \in Commands, Receive(c, k) PROVE WholeInv'
  BY <1>2 DEF Receive
<1>3. ASSUME NEW c \in Threads, Disconnect(c) PROVE WholeInv'
  BY <1>3 DEF Disconnect
<1>4. ASSUME NEW c \in Threads, Send(c) PROVE WholeInv'
  BY <1>4 DEF Send, Answer
<1>5. ASSUME NEW c \in Threads, ProcessRegister(c) PROVE WholeInv'
  BY <1>5 DEF ProcessRegister, Register, Registered, Free
<1>6. ASSUME NEW c \in Threads, ProcessUnknown(c) PROVE WholeInv'
  BY <1>6 DEF ProcessUnknown
<1>7. ASSUME NEW c \in Threads, ProcessLogin(c) PROVE WholeInv'
  BY <1>7 DEF ProcessLogin, CredentialsOK, Registered, WriteIsLoggedIn, Free, Refuse, LoginOf
<1>8. ASSUME NEW c \in Threads, ProcessLogout(c) PROVE WholeInv'
  BY <1>8 DEF ProcessLogout, LoggedIn, Registered, WriteIsLoggedIn, Free, Refuse
<1>9. ASSUME NEW c \in Threads, BeginIP(c) PROVE WholeInv'
  BY <1>9 DEF BeginIP, BeginWriteIP
<1>10. ASSUME NEW c \in Threads, EndIP(c) PROVE WholeInv'
  BY <1>10 DEF EndIP, EndWriteIP
<1>11. ASSUME NEW c \in Threads, SetPort(c) PROVE WholeInv'
  <2> DEFINE k == cmd[c]
  <2>1. /\ k.name \in DOMAIN userDatabase
        /\ userDatabase' = [userDatabase EXCEPT ![k.name].port =
                               (IF k.op = "LOGIN" THEN k.port ELSE 0) % PortWidth]
        /\ published' = published /\ cmd' = cmd /\ pc' = [pc EXCEPT ![c] = "reply"]
    BY <1>11 DEF SetPort, WritePort
  <2>2. Whole(k.name)'
    <3> DEFINE u == userDatabase[k.name]
               v == userDatabase'[k.name]
               p == (IF k.op = "LOGIN" THEN k.port ELSE 0) % PortWidth
    <3>1. u \in User /\ v.isLoggedIn = u.isLoggedIn /\ v.ipAddress = u.ipAddress /\ v.port = p
      BY <2>1
    <3>2. /\ u.isLoggedIn <=> k.op = "LOGIN"
          /\ k.op = "LOGIN" => <<k.name, ClientIP[c], k.port % PortWidth>> \in published
          /\ u.ipAddress = IF k.op = "LOGIN" THEN ClientIP[c] ELSE NoIP
      BY <1>11 DEF SetPort
    <3>3. p = IF k.op = "LOGIN" THEN k.port % PortWidth ELSE 0
      BY PortTypes
    <3>4. CASE k.op = "LOGIN"
      BY <2>1, <3>1, <3>2, <3>3, <3>4
    <3>5. CASE k.op # "LOGIN"
      BY <2>1, <3>1, <3>2, <3>3, <3>5
    <3>6. QED
      BY <3>4, <3>5
  <2>3. ASSUME NEW n \in DOMAIN userDatabase, n # k.name,
               \A d \in Threads : InFlight(d)' => cmd[d].name # n
        PROVE  Whole(n)'
    BY <2>1, <2>3
  <2>4. QED
    BY <2>1, <2>2, <2>3
<1>12. ASSUME NEW c \in Threads, GetInfoFind(c) PROVE WholeInv'
  BY <1>12 DEF GetInfoFind, Free, findUser, LoggedIn, Registered
<1>13. ASSUME NEW c \in Threads, GetInfoTest(c) PROVE WholeInv'
  BY <1>13 DEF GetInfoTest
<1>14. ASSUME NEW c \in Threads, NEW f \in {"ipAddress", "port"}, GetInfoRead(c, f) PROVE WholeInv'
  BY <1>14 DEF GetInfoRead
<1>15. CASE UNCHANGED vars
  BY <1>15
<1> HIDE DEF vars, locals, userVars, Goto, Decide, Calls, TypeOK, UserTypeOK, CommandInv, OwnerInv,
             WriterInv, WholeInv, Whole, InFlight, User, LoginOf, ConnectionPC
<1>16. QED
  BY <1>1, <1>2, <1>3, <1>4, <1>5, <1>6, <1>7, <1>8, <1>9, <1>10, <1>11, <1>12, <1>13, <1>14, <1>15 DEF Next, Serve, GetInfo

-----------------------------------------------------------------------------
(* The invariant is inductive ...                                          *)
LEMMA InductiveIInv == IInv /\ [Next]_vars => IInv'
  BY TypeStep, CommandStep, OwnerStep, WriterStep, WholeStep DEF IInv

(* ... and so holds in every reachable state.                              *)
THEOREM Invariance == Spec => []IInv
  BY InitIInv, InductiveIInv, PTL DEF Spec

(* Every variable of the connections and of the user database has its type.*)
THEOREM TypeCorrect == Spec => []TypeOK
<1>1. IInv => TypeOK
  BY DEF IInv
<1>2. QED
  BY <1>1, Invariance, PTL

(* While userMutex_ is free, a user logged in has exactly an address that  *)
(* one LOGIN brought, and one logged out has none.                         *)
THEOREM RecordsAreWhole == Spec => []RecordsWhole
<1>1. IInv => RecordsWhole
  BY UserManagerAssumption DEF IInv, OwnerInv, WholeInv, Whole, RecordsWhole, Free
<1>2. QED
  BY <1>1, Invariance, PTL

(* No step removes an account or changes its password, and the pointers    *)
(* findUser() gave out keep leading to records.                            *)
THEOREM AccountsAreForEver == Spec => AccountsLast
<1> DEFINE Kept == \A n \in DOMAIN userDatabase :
                     /\ n \in DOMAIN userDatabase'
                     /\ userDatabase'[n].passwordHash = userDatabase[n].passwordHash
           Valid == \A c \in Threads : user'[c] # NullUser => user'[c] \in DOMAIN userDatabase'
<1>1. ASSUME IInv, [Next]_vars PROVE Kept
  <2> USE <1>1 DEF IInv, TypeOK, UserTypeOK
  <2>1. ASSUME NEW c \in Threads, ProcessRegister(c) PROVE Kept
    BY <2>1 DEF ProcessRegister, Register, Registered
  <2>2. ASSUME NEW c \in Threads, ProcessLogin(c) \/ ProcessLogout(c) PROVE Kept
    BY <2>2 DEF ProcessLogin, ProcessLogout, WriteIsLoggedIn, Refuse, userVars, User
  <2>3. ASSUME NEW c \in Threads, BeginIP(c) \/ EndIP(c) \/ SetPort(c) PROVE Kept
    BY <2>3 DEF BeginIP, EndIP, SetPort, BeginWriteIP, EndWriteIP, WritePort, User
  <2>4. ASSUME NEW c \in Threads,
               \/ Connect(c) \/ Disconnect(c) \/ Send(c) \/ ProcessUnknown(c)
               \/ GetInfo(c)
               \/ \E k \in Commands : Receive(c, k)
        PROVE  Kept
    <3>1. userDatabase' = userDatabase
      BY <2>4 DEF Connect, Disconnect, Send, ProcessUnknown, GetInfo, GetInfoFind, GetInfoTest,
                  GetInfoRead, Receive, userVars
    <3>2. QED
      BY <3>1
  <2>5. CASE UNCHANGED vars
    BY <2>5 DEF vars, userVars
  <2>6. QED
    BY <1>1, <2>1, <2>2, <2>3, <2>4, <2>5 DEF Next, Serve
<1>2. ASSUME IInv' PROVE Valid
  BY <1>2 DEF IInv, CommandInv
<1>3. IInv /\ IInv' /\ [Next]_vars => [Kept /\ Valid]_vars
  BY <1>1, <1>2
<1>4. QED
  BY <1>3, Invariance, PTL DEF Spec, AccountsLast
-----------------------------------------------------------------------------
(* From receiveData() to sendData() a worker is busy with one command; what *)
(* it has decided of it, and the pointer of a GETINFO, is that command's.  *)
SessionInv ==
  \A c \in Threads :
    /\ pc[c] \in {"closed", "recv"} => cmd[c] = NoCommand
    /\ pc[c] \in {"flag", "fields"} => cmd[c].op = "GETINFO"
    /\ user[c] # NullUser => pc[c] \in {"flag", "fields", "reply"} /\ user[c] = cmd[c].name
    /\ pc[c] \notin {"fields", "reply"} => reply[c].status = "none"
    /\ pc[c] = "fields" => reply[c].status = "INFO"
    /\ pc[c] = "reply" => reply[c].status # "none"

(* What logins and logouts of a user write, torn strings included.         *)
OwnIPs(n) == {a[2] : a \in {b \in published : b[1] = n}} \cup {NoIP, TornIP}
OwnPorts(n) == {a[3] : a \in {b \in published : b[1] = n}} \cup {0}

(* Records and what was read of them hold nothing else.                    *)
OwnInv ==
  /\ \A n \in DOMAIN userDatabase : /\ userDatabase[n].ipAddress \in OwnIPs(n)
                                    /\ userDatabase[n].port \in OwnPorts(n)
  /\ \A c \in Threads : reply[c].status = "INFO" => /\ reply[c].ip \in OwnIPs(cmd[c].name)
                                                    /\ reply[c].port \in OwnPorts(cmd[c].name)

(* Both hold initially ...                                                 *)
LEMMA SessionInit == Init => SessionInv /\ OwnInv
  BY DEF Init, UserInit, SessionInv, OwnInv, Answer

(* ... a worker stays with its command until it has replied ...            *)
LEMMA SessionStep == IInv /\ SessionInv /\ [Next]_vars => SessionInv'
<1> SUFFICES ASSUME IInv, SessionInv, [Next]_vars PROVE SessionInv'
  OBVIOUS
<1> USE ConnectionAssumption, UserManagerAssumption
    DEF IInv, TypeOK, CommandInv, SessionInv, Goto, Decide, Answer, Calls
<1>1. ASSUME NEW c \in Threads, Connect(c) PROVE SessionInv'
  BY <1>1 DEF Connect
<1>2. ASSUME NEW c \in Threads, NEW k \in Commands, Receive(c, k) PROVE SessionInv'
  BY <1>2 DEF Receive
<1>3. ASSUME NEW c \in Threads, Disconnect(c) PROVE SessionInv'
  BY <1>3 DEF Disconnect
<1>4. ASSUME NEW c \in Threads, Send(c) PROVE SessionInv'
  BY <1>4 DEF Send
<1>5. ASSUME NEW c \in Threads, ProcessRegister(c) PROVE SessionInv'
  BY <1>5 DEF ProcessRegister
<1>6. ASSUME NEW c \in Threads, ProcessUnknown(c) PROVE SessionInv'
  BY <1>6 DEF ProcessUnknown
<1>7. ASSUME NEW c \in Threads, ProcessLogin(c) PROVE SessionInv'
  <2>1. CASE pc'[c] = "ip" /\ pc' = [pc EXCEPT ![c] = "ip"] /\ reply' = reply
    BY <1>7, <2>1 DEF ProcessLogin
  <2>2. CASE Decide(c, "INVALID_CREDENTIALS")
    BY <1>7, <2>2 DEF ProcessLogin
  <2>3. QED
    BY <1>7, <2>1, <2>2 DEF ProcessLogin
<1>8. ASSUME NEW c \in Threads, ProcessLogout(c) PROVE SessionInv'
  <2>1. CASE pc'[c] = "ip" /\ pc' = [pc EXCEPT ![c] = "ip"] /\ reply' = reply
    BY <1>8, <2>1 DEF ProcessLogout
  <2>2. CASE Decide(c, "NOT_LOGGED_IN")
    BY <1>8, <2>2 DEF ProcessLogout
  <2>3. QED
    BY <1>8, <2>1, <2>2 DEF ProcessLogout
<1>9. ASSUME NEW c \in Threads, BeginIP(c) PROVE SessionInv'
  BY <1>9 DEF BeginIP
<1>10. ASSUME NEW c \in Threads, EndIP(c) PROVE SessionInv'
  BY <1>10 DEF EndIP
<1>11. ASSUME NEW c \in Threads, SetPort(c) PROVE SessionInv'
  BY <1>11 DEF SetPort, WriterInv, InFlight
<1>12. ASSUME NEW c \in Threads, GetInfoFind(c) PROVE SessionInv'
  BY <1>12 DEF GetInfoFind, findUser
<1>13. ASSUME NEW c \in Threads, GetInfoTest(c) PROVE SessionInv'
  BY <1>13 DEF GetInfoTest
<1>14. ASSUME NEW c \in Threads, NEW f \in {"ipAddress", "port"}, GetInfoRead(c, f) PROVE SessionInv'
  <2>1. reply'[c].status = reply[c].status /\ \A d \in Threads \ {c} : reply'[d] = reply[d]
    BY <1>14 DEF GetInfoRead, Reply
  <2>2. QED
    BY <1>14, <2>1 DEF GetInfoRead
<1>15. CASE UNCHANGED vars
  BY <1>15 DEF vars, locals
<1>16. QED
  BY <1>1, <1>2, <1>3, <1>4, <1>5, <1>6, <1>7, <1>8, <1>9, <1>10, <1>11, <1>12, <1>13, <1>14, <1>15 DEF Next, Serve, GetInfo

(* The history of logins only grows.                                       *)
LEMMA PublishedGrows == [Next]_vars => published \subseteq published'
  BY DEF Next, Serve, GetInfo, Connect, Receive, Disconnect, Send, ProcessRegister, ProcessUnknown,
         ProcessLogin, ProcessLogout, BeginIP, EndIP, SetPort, GetInfoFind, GetInfoTest, GetInfoRead, vars

(* A login brings an address of the user's own.                            *)
LEMMA OwnLogin ==
  ASSUME NEW n, NEW ip, NEW p, <<n, ip, p>> \in published
  PROVE  ip \in OwnIPs(n) /\ p \in OwnPorts(n)
<1> DEFINE a == <<n, ip, p>>
<1>1. a \in {b \in published : b[1] = n} /\ a[2] = ip /\ a[3] = p
  OBVIOUS
<1>2. QED
  BY <1>1 DEF OwnIPs, OwnPorts

(* ... and writes and reads a record of the user its command names.        *)
LEMMA OwnStep == IInv /\ SessionInv /\ OwnInv /\ [Next]_vars => OwnInv'
<1> SUFFICES ASSUME IInv, SessionInv, OwnInv, [Next]_vars PROVE OwnInv'
  OBVIOUS
<1> USE ConnectionAssumption, UserManagerAssumption
    DEF IInv, TypeOK, UserTypeOK, CommandInv, SessionInv, OwnInv, Goto, Decide, Answer, Calls
<1>1. \A n : OwnIPs(n) \subseteq OwnIPs(n)' /\ OwnPorts(n) \subseteq OwnPorts(n)'
  BY PublishedGrows DEF OwnIPs, OwnPorts
<1>2. \A n : NoIP \in OwnIPs(n)' /\ TornIP \in OwnIPs(n)' /\ 0 \in OwnPorts(n)'
  BY DEF OwnIPs, OwnPorts
<1>3. ASSUME NEW c \in Threads,
             \/ Connect(c) \/ Disconnect(c) \/ Send(c) \/ ProcessUnknown(c)
             \/ GetInfoFind(c) \/ GetInfoTest(c)
             \/ \E k \in Commands : Receive(c, k)
      PROVE  OwnInv'
  <2>1. userDatabase' = userDatabase
    BY <1>3 DEF Connect, Disconnect, Send, ProcessUnknown, GetInfoFind, GetInfoTest, Receive, userVars
  <2>2. ASSUME NEW d \in Threads, reply'[d].status = "INFO"
        PROVE  reply'[d] = Answer("INFO") \/ (reply'[d] = reply[d] /\ cmd'[d] = cmd[d])
    BY <1>3, <2>2 DEF Connect, Disconnect, Send, ProcessUnknown, GetInfoFind, GetInfoTest, Receive
  <2>3. QED
    BY <1>1, <1>2, <2>1, <2>2
<1>4. ASSUME NEW c \in Threads, ProcessRegister(c) \/ ProcessLogin(c) \/ ProcessLogout(c)
      PROVE  OwnInv'
  <2>1. \A n \in DOMAIN userDatabase' :
          \/ userDatabase'[n].ipAddress = NoIP /\ userDatabase'[n].port = 0
          \/ /\ n \in DOMAIN userDatabase
             /\ userDatabase'[n].ipAddress = userDatabase[n].ipAddress
             /\ userDatabase'[n].port = userDatabase[n].port
    BY <1>4 DEF ProcessRegister, ProcessLogin, ProcessLogout, Register, Registered, WriteIsLoggedIn,
                Refuse, userVars, User
  <2>2. cmd' = cmd /\ \A d \in Threads : reply'[d] = reply[d] \/ reply'[d].status # "INFO"
    <3>1. cmd' = cmd /\ (reply' = reply \/ \E a \in {"USER_EXISTS", "REGISTERED",
            "INVALID_CREDENTIALS", "NOT_LOGGED_IN"} : reply' = [reply EXCEPT ![c] = Answer(a)])
      BY <1>4 DEF ProcessRegister, ProcessLogin, ProcessLogout
    <3>2. QED
      BY <3>1
  <2>3. QED
    BY <1>1, <1>2, <2>1, <2>2
<1>5. ASSUME NEW c \in Threads, BeginIP(c) \/ EndIP(c) PROVE OwnInv'
  <2>1. cmd' = cmd /\ reply' = reply /\ published' = published
    BY <1>5 DEF BeginIP, EndIP
  <2>2. cmd[c].op = "LOGIN" => ClientIP[c] \in OwnIPs(cmd[c].name)
    <3>1. cmd[c].op = "LOGIN" => <<cmd[c].name, ClientIP[c], cmd[c].port % PortWidth>> \in published
      BY <1>5 DEF BeginIP, EndIP, WriterInv, InFlight, LoginOf
    <3>2. QED
      BY <3>1, OwnLogin
  <2>3. \E ip \in OwnIPs(cmd[c].name)' :
          userDatabase' = [userDatabase EXCEPT ![cmd[c].name].ipAddress = ip]
    BY <1>1, <1>2, <1>5, <2>2 DEF BeginIP, EndIP, BeginWriteIP, EndWriteIP
  <2>4. QED
    BY <1>1, <2>1, <2>3 DEF User
<1>6. ASSUME NEW c \in Threads, SetPort(c) PROVE OwnInv'
  <2>1. cmd' = cmd /\ \A d \in Threads : reply'[d] = reply[d] \/ reply'[d].status # "INFO"
    BY <1>6 DEF SetPort, WriterInv, InFlight
  <2>2. cmd[c].op = "LOGIN" => cmd[c].port % PortWidth \in OwnPorts(cmd[c].name)
    <3>1. cmd[c].op = "LOGIN" => <<cmd[c].name, ClientIP[c], cmd[c].port % PortWidth>> \in published
      BY <1>6 DEF SetPort, WriterInv, InFlight, LoginOf
    <3>2. QED
      BY <3>1, OwnLogin
  <2>3. \E p \in OwnPorts(cmd[c].name)' :
          userDatabase' = [userDatabase EXCEPT ![cmd[c].name].port = p]
    BY <1>1, <1>2, <1>6, <2>2, PortTypes DEF SetPort, WritePort
  <2>4. QED
    BY <1>1, <2>1, <2>3 DEF User
<1>7. ASSUME NEW c \in Threads, NEW f \in {"ipAddress", "port"}, GetInfoRead(c, f) PROVE OwnInv'
  <2>1. userDatabase' = userDatabase /\ cmd' = cmd
    BY <1>7 DEF GetInfoRead, userVars
  <2>2. user[c] = cmd[c].name /\ user[c] \in DOMAIN userDatabase
    BY <1>7 DEF GetInfoRead
  <2>3. ASSUME NEW d \in Threads, reply'[d].status = "INFO"
        PROVE  /\ reply'[d].ip \in OwnIPs(cmd[d].name)
               /\ reply'[d].port \in OwnPorts(cmd[d].name)
    BY <1>7, <2>2, <2>3 DEF GetInfoRead, Reply
  <2>4. QED
    BY <1>1, <2>1, <2>3
<1>8. CASE UNCHANGED vars
  BY <1>1, <1>8 DEF vars, locals, userVars
<1>9. QED
  BY <1>3, <1>4, <1>5, <1>6, <1>7, <1>8 DEF Next, Serve, GetInfo

(* Hence both hold in every reachable state.                               *)
LEMMA SessionInvariance == Spec => [](IInv /\ SessionInv /\ OwnInv)
  BY InitIInv, InductiveIInv, SessionInit, SessionStep, OwnStep, PTL DEF Spec

(* GETINFO is answered with what logins and logouts of the user it names   *)
(* wrote, whoever else logs in or out while it reads.                      *)
THEOREM InfoIsOwn == Spec => []InfoFromOwnLogins
<1>1. OwnInv => InfoFromOwnLogins
  BY DEF OwnInv, OwnIPs, OwnPorts, InfoFromOwnLogins
<1>2. QED
  BY <1>1, SessionInvariance, PTL

-----------------------------------------------------------------------------
(* A GETINFO that is not disturbed reads a record nobody writes to.        *)
Undisturbed(c) ==
  LET n == cmd[c].name
  IN /\ ~Busy(n) /\ userDatabase[n].isLoggedIn
     /\ "ipAddress" \notin unread[c] => reply[c].ip = userDatabase[n].ipAddress
     /\ "port" \notin unread[c] => reply[c].port = userDatabase[n].port
QuietInv == /\ \A c \in Threads \ disturbed : pc[c] = "fields" => Undisturbed(c)
            /\ UndisturbedInfoWasPublished

(* Only who has the lock writes to a record.                               *)
LEMMA Untouched ==
  ASSUME IInv, [Next]_vars, NEW n \in DOMAIN userDatabase, ~Busy(n), ~Busy(n)'
  PROVE  userDatabase'[n] = userDatabase[n]
<1> USE DEF IInv, TypeOK, UserTypeOK
<1>1. ASSUME NEW c \in Threads, ProcessRegister(c) PROVE userDatabase'[n] = userDatabase[n]
  BY <1>1 DEF ProcessRegister, Register, Registered
<1>2. ASSUME NEW c \in Threads, ProcessLogin(c) \/ ProcessLogout(c) PROVE userDatabase'[n] = userDatabase[n]
  <2>1. CASE userDatabase' = userDatabase
    BY <2>1
  <2>2. CASE userDatabase' # userDatabase
    <3>1. /\ pc' = [pc EXCEPT ![c] = "ip"] /\ cmd' = cmd
          /\ \E b \in BOOLEAN : userDatabase' = [userDatabase EXCEPT ![cmd[c].name].isLoggedIn = b]
      BY <1>2, <2>2 DEF ProcessLogin, ProcessLogout, WriteIsLoggedIn, Refuse, userVars, Goto
    <3>2. InFlight(c)'
      BY <3>1 DEF InFlight
    <3>3. cmd[c].name # n
      BY <3>1, <3>2 DEF Busy
    <3>4. QED
      BY <3>1, <3>3
  <2>3. QED
    BY <2>1, <2>2
<1>3. ASSUME NEW c \in Threads, BeginIP(c) \/ EndIP(c) \/ SetPort(c) PROVE userDatabase'[n] = userDatabase[n]
  <2>1. cmd[c].name # n
    BY <1>3 DEF BeginIP, EndIP, SetPort, InFlight, Busy
  <2>2. QED
    BY <1>3, <2>1 DEF BeginIP, EndIP, SetPort, BeginWriteIP, EndWriteIP, WritePort
<1>4. ASSUME NEW c \in Threads,
             \/ Connect(c) \/ Disconnect(c) \/ Send(c) \/ ProcessUnknown(c) \/ GetInfo(c)
             \/ \E k \in Commands : Receive(c, k)
      PROVE  userDatabase' = userDatabase
  BY <1>4 DEF Connect, Disconnect, Send, ProcessUnknown, GetInfo, GetInfoFind, GetInfoTest,
              GetInfoRead, Receive, userVars
<1>5. CASE UNCHANGED vars
  BY <1>5 DEF vars, userVars
<1>6. QED
  BY <1>1, <1>2, <1>3, <1>4, <1>5 DEF Next, Serve

(* What a step does to a thread that is reading or has read: nothing, or   *)
(* it is the thread's own.                                                 *)
LEMMA ReaderStep ==
  ASSUME IInv, SessionInv, [Next]_vars, NEW c \in Threads, pc'[c] \in {"fields", "reply"}
  PROVE  \/ /\ pc'[c] = pc[c] /\ cmd'[c] = cmd[c]
            /\ reply'[c] = reply[c] /\ unread'[c] = unread[c]
         \/ GetInfoTest(c)
         \/ \E field \in {"ipAddress", "port"} : GetInfoRead(c, field)
         \/ pc'[c] = "reply" /\ reply'[c].status # "INFO"
<1> USE DEF IInv, TypeOK, Goto, Decide, Answer
<1>1. ASSUME NEW d \in Threads \ {c},
             Connect(d) \/ (\E k \in Commands : Receive(d, k)) \/ Disconnect(d) \/ Serve(d)
      PROVE  /\ pc'[c] = pc[c] /\ cmd'[c] = cmd[c]
             /\ reply'[c] = reply[c] /\ unread'[c] = unread[c]
  <2>1. CASE Connect(d) \/ (\E k \in Commands : Receive(d, k)) \/ Disconnect(d) \/ Send(d)
    BY <2>1 DEF Connect, Receive, Disconnect, Send
  <2>2. CASE ProcessRegister(d) \/ ProcessUnknown(d) \/ ProcessLogin(d) \/ ProcessLogout(d)
    BY <2>2 DEF ProcessRegister, ProcessUnknown, ProcessLogin, ProcessLogout
  <2>3. CASE BeginIP(d) \/ EndIP(d) \/ SetPort(d)
    BY <2>3 DEF BeginIP, EndIP, SetPort
  <2>4. CASE GetInfo(d)
    BY <2>4 DEF GetInfo, GetInfoFind, GetInfoTest, GetInfoRead
  <2>5. QED
    BY <1>1, <2>1, <2>2, <2>3, <2>4 DEF Serve
<1>2. CASE Connect(c) \/ (\E k \in Commands : Receive(c, k)) \/ Disconnect(c) \/ Send(c)
           \/ BeginIP(c) \/ EndIP(c) \/ GetInfoFind(c)
  BY <1>2 DEF Connect, Receive, Disconnect, Send, BeginIP, EndIP, GetInfoFind
<1>3. CASE ProcessRegister(c) \/ ProcessUnknown(c) \/ ProcessLogin(c) \/ ProcessLogout(c)
  <2>1. pc'[c] = "ip" \/ \E status \in Status \ {"INFO"} :
                           pc'[c] = "reply" /\ reply'[c] = Answer(status)
    <3>1. CASE ProcessRegister(c) \/ ProcessUnknown(c)
      BY <3>1 DEF ProcessRegister, ProcessUnknown, Status
    <3>2. CASE ProcessLogin(c)
      BY <3>2 DEF ProcessLogin, Status
    <3>3. CASE ProcessLogout(c)
      BY <3>3 DEF ProcessLogout, Status
    <3>4. QED
      BY <1>3, <3>1, <3>2, <3>3
  <2>2. pc'[c] = "reply" /\ reply'[c].status # "INFO"
    <3>1. pc'[c] # "ip"
      OBVIOUS
    <3>2. PICK status \in Status \ {"INFO"} : pc'[c] = "reply" /\ reply'[c] = Answer(status)
      BY <2>1, <3>1
    <3>3. reply'[c].status = status
      BY <3>2
    <3>4. QED
      BY <3>2, <3>3
  <2>3. QED
    BY <2>2
<1>4. CASE SetPort(c)
  BY <1>4 DEF SetPort, WriterInv, InFlight
<1>5. CASE UNCHANGED vars
  BY <1>5 DEF vars, locals
<1>6. QED
  BY <1>1, <1>2, <1>3, <1>4, <1>5 DEF Next, Serve, GetInfo

LEMMA QuietStep ==
  ASSUME IInv, SessionInv, QuietInv, [QuietNext]_quietVars
  PROVE  QuietInv'
<1>1. CASE UNCHANGED quietVars
  BY <1>1 DEF quietVars, vars, locals, userVars, QuietInv, Undisturbed, Busy, InFlight,
              UndisturbedInfoWasPublished
<1>2. CASE QuietNext
  <2>1. [Next]_vars /\ Watch
    BY <1>2 DEF QuietNext
  <2> SUFFICES ASSUME NEW c \in Threads, c \notin disturbed'
               PROVE  /\ pc'[c] = "fields" => Undisturbed(c)'
                      /\ pc'[c] = "reply" /\ reply'[c].status = "INFO" =>
                           <<cmd'[c].name, reply'[c].ip, reply'[c].port>> \in published'
    BY DEF QuietInv, UndisturbedInfoWasPublished
  <2> DEFINE n == cmd[c].name
  <2>2. /\ pc'[c] = "fields" => ~Busy(cmd[c].name)'
        /\ pc'[c] \in {"fields", "reply"} => c \notin disturbed
    BY <2>1 DEF Watch
  <2>3. published \subseteq published'
    BY <2>1, PublishedGrows
  <2>4. pc[c] \in {"flag", "fields"} /\ user[c] # NullUser => user[c] = n /\ n \in DOMAIN userDatabase
    BY DEF IInv, CommandInv, SessionInv
  <2>5. pc[c] = "fields" => user[c] # NullUser
    BY DEF IInv, CommandInv
  <2>6. CASE /\ pc'[c] = pc[c] /\ cmd'[c] = cmd[c]
             /\ reply'[c] = reply[c] /\ unread'[c] = unread[c]
    <3>1. CASE pc[c] = "fields"
      <4>1. Undisturbed(c) /\ ~Busy(n)' /\ n \in DOMAIN userDatabase
        BY <2>2, <2>4, <2>5, <2>6, <3>1 DEF QuietInv, Busy
      <4>2. userDatabase'[n] = userDatabase[n]
        <5>1. ASSUME NEW k \in DOMAIN userDatabase, k = n
              PROVE  userDatabase'[k] = userDatabase[k]
          <6>1. ~Busy(k) /\ ~Busy(k)'
            BY <2>2, <2>6, <3>1, <4>1, <5>1 DEF Undisturbed, Busy
          <6>2. QED
            BY <2>1, <6>1, Untouched
        <5>2. QED
          BY <4>1, <5>1
      <4>3. QED
        BY <2>2, <2>6, <3>1, <4>1, <4>2 DEF Undisturbed
    <3>2. CASE pc[c] = "reply"
      BY <2>2, <2>3, <2>6, <3>2 DEF QuietInv, UndisturbedInfoWasPublished
    <3>3. QED
      BY <2>6, <3>1, <3>2
  <2>7. CASE GetInfoTest(c)
    <3>1. CASE user[c] # NullUser /\ userDatabase[user[c]].isLoggedIn
      <4>1. /\ pc[c] = "flag" /\ pc'[c] = "fields" /\ unread'[c] = {"ipAddress", "port"}
            /\ cmd' = cmd /\ userDatabase' = userDatabase
        BY <2>7, <3>1 DEF GetInfoTest, Goto, userVars, IInv, TypeOK
      <4>2. QED
        BY <2>2, <2>4, <3>1, <4>1 DEF Undisturbed
    <3>2. CASE ~(user[c] # NullUser /\ userDatabase[user[c]].isLoggedIn)
      BY <2>7, <3>2 DEF GetInfoTest, Decide, Goto, Answer, IInv, TypeOK
    <3>3. QED
      BY <3>1, <3>2
  <2>8. ASSUME NEW field \in {"ipAddress", "port"}, GetInfoRead(c, field)
        PROVE  /\ pc'[c] = "fields" => Undisturbed(c)'
               /\ pc'[c] = "reply" /\ reply'[c].status = "INFO" =>
                    <<cmd'[c].name, reply'[c].ip, reply'[c].port>> \in published'
    <3>1. /\ pc[c] = "fields" /\ pc'[c] \in {"fields", "reply"} /\ field \in unread[c]
          /\ unread'[c] = unread[c] \ {field} /\ (pc'[c] = "reply" => unread[c] = {field})
          /\ cmd' = cmd /\ userDatabase' = userDatabase
          /\ user[c] = n /\ n \in DOMAIN userDatabase
      BY <2>4, <2>5, <2>8 DEF GetInfoRead, Goto, userVars, IInv, TypeOK
    <3>2. Undisturbed(c)
      BY <2>2, <3>1 DEF QuietInv
    <3>3. /\ reply'[c].ip = IF field = "ipAddress" THEN userDatabase[n].ipAddress ELSE reply[c].ip
          /\ reply'[c].port = IF field = "port" THEN userDatabase[n].port ELSE reply[c].port
      BY <2>8, <3>1 DEF GetInfoRead, IInv, TypeOK, Reply
    <3>4. /\ "ipAddress" \notin unread'[c] => reply'[c].ip = userDatabase[n].ipAddress
          /\ "port" \notin unread'[c] => reply'[c].port = userDatabase[n].port
      BY <3>1, <3>2, <3>3 DEF Undisturbed
    <3>5. pc'[c] = "fields" => Undisturbed(c)'
      BY <2>2, <3>1, <3>2, <3>4 DEF Undisturbed
    <3>6. pc'[c] = "reply" => <<n, reply'[c].ip, reply'[c].port>> \in published
      <4>1. pc'[c] = "reply" => unread'[c] = {}
        BY <3>1
      <4>2. <<n, userDatabase[n].ipAddress, userDatabase[n].port>> \in published
        BY <3>1, <3>2 DEF Undisturbed, Busy, IInv, WholeInv, Whole
      <4>3. QED
        BY <3>4, <4>1, <4>2
    <3>7. QED
      BY <2>3, <3>1, <3>5, <3>6
  <2>9. CASE pc'[c] \notin {"fields", "reply"} \/ (pc'[c] = "reply" /\ reply'[c].status # "INFO")
    BY <2>9
  <2>10. QED
    BY <2>1, <2>6, <2>7, <2>8, <2>9, ReaderStep
<1>3. QED
  BY <1>1, <1>2

(* A GETINFO during whose read nobody logs the same user in or out is      *)
(* answered with the address of one login of that user, whatever happened  *)
(* since findUser() released the lock.                                     *)
THEOREM UndisturbedInfoIsExact == QuietSpec => []UndisturbedInfoWasPublished
<1>1. QuietSpec => Spec
  <2>1. [QuietNext]_quietVars => [Next]_vars
    BY DEF QuietNext, quietVars
  <2>2. QED
    BY <2>1, PTL DEF QuietSpec, QuietInit, Spec
<1>2. QuietInit => QuietInv
  BY DEF QuietInit, Init, QuietInv, UndisturbedInfoWasPublished
<1>3. QuietInv => UndisturbedInfoWasPublished
  BY DEF QuietInv
<1>4. QED
  BY <1>1, <1>2, <1>3, QuietStep, SessionInvariance, PTL DEF QuietSpec
=============================================================================
