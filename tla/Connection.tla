----------------------------- MODULE Connection -----------------------------
(***************************************************************************)
(* Connection.cpp: worker threads that each serve one connection: receive  *)
(* a command, call the UserManager, send the reply.  GETINFO goes on using *)
(* the pointer findUser() returned after the mutex is released.            *)
(***************************************************************************)
EXTENDS UserManager

CONSTANTS Commands,  \* what a client may send: see Command
          NoCommand, \* between two commands
          ClientIP   \* inet_ntoa(clientAddr_.sin_addr) of each connection

(* The words of a command that processData() reads; port is what atoi()    *)
(* makes of the fifth.                                                     *)
Command == [op: {"REGISTER", "LOGIN", "LOGOUT", "GETINFO", "UNKNOWN"},
            name: Names, password: Passwords, port: Int]

ASSUME ConnectionAssumption ==
  /\ Commands \subseteq Command
  /\ NoCommand \notin Commands
  /\ ClientIP \in [Threads -> IPs]

VARIABLES pc,        \* where each worker is in handleClient()
          cmd,       \* the command it processes, or NoCommand
          user,      \* GETINFO's local pointer `user`
          unread,    \* GETINFO: the fields of *user still to be read
          reply,     \* the reply under construction
          published  \* history: <<name, ip, port>> of every successful LOGIN

locals == <<pc, cmd, user, unread, reply>>
vars == <<userVars, locals, published>>

ConnectionPC == {"closed",  \* no client: the worker runs no Connection
                 "recv",    \* blocked in receiveData()
                 "call",    \* in processData(), at a lock of userMutex_
                 "ip", "torn", "port", \* in loginUser/logoutUser, before the
                            \* assignment of ipAddress, inside it, after it
                 "flag",    \* GETINFO: at user && user->isLoggedIn
                 "fields",  \* GETINFO: reads the address into the response
                 "reply"}   \* at sendData()

Status == {"none", "REGISTERED", "USER_EXISTS", "LOGIN", "INVALID_CREDENTIALS",
           "LOGOUT", "NOT_LOGGED_IN", "INFO", "USER_NOT_FOUND", "UNKNOWN_COMMAND"}
Answer(status) == [status |-> status, ip |-> NoIP, port |-> 0]
Reply == [status: Status, ip: IPs \cup {NoIP, TornIP}, port: Port]

Init == /\ UserInit
        /\ pc = [c \in Threads |-> "closed"]
        /\ cmd = [c \in Threads |-> NoCommand]
        /\ user = [c \in Threads |-> NullUser]
        /\ unread = [c \in Threads |-> {}]
        /\ reply = [c \in Threads |-> Answer("none")]
        /\ published = {}

(* What a LOGIN of connection c makes known of its client. *)
Address(c, k) == <<ClientIP[c], k.port % PortWidth>>
LoginOf(c, k) == <<k.name, ClientIP[c], k.port % PortWidth>>

Goto(c, l) == pc' = [pc EXCEPT ![c] = l]
Decide(c, status) == reply' = [reply EXCEPT ![c] = Answer(status)] /\ Goto(c, "reply")

-----------------------------------------------------------------------------
(* handleClient(): accept a client, receive, and leave when it is gone.    *)

Connect(c) ==
  /\ pc[c] = "closed"
  /\ Goto(c, "recv")
  /\ UNCHANGED <<userVars, cmd, user, unread, reply, published>>

Receive(c, k) ==
  /\ pc[c] = "recv"
  /\ cmd' = [cmd EXCEPT ![c] = k]
  /\ Goto(c, "call")
  /\ UNCHANGED <<userVars, user, unread, reply, published>>

(* recv() returns 0 or -1: the socket is closed; the user stays logged in. *)
Disconnect(c) ==
  /\ pc[c] = "recv"
  /\ Goto(c, "closed")
  /\ UNCHANGED <<userVars, cmd, user, unread, reply, published>>

(* sendData(), and the local variables of processData() end.               *)
Send(c) ==
  /\ pc[c] = "reply"
  /\ Goto(c, "recv")
  /\ cmd' = [cmd EXCEPT ![c] = NoCommand]
  /\ user' = [user EXCEPT ![c] = NullUser]
  /\ reply' = [reply EXCEPT ![c] = Answer("none")]
  /\ UNCHANGED <<userVars, unread, published>>

-----------------------------------------------------------------------------
(* processData(): the commands that update the database.                   *)

InFlight(c) == pc[c] \in {"ip", "torn", "port"}
Calls(c, op) == pc[c] = "call" /\ cmd[c].op = op

ProcessRegister(c) ==
  /\ Calls(c, "REGISTER")
  /\ Register(cmd[c].name, cmd[c].password)
  /\ Decide(c, IF Registered(cmd[c].name) THEN "USER_EXISTS" ELSE "REGISTERED")
  /\ UNCHANGED <<cmd, user, unread, published>>

ProcessUnknown(c) ==
  /\ Calls(c, "UNKNOWN")
  /\ Decide(c, "UNKNOWN_COMMAND")
  /\ UNCHANGED <<userVars, cmd, user, unread, published>>

ProcessLogin(c) ==
  /\ Calls(c, "LOGIN")
  /\ IF CredentialsOK(cmd[c].name, cmd[c].password)
     THEN /\ WriteIsLoggedIn(c, cmd[c].name, TRUE)
          /\ Goto(c, "ip")
          /\ published' = published \cup {LoginOf(c, cmd[c])}
          /\ UNCHANGED reply
     ELSE /\ Refuse
          /\ Decide(c, "INVALID_CREDENTIALS")
          /\ UNCHANGED published
  /\ UNCHANGED <<cmd, user, unread>>

ProcessLogout(c) ==
  /\ Calls(c, "LOGOUT")
  /\ IF LoggedIn(cmd[c].name)
     THEN /\ WriteIsLoggedIn(c, cmd[c].name, FALSE)
          /\ Goto(c, "ip")
          /\ UNCHANGED reply
     ELSE Refuse /\ Decide(c, "NOT_LOGGED_IN")
  /\ UNCHANGED <<cmd, user, unread, published>>

BeginIP(c) ==
  /\ pc[c] = "ip"
  /\ BeginWriteIP(cmd[c].name)
  /\ Goto(c, "torn")
  /\ UNCHANGED <<cmd, user, unread, reply, published>>

EndIP(c) ==
  /\ pc[c] = "torn"
  /\ EndWriteIP(cmd[c].name, IF cmd[c].op = "LOGIN" THEN ClientIP[c] ELSE NoIP)
  /\ Goto(c, "port")
  /\ UNCHANGED <<cmd, user, unread, reply, published>>

SetPort(c) ==
  /\ pc[c] = "port"
  /\ WritePort(cmd[c].name, IF cmd[c].op = "LOGIN" THEN cmd[c].port ELSE 0)
  /\ Decide(c, cmd[c].op)
  /\ UNCHANGED <<cmd, user, unread, published>>

-----------------------------------------------------------------------------
(* processData(): GETINFO.  Past findUser() it holds no lock.              *)

GetInfoFind(c) ==
  /\ Calls(c, "GETINFO")
  /\ Free
  /\ user' = [user EXCEPT ![c] = findUser(cmd[c].name)]
  /\ Goto(c, "flag")
  /\ UNCHANGED <<userVars, cmd, unread, reply, published>>

(* Mutant: the test of user->isLoggedIn is left out.                       *)
GetInfoTestPointer(c) ==
  /\ pc[c] = "flag"
  /\ IF user[c] # NullUser
     THEN /\ Goto(c, "fields")
          /\ unread' = [unread EXCEPT ![c] = {"ipAddress", "port"}]
          /\ reply' = [reply EXCEPT ![c] = Answer("INFO")]
     ELSE Decide(c, "USER_NOT_FOUND") /\ UNCHANGED unread
  /\ UNCHANGED <<userVars, cmd, user, published>>

GetInfoTest(c) ==
  /\ pc[c] = "flag"
  /\ IF user[c] # NullUser /\ userDatabase[user[c]].isLoggedIn
     THEN /\ Goto(c, "fields")
          /\ unread' = [unread EXCEPT ![c] = {"ipAddress", "port"}]
          /\ reply' = [reply EXCEPT ![c] = Answer("INFO")]
     ELSE Decide(c, "USER_NOT_FOUND") /\ UNCHANGED unread
  /\ UNCHANGED <<userVars, cmd, user, published>>

(* The operands of + are evaluated in an order C++ leaves open.            *)
GetInfoRead(c, field) ==
  /\ pc[c] = "fields"
  /\ field \in unread[c]
  /\ reply' = IF field = "port"
              THEN [reply EXCEPT ![c].port = userDatabase[user[c]].port]
              ELSE [reply EXCEPT ![c].ip = userDatabase[user[c]].ipAddress]
  /\ unread' = [unread EXCEPT ![c] = @ \ {field}]
  /\ Goto(c, IF unread[c] = {field} THEN "reply" ELSE "fields")
  /\ UNCHANGED <<userVars, cmd, user, published>>

-----------------------------------------------------------------------------
GetInfo(c) == \/ GetInfoFind(c)
              \/ GetInfoTest(c)
              \/ \E field \in {"ipAddress", "port"} : GetInfoRead(c, field)

Serve(c) == \/ ProcessRegister(c)
            \/ ProcessUnknown(c)
            \/ ProcessLogin(c)
            \/ ProcessLogout(c)
            \/ BeginIP(c)
            \/ EndIP(c)
            \/ SetPort(c)
            \/ GetInfo(c)
            \/ Send(c)

Next == \E c \in Threads :
          \/ Connect(c)
          \/ \E k \in Commands : Receive(c, k)
          \/ Disconnect(c)
          \/ Serve(c)

Spec == Init /\ [][Next]_vars

(* A worker that has received a command goes on with it; nothing is        *)
(* assumed of clients sending, nor of the order userMutex_ is granted in.  *)
FairSpec == Spec /\ \A c \in Threads : WF_vars(Serve(c))

-----------------------------------------------------------------------------
(* Every variable has its type.                                            *)
TypeOK == /\ UserTypeOK
          /\ pc \in [Threads -> ConnectionPC]
          /\ cmd \in [Threads -> Commands \cup {NoCommand}]
          /\ user \in [Threads -> Names \cup {NullUser}]
          /\ unread \in [Threads -> SUBSET {"ipAddress", "port"}]
          /\ reply \in [Threads -> Reply]
          /\ published \subseteq Names \X IPs \X Port

(* Whenever userMutex_ is free every record is whole: a user logged in has *)
(* an address some LOGIN of that user brought, IP and port together, and   *)
(* a user logged out has none.                                             *)
RecordsWhole ==
  Free => \A n \in DOMAIN userDatabase :
            LET u == userDatabase[n]
            IN IF u.isLoggedIn THEN <<n, u.ipAddress, u.port>> \in published
                               ELSE u.ipAddress = NoIP /\ u.port = 0

(* GETINFO reads the record without the lock and may be answered with a    *)
(* mixture, but only of what this user's own logins and logouts wrote: its *)
(* pointer never leads to the record of another user.                      *)
InfoFromOwnLogins ==
  \A c \in Threads :
    pc[c] = "reply" /\ reply[c].status = "INFO" =>
       LET own == {a \in published : a[1] = cmd[c].name}
       IN /\ reply[c].ip \in {a[2] : a \in own} \cup {NoIP, TornIP}
          /\ reply[c].port \in {a[3] : a \in own} \cup {0}

(* An account is for ever, and with it the password it was registered with *)
(* - there is no command to change one - and the pointers findUser() gave  *)
(* out: they point to records that exist.                                  *)
AccountsLast ==
  [][/\ \A n \in DOMAIN userDatabase :
          /\ n \in DOMAIN userDatabase'
          /\ userDatabase'[n].passwordHash = userDatabase[n].passwordHash
     /\ \A c \in Threads : user'[c] # NullUser => user'[c] \in DOMAIN userDatabase']_vars

(* The commands are atomic although their writes are not: a login or a     *)
(* logout takes effect with its first write, the address on line being the *)
(* one it is about to write; a GETINFO of nobody when findUser() returns   *)
(* nullptr, any other when it reads isLoggedIn.                            *)
Final(n) ==
  LET writers == {c \in Threads : InFlight(c) /\ cmd[c].name = n}
      u == userDatabase[n]
  IN IF writers = {} THEN <<u.ipAddress, u.port>>
     ELSE LET c == CHOOSE d \in writers : TRUE
          IN Address(c, cmd[c])
Directory == INSTANCE UserDirectory WITH
               Callers <- Threads,
               accounts <- [n \in DOMAIN userDatabase |-> userDatabase[n].passwordHash[2]],
               online <- [n \in getActiveUsers |-> Final(n)],
               request <- cmd,
               answer <- [c \in Threads |->
                            IF InFlight(c) THEN cmd[c].op
                            ELSE IF pc[c] = "flag" /\ user[c] = NullUser THEN "USER_NOT_FOUND"
                            ELSE reply[c].status]
ImplementsUserDirectory == Directory!Spec

(* However many threads contend for userMutex_, a command that was         *)
(* received leads to a reply, to that client or to another: no thread keeps*)
(* the mutex.                                                              *)
SomeoneIsAnswered ==
  (\E c \in Threads : pc[c] \notin {"closed", "recv"}) ~> (\E c \in Threads : pc[c] = "reply")

(* The comment on userMutex_: it protects access to userDatabase_.         *)
(* Refuted: GETINFO may answer with an address nobody logged in with, put  *)
(* together from two logins or read during or after a logout.              *)
InfoWasPublished ==
  \A c \in Threads :
    pc[c] = "reply" /\ reply[c].status = "INFO" =>
       <<cmd[c].name, reply[c].ip, reply[c].port>> \in published
=============================================================================
