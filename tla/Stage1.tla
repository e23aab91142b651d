------------------------------- MODULE Stage1 -------------------------------
(***************************************************************************)
(* The first version of the program, archive/stage1: a server that serves  *)
(* one client, prompts it for everything and keeps the accounts in a file, *)
(* and the two clients that were written for it.  Both sides write lines   *)
(* and read chunks: a read() returns whatever lines have arrived, and the  *)
(* server uses the first line of a chunk and drops the others.             *)
(***************************************************************************)
EXTENDS UserFile

CONSTANTS LoginText, RegisterText, LogoutText, \* "Login", "Register", "Logout"
          Orders,      \* what a user types who is not asked for a name or password
          Answers,     \* what a user types who is
          Shipped,     \* the account in the UserDB of the repository: <<name, password>>
          MaxAhead,    \* bound: lines under way when one is typed, and it
          MaxAccounts  \* bound: accounts a user tries to register

ASSUME Stage1Assumption ==
  /\ {LoginText, RegisterText, LogoutText} \subseteq Text
  /\ Orders \subseteq Text /\ Answers \subseteq Text
  /\ Shipped \in Text \X Text
  /\ MaxAhead \in Nat /\ MaxAccounts \in Nat

VARIABLES file,           \* ./UserDB, which outlives the server's process
          spc,            \* where the server is
          op,             \* Login or Register, while it asks for name and password
          username, password, clientLoggedIn,
          cpc,            \* where the client is
          kind,           \* which client it is
          shown,          \* the last line it has printed
          toServer,       \* lines under way
          toClient,       \* lines under way
          registered      \* history: <<name, password>> of "Register Successfully!", and Shipped

serverVars == <<spc, op, username, password, clientLoggedIn>>
clientVars == <<cpc, kind, shown>>
wireVars == <<toServer, toClient>>
vars == <<file, serverVars, clientVars, wireVars, registered>>

Prompts == {"WELCOME", "USERNAME", "PASSWORD"}
Replies == {"DONE", "REFUSED"}

(* The server's process ends: its memory and what was under way are lost.  *)
Crash == /\ spc' = "down" /\ op' = <<>>
         /\ username' = <<>> /\ password' = <<>> /\ clientLoggedIn' = FALSE
         /\ toServer' = <<>> /\ toClient' = <<>>
         /\ UNCHANGED <<file, clientVars, registered>>

(* The server starts in a directory of its own or in the repository's.     *)
Init == /\ \/ file = <<>> /\ registered = {}
           \/ file = <<AccountLine(Shipped[1], Shipped[2])>> /\ registered = {Shipped}
        /\ spc = "accept" /\ op = <<>>
        /\ username = <<>> /\ password = <<>> /\ clientLoggedIn = FALSE
        /\ cpc = "away" /\ kind = "alternating" /\ shown = "NOTHING"
        /\ toServer = <<>> /\ toClient = <<>>

-----------------------------------------------------------------------------
(* The server.                                                             *)

acceptConnections == /\ spc = "accept" /\ cpc # "away"
                     /\ spc' = "welcome"
                     /\ UNCHANGED <<file, op, username, password, clientLoggedIn,
                                    clientVars, wireVars, registered>>

Serves(from, to) == spc = from /\ spc' = to
Write(line) == toClient' = Append(toClient, line)

(* read() returns the n first lines that have arrived, and the server goes *)
(* on with the first of them.                                              *)
readFromClient(n) == n \in 1 .. Len(toServer) /\ toServer' = SubSeq(toServer, n+1, Len(toServer))
Message == Head(toServer)

Welcome == /\ Serves("welcome", "command")
           /\ Write("WELCOME")
           /\ UNCHANGED <<file, op, username, password, clientLoggedIn, clientVars,
                          toServer, registered>>

(* Login and Register begin alike.                                         *)
AskName(n) ==
  /\ Serves("command", "name")
  /\ readFromClient(n)
  /\ Message \in {LoginText, RegisterText} /\ ~clientLoggedIn
  /\ op' = Message
  /\ Write("USERNAME")
  /\ UNCHANGED <<file, username, password, clientLoggedIn, clientVars, registered>>

Already(n) ==
  /\ Serves("command", "welcome")
  /\ readFromClient(n)
  /\ Message \in {LoginText, RegisterText} /\ clientLoggedIn
  /\ Write("REFUSED")
  /\ UNCHANGED <<file, op, username, password, clientLoggedIn, clientVars, registered>>

Logout(n) ==
  /\ Serves("command", "welcome")
  /\ readFromClient(n)
  /\ Message = LogoutText
  /\ Write(IF clientLoggedIn THEN "DONE" ELSE "REFUSED")
  /\ clientLoggedIn' = FALSE
  /\ UNCHANGED <<file, op, username, password, clientVars, registered>>

(* Mutant: the welcome is written before the loop only.                    *)
UnknownSilently(n) ==
  /\ spc = "command" /\ UNCHANGED spc
  /\ readFromClient(n)
  /\ Message \notin {LoginText, RegisterText, LogoutText}
  /\ UNCHANGED <<file, op, username, password, clientLoggedIn, clientVars, toClient, registered>>

Unknown(n) ==
  /\ Serves("command", "welcome")
  /\ readFromClient(n)
  /\ Message \notin {LoginText, RegisterText, LogoutText}
  /\ UNCHANGED <<file, op, username, password, clientLoggedIn, clientVars, toClient, registered>>

AskPassword(n) ==
  /\ Serves("name", "password")
  /\ readFromClient(n)
  /\ username' = Message
  /\ Write("PASSWORD")
  /\ UNCHANGED <<file, op, password, clientLoggedIn, clientVars, registered>>

Login(n) ==
  LET result == loginUser(file, username, Message) IN
  /\ op = LoginText
  /\ Serves("password", "welcome")
  /\ readFromClient(n)
  /\ password' = Message
  /\ clientLoggedIn' = (clientLoggedIn \/ result = 1)
  /\ Write(IF result = 1 THEN "DONE" ELSE "REFUSED")
  /\ UNCHANGED <<file, op, username, clientVars, registered>>

Register(n) ==
  /\ op = RegisterText
  /\ Serves("password", "welcome")
  /\ readFromClient(n)
  /\ password' = Message
  /\ file' = registerUser(file, username, Message)
  /\ IF userExist(file, username)
     THEN Write("REFUSED") /\ UNCHANGED registered
     ELSE Write("DONE") /\ registered' = registered \cup {<<username, Message>>}
  /\ UNCHANGED <<op, username, clientLoggedIn, clientVars>>

(* Mutant: the server goes back to accept() instead.                       *)
ReadEndAccepts == /\ spc \in {"command", "name", "password"}
                  /\ cpc = "gone" /\ toServer = <<>>
                  /\ spc' = "accept" /\ toClient' = <<>>
                  /\ UNCHANGED <<file, op, username, password, clientLoggedIn, clientVars,
                                 toServer, registered>>

(* read() returns 0: there is no line's end to find, and buf[end - buf]    *)
(* with a null `end` writes to address 0.                                  *)
ReadEnd == /\ spc \in {"command", "name", "password"}
           /\ cpc = "gone" /\ toServer = <<>>
           /\ Crash

(* It returns the beginning of a line: likewise.                           *)
ReadPart == spc \in {"command", "name", "password"} /\ toServer # <<>> /\ Crash

(* A client that is gone may reset the connection: read() fails, with the  *)
(* same end, or write() raises SIGPIPE.                                    *)
Reset == spc \notin {"accept", "down"} /\ cpc = "gone" /\ Crash

(* The server is killed ...                                                *)
Kill == spc # "down" /\ Crash

(* ... and started again, for another client: Server() binds and listens.  *)
Restart == /\ spc = "down" /\ spc' = "accept"
           /\ cpc \in {"away", "gone"} /\ cpc' = "away"
           /\ shown' = "NOTHING"
           /\ UNCHANGED <<file, op, username, password, clientLoggedIn, kind, wireVars, registered>>

-----------------------------------------------------------------------------
(* The clients.  One alternates: a chunk is printed, a word is sent.  The  *)
(* other waits in a select() without a timeout until there is something to *)
(* read, prints it, and waits again; it never comes to reading a word.     *)

(* Mutant: a client that sends before it has read the welcome.             *)
ConnectTypes(k) == /\ cpc = "away" /\ spc = "accept"
                   /\ k \in {"alternating", "selecting"}
                   /\ kind' = k /\ cpc' = "type"
                   /\ UNCHANGED <<file, serverVars, shown, wireVars, registered>>

Connect(k) == /\ cpc = "away" /\ spc = "accept"
              /\ k \in {"alternating", "selecting"}
              /\ kind' = k /\ cpc' = "read"
              /\ UNCHANGED <<file, serverVars, shown, wireVars, registered>>

readFromServer(n) == /\ cpc = "read" /\ n \in 1 .. Len(toClient)
                     /\ shown' = toClient[n]
                     /\ toClient' = SubSeq(toClient, n+1, Len(toClient))
                     /\ cpc' = IF kind = "alternating" THEN "type" ELSE "read"
                     /\ UNCHANGED <<file, serverVars, kind, toServer, registered>>

Registering == (IF op = RegisterText /\ spc \in {"name", "password"} THEN 1 ELSE 0)
               + Len(SelectSeq(toServer, LAMBDA line : line = RegisterText))
writeToServer(t) ==
  /\ cpc = "type" /\ cpc' = "read" /\ spc # "down"
  /\ t \in IF shown \in {"USERNAME", "PASSWORD"} THEN Answers ELSE Orders
  /\ Len(toServer) + Len(toClient) < MaxAhead
  /\ t = RegisterText => Len(file) + Registering < MaxAccounts
  /\ toServer' = Append(toServer, t)
  /\ UNCHANGED <<file, serverVars, kind, shown, toClient, registered>>

(* The user stops the client, or the server's end of the connection is     *)
(* closed, which is to the client what ReadEnd is to the server.           *)
Leave == /\ cpc \in {"read", "type"}
         /\ cpc' = "gone" /\ kind' = "alternating" /\ shown' = "NOTHING"
         /\ UNCHANGED <<file, serverVars, wireVars, registered>>

-----------------------------------------------------------------------------
handleMessage == \/ Welcome
                 \/ \E n \in 1 .. Len(toServer) :
                      \/ AskName(n)
                      \/ Already(n)
                      \/ Logout(n)
                      \/ Unknown(n)
                      \/ AskPassword(n)
                      \/ Login(n)
                      \/ Register(n)
                 \/ ReadEnd
                 \/ ReadPart

Next == \/ acceptConnections
        \/ handleMessage
        \/ Reset
        \/ Kill
        \/ Restart
        \/ \E k \in {"alternating", "selecting"} : Connect(k)
        \/ \E n \in 1 .. Len(toClient) : readFromServer(n)
        \/ \E t \in Orders \cup Answers : writeToServer(t)
        \/ Leave

Spec == Init /\ [][Next]_vars

(* A server that can go on does.                                           *)
FairSpec == Spec /\ WF_vars(acceptConnections) /\ WF_vars(handleMessage)

-----------------------------------------------------------------------------
(* Every variable has its type; who types a word is the alternating        *)
(* client, after it has printed a line.                                    *)
TypeOK == /\ file \in Seq(Text)
          /\ spc \in {"accept", "welcome", "command", "name", "password", "down"}
          /\ op \in {<<>>, LoginText, RegisterText}
          /\ username \in Text /\ password \in Text /\ clientLoggedIn \in BOOLEAN
          /\ cpc \in {"away", "read", "type", "gone"}
          /\ kind \in {"alternating", "selecting"}
          /\ shown \in Prompts \cup Replies \cup {"NOTHING"}
          /\ cpc = "type" => kind = "alternating" /\ shown # "NOTHING"
          /\ toServer \in Seq(Text)
          /\ toClient \in Seq(Prompts \cup Replies)
          /\ registered \subseteq Text \X Text

(* clientLoggedIn means that name and password of the session are an       *)
(* account's, whatever was typed since and however chunks were dropped.    *)
LoggedInWithAccount == clientLoggedIn => loginUser(file, username, password) = 1

(* Who was told "Register Successfully!", or is in the UserDB that comes   *)
(* with the program, can log in for ever after, over any number of         *)
(* sessions and of the server's crashes, unless the name holds the         *)
(* separator.                                                              *)
RegisteredCanLogin ==
  \A r \in registered : (\A i \in DOMAIN r[1] : r[1][i] # Bar) => loginUser(file, r[1], r[2]) = 1

(* The converse: whoever is logged in gave, in one line, what a user once  *)
(* registered, in this session or before any number of crashes.  If a name *)
(* holds the separator it is the line that has to agree, not the name.     *)
LoggedInWasRegistered ==
  clientLoggedIn => \E r \in registered : AccountLine(r[1], r[2]) = AccountLine(username, password)

(* The alternating client and the server do not wait for each other: a     *)
(* reply to every line that is read, and one is enough for the client,     *)
(* although the server drops lines and replies come in any chunks.  The    *)
(* selecting client is excepted: it only reads, and the server does too.   *)
NoMutualWait ==
  ~ /\ spc \in {"command", "name", "password"} /\ toServer = <<>>
    /\ cpc = "read" /\ kind = "alternating" /\ toClient = <<>>

(* The server ends with its client: it serves one, and does not survive    *)
(* the end of the connection.                                              *)
ServerEndsWithClient == cpc = "gone" ~> spc = "down"
=============================================================================
