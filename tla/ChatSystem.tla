----------------------------- MODULE ChatSystem -----------------------------
(***************************************************************************)
(* The server and its clients on one host, 127.0.0.1 (client.cpp): every   *)
(* client listens on a port of its own and takes commands from its user.   *)
(* A command and its answer are each one send() and, most of the time, one *)
(* recv(); but TCP keeps no borders, so the server may receive a command   *)
(* cut in two, or the rest of one together with the next, and a client     *)
(* several answers at once.  What the server does with a command is what   *)
(* UserDirectory promises, with the address of an INFO as far as           *)
(* InfoFromOwnLogins of Connection goes.                                   *)
(***************************************************************************)
EXTENDS Integers, Sequences, FiniteSets

CONSTANTS Clients,   \* processes; one that ended is not started again
          Ports,     \* what a client is started with
          TypedNames, TypedPasswords, \* what users type
          NoWord,    \* the empty string
          NamePrefixes, PasswordPrefixes, \* proper, nonempty prefixes of what is typed
          NoCommand,
          MaxCuts    \* bound: commands that arrive in two pieces

Names == TypedNames \cup (UNION {NamePrefixes[n] : n \in TypedNames}) \cup {NoWord}
Passwords == TypedPasswords \cup (UNION {PasswordPrefixes[p] : p \in TypedPasswords}) \cup {NoWord}
Powers == {10, 100, 1000, 10000}
AnyPort == Ports \cup {p \div d : p \in Ports, d \in Powers} \cup {0}
Commands == [op: {"REGISTER", "LOGIN", "LOGOUT", "GETINFO", "UNKNOWN"},
             name: Names, password: Passwords, port: AnyPort]

ASSUME ChatSystemAssumption ==
  /\ Ports \subseteq Nat \ {0} /\ MaxCuts \in Nat
  /\ NoWord \notin TypedNames /\ NoWord \notin TypedPasswords
  /\ NamePrefixes \in [TypedNames -> SUBSET Names]
  /\ PasswordPrefixes \in [TypedPasswords -> SUBSET Passwords]
  /\ NoCommand \notin Commands

VARIABLES server,           \* its process is "up" or "dead"
          accounts, online, \* see UserDirectory
          request, answer,
          published,        \* history: <<name, port, client>> of every login
          connected,        \* the server's Connection of each client: connected_
          up, down,         \* what is under way to the server, to each client
          reset,            \* clients gone whose connection is known to be reset
          cpc,              \* where each client is
          listenPort,       \* 0 unless it listens
          asked,            \* the command it wants an answer to
          dial,             \* CHAT: the port it is about to connect to
          cut               \* history: clients of which a command was cut

directory == <<accounts, online, request, answer>>
serverVars == <<server, connected, published>>
wire == <<up, down, reset, cut>>
clientVars == <<cpc, listenPort, asked, dial>>
vars == <<directory, serverVars, wire, clientVars>>

PortOf(c, k) == k.port
Directory == INSTANCE UserDirectory WITH Callers <- Clients, Address <- PortOf

Init == /\ Directory!Init
        /\ server = "up" /\ published = {}
        /\ connected = [c \in Clients |-> FALSE]
        /\ up = [c \in Clients |-> <<>>] /\ down = [c \in Clients |-> <<>>]
        /\ reset = {} /\ cut = {}
        /\ cpc = [c \in Clients |-> "away"]
        /\ listenPort = [c \in Clients |-> 0]
        /\ asked = [c \in Clients |-> NoCommand]
        /\ dial = [c \in Clients |-> 0]

Running(c) == cpc[c] \in {"prompt", "recv", "dial"}
Gone(c) == cpc[c] \in {"gone", "threw"}
Client(c, from, to) == cpc[c] = from /\ cpc' = [cpc EXCEPT ![c] = to]

-----------------------------------------------------------------------------
(* The client's process: client.cpp.                                       *)

(* Mutant: initializeListener() goes on when bind() fails.                 *)
LaunchUnbound(c, p) ==
  /\ Client(c, "away", "prompt")
  /\ server = "up"
  /\ listenPort' = [listenPort EXCEPT ![c] = p]
  /\ connected' = [connected EXCEPT ![c] = TRUE]
  /\ UNCHANGED <<directory, server, published, wire, asked, dial>>

(* The constructor of Client: bind() and listen(), then connect().         *)
Launch(c, p) ==
  /\ Client(c, "away", "prompt")
  /\ server = "up" /\ \A d \in Clients : listenPort[d] # p
  /\ listenPort' = [listenPort EXCEPT ![c] = p]
  /\ connected' = [connected EXCEPT ![c] = TRUE]
  /\ UNCHANGED <<directory, server, published, wire, asked, dial>>

LaunchFails(c, p) ==
  /\ Client(c, "away", "gone")
  /\ server = "dead" \/ \E d \in Clients : listenPort[d] = p
  /\ UNCHANGED <<directory, serverVars, wire, listenPort, asked, dial>>

Cmd(op, n, w, p) == [op |-> op, name |-> n, password |-> w, port |-> p]
Typed(c) == {Cmd("REGISTER", n, w, 0) : n \in TypedNames, w \in TypedPasswords}
            \cup {Cmd("LOGIN", n, w, listenPort[c]) : n \in TypedNames, w \in TypedPasswords}
            \cup {Cmd("LOGOUT", NoWord, NoWord, 0)}
            \cup {Cmd("GETINFO", n, NoWord, 0) : n \in TypedNames}

(* A command of the user's: it is sent, and the client waits in recv().    *)
Ask(c) ==
  /\ Client(c, "prompt", "recv")
  /\ \E k \in Typed(c) : /\ asked' = [asked EXCEPT ![c] = k]
                         /\ up' = [up EXCEPT ![c] = Append(@, k)]
  /\ UNCHANGED <<directory, serverVars, down, reset, cut, listenPort, dial>>

OK == {"REGISTERED", "LOGIN", "LOGOUT", "INFO"}
(* These are sent with the NUL that ends them, which ends the std::string. *)
WithNul == {"USER_EXISTS", "INVALID_CREDENTIALS", "UNKNOWN_COMMAND"}

(* The ports in what recv() returned: getClientInfo() takes what is behind *)
(* the first ':'.                                                          *)
PortsIn(answers) ==
  {answers[i].port : i \in {j \in DOMAIN answers :
      /\ answers[j].status = "INFO"
      /\ \A h \in 1 .. j-1 : answers[h].status \notin WithNul \cup {"INFO"}}}

(* Mutant: chatWithClient() does not look for port 0.                      *)
BackToPromptUnlessZero(c, first, ports) == asked[c].op # "GETINFO" \/ first \notin OK

BackToPrompt(c, first, ports) ==
  asked[c].op # "GETINFO" \/ first \notin OK \/ ports = {0}

(* recv() returns the first n answers; the first one decides.  The client  *)
(* goes back to its prompt, unless it CHATs ...                            *)
Answer(c, n) ==
  LET first == Head(down[c]).status
      ports == PortsIn(SubSeq(down[c], 1, n))
  IN /\ cpc[c] = "recv" /\ n \in 1 .. Len(down[c])
     /\ down' = [down EXCEPT ![c] = SubSeq(@, n+1, Len(@))]
     /\ IF BackToPrompt(c, first, ports)
        THEN /\ Client(c, "recv", "prompt")
             /\ asked' = [asked EXCEPT ![c] = NoCommand]
             /\ UNCHANGED <<dial, listenPort>>
        ELSE IF ports # {}
        THEN /\ Client(c, "recv", "dial")
             /\ dial' = [dial EXCEPT ![c] = CHOOSE p \in ports : TRUE]
             /\ UNCHANGED <<asked, listenPort>>
        ELSE (* ... and std::stoi finds no port: main() ends.              *)
             /\ Client(c, "recv", "threw")
             /\ asked' = [asked EXCEPT ![c] = NoCommand]
             /\ listenPort' = [listenPort EXCEPT ![c] = 0]
             /\ UNCHANGED dial
     /\ UNCHANGED <<directory, serverVars, up, reset, cut>>

(* recv() returns 0 or -1: the server is gone.                             *)
AnswerFails(c) ==
  /\ Client(c, "recv", "prompt")
  /\ server = "dead" /\ down[c] = <<>>
  /\ asked' = [asked EXCEPT ![c] = NoCommand]
  /\ up' = [up EXCEPT ![c] = <<>>]
  /\ UNCHANGED <<directory, serverVars, down, reset, cut, listenPort, dial>>

(* connect(), to whoever listens there: see Client for the chat.           *)
Dial(c) ==
  /\ Client(c, "dial", "prompt")
  /\ asked' = [asked EXCEPT ![c] = NoCommand]
  /\ dial' = [dial EXCEPT ![c] = 0]
  /\ UNCHANGED <<directory, serverVars, wire, listenPort>>

(* EXIT, a crash, or SIGPIPE when the server is dead.  Answers not read    *)
(* reset the connection.                                                   *)
Leave(c) ==
  /\ Running(c) /\ cpc' = [cpc EXCEPT ![c] = "gone"]
  /\ reset' = IF down[c] = <<>> THEN reset ELSE reset \cup {c}
  /\ down' = [down EXCEPT ![c] = <<>>]
  /\ asked' = [asked EXCEPT ![c] = NoCommand]
  /\ dial' = [dial EXCEPT ![c] = 0]
  /\ listenPort' = [listenPort EXCEPT ![c] = 0]
  /\ UNCHANGED <<directory, serverVars, up, cut>>

-----------------------------------------------------------------------------
(* The server: handleClient() and processData() of each Connection.        *)

Serves(c) == server = "up" /\ connected[c]
Idle(c) == Serves(c) /\ request[c] = NoCommand

(* What is left of a command of which only the beginning was received.     *)
Rest == Cmd("UNKNOWN", NoWord, NoWord, 0)

(* Of n commands the first one decides, unless it is the rest of one and   *)
(* no more of it is left than the line feed, which is skipped.             *)
Deciding(c, n) == {up[c][1]} \cup {up[c][i] : i \in {2} \cap (IF up[c][1] = Rest THEN 1 .. n ELSE {})}

(* recv() returns the first n commands.                                    *)
Receive(c, n) ==
  /\ Idle(c) /\ n \in 1 .. Len(up[c])
  /\ \E k \in Deciding(c, n) : request' = [request EXCEPT ![c] = k]
  /\ up' = [up EXCEPT ![c] = SubSeq(@, n+1, Len(@))]
  /\ UNCHANGED <<accounts, online, answer, serverVars, down, reset, cut, clientVars>>

(* What is received of k when its end is missing; the words that are not   *)
(* there are empty, and atoi() makes what it can of the port's digits.     *)
Pieces(k) ==
  {Rest, k} \cup
  {Cmd(k.op, n, NoWord, 0) : n \in {NoWord, k.name} \cup
                                   (IF k.name \in TypedNames THEN NamePrefixes[k.name] ELSE {})} \cup
  (IF k.password \in TypedPasswords
   THEN {Cmd(k.op, k.name, w, 0) : w \in PasswordPrefixes[k.password]} ELSE {}) \cup
  {[k EXCEPT !.port = p] : p \in {0} \cup {k.port \div d : d \in Powers}}

(* It ends inside the n-th command, or before its line feed.  What remains *)
(* of that begins with no command's word.                                  *)
ReceiveCut(c, n) ==
  /\ Idle(c) /\ n \in 1 .. Len(up[c])
  /\ Cardinality(cut) < MaxCuts /\ c \notin cut
  /\ up[c][n] # Rest
  /\ \E k \in IF n = 1 THEN Pieces(Head(up[c])) ELSE {Head(up[c])} :
       request' = [request EXCEPT ![c] = k]
  /\ up' = [up EXCEPT ![c] = <<Rest>> \o SubSeq(@, n+1, Len(@))]
  /\ cut' = cut \cup {c}
  /\ UNCHANGED <<accounts, online, answer, serverVars, down, reset, clientVars>>

(* Mutant: the case of an unknown command is left out.                     *)
ProcessNoUnknown(c) ==
  /\ Serves(c)
  /\ IF request[c] # NoCommand /\ request[c].op = "UNKNOWN"
     THEN request' = [request EXCEPT ![c] = NoCommand] /\ UNCHANGED <<accounts, online, answer>>
     ELSE Directory!Register(c) \/ Directory!Login(c) \/ Directory!Logout(c) \/ Directory!GetInfo(c)
  /\ published' = IF answer'[c] = "LOGIN" /\ answer[c] = "none"
                  THEN published \cup {<<request[c].name, request[c].port, c>>} ELSE published
  /\ UNCHANGED <<server, connected, wire, clientVars>>

Process(c) ==
  /\ Serves(c)
  /\ \/ Directory!Register(c)
     \/ Directory!Login(c)
     \/ Directory!Logout(c)
     \/ Directory!GetInfo(c)
     \/ Directory!Unknown(c)
  /\ published' = IF answer'[c] = "LOGIN"
                  THEN published \cup {<<request[c].name, request[c].port, c>>} ELSE published
  /\ UNCHANGED <<server, connected, wire, clientVars>>

(* What the answer carries; an address is read last.                       *)
Answers(c) ==
  [status: {answer[c]},
   port: IF answer[c] = "INFO"
         THEN {0} \cup {l[2] : l \in {h \in published : h[1] = request[c].name}}
         ELSE {0}]

(* Mutant: handleClient() with the sendData("OK", 2) that is commented out.*)
SendTwice(c) ==
  /\ Serves(c) /\ ~Gone(c)
  /\ Directory!Return(c)
  /\ \E a \in Answers(c) : down' = [down EXCEPT ![c] = @ \o <<a, [a EXCEPT !.status = "LOGIN"]>>]
  /\ UNCHANGED <<serverVars, up, reset, cut, clientVars>>

Send(c) ==
  /\ Serves(c) /\ ~Gone(c)
  /\ Directory!Return(c)
  /\ \E a \in Answers(c) : down' = [down EXCEPT ![c] = Append(@, a)]
  /\ UNCHANGED <<serverVars, up, reset, cut, clientVars>>

(* The client is gone: the first send() learns of it ...                   *)
SendReset(c) ==
  /\ Serves(c) /\ Gone(c)
  /\ Directory!Return(c)
  /\ reset' = reset \cup {c}
  /\ UNCHANGED <<serverVars, up, down, cut, clientVars>>

(* ... and the next one raises SIGPIPE, which ends the server's process.   *)
SendSigPipe(c) ==
  /\ Serves(c) /\ c \in reset
  /\ Directory!Return(c)
  /\ server' = "dead"
  /\ UNCHANGED <<connected, published, wire, clientVars>>

(* Mutant: closeConnection() logs out who has logged in over it.           *)
DisconnectLogsOut(c) ==
  /\ Idle(c) /\ Gone(c)
  /\ up[c] = <<>> \/ c \in reset
  /\ connected' = [connected EXCEPT ![c] = FALSE]
  /\ up' = [up EXCEPT ![c] = <<>>]
  /\ online' = [n \in {m \in DOMAIN online : \A l \in published : l[3] = c => l[1] # m} |-> online[n]]
  /\ UNCHANGED <<accounts, request, answer, server, published, down, reset, cut, clientVars>>

(* recv() returns 0, or -1 with what was under way lost: closeConnection().*)
Disconnect(c) ==
  /\ Idle(c) /\ Gone(c)
  /\ up[c] = <<>> \/ c \in reset
  /\ connected' = [connected EXCEPT ![c] = FALSE]
  /\ up' = [up EXCEPT ![c] = <<>>]
  /\ UNCHANGED <<directory, server, published, down, reset, cut, clientVars>>

-----------------------------------------------------------------------------
Serve(c) == \/ \E n \in 1 .. Len(up[c]) : Receive(c, n) \/ ReceiveCut(c, n)
            \/ Process(c)
            \/ Send(c)
            \/ SendReset(c)
            \/ SendSigPipe(c)
            \/ Disconnect(c)
Wait(c) == AnswerFails(c) \/ \E n \in 1 .. Len(down[c]) : Answer(c, n)

Next == \E c \in Clients :
          \/ \E p \in Ports : Launch(c, p) \/ LaunchFails(c, p)
          \/ Ask(c)
          \/ Wait(c)
          \/ Dial(c)
          \/ Leave(c)
          \/ Serve(c)

Spec == Init /\ [][Next]_vars

-----------------------------------------------------------------------------
(* Every variable has its type.                                            *)
TypeOK ==
  /\ server \in {"up", "dead"}
  /\ DOMAIN accounts \subseteq Names /\ \A n \in DOMAIN accounts : accounts[n] \in Passwords
  /\ DOMAIN online \subseteq DOMAIN accounts /\ \A n \in DOMAIN online : online[n] \in AnyPort
  /\ published \subseteq Names \X AnyPort \X Clients
  /\ connected \in [Clients -> BOOLEAN]
  /\ request \in [Clients -> Commands \cup {NoCommand}]
  /\ asked \in [Clients -> Commands \cup {NoCommand}]
  /\ \A c \in Clients : /\ up[c] \in Seq(Commands)
                        /\ \A i \in DOMAIN down[c] : down[c][i].port \in AnyPort
  /\ reset \subseteq Clients /\ cut \subseteq Clients
  /\ cpc \in [Clients -> {"away", "prompt", "recv", "dial", "gone", "threw"}]
  /\ listenPort \in [Clients -> Ports \cup {0}]
  /\ dial \in [Clients -> AnyPort] /\ \A c \in Clients : cpc[c] = "dial" <=> dial[c] # 0

(* Commands and answers stay in step, whatever is cut of other clients and *)
(* however those end: an answer is to the command its client last sent.    *)
AnswersTo == [REGISTER |-> {"REGISTERED", "USER_EXISTS"},
              LOGIN |-> {"LOGIN", "INVALID_CREDENTIALS"},
              LOGOUT |-> {"LOGOUT", "NOT_LOGGED_IN"},
              GETINFO |-> {"INFO", "USER_NOT_FOUND"}]
AnswersInStep ==
  \A c \in Clients \ cut :
    /\ Len(up[c]) + Len(down[c]) <= 1
    /\ down[c] # <<>> => /\ cpc[c] = "recv" /\ request[c] = NoCommand
                         /\ Head(down[c]).status \in AnswersTo[asked[c].op]

(* No process ends by itself as long as commands arrive whole: the server  *)
(* does not send a second time to a client that has vanished, and a client *)
(* that CHATs finds a port in the answer.                                  *)
EndsOnlyAfterCut ==
  /\ server = "dead" => cut # {}
  /\ \A c \in Clients : cpc[c] = "threw" => c \in cut

(* CHAT reaches a client the named user has logged in from, or a later one *)
(* on the same port after all of those have ended: a client that is still  *)
(* running is never mistaken for another.                                  *)
ChatReachesUser ==
  cut = {} =>
    \A c, r \in Clients : cpc[c] = "dial" /\ listenPort[r] = dial[c] =>
      LET from == {l[3] : l \in {h \in published : h[1] = asked[c].name /\ h[2] = dial[c]}}
      IN r \in from \/ (from # {} /\ \A d \in from : Gone(d))

(* No client waits in vain, cut commands or not: a client in recv() has a  *)
(* command under way, or in the server's hands, or an answer under way -   *)
(* or the server is dead, which ends the wait.                             *)
WaitsForAnswer ==
  server = "up" =>
    \A c \in Clients : cpc[c] = "recv" =>
      connected[c] /\ (up[c] # <<>> \/ down[c] # <<>> \/ request[c] # NoCommand)

(* A user whose last login came from a client that is still running can be *)
(* reached there until he is logged in with his password again or logs out *)
(* from there: neither the end of a client he used before, nor another's   *)
(* command, nor any cut one takes him off line or changes his address.     *)
Reachable(n, r) == /\ Running(r) /\ <<n, listenPort[r], r>> \in published
                   /\ n \in DOMAIN online /\ online[n] = listenPort[r]
LosesAddress(n) == n \notin DOMAIN online' \/ online'[n] # online[n]
ReachableTillOwnCommand ==
  [][\A n \in TypedNames, r \in Clients : Reachable(n, r) /\ LosesAddress(n) =>
       \/ \E c \in Clients, p \in AnyPort : request[c] = Cmd("LOGIN", n, accounts[n], p)
       \/ request[r] = Cmd("LOGOUT", NoWord, NoWord, 0)]_vars

(* What a user sees: a client that has asked for something is a caller of  *)
(* UserDirectory from the moment the command is sent until its answer has  *)
(* been read, and the answer is the one that was decided in between, once. *)
(* Of a client of which a command was cut this holds as far as the server  *)
(* understood its commands.                                                *)
Pending(c) == IF c \in cut THEN request[c]
              ELSE IF cpc[c] = "recv" THEN asked[c]
              ELSE IF up[c] # <<>> THEN Head(up[c]) ELSE request[c]
Decided(c) == IF c \notin cut /\ down[c] # <<>> THEN Head(down[c]).status ELSE answer[c]
Requests == [c \in Clients |-> Pending(c)]
Decisions == [c \in Clients |-> Decided(c)]
EndToEnd == INSTANCE UserDirectory WITH Callers <- Clients, Address <- PortOf,
                                        request <- Requests, answer <- Decisions
UsersSeeDirectory ==
  /\ EndToEnd!Init
  /\ [][UNCHANGED EndToEnd!dirVars \/ (server = "up" /\ cut' = cut => EndToEnd!Next)]_vars

(* README: LOGOUT logs "out from the server".  Refuted: the client sends   *)
(* no name, so a user who is on line from here is told NOT_LOGGED_IN.      *)
LogoutLogsOut ==
  \A c \in Clients :
    down[c] # <<>> /\ cpc[c] = "recv" /\ asked[c].op = "LOGOUT"
      /\ (\E l \in published : l[3] = c /\ l[1] \in DOMAIN online /\ online[l[1]] = listenPort[c])
    => Head(down[c]).status = "LOGOUT"
=============================================================================
