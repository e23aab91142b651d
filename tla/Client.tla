------------------------------- MODULE Client -------------------------------
(***************************************************************************)
(* One client process, Client.cpp and client.cpp: the main thread reads    *)
(* commands, the listener thread accepts chats, and every chat has a send  *)
(* and a receive thread.  Three facts of the platform carry the behaviour: *)
(* all of them but the listener and the receivers read lines from the one  *)
(* stdin; threads share sockets by descriptor number, and numbers are      *)
(* reused after close(); a blocked recv() or accept() is not woken by      *)
(* close() and keeps its socket alive.                                     *)
(***************************************************************************)
EXTENDS Naturals

CONSTANTS Chats,          \* connections to peers, each made once at most
          FDs,            \* the descriptors the process may have open
          listenerSocket, \* listenerSocket_
          serverSocket,   \* serverSocket_
          Inheritable,    \* those that its parent may have left open
          NoChat, NoFD,
          Listener, ToServer, Inherited, Unused \* entries of the descriptor table

ASSUME ClientAssumption ==
  /\ {listenerSocket, serverSocket} \subseteq FDs /\ listenerSocket # serverSocket
  /\ Inheritable \subseteq FDs \ {listenerSocket, serverSocket}
  /\ NoFD \notin FDs
  /\ NoChat \notin Chats
  /\ {Listener, ToServer, Inherited, Unused} \cap Chats = {}
  /\ Listener # ToServer /\ Unused \notin {Listener, ToServer, Inherited}

VARIABLES running,  \* running_
          mpc,      \* where the main thread is
          dialled,  \* main thread: the chat it is setting up
          lpc,      \* where the listener thread is
          accepted, \* listener thread: the chat it has accepted
          cpc,      \* the thread of each chat, in startChatSession()
          spc, rpc, \* its send thread and its receive thread
          socket,   \* the number they captured
          reading,  \* the connection a blocked recv() refers to
          table,    \* descriptor -> what it stands for
          peer,     \* the other end of each chat: "away", "here", "left"
          backlog   \* peers connected to the listener and not yet accepted

mainVars == <<mpc, dialled>>
listenerVars == <<lpc, accepted>>
chatVars == <<cpc, spc, rpc, socket, reading>>
netVars == <<table, peer, backlog>>
vars == <<running, mainVars, listenerVars, chatVars, netVars>>

Free == {fd \in FDs : table[fd] = Unused}
Open(fd, c) == table' = [table EXCEPT ![fd] = c]
Close(fd) == IF fd \in FDs THEN Open(fd, Unused) ELSE UNCHANGED table

(* The constructor has listened, connected and created the listener thread. *)
Init == /\ running = TRUE
        /\ mpc = "prompt" /\ dialled = NoChat
        /\ lpc = "loop" /\ accepted = NoChat
        /\ cpc = [c \in Chats |-> "none"]
        /\ spc = [c \in Chats |-> "none"]
        /\ rpc = [c \in Chats |-> "none"]
        /\ socket = [c \in Chats |-> NoFD]
        /\ reading = [c \in Chats |-> NoChat]
        /\ \E open \in SUBSET Inheritable :
             table = [fd \in FDs |-> CASE fd = listenerSocket -> Listener
                                       [] fd = serverSocket -> ToServer
                                       [] fd \in open -> Inherited
                                       [] OTHER -> Unused]
        /\ peer = [c \in Chats |-> "away"]
        /\ backlog = {}

(* Each thread goes from one point of its code to the next.                *)
Main(from, to) == mpc = from /\ mpc' = to
Listens(from, to) == lpc = from /\ lpc' = to
Chat(c, from, to) == cpc[c] = from /\ cpc' = [cpc EXCEPT ![c] = to]
Sends(c, from, to) == spc[c] = from /\ spc' = [spc EXCEPT ![c] = to]
Receives(c, from, to) == rpc[c] = from /\ rpc' = [rpc EXCEPT ![c] = to]

(* Mutant: the creator closes the socket it has handed to the chat.        *)
HandOverClosed(c) == Chat(c, "none", "new") /\ Close(socket[c])

(* A thread for the chat is made, or pthread_create fails.                 *)
HandOver(c) == \/ Chat(c, "none", "new") /\ UNCHANGED table
               \/ Chat(c, "none", "failed") /\ Close(socket[c])

-----------------------------------------------------------------------------
(* The main thread.                                                        *)

(* REGISTER, LOGIN and LOGOUT ask the server and wait; so does CHAT, which *)
(* goes on only with an address.                                           *)
Command == /\ \E to \in {"waiting", "getClientInfo"} : Main("prompt", to)
           /\ UNCHANGED <<running, dialled, listenerVars, chatVars, netVars>>

(* The server is gone: send() raises SIGPIPE, and the process ends.         *)
CommandSigPipe ==
  /\ Main("prompt", "exited")
  /\ UNCHANGED <<running, dialled, listenerVars, chatVars, netVars>>

Answer == /\ \E from \in {"waiting", "getClientInfo"} : Main(from, "prompt")
          /\ UNCHANGED <<running, dialled, listenerVars, chatVars, netVars>>

AnswerInfo(c) == /\ Main("getClientInfo", "socket")
                 /\ peer[c] = "away" /\ socket[c] = NoFD
                 /\ dialled' = c
                 /\ UNCHANGED <<running, listenerVars, chatVars, netVars>>

ChatSocket ==
  /\ Main("socket", "connect")
  /\ \E fd \in Free : socket' = [socket EXCEPT ![dialled] = fd] /\ Open(fd, dialled)
  /\ UNCHANGED <<running, dialled, listenerVars, cpc, spc, rpc, reading, peer, backlog>>

ChatSocketFails == /\ Main("socket", "prompt")
                   /\ Free = {}
                   /\ dialled' = NoChat
                   /\ UNCHANGED <<running, listenerVars, chatVars, netVars>>

ChatConnect ==
  /\ Main("connect", "create")
  /\ table[socket[dialled]] = dialled
  /\ peer' = [peer EXCEPT ![dialled] = "here"]
  /\ UNCHANGED <<running, dialled, listenerVars, chatVars, table, backlog>>

(* Mutant: the wrong socket is closed.                                     *)
ChatConnectFailsServer ==
  /\ Main("connect", "prompt")
  /\ Close(serverSocket) /\ Chat(dialled, "none", "failed")
  /\ dialled' = NoChat
  /\ UNCHANGED <<running, listenerVars, spc, rpc, socket, reading, peer, backlog>>

(* Refused, or the number was closed or reused in the meantime.            *)
ChatConnectFails ==
  /\ Main("connect", "prompt")
  /\ Close(socket[dialled]) /\ Chat(dialled, "none", "failed")
  /\ dialled' = NoChat
  /\ UNCHANGED <<running, listenerVars, spc, rpc, socket, reading, peer, backlog>>

ChatCreate == /\ Main("create", "prompt")
              /\ HandOver(dialled)
              /\ dialled' = NoChat
              /\ UNCHANGED <<running, listenerVars, spc, rpc, socket, reading, peer, backlog>>

(* Mutant: running_ stays true.                                            *)
ExitRunning == /\ \E from \in {"prompt", "getClientInfo"} : Main(from, "exit")
               /\ UNCHANGED <<running, dialled, listenerVars, chatVars, netVars>>

(* EXIT, or an answer without a port, where std::stoi throws and main()    *)
(* catches it outside the loop: ~Client() begins.                          *)
Exit == /\ \E from \in {"prompt", "getClientInfo"} : Main(from, "exit")
        /\ running' = FALSE
        /\ UNCHANGED <<dialled, listenerVars, chatVars, netVars>>

CloseListener == /\ Main("exit", "join") /\ Close(listenerSocket)
                 /\ UNCHANGED <<running, dialled, listenerVars, chatVars, peer, backlog>>

JoinListener == /\ Main("join", "closeServer") /\ lpc = "returned"
                /\ UNCHANGED <<running, dialled, listenerVars, chatVars, netVars>>

(* main() returns, which ends the threads of the chats too.                *)
CloseServer == /\ Main("closeServer", "exited") /\ Close(serverSocket)
               /\ UNCHANGED <<running, dialled, listenerVars, chatVars, peer, backlog>>

-----------------------------------------------------------------------------
(* The listener thread.                                                    *)

LoopTest == /\ Listens("loop", IF running THEN "call" ELSE "returned")
            /\ UNCHANGED <<running, mainVars, accepted, chatVars, netVars>>

Acceptable == table[listenerSocket] = Listener /\ Free # {}
AcceptCall == /\ Listens("call", "blocked") /\ Acceptable
              /\ UNCHANGED <<running, mainVars, accepted, chatVars, netVars>>

(* Mutant: a failed accept() is not noticed.                               *)
AcceptFailsGoesOn == /\ Listens("call", "accepted") /\ ~Acceptable
                     /\ UNCHANGED <<running, mainVars, accepted, chatVars, netVars>>

AcceptFails == /\ Listens("call", IF running THEN "loop" ELSE "returned") /\ ~Acceptable
               /\ UNCHANGED <<running, mainVars, accepted, chatVars, netVars>>

AcceptReturn(c) ==
  /\ Listens("blocked", "accepted")
  /\ c \in backlog /\ backlog' = backlog \ {c}
  /\ \E fd \in Free : socket' = [socket EXCEPT ![c] = fd] /\ Open(fd, c)
  /\ accepted' = c
  /\ UNCHANGED <<running, mainVars, cpc, spc, rpc, reading, peer>>

ListenerCreate == /\ Listens("accepted", "loop")
                  /\ HandOver(accepted)
                  /\ accepted' = NoChat
                  /\ UNCHANGED <<running, mainVars, spc, rpc, socket, reading, peer, backlog>>

-----------------------------------------------------------------------------
(* A chat: startChatSession() and its two threads.                         *)

CreateSender(c) ==
  /\ Chat(c, "new", "sending") /\ Sends(c, "none", "getline")
  /\ UNCHANGED <<running, mainVars, listenerVars, rpc, socket, reading, netVars>>

CreateReceiver(c) ==
  /\ Chat(c, "sending", "joining") /\ Receives(c, "none", "recv")
  /\ UNCHANGED <<running, mainVars, listenerVars, spc, socket, reading, netVars>>

JoinChat(c) ==
  /\ Chat(c, "joining", "over")
  /\ spc[c] = "done" /\ rpc[c] = "done"
  /\ UNCHANGED <<running, mainVars, listenerVars, spc, rpc, socket, reading, netVars>>

(* Any line may come to any reader of stdin: a message for a peer, a       *)
(* command meant for the main thread, "quit".                              *)
GetLine(c) ==
  /\ \E to \in {"send", "close"} : Sends(c, "getline", to)
  /\ UNCHANGED <<running, mainVars, listenerVars, cpc, rpc, socket, reading, netVars>>

Send(c) ==
  /\ Sends(c, "send", "getline")
  /\ UNCHANGED <<running, mainVars, listenerVars, cpc, rpc, socket, reading, netVars>>

(* The other end of what the number stands for is gone, or not connected   *)
(* yet: send() may raise SIGPIPE, and the process ends.                    *)
SendSigPipe(c) ==
  /\ spc[c] = "send"
  /\ table[socket[c]] \in Chats /\ peer[table[socket[c]]] # "here"
  /\ mpc' = "exited"
  /\ UNCHANGED <<running, dialled, listenerVars, chatVars, netVars>>

SenderClose(c) ==
  /\ Sends(c, "close", "done") /\ Close(socket[c])
  /\ UNCHANGED <<running, mainVars, listenerVars, cpc, rpc, socket, reading, peer, backlog>>

(* recv() fails at once unless the number stands for a connection.         *)
RecvCall(c) ==
  /\ rpc[c] = "recv"
  /\ LET d == table[socket[c]]
     IN  IF d \in Chats /\ peer[d] # "away"
         THEN Receives(c, "recv", "blocked") /\ reading' = [reading EXCEPT ![c] = d]
         ELSE Receives(c, "recv", "close") /\ UNCHANGED reading
  /\ UNCHANGED <<running, mainVars, listenerVars, cpc, spc, socket, netVars>>

RecvReturn(c, end, to) ==
  /\ Receives(c, "blocked", to)
  /\ peer[reading[c]] = end
  /\ reading' = [reading EXCEPT ![c] = NoChat]
  /\ UNCHANGED <<running, mainVars, listenerVars, cpc, spc, socket, netVars>>

RecvData(c) == RecvReturn(c, "here", "recv")

(* Mutant: `bytesRead < 0` for `bytesRead <= 0`.                           *)
RecvEndIgnored(c) == RecvReturn(c, "left", "recv")

RecvEnd(c) == RecvReturn(c, "left", "close")

(* Mutant: the receive thread leaves the closing to the send thread.       *)
ReceiverCloseNot(c) ==
  /\ Receives(c, "close", "done")
  /\ UNCHANGED <<running, mainVars, listenerVars, cpc, spc, socket, reading, netVars>>

ReceiverClose(c) ==
  /\ Receives(c, "close", "done") /\ Close(socket[c])
  /\ UNCHANGED <<running, mainVars, listenerVars, cpc, spc, socket, reading, peer, backlog>>

-----------------------------------------------------------------------------
(* Peers.                                                                  *)

PeerConnect(c) ==
  /\ peer[c] = "away" /\ socket[c] = NoFD /\ c # dialled
  /\ lpc = "blocked" \/ \E fd \in FDs : table[fd] = Listener
  /\ peer' = [peer EXCEPT ![c] = "here"]
  /\ backlog' = backlog \cup {c}
  /\ UNCHANGED <<running, mainVars, listenerVars, chatVars, table>>

PeerLeave(c) ==
  /\ peer[c] = "here"
  /\ peer' = [peer EXCEPT ![c] = "left"]
  /\ UNCHANGED <<running, mainVars, listenerVars, chatVars, table, backlog>>

-----------------------------------------------------------------------------
Alive == mpc # "exited"

Dial == \/ \E c \in Chats : AnswerInfo(c)
        \/ ChatSocket
        \/ ChatSocketFails
        \/ ChatConnect
        \/ ChatConnectFails
        \/ ChatCreate
Destructor == CloseListener \/ JoinListener \/ CloseServer
ListenerLoop == Alive /\ (\/ LoopTest
                          \/ AcceptCall
                          \/ AcceptFails
                          \/ \E c \in Chats : AcceptReturn(c)
                          \/ ListenerCreate)
Session(c) == Alive /\ (CreateSender(c) \/ CreateReceiver(c) \/ JoinChat(c))
Sender(c) == Alive /\ (Send(c) \/ SenderClose(c))
Receiver(c) == Alive /\ (RecvCall(c) \/ RecvEnd(c) \/ ReceiverClose(c))
Talk(c) == Alive /\ (GetLine(c) \/ SendSigPipe(c) \/ RecvData(c))
Peer(c) == Alive /\ (PeerConnect(c) \/ PeerLeave(c))

Next == \/ Command
        \/ CommandSigPipe
        \/ Answer
        \/ Dial
        \/ Exit
        \/ Destructor
        \/ ListenerLoop
        \/ \E c \in Chats : Session(c) \/ Sender(c) \/ Receiver(c) \/ Talk(c) \/ Peer(c)

Spec == Init /\ [][Next]_vars

(* Threads that can go on do; nothing is assumed of lines typed, of peers, *)
(* or of the server.                                                       *)
FairSpec == /\ Spec
            /\ WF_vars(Destructor)
            /\ WF_vars(ListenerLoop)
            /\ \A c \in Chats : WF_vars(Session(c)) /\ WF_vars(Sender(c)) /\ WF_vars(Receiver(c))

(* Peers leave in the end.                                                 *)
PeersLeave == \A c \in Chats : WF_vars(Alive /\ PeerLeave(c))

-----------------------------------------------------------------------------
(* Every variable has its type.                                            *)
TypeOK ==
  /\ running \in BOOLEAN
  /\ mpc \in {"prompt", "waiting", "getClientInfo", "socket", "connect", "create",
              "exit", "join", "closeServer", "exited"}
  /\ dialled \in Chats \cup {NoChat}
  /\ mpc \in {"socket", "connect", "create"} => dialled \in Chats
  /\ lpc \in {"loop", "call", "blocked", "accepted", "returned"}
  /\ accepted \in Chats \cup {NoChat}
  /\ lpc = "accepted" => accepted \in Chats
  /\ cpc \in [Chats -> {"none", "new", "sending", "joining", "over", "failed"}]
  /\ spc \in [Chats -> {"none", "getline", "send", "close", "done"}]
  /\ rpc \in [Chats -> {"none", "recv", "blocked", "close", "done"}]
  /\ socket \in [Chats -> FDs \cup {NoFD}]
  /\ reading \in [Chats -> Chats \cup {NoChat}]
  /\ table \in [FDs -> Chats \cup {Listener, ToServer, Inherited, Unused}]
  /\ peer \in [Chats -> {"away", "here", "left"}]
  /\ backlog \subseteq Chats

(* No chat's socket is forgotten, although two threads close it in any     *)
(* order and may close a number that is another chat's by then: whoever    *)
(* has the number of an open socket is still going to close it.            *)
ChatSocketsHeld ==
  \A fd \in FDs : table[fd] \in Chats =>
    \/ table[fd] \in {dialled, accepted}
    \/ \E c \in Chats : /\ socket[c] = fd
                        /\ \/ cpc[c] \in {"new", "sending"}
                           \/ cpc[c] = "joining" /\ rpc[c] # "done"

(* Chats are confused through reused numbers only: one whose number no     *)
(* other chat was ever given has its own connection until it closes it.    *)
OnlyReuseConfuses ==
  \A c \in Chats :
    cpc[c] # "none" /\ (\A d \in Chats \ {c} : socket[d] # socket[c]) =>
      \/ table[socket[c]] = c
      \/ cpc[c] = "failed" \/ spc[c] = "done" \/ rpc[c] = "done"

(* The commands' socket stays the server's until the client exits, and the *)
(* chats' late closes never hit it or the listener.                        *)
OwnSocketsKept ==
  mpc # "exited" => /\ table[serverSocket] = ToServer
                    /\ running => table[listenerSocket] = Listener

(* After EXIT the process ends, or the listener stays blocked in accept()  *)
(* for ever and no peer ever connects: a single one that does, however     *)
(* late, ends the process.  README has EXIT just "Exit the application";   *)
(* the server's accept() is closed in the same way, and there the promise  *)
(* is refuted (StopEndsLoop).                                              *)
ExitEndsUnlessBlocked ==
  mpc = "exit" ~> mpc = "exited" \/ [](lpc = "blocked" /\ backlog = {})

(* When peers leave in the end every receive thread ends, also one that    *)
(* reads another chat's connection through a reused number.                *)
ReceiversEnd ==
  PeersLeave => \A c \in Chats : rpc[c] = "recv" ~> rpc[c] = "done" \/ mpc = "exited"

(* README: CHAT "starts a bi-directional chat session" with the user it    *)
(* names.  Refuted: a send thread that outlives its connection sends into  *)
(* the chat that was given the same number.                                *)
MessagesGoToOwnPeer ==
  \A c \in Chats : spc[c] = "send" => table[socket[c]] \in {c, Unused}
=============================================================================
