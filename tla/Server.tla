------------------------------- MODULE Server -------------------------------
(***************************************************************************)
(* Server.cpp over the pool TaskPool promises: one thread in start(), an   *)
(* owner that calls stop() and then destroys the server (after joining the *)
(* first thread, as ServerTest.cpp does), workers that serve one accepted  *)
(* socket each, and clients that come and go.  Sockets are descriptor      *)
(* numbers of the process: close() frees a number, accept() takes a free   *)
(* one, and whoever still holds an old number then uses somebody else's    *)
(* socket.                                                                 *)
(***************************************************************************)
EXTENDS Naturals, Sequences

CONSTANTS Workers,  \* the threads of the ThreadPool
          Clients,  \* each connects once at most
          FDs,      \* the descriptors the process may have open
          NoFD,     \* -1
          NoClient, \* a worker that serves nobody
          Listener, \* the listening socket, in the table of descriptors
          Unused    \* a free entry of that table

ASSUME ServerAssumption ==
  /\ FDs # {} /\ NoFD \notin FDs
  /\ NoClient \notin Clients
  /\ {Listener, Unused} \cap Clients = {}
  /\ Listener # Unused

VARIABLES running,      \* running_
          serverSocket, \* serverSocket_
          apc,          \* where the thread in start() is
          accepted,     \* its local variable clientSocket, as <<client, fd>>
          opc,          \* where the owner is: stop(), join, ~Server()
          userManager,  \* is userManager_ constructed?
          pending, serving, submitted, phase, \* the pool: see TaskPool
          clientSocket, \* the descriptor captured by the task of a client
          wpc,          \* where each worker is in its task
          socketFd,     \* socketFd_ of the Connection it has constructed
          table,        \* the process: descriptor -> what it stands for
          backlog,      \* the kernel: clients connected and not yet accepted
          peer,         \* what each client has done: "away", "here", "left"
          lateClients   \* history: clients accepted while running_ was false

acceptVars == <<running, serverSocket, apc, accepted>>
ownerVars == <<opc, userManager>>
poolVars == <<pending, serving, submitted, phase>>
taskVars == <<clientSocket, wpc, socketFd>>
netVars == <<table, backlog, peer, lateClients>>
vars == <<acceptVars, ownerVars, poolVars, taskVars, netVars>>

Pool == INSTANCE TaskPool WITH Threads <- Workers, Tasks <- Clients,
                               NoTask <- NoClient, running <- serving

Free == {fd \in FDs : table[fd] = Unused}
Close(fd) == table' = IF fd \in FDs THEN [table EXCEPT ![fd] = Unused] ELSE table

(* The Server has been constructed; initializeSocket() succeeded, with a   *)
(* number that matters no more than any other.                             *)
ListenFD == CHOOSE fd \in FDs : TRUE
Init == /\ running = FALSE
        /\ serverSocket = ListenFD
        /\ apc = "new"
        /\ accepted = NoClient
        /\ opc = "using"
        /\ userManager = TRUE
        /\ Pool!Init
        /\ clientSocket = [c \in Clients |-> NoFD]
        /\ wpc = [w \in Workers |-> "idle"]
        /\ socketFd = [w \in Workers |-> NoFD]
        /\ table = [fd \in FDs |-> IF fd = ListenFD THEN Listener ELSE Unused]
        /\ backlog = {}
        /\ peer = [c \in Clients |-> "away"]
        /\ lateClients = 0

(* Each thread goes from one point of its code to the next.                *)
Accepts(from, to) == apc = from /\ apc' = to
Owner(from, to) == opc = from /\ opc' = to
Works(w, from, to) == wpc[w] = from /\ wpc' = [wpc EXCEPT ![w] = to]

-----------------------------------------------------------------------------
(* start() and acceptLoop().                                               *)

Start ==
  /\ Accepts("new", "loop")
  /\ opc \in {"using", "join"}
  /\ running' = TRUE
  /\ UNCHANGED <<serverSocket, accepted, ownerVars, poolVars, taskVars, netVars>>

(* Mutant: the loop does not look at running_.                             *)
LoopTestNever ==
  /\ Accepts("loop", "call")
  /\ UNCHANGED <<running, serverSocket, accepted, ownerVars, poolVars, taskVars, netVars>>

LoopTest ==
  /\ Accepts("loop", IF running THEN "call" ELSE "returned")
  /\ UNCHANGED <<running, serverSocket, accepted, ownerVars, poolVars, taskVars, netVars>>

(* accept() fails at once unless its argument is the listening socket.     *)
AcceptCall ==
  /\ Accepts("call", IF serverSocket \in FDs /\ table[serverSocket] = Listener THEN "blocked" ELSE "loop")
  /\ Free # {}
  /\ UNCHANGED <<running, serverSocket, accepted, ownerVars, poolVars, taskVars, netVars>>

(* Mutant: no `continue` after a failed accept().                          *)
AcceptFullGoesOn ==
  /\ Accepts("call", "accepted")
  /\ Free = {}
  /\ UNCHANGED <<running, serverSocket, accepted, ownerVars, poolVars, taskVars, netVars>>

(* EMFILE: the clients stay in the backlog and the loop tries again.       *)
AcceptFull ==
  /\ Accepts("call", "loop")
  /\ Free = {}
  /\ UNCHANGED <<running, serverSocket, accepted, ownerVars, poolVars, taskVars, netVars>>

(* A blocked accept() keeps the listening socket alive: closing its        *)
(* descriptor neither wakes it nor keeps it from accepting a client.  The  *)
(* new number was the lowest free one at some time since the call.         *)
AcceptReturn(c) ==
  /\ Accepts("blocked", "accepted")
  /\ c \in backlog
  /\ backlog' = backlog \ {c}
  /\ accepted' = c
  /\ \E fd \in Free : /\ clientSocket' = [clientSocket EXCEPT ![c] = fd]
                      /\ table' = [table EXCEPT ![fd] = c]
  /\ lateClients' = IF running THEN lateClients ELSE lateClients + 1
  /\ UNCHANGED <<running, serverSocket, ownerVars, poolVars, wpc, socketFd, peer>>

(* Mutant: a client accepted after stop() is passed over, its socket open. *)
EnqueueIfRunning ==
  /\ Accepts("accepted", "loop")
  /\ IF running THEN Pool!Submit(accepted) ELSE UNCHANGED poolVars
  /\ accepted' = NoClient
  /\ UNCHANGED <<running, serverSocket, ownerVars, taskVars, netVars>>

(* Mutant: the accepted socket is never handed to the pool.                *)
EnqueueNever ==
  /\ Accepts("accepted", "loop")
  /\ accepted' = NoClient
  /\ UNCHANGED <<running, serverSocket, ownerVars, poolVars, taskVars, netVars>>

Enqueue ==
  /\ Accepts("accepted", "loop")
  /\ Pool!Submit(accepted)
  /\ accepted' = NoClient
  /\ UNCHANGED <<running, serverSocket, ownerVars, taskVars, netVars>>

-----------------------------------------------------------------------------
(* The owner: stop(), join of the thread in start(), ~Server().            *)

StopBegin ==
  /\ Owner("using", IF running THEN "close" ELSE "join")
  /\ running' = FALSE
  /\ UNCHANGED <<serverSocket, apc, accepted, userManager, poolVars, taskVars, netVars>>

StopClose ==
  /\ Owner("close", "reset")
  /\ Close(serverSocket)
  /\ UNCHANGED <<acceptVars, userManager, poolVars, taskVars, backlog, peer, lateClients>>

(* Mutant: serverSocket_ keeps the closed descriptor.                      *)
StopResetNot ==
  /\ Owner("reset", "join")
  /\ UNCHANGED <<acceptVars, userManager, poolVars, taskVars, netVars>>

StopReset ==
  /\ Owner("reset", "join")
  /\ serverSocket' = NoFD
  /\ UNCHANGED <<running, apc, accepted, userManager, poolVars, taskVars, netVars>>

(* Returns at once in a program that never made a thread call start().     *)
Join ==
  /\ Owner("join", "cleanup")
  /\ apc \in {"new", "returned"}
  /\ UNCHANGED <<acceptVars, userManager, poolVars, taskVars, netVars>>

(* ~Server(): stop() finds running_ false; cleanup().                      *)
Cleanup ==
  /\ Owner("cleanup", "members")
  /\ Close(serverSocket)
  /\ serverSocket' = NoFD
  /\ UNCHANGED <<running, apc, accepted, userManager, poolVars, taskVars, backlog, peer, lateClients>>

(* Members are destroyed in the reverse order of their declaration:        *)
(* userManager_, then threadPool_.                                         *)
DestroyUserManager ==
  /\ Owner("members", "pool")
  /\ userManager' = FALSE
  /\ UNCHANGED <<acceptVars, poolVars, taskVars, netVars>>

DestroyPool ==
  /\ \/ opc = "pool" /\ Pool!Stop /\ opc' = "workers"
     \/ opc = "workers" /\ Pool!Close /\ opc' = "gone"
  /\ UNCHANGED <<acceptVars, userManager, taskVars, netVars>>

-----------------------------------------------------------------------------
(* The task of a client: a Connection on the captured descriptor.          *)

BeginTask(w) ==
  /\ Pool!Start(w)
  /\ wpc' = [wpc EXCEPT ![w] = "recv"]
  /\ socketFd' = [socketFd EXCEPT ![w] = clientSocket[Head(pending)]]
  /\ UNCHANGED <<acceptVars, ownerVars, clientSocket, netVars>>

(* recv() on whatever the descriptor stands for now.                       *)
Receive(w) ==
  /\ Works(w, "recv", "process")
  /\ table[socketFd[w]] \in Clients /\ peer[table[socketFd[w]]] = "here"
  /\ UNCHANGED <<acceptVars, ownerVars, poolVars, clientSocket, socketFd, netVars>>

ReceiveEnd(w) ==
  /\ Works(w, "recv", "close")
  /\ table[socketFd[w]] \notin Clients \/ peer[table[socketFd[w]]] = "left"
  /\ UNCHANGED <<acceptVars, ownerVars, poolVars, clientSocket, socketFd, netVars>>

(* processData(): see Connection.  It uses userManager_.                   *)
Process(w) ==
  /\ Works(w, "process", "recv")
  /\ UNCHANGED <<acceptVars, ownerVars, poolVars, clientSocket, socketFd, netVars>>

(* Mutant: socketFd_ keeps the number that close() freed.                  *)
closeConnectionKeeps(w) == Close(socketFd[w]) /\ UNCHANGED socketFd

closeConnection(w) ==
  /\ Close(socketFd[w])
  /\ socketFd' = [socketFd EXCEPT ![w] = NoFD]

(* handleClient() ends ...                                                 *)
CloseInHandleClient(w) ==
  /\ Works(w, "close", "destroy")
  /\ closeConnection(w)
  /\ UNCHANGED <<acceptVars, ownerVars, poolVars, clientSocket, backlog, peer, lateClients>>

(* ... and ~Connection() closes again before the task returns.             *)
EndTask(w) ==
  /\ Works(w, "destroy", "idle")
  /\ closeConnection(w)
  /\ Pool!Finish(w)
  /\ UNCHANGED <<acceptVars, ownerVars, clientSocket, backlog, peer, lateClients>>

-----------------------------------------------------------------------------
(* Clients and the kernel.                                                 *)

ListenerAlive == apc = "blocked" \/ \E fd \in FDs : table[fd] = Listener

ClientConnect(c) ==
  /\ peer[c] = "away"
  /\ ListenerAlive
  /\ peer' = [peer EXCEPT ![c] = "here"]
  /\ backlog' = backlog \cup {c}
  /\ UNCHANGED <<acceptVars, ownerVars, poolVars, taskVars, table, lateClients>>

ClientLeave(c) ==
  /\ peer[c] = "here"
  /\ peer' = [peer EXCEPT ![c] = "left"]
  /\ UNCHANGED <<acceptVars, ownerVars, poolVars, taskVars, table, backlog, lateClients>>

-----------------------------------------------------------------------------
AcceptLoop == \/ LoopTest
              \/ AcceptCall
              \/ AcceptFull
              \/ \E c \in Clients : AcceptReturn(c)
              \/ Enqueue
Stop == StopClose \/ StopReset
Destructor == Cleanup \/ DestroyUserManager \/ DestroyPool
GoOn(w) == ReceiveEnd(w) \/ Process(w) \/ CloseInHandleClient(w) \/ EndTask(w)
Task(w) == BeginTask(w) \/ Receive(w) \/ GoOn(w)

Next == \/ Start
        \/ AcceptLoop
        \/ StopBegin
        \/ Stop
        \/ Join
        \/ Destructor
        \/ \E w \in Workers : Task(w)
        \/ \E c \in Clients : ClientConnect(c) \/ ClientLeave(c)

Spec == Init /\ [][Next]_vars

(* Threads that can go on do, and the open pool hands a queued task to an  *)
(* idle worker (QueuedTaskStartsOrPoolIsBusy of ThreadPool).  Nothing is   *)
(* assumed of clients, nor of when stop() is called.                       *)
FairSpec == /\ Spec
            /\ WF_vars(AcceptLoop)
            /\ WF_vars(Stop)
            /\ WF_vars(Join)
            /\ WF_vars(phase = "open" /\ \E w \in Workers : BeginTask(w))
            /\ \A w \in Workers : WF_vars(GoOn(w))

(* Clients do not stay for ever.                                           *)
ClientsLeave == \A c \in Clients : WF_vars(ClientLeave(c))

-----------------------------------------------------------------------------
(* Every variable has its type.                                            *)
TypeOK ==
  /\ running \in BOOLEAN /\ userManager \in BOOLEAN
  /\ serverSocket \in FDs \cup {NoFD}
  /\ apc \in {"new", "loop", "call", "blocked", "accepted", "returned"}
  /\ accepted \in Clients \cup {NoClient}
  /\ opc \in {"using", "close", "reset", "join", "cleanup", "members", "pool", "workers", "gone"}
  /\ pending \in Seq(Clients) /\ submitted \subseteq Clients
  /\ serving \in [Workers -> Clients \cup {NoClient}]
  /\ phase \in {"open", "stopping", "drained", "closed"}
  /\ clientSocket \in [Clients -> FDs \cup {NoFD}]
  /\ wpc \in [Workers -> {"idle", "recv", "process", "close", "destroy"}]
  /\ socketFd \in [Workers -> FDs \cup {NoFD}]
  /\ table \in [FDs -> Clients \cup {Listener, Unused}]
  /\ backlog \subseteq Clients
  /\ peer \in [Clients -> {"away", "here", "left"}]
  /\ lateClients \in Nat

(* A descriptor means to its holder what it meant when it was handed over: *)
(* a socket queued or served is its client's, although numbers are freed   *)
(* by stop(), by cleanup() and twice per Connection, and are reused.       *)
Queued == {pending[i] : i \in DOMAIN pending}
OwnSockets ==
  /\ \A c \in Queued \cup {accepted} : c # NoClient => table[clientSocket[c]] = c
  /\ \A w \in Workers : socketFd[w] # NoFD => table[socketFd[w]] = serving[w]

(* No socket is forgotten: one that is open is in the hands of the accept  *)
(* loop, of the queue or of the Connection that will close it.             *)
OpenSocketsHeld ==
  \A fd \in FDs : table[fd] \in Clients =>
    \/ table[fd] \in Queued \cup {accepted}
    \/ \E w \in Workers : socketFd[w] = fd /\ serving[w] = table[fd]

(* However stop() and acceptLoop() interleave, one client at most is still *)
(* accepted after running_ was cleared.                                    *)
OneLateClient == lateClients <= 1

(* enqueue() is never entered once the pool's destructor has begun, nor    *)
(* twice for one client, which the pool relies on and does not test; and   *)
(* the stop() that ~Server() calls finds running_ false.                   *)
PoolOutlivesLoop ==
  /\ apc = "accepted" => phase = "open" /\ accepted \notin submitted
  /\ opc \in {"cleanup", "members", "pool", "workers", "gone"} => ~running

(* A client's socket is closed by the Connection that serves the client,   *)
(* at the end of handleClient(), and by nobody else: neither ~Connection(),*)
(* which closes once more, nor stop() nor cleanup() ever hits a number     *)
(* that was given to a client since.                                       *)
ClosedByOwner ==
  [][\A fd \in FDs : table[fd] \in Clients /\ table'[fd] # table[fd] =>
       /\ table'[fd] = Unused
       /\ \E w \in Workers : serving[w] = table[fd] /\ wpc[w] = "close" /\ wpc'[w] = "destroy"]_vars

(* After stop() the thread in start() returns, or it stays blocked in      *)
(* accept() for ever and nobody ever connects: a single client that does,  *)
(* however late, ends the loop.                                            *)
StopEndsLoopUnlessBlocked ==
  opc = "reset" ~> apc = "returned" \/ [](apc = "blocked" /\ backlog = {})

(* Once start() has been called, clients that connect are all served in    *)
(* the end, or somebody stops the server, also when there are more of them *)
(* than workers or descriptors, if clients do not stay for ever.           *)
EveryClientServed ==
  ClientsLeave => \A c \in Clients :
    c \in backlog /\ running ~> opc # "using" \/ \E w \in Workers : serving[w] = c

(* Connection.h: a Connection holds a reference to the UserManager.        *)
(* Refuted: ~Server() destroys it before the workers are joined.           *)
UserManagerOutlivesTasks == \A w \in Workers : wpc[w] = "process" => userManager

(* Server.cpp: stop() closes the listening socket "to break the accept()   *)
(* call", and ServerTest.cpp joins the thread in start() after stop().     *)
(* Refuted: close() does not wake an accept() that is already blocked.     *)
StopEndsLoop == opc = "reset" ~> apc = "returned"
=============================================================================
