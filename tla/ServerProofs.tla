---------------------------- MODULE ServerProofs ----------------------------
(***************************************************************************)
(* The safety properties of Server, proved for any workers, clients and    *)
(* descriptors.                                                            *)
(***************************************************************************)
EXTENDS Server, TLAPS

(* The loop holds a client between accept() and enqueue().                 *)
AcceptInv == apc = "accepted" <=> accepted # NoClient

(* The owner begins ~Server() when the loop is over or was never begun,    *)
(* and the pool is open until then.                                        *)
OwnerInv == /\ apc \in {"new", "returned"} => ~running
            /\ opc \in {"cleanup", "members", "pool", "workers", "gone"} => apc \in {"new", "returned"}
            /\ phase = "open" <=> opc \notin {"workers", "gone"}

(* Once running_ is false the loop gets past its test no more.             *)
LateInv == \/ lateClients = 0
           \/ lateClients = 1 /\ ~running /\ apc \in {"accepted", "loop", "returned"}

(* serverSocket_ is the listener's number, but for the moment in stop()    *)
(* between close() and the assignment.                                     *)
ListenerInv == /\ serverSocket # NoFD /\ opc # "reset" => table[serverSocket] = Listener
               /\ opc \in {"using", "close"} => serverSocket # NoFD

(* A worker with a client has a Connection, which is open until "destroy". *)
WorkerInv ==
  \A w \in Workers : /\ wpc[w] = "idle" <=> serving[w] = NoClient
                     /\ wpc[w] \in {"recv", "process", "close"} <=> socketFd[w] # NoFD

(* A client is at one place: in the backlog, accepted, queued once, or     *)
(* with one worker.                                                        *)
OnceInv ==
  /\ Queued \subseteq submitted
  /\ \A i, j \in DOMAIN pending : pending[i] = pending[j] => i = j
  /\ \A w \in Workers : serving[w] # NoClient => serving[w] \in submitted \ Queued
  /\ \A w, v \in Workers : serving[w] = serving[v] /\ serving[w] # NoClient => w = v
  /\ accepted \notin submitted \cup backlog
  /\ submitted \cap backlog = {}
  /\ \A c \in Clients : peer[c] = "away" => c \notin submitted \cup backlog /\ c # accepted

(* A client's socket has the number its task captured.                     *)
NumberInv ==
  /\ \A c \in Queued \cup {accepted} : c # NoClient => clientSocket[c] \in FDs
  /\ \A fd \in FDs : table[fd] \in Clients =>
       /\ clientSocket[table[fd]] = fd
       /\ table[fd] \in submitted \cup {accepted}

IInv == /\ TypeOK
        /\ AcceptInv
        /\ OwnerInv
        /\ LateInv
        /\ ListenerInv
        /\ WorkerInv
        /\ OnceInv
        /\ NumberInv
        /\ OwnSockets
        /\ OpenSocketsHeld

-----------------------------------------------------------------------------
(* Every initial state satisfies the inductive invariant.                  *)
LEMMA InitIInv == Init => IInv
<1> SUFFICES ASSUME Init PROVE IInv
  OBVIOUS
<1> USE ServerAssumption DEF Init, Pool!Init
<1>1. ListenFD \in FDs
  BY DEF ListenFD
<1>2. TypeOK
  <2>1. pending \in Seq(Clients) /\ submitted \subseteq Clients /\ lateClients \in Nat
    OBVIOUS
  <2>2. table \in [FDs -> Clients \cup {Listener, Unused}]
    OBVIOUS
  <2>3. QED
    BY <1>1, <2>1, <2>2 DEF TypeOK
<1>3. AcceptInv /\ OwnerInv /\ LateInv /\ ListenerInv /\ WorkerInv
  BY <1>1 DEF AcceptInv, OwnerInv, LateInv, ListenerInv, WorkerInv
<1>4. OnceInv /\ NumberInv
  BY <1>1 DEF OnceInv, NumberInv, Queued
<1>5. OwnSockets /\ OpenSocketsHeld
  BY <1>1 DEF OwnSockets, OpenSocketsHeld, Queued
<1>6. QED
  BY <1>2, <1>3, <1>4, <1>5 DEF IInv

-----------------------------------------------------------------------------
(* Steps that move nobody's socket.                                        *)
Quiet == \/ Start \/ LoopTest \/ AcceptCall \/ AcceptFull
         \/ StopBegin \/ StopReset \/ Join \/ DestroyUserManager \/ DestroyPool
         \/ \E w \in Workers : Receive(w) \/ ReceiveEnd(w) \/ Process(w)
         \/ \E c \in Clients : ClientLeave(c)
         \/ UNCHANGED vars

(* They keep the invariant: what is known of sockets is not touched.       *)
LEMMA QuietStep == IInv /\ Quiet => IInv'
<1> SUFFICES ASSUME IInv, Quiet PROVE IInv'
  OBVIOUS
<1> USE ServerAssumption DEF IInv, Quiet, Accepts, Owner, Works, acceptVars, ownerVars,
       poolVars, taskVars, netVars, vars
<1> USE DEF Start, LoopTest, AcceptCall, AcceptFull, StopBegin, StopReset, Join,
       DestroyUserManager, DestroyPool, Receive, ReceiveEnd, Process, ClientLeave,
       Pool!Stop, Pool!Close
<1>1. UNCHANGED <<accepted, pending, serving, submitted, clientSocket, socketFd, table, backlog>>
  OBVIOUS
<1>2. TypeOK'
  <2>1. running' \in BOOLEAN /\ userManager' \in BOOLEAN /\ serverSocket' \in FDs \cup {NoFD}
    BY DEF TypeOK
  <2>2. apc' \in {"new", "loop", "call", "blocked", "accepted", "returned"}
    BY DEF TypeOK
  <2>3. opc' \in {"using", "close", "reset", "join", "cleanup", "members", "pool", "workers", "gone"}
    BY DEF TypeOK
  <2>4. phase' \in {"open", "stopping", "drained", "closed"} /\ lateClients' = lateClients
    BY DEF TypeOK
  <2>5. /\ wpc' \in [Workers -> {"idle", "recv", "process", "close", "destroy"}]
        /\ peer' \in [Clients -> {"away", "here", "left"}]
    BY DEF TypeOK
  <2>6. QED
    BY <1>1, <2>1, <2>2, <2>3, <2>4, <2>5 DEF TypeOK
<1>3. AcceptInv' /\ LateInv'
  BY DEF AcceptInv, LateInv
<1>4. ListenerInv'
  BY DEF TypeOK, ListenerInv
<1>5. WorkerInv'
  BY DEF TypeOK, WorkerInv
<1>6. \A c \in Clients : peer'[c] = "away" => peer[c] = "away"
  BY DEF TypeOK
<1>7. OnceInv'
  BY <1>1, <1>6 DEF OnceInv, Queued
<1>8. NumberInv' /\ OwnSockets' /\ OpenSocketsHeld'
  BY <1>1 DEF NumberInv, OwnSockets, OpenSocketsHeld, Queued
<1>10. OwnerInv'
  BY DEF OwnerInv
<1>9. QED
  BY <1>2, <1>3, <1>4, <1>5, <1>7, <1>8, <1>10

(* A client leaves the backlog, and its socket gets a free number.         *)
LEMMA AcceptReturnStep == ASSUME IInv, NEW c \in Clients, AcceptReturn(c) PROVE IInv'
<1> USE ServerAssumption DEF IInv, AcceptReturn, Accepts, ownerVars, poolVars
<1> PICK fd \in Free : /\ clientSocket' = [clientSocket EXCEPT ![c] = fd]
                       /\ table' = [table EXCEPT ![fd] = c]
  OBVIOUS
<1>1. fd \in FDs /\ table[fd] = Unused /\ Unused \notin Clients
  BY DEF Free
<1>2. c \notin submitted /\ accepted = NoClient
  BY DEF OnceInv, AcceptInv
<1>3. TypeOK'
  BY <1>1 DEF TypeOK
<1>4. AcceptInv' /\ OwnerInv' /\ LateInv' /\ WorkerInv'
  BY DEF AcceptInv, OwnerInv, LateInv, WorkerInv, TypeOK
<1>5. ListenerInv'
  BY <1>1 DEF ListenerInv, TypeOK
<1>6. OnceInv'
  BY <1>2 DEF OnceInv, Queued, TypeOK
<1>7. Queued' = Queued /\ Queued \subseteq submitted /\ submitted \subseteq Clients
  BY DEF OnceInv, Queued, TypeOK
<1>8. NumberInv'
  BY <1>1, <1>2, <1>7 DEF NumberInv, TypeOK
<1>9. \A d \in Queued : d # NoClient /\ clientSocket'[d] = clientSocket[d] /\ clientSocket[d] # fd
                         /\ clientSocket[d] \in FDs
  BY <1>1, <1>2, <1>7 DEF OwnSockets, NumberInv, TypeOK
<1>10. \A w \in Workers : socketFd[w] # NoFD => socketFd[w] # fd /\ socketFd[w] \in FDs
  BY <1>1 DEF OwnSockets, OnceInv, WorkerInv, TypeOK
<1>11. OwnSockets'
  BY <1>1, <1>7, <1>9, <1>10 DEF OwnSockets, TypeOK
<1>12. OpenSocketsHeld'
  BY <1>1, <1>2, <1>7 DEF OpenSocketsHeld, TypeOK
<1>13. QED
  BY <1>3, <1>4, <1>5, <1>6, <1>8, <1>11, <1>12

(* The accepted client is queued.                                          *)
LEMMA EnqueueStep == ASSUME IInv, Enqueue PROVE IInv'
<1> USE ServerAssumption DEF IInv, Enqueue, Accepts, Pool!Submit, ownerVars, taskVars, netVars
<1>1. accepted \in Clients /\ accepted' = NoClient
  BY DEF AcceptInv, TypeOK
<1>2. /\ Len(pending') = Len(pending) + 1 /\ pending'[Len(pending')] = accepted
      /\ \A i \in 1 .. Len(pending) : pending'[i] = pending[i]
      /\ DOMAIN pending = 1 .. Len(pending) /\ DOMAIN pending' = 1 .. Len(pending')
      /\ Len(pending) \in Nat
  BY <1>1 DEF TypeOK
<1>3. Queued' = Queued \cup {accepted}
  BY <1>2 DEF Queued
<1>4. TypeOK'
  BY <1>1 DEF TypeOK
<1>5. AcceptInv' /\ OwnerInv' /\ LateInv' /\ ListenerInv' /\ WorkerInv'
  BY DEF AcceptInv, OwnerInv, LateInv, ListenerInv, WorkerInv
<1>6. OnceInv'
  <2>1. accepted \notin submitted \cup backlog /\ accepted \notin Queued
    BY DEF OnceInv
  <2>2. \A i, j \in DOMAIN pending' : pending'[i] = pending'[j] => i = j
    <3>1. \A i \in 1 .. Len(pending) : pending[i] \in Queued
      BY <1>2 DEF Queued
    <3>2. QED
      BY <1>2, <2>1, <3>1 DEF OnceInv
  <2>3. \A w \in Workers : serving[w] # NoClient => serving[w] \in submitted' \ Queued'
    BY <1>3, <2>1 DEF OnceInv
  <2>4. QED
    BY <1>1, <1>3, <2>1, <2>2, <2>3 DEF OnceInv, TypeOK
<1>7. NumberInv' /\ OwnSockets' /\ OpenSocketsHeld'
  BY <1>1, <1>3 DEF NumberInv, OwnSockets, OpenSocketsHeld
<1>8. QED
  BY <1>4, <1>5, <1>6, <1>7

(* The listening socket is closed; serverSocket is no client's.            *)
LEMMA CloseListenerStep == ASSUME IInv, StopClose \/ Cleanup PROVE IInv'
<1> USE ServerAssumption DEF IInv, StopClose, Cleanup, Owner, Close, acceptVars, poolVars, taskVars
<1>1. \A fd \in FDs : table'[fd] = IF fd = serverSocket THEN Unused ELSE table[fd]
  BY DEF TypeOK
<1>2. serverSocket \in FDs => table[serverSocket] = Listener
  BY DEF ListenerInv
<1>3. TypeOK'
  BY DEF TypeOK
<1>4. AcceptInv' /\ OwnerInv' /\ LateInv' /\ ListenerInv' /\ WorkerInv'
  BY <1>1 DEF AcceptInv, OwnerInv, LateInv, ListenerInv, WorkerInv, TypeOK
<1>5. Queued' = Queued /\ UNCHANGED <<accepted, pending, serving, submitted, clientSocket, socketFd, backlog, peer>>
  BY DEF Queued
<1>6. OnceInv'
  BY <1>5 DEF OnceInv
<1>7. \A fd \in FDs : table[fd] \in Clients => table'[fd] = table[fd]
  BY <1>1, <1>2
<1>8. \A fd \in FDs : table'[fd] \in Clients => table'[fd] = table[fd]
  BY <1>1
<1>9. NumberInv' /\ OpenSocketsHeld'
  BY <1>5, <1>8 DEF NumberInv, OpenSocketsHeld
<1>10. Queued \subseteq Clients
  BY DEF OnceInv, TypeOK
<1>11. OwnSockets'
  <2>1. \A c \in Queued \cup {accepted} : c # NoClient => table'[clientSocket[c]] = c
    BY <1>7, <1>10 DEF OwnSockets, NumberInv, TypeOK
  <2>2. \A w \in Workers : socketFd[w] # NoFD => table'[socketFd[w]] = serving[w]
    BY <1>7 DEF OwnSockets, WorkerInv, TypeOK
  <2>3. QED
    BY <1>5, <2>1, <2>2 DEF OwnSockets
<1>12. QED
  BY <1>3, <1>4, <1>6, <1>9, <1>11

(* A worker takes the oldest task, and constructs a Connection.            *)
LEMMA BeginTaskStep == ASSUME IInv, NEW w \in Workers, BeginTask(w) PROVE IInv'
<1> USE ServerAssumption DEF IInv, BeginTask, Pool!Start, acceptVars, ownerVars, netVars
<1> DEFINE c == Head(pending)
<1>1. /\ pending \in Seq(Clients) /\ pending # <<>> /\ Len(pending) \in Nat
      /\ DOMAIN pending = 1 .. Len(pending) /\ c = pending[1] /\ 1 \in DOMAIN pending
      /\ pending' \in Seq(Clients) /\ DOMAIN pending' = 1 .. Len(pending) - 1
      /\ \A i \in DOMAIN pending' : pending'[i] = pending[i+1] /\ i+1 \in DOMAIN pending
  BY DEF TypeOK
<1>2. c \in Queued /\ c \in Clients /\ c \in submitted /\ c # NoClient
  BY <1>1 DEF Queued, OnceInv, TypeOK
<1>3. Queued' = Queued \ {c}
  <2>1. \A i \in DOMAIN pending' : pending'[i] # c
    BY <1>1 DEF OnceInv
  <2>2. \A i \in DOMAIN pending : i # 1 => i-1 \in DOMAIN pending' /\ pending'[i-1] = pending[i]
    BY <1>1
  <2>3. Queued' \subseteq Queued \ {c}
    BY <1>1, <2>1 DEF Queued
  <2>4. ASSUME NEW d \in Queued, d # c PROVE d \in Queued'
    <3>1. PICK i \in DOMAIN pending : pending[i] = d
      BY <2>4 DEF Queued
    <3>2. i # 1
      BY <1>1, <2>4, <3>1
    <3>3. QED
      BY <2>2, <3>1, <3>2 DEF Queued
  <2>5. QED
    BY <2>3, <2>4
<1>4. clientSocket[c] \in FDs /\ table[clientSocket[c]] = c
  BY <1>2 DEF NumberInv, OwnSockets
<1>5. serving[w] = NoClient /\ socketFd[w] = NoFD
  BY DEF WorkerInv, TypeOK
<1>6. /\ serving' = [serving EXCEPT ![w] = c] /\ socketFd' = [socketFd EXCEPT ![w] = clientSocket[c]]
      /\ wpc' = [wpc EXCEPT ![w] = "recv"]
  OBVIOUS
<1> HIDE DEF c
<1>7. TypeOK'
  BY <1>1, <1>2, <1>4, <1>6 DEF TypeOK
<1>8. AcceptInv' /\ OwnerInv' /\ LateInv' /\ ListenerInv'
  BY DEF AcceptInv, OwnerInv, LateInv, ListenerInv
<1>9. WorkerInv'
  BY <1>2, <1>4, <1>5, <1>6 DEF WorkerInv, TypeOK
<1>10. OnceInv'
  <2>1. \A i, j \in DOMAIN pending' : pending'[i] = pending'[j] => i = j
    BY <1>1 DEF OnceInv
  <2>2. \A v \in Workers : serving'[v] # NoClient => serving'[v] \in submitted \ Queued'
    BY <1>2, <1>3, <1>6 DEF OnceInv, TypeOK
  <2>3. \A v, u \in Workers : serving'[v] = serving'[u] /\ serving'[v] # NoClient => v = u
    BY <1>2, <1>6 DEF OnceInv, TypeOK
  <2>4. QED
    BY <1>3, <2>1, <2>2, <2>3 DEF OnceInv
<1>11. NumberInv'
  BY <1>3 DEF NumberInv
<1>12. OwnSockets'
  BY <1>3, <1>4, <1>6 DEF OwnSockets, TypeOK
<1>13. OpenSocketsHeld'
  <2>1. ASSUME NEW fd \in FDs, table[fd] \in Clients
        PROVE  \/ table[fd] \in Queued' \cup {accepted}
               \/ \E v \in Workers : socketFd'[v] = fd /\ serving'[v] = table[fd]
    <3>1. CASE table[fd] = c
      BY <1>2, <1>6, <2>1, <3>1 DEF NumberInv, TypeOK
    <3>2. CASE table[fd] # c /\ table[fd] \in Queued \cup {accepted}
      BY <1>3, <3>2
    <3>3. CASE \E v \in Workers : socketFd[v] = fd /\ serving[v] = table[fd]
      BY <1>5, <1>6, <2>1, <3>3 DEF TypeOK
    <3>4. QED
      BY <2>1, <3>1, <3>2, <3>3 DEF OpenSocketsHeld
  <2>2. QED
    BY <2>1 DEF OpenSocketsHeld
<1>14. QED
  BY <1>7, <1>8, <1>9, <1>10, <1>11, <1>12, <1>13

(* handleClient() closes the socket of its own client.                     *)
LEMMA CloseInHandleClientStep == ASSUME IInv, NEW w \in Workers, CloseInHandleClient(w) PROVE IInv'
<1> USE ServerAssumption DEF IInv, CloseInHandleClient, Works, closeConnection, Close,
       acceptVars, ownerVars, poolVars
<1> DEFINE f == socketFd[w]
<1>1. f \in FDs /\ table[f] = serving[w] /\ serving[w] \in submitted /\ serving[w] \notin Queued \cup {accepted}
  BY DEF WorkerInv, OwnSockets, OnceInv, TypeOK
<1>2. table' = [table EXCEPT ![f] = Unused] /\ socketFd' = [socketFd EXCEPT ![w] = NoFD]
  BY <1>1
<1>3. Queued' = Queued /\ Queued \subseteq Clients
  BY DEF Queued, OnceInv, TypeOK
<1> HIDE DEF f
<1>4. TypeOK'
  BY <1>1, <1>2 DEF TypeOK
<1>5. AcceptInv' /\ OwnerInv' /\ LateInv' /\ WorkerInv'
  BY <1>1, <1>2 DEF AcceptInv, OwnerInv, LateInv, WorkerInv, TypeOK
<1>6. ListenerInv'
  BY <1>1, <1>2 DEF ListenerInv, TypeOK
<1>7. OnceInv'
  BY <1>3 DEF OnceInv
<1>8. NumberInv'
  BY <1>1, <1>2, <1>3 DEF NumberInv, TypeOK
<1>9. OwnSockets'
  <2>1. \A c \in Queued \cup {accepted} : c # NoClient => clientSocket[c] # f /\ clientSocket[c] \in FDs
    BY <1>1 DEF OwnSockets, NumberInv
  <2>2. \A v \in Workers : socketFd'[v] # NoFD => v # w /\ socketFd[v] # f /\ socketFd'[v] = socketFd[v]
    BY <1>1, <1>2 DEF OwnSockets, OnceInv, WorkerInv, TypeOK
  <2>3. QED
    BY <1>2, <1>3, <2>1, <2>2 DEF OwnSockets, TypeOK
<1>10. OpenSocketsHeld'
  BY <1>1, <1>2, <1>3 DEF OpenSocketsHeld, TypeOK
<1>11. QED
  BY <1>4, <1>5, <1>6, <1>7, <1>8, <1>9, <1>10

(* The second close of a Connection closes nothing.                        *)
LEMMA EndTaskStep == ASSUME IInv, NEW w \in Workers, EndTask(w) PROVE IInv'
<1> USE ServerAssumption DEF IInv, EndTask, Works, closeConnection, Close, Pool!Finish,
       acceptVars, ownerVars
<1>1. socketFd[w] = NoFD
  BY DEF WorkerInv
<1>2. UNCHANGED <<table, socketFd, pending, submitted, accepted, clientSocket, backlog, peer>>
  BY <1>1 DEF TypeOK
<1>3. serving' = [serving EXCEPT ![w] = NoClient] /\ wpc' = [wpc EXCEPT ![w] = "idle"]
  OBVIOUS
<1>4. Queued' = Queued
  BY <1>2 DEF Queued
<1>5. TypeOK'
  BY <1>2, <1>3 DEF TypeOK
<1>6. AcceptInv' /\ OwnerInv' /\ LateInv' /\ ListenerInv' /\ WorkerInv'
  BY <1>1, <1>2, <1>3 DEF AcceptInv, OwnerInv, LateInv, ListenerInv, WorkerInv, TypeOK
<1>7. OnceInv'
  BY <1>2, <1>3, <1>4 DEF OnceInv, TypeOK
<1>8. NumberInv'
  BY <1>2, <1>4 DEF NumberInv
<1>9. OwnSockets'
  BY <1>1, <1>2, <1>3, <1>4 DEF OwnSockets, TypeOK
<1>10. OpenSocketsHeld'
  BY <1>1, <1>2, <1>3, <1>4 DEF OpenSocketsHeld, TypeOK
<1>11. QED
  BY <1>5, <1>6, <1>7, <1>8, <1>9, <1>10

(* A client connects for the first time.                                   *)
LEMMA ClientConnectStep == ASSUME IInv, NEW c \in Clients, ClientConnect(c) PROVE IInv'
<1> USE ServerAssumption DEF IInv, ClientConnect, acceptVars, ownerVars, poolVars, taskVars
<1>1. TypeOK'
  BY DEF TypeOK
<1>2. AcceptInv' /\ OwnerInv' /\ LateInv' /\ ListenerInv' /\ WorkerInv'
  BY DEF AcceptInv, OwnerInv, LateInv, ListenerInv, WorkerInv
<1>3. Queued' = Queued
  BY DEF Queued
<1>4. OnceInv'
  BY <1>3 DEF OnceInv, TypeOK
<1>5. NumberInv' /\ OwnSockets' /\ OpenSocketsHeld'
  BY <1>3 DEF NumberInv, OwnSockets, OpenSocketsHeld
<1>6. QED
  BY <1>1, <1>2, <1>4, <1>5

(* The invariant is inductive.                                             *)
LEMMA StepIInv == IInv /\ [Next]_vars => IInv'
<1> SUFFICES ASSUME IInv, [Next]_vars PROVE IInv'
  OBVIOUS
<1>1. \/ Quiet
      \/ \E c \in Clients : AcceptReturn(c) \/ ClientConnect(c)
      \/ Enqueue \/ StopClose \/ Cleanup
      \/ \E w \in Workers : BeginTask(w) \/ CloseInHandleClient(w) \/ EndTask(w)
  BY DEF Next, AcceptLoop, Stop, Destructor, Task, GoOn, Quiet
<1>2. QED
  BY <1>1, QuietStep, AcceptReturnStep, ClientConnectStep, EnqueueStep, CloseListenerStep,
     BeginTaskStep, CloseInHandleClientStep, EndTaskStep

LEMMA Invariance == Spec => []IInv
  BY InitIInv, StepIInv, PTL DEF Spec

-----------------------------------------------------------------------------
(* Every variable has its type, for any workers, clients and descriptors.  *)
THEOREM TypeCorrect == Spec => []TypeOK
<1>1. IInv => TypeOK
  BY DEF IInv
<1>2. QED
  BY <1>1, Invariance, PTL

(* close() and accept() free and reuse numbers, and yet a task and a       *)
(* Connection always have the socket of their own client.                  *)
THEOREM SocketsAreOwn == Spec => []OwnSockets
<1>1. IInv => OwnSockets
  BY DEF IInv
<1>2. QED
  BY <1>1, Invariance, PTL

(* An open client socket is in the hands of somebody who will close it, or *)
(* in the queue.                                                           *)
THEOREM SocketsAreHeld == Spec => []OpenSocketsHeld
<1>1. IInv => OpenSocketsHeld
  BY DEF IInv
<1>2. QED
  BY <1>1, Invariance, PTL

(* acceptLoop() accepts one client at most after stop() cleared running_.  *)
THEOREM AtMostOneLateClient == Spec => []OneLateClient
<1>1. IInv => OneLateClient
  BY DEF IInv, LateInv, OneLateClient
<1>2. QED
  BY <1>1, Invariance, PTL

(* enqueue() is only entered while the pool is open, with a client it has  *)
(* not been given before, and ~Server() calls stop() on a stopped server.  *)
THEOREM PoolIsThereForTheLoop == Spec => []PoolOutlivesLoop
<1>1. IInv => PoolOutlivesLoop
  <2> SUFFICES ASSUME IInv PROVE PoolOutlivesLoop
    OBVIOUS
  <2>1. apc = "accepted" => phase = "open"
    BY DEF IInv, OwnerInv
  <2>2. accepted \notin submitted
    BY DEF IInv, OnceInv
  <2>3. opc \in {"cleanup", "members", "pool", "workers", "gone"} => ~running
    BY DEF IInv, OwnerInv
  <2>4. QED
    BY <2>1, <2>2, <2>3 DEF PoolOutlivesLoop
<1>2. QED
  BY <1>1, Invariance, PTL

(* What ClosedByOwner says of one step.                                    *)
ClosesOwn(fd) ==
  table[fd] \in Clients /\ table'[fd] # table[fd] =>
    /\ table'[fd] = Unused
    /\ \E w \in Workers : serving[w] = table[fd] /\ wpc[w] = "close" /\ wpc'[w] = "destroy"

LEMMA ClosesOwnStep == ASSUME IInv, [Next]_vars, NEW fd \in FDs PROVE ClosesOwn(fd)
<1> USE ServerAssumption DEF IInv, ClosesOwn
<1>1. CASE Quiet
  BY <1>1 DEF Quiet, Start, LoopTest, AcceptCall, AcceptFull, StopBegin, StopReset, Join,
       DestroyUserManager, DestroyPool, Receive, ReceiveEnd, Process, ClientLeave, netVars, vars
<1>2. ASSUME NEW c \in Clients, AcceptReturn(c) PROVE ClosesOwn(fd)
  <2>1. PICK f \in Free : table' = [table EXCEPT ![f] = c]
    BY <1>2 DEF AcceptReturn
  <2>2. QED
    BY <2>1 DEF Free, TypeOK
<1>3. CASE StopClose \/ Cleanup
  BY <1>3 DEF StopClose, Cleanup, Close, ListenerInv, Owner, TypeOK
<1>4. ASSUME NEW w \in Workers, CloseInHandleClient(w) PROVE ClosesOwn(fd)
  <2>1. socketFd[w] \in FDs /\ table[socketFd[w]] = serving[w]
    BY <1>4 DEF CloseInHandleClient, Works, WorkerInv, OwnSockets, TypeOK
  <2>2. table' = [table EXCEPT ![socketFd[w]] = Unused]
    BY <1>4, <2>1 DEF CloseInHandleClient, closeConnection, Close
  <2>3. wpc[w] = "close" /\ wpc'[w] = "destroy"
    BY <1>4 DEF CloseInHandleClient, Works, TypeOK
  <2>4. QED
    BY <2>1, <2>2, <2>3 DEF TypeOK
<1>5. ASSUME NEW w \in Workers, EndTask(w) PROVE ClosesOwn(fd)
  BY <1>5 DEF EndTask, closeConnection, Close, Works, WorkerInv
<1>6. ASSUME Enqueue \/ (\E c \in Clients : ClientConnect(c)) \/ (\E w \in Workers : BeginTask(w))
      PROVE  ClosesOwn(fd)
  BY <1>6 DEF Enqueue, ClientConnect, BeginTask, netVars
<1>7. QED
  BY <1>1, <1>2, <1>3, <1>4, <1>5, <1>6
     DEF Next, AcceptLoop, Stop, Destructor, Task, GoOn, Quiet

(* close() frees a client's socket once, at the end of its own session.    *)
THEOREM SocketsAreClosedByOwner == Spec => ClosedByOwner
<1>1. IInv /\ [Next]_vars =>
        \A fd \in FDs : table[fd] \in Clients /\ table'[fd] # table[fd] =>
          /\ table'[fd] = Unused
          /\ \E w \in Workers : serving[w] = table[fd] /\ wpc[w] = "close" /\ wpc'[w] = "destroy"
  BY ClosesOwnStep DEF ClosesOwn
<1>2. QED
  BY <1>1, Invariance, PTL DEF Spec, ClosedByOwner
=============================================================================
