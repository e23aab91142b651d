---------------------------- MODULE ClientProofs ----------------------------
(***************************************************************************)
(* The safety properties of Client, proved for any number of chats and     *)
(* descriptors.                                                            *)
(***************************************************************************)
EXTENDS Client, TLAPS

(* ~Client() ends the listener before it closes the server's socket, and   *)
(* the two long-lived sockets keep their numbers to themselves till then.  *)
ExitInv ==
  /\ mpc # "exited" => (running <=> mpc \notin {"exit", "join", "closeServer"})
  /\ mpc = "closeServer" => lpc = "returned"
  /\ mpc # "exited" => /\ table[serverSocket] = ToServer
                       /\ \A c \in Chats : socket[c] # serverSocket
  /\ mpc \notin {"join", "closeServer", "exited"} =>
       /\ table[listenerSocket] = Listener
       /\ \A c \in Chats : socket[c] # listenerSocket

(* A chat is set up by one thread, the main one or the listener, and has   *)
(* its socket before it has threads.                                       *)
SetupInv ==
  /\ mpc # "exited" => (dialled # NoChat <=> mpc \in {"socket", "connect", "create"})
  /\ mpc = "socket" => socket[dialled] = NoFD
  /\ mpc \in {"connect", "create"} => socket[dialled] \in FDs
  /\ accepted # NoChat <=> lpc = "accepted"
  /\ accepted # NoChat => socket[accepted] \in FDs /\ accepted # dialled
  /\ \A c \in Chats :
       /\ c \in {dialled, accepted} \cup backlog => cpc[c] = "none"
       /\ c \in backlog => socket[c] = NoFD /\ peer[c] # "away" /\ c # dialled
       /\ cpc[c] # "none" => socket[c] \in FDs

(* A chat's socket has the number the chat was given.                      *)
NumberInv == \A fd \in FDs : table[fd] \in Chats => socket[table[fd]] = fd

(* OnlyReuseConfuses, from the moment a chat has a socket.                 *)
Alone(c) == \A d \in Chats \ {c} : socket[d] # socket[c]
AloneInv ==
  \A c \in Chats :
    socket[c] \in FDs /\ Alone(c) =>
      table[socket[c]] = c \/ cpc[c] = "failed" \/ spc[c] = "done" \/ rpc[c] = "done"

IInv == /\ TypeOK
        /\ ExitInv
        /\ SetupInv
        /\ NumberInv
        /\ ChatSocketsHeld
        /\ AloneInv

-----------------------------------------------------------------------------
(* The entries the invariant tells apart differ.                           *)
LEMMA SpecialsDiffer == Listener # ToServer /\ Listener # Unused /\ ToServer # Unused
BY ClientAssumption

(* Every initial state satisfies the inductive invariant.                  *)
LEMMA InitIInv == Init => IInv
<1> SUFFICES ASSUME Init PROVE IInv
  OBVIOUS
<1> USE ClientAssumption DEF Init
<1>1. Listener # ToServer /\ Listener # Unused /\ ToServer # Unused
  BY SpecialsDiffer
<1>2. /\ DOMAIN table = FDs /\ table = [fd \in FDs |-> table[fd]]
      /\ table[listenerSocket] = Listener /\ table[serverSocket] = ToServer
      /\ \A fd \in FDs \ {listenerSocket, serverSocket} : table[fd] \in {Inherited, Unused}
  <2>1. PICK open \in SUBSET Inheritable :
          table = [fd \in FDs |-> IF fd = listenerSocket THEN Listener
                                  ELSE IF fd = serverSocket THEN ToServer
                                  ELSE IF fd \in open THEN Inherited ELSE Unused]
    OBVIOUS
  <2>2. QED
    BY <2>1
<1>3. TypeOK
  BY <1>2 DEF TypeOK
<1>4. ExitInv /\ SetupInv
  BY <1>2 DEF ExitInv, SetupInv
<1>5. NumberInv /\ ChatSocketsHeld /\ AloneInv
  BY <1>2 DEF NumberInv, ChatSocketsHeld, AloneInv
<1>6. QED
  BY <1>3, <1>4, <1>5 DEF IInv

-----------------------------------------------------------------------------
(* Steps that open and close nothing and set up no chat.                   *)
Quiet == \/ Command \/ CommandSigPipe \/ Answer \/ Exit \/ JoinListener
         \/ LoopTest \/ AcceptCall \/ AcceptFails
         \/ \E c \in Chats : \/ CreateSender(c) \/ CreateReceiver(c) \/ JoinChat(c)
                             \/ GetLine(c) \/ Send(c) \/ SendSigPipe(c)
                             \/ RecvCall(c) \/ RecvData(c) \/ RecvEnd(c)
                             \/ PeerLeave(c)
         \/ UNCHANGED vars

(* Steps that open and close nothing and set up no chat.                   *)
LEMMA QuietStep == ASSUME IInv, Quiet PROVE IInv'
<1> USE ClientAssumption, SpecialsDiffer DEF IInv, Quiet, vars, Command, CommandSigPipe, Answer, Exit, JoinListener,
        LoopTest, AcceptCall, AcceptFails, Acceptable, CreateSender, CreateReceiver, JoinChat, GetLine, Send, SendSigPipe,
        RecvCall, RecvReturn, RecvData, RecvEnd, PeerLeave,
        mainVars, listenerVars, chatVars, netVars, Main, Listens, Chat, Sends, Receives, Open, Close
<1>1. TypeOK'
  <2>1. running' \in BOOLEAN /\ accepted' = accepted /\ table' = table /\ backlog' = backlog
    BY DEF TypeOK
  <2>2. /\ mpc' \in {"prompt", "waiting", "getClientInfo", "socket", "connect", "create",
                    "exit", "join", "closeServer", "exited"}
        /\ dialled' = dialled
        /\ mpc' \in {"socket", "connect", "create"} => mpc' = mpc
    BY DEF TypeOK
  <2>3. /\ lpc' \in {"loop", "call", "blocked", "accepted", "returned"}
        /\ lpc' = "accepted" => lpc' = lpc
    BY DEF TypeOK
  <2>4. /\ cpc' \in [Chats -> {"none", "new", "sending", "joining", "over", "failed"}]
        /\ socket' = socket
    BY DEF TypeOK
  <2>5. spc' \in [Chats -> {"none", "getline", "send", "close", "done"}]
    BY DEF TypeOK
  <2>6. rpc' \in [Chats -> {"none", "recv", "blocked", "close", "done"}]
    BY DEF TypeOK
  <2>7. reading' \in [Chats -> Chats \cup {NoChat}]
    BY DEF TypeOK
  <2>8. peer' \in [Chats -> {"away", "here", "left"}]
    BY DEF TypeOK
  <2>9. QED
    BY <2>1, <2>2, <2>3, <2>4, <2>5, <2>6, <2>7, <2>8 DEF TypeOK
<1>2. ExitInv'
  BY DEF ExitInv, SetupInv, TypeOK
<1>3. SetupInv'
  BY DEF SetupInv, TypeOK, NumberInv
<1>4. NumberInv'
  BY DEF NumberInv, SetupInv, TypeOK
<1>5. ChatSocketsHeld'
  BY DEF ChatSocketsHeld, NumberInv, SetupInv, TypeOK
<1>6. AloneInv'
  BY DEF AloneInv, Alone, ExitInv, NumberInv, SetupInv, TypeOK
<1>7. QED
  BY <1>1, <1>2, <1>3, <1>4, <1>5, <1>6

(* CHAT has an address.                                                    *)
LEMMA AnswerInfoStep == ASSUME IInv, NEW c \in Chats, AnswerInfo(c) PROVE IInv'
<1> USE ClientAssumption, SpecialsDiffer DEF IInv, AnswerInfo,
        mainVars, listenerVars, chatVars, netVars, Main, Listens, Chat, Sends, Receives, Open, Close
<1>1. TypeOK'
  BY DEF TypeOK
<1>2. ExitInv'
  BY DEF ExitInv, SetupInv, TypeOK
<1>3. SetupInv'
  BY DEF SetupInv, TypeOK, NumberInv
<1>4. NumberInv'
  BY DEF NumberInv, SetupInv, TypeOK
<1>5. ChatSocketsHeld'
  BY DEF ChatSocketsHeld, NumberInv, SetupInv, TypeOK
<1>6. AloneInv'
  BY DEF AloneInv, Alone, ExitInv, NumberInv, SetupInv, TypeOK
<1>7. QED
  BY <1>1, <1>2, <1>3, <1>4, <1>5, <1>6

(* socket() gives the chat a free number ...                               *)
LEMMA ChatSocketStep == ASSUME IInv, ChatSocket PROVE IInv'
<1> USE ClientAssumption, SpecialsDiffer DEF IInv, ChatSocket, Free,
        mainVars, listenerVars, chatVars, netVars, Main, Listens, Chat, Sends, Receives, Open, Close
<1>1. TypeOK'
  BY DEF TypeOK
<1>2. ExitInv'
  BY DEF ExitInv, SetupInv, TypeOK
<1>3. SetupInv'
  BY DEF SetupInv, TypeOK, NumberInv
<1>4. NumberInv'
  BY DEF NumberInv, SetupInv, TypeOK
<1>5. ChatSocketsHeld'
  BY DEF ChatSocketsHeld, NumberInv, SetupInv, TypeOK
<1>6. AloneInv'
  BY DEF AloneInv, Alone, ExitInv, NumberInv, SetupInv, TypeOK
<1>7. QED
  BY <1>1, <1>2, <1>3, <1>4, <1>5, <1>6

(* ... or fails.                                                           *)
LEMMA ChatSocketFailsStep == ASSUME IInv, ChatSocketFails PROVE IInv'
<1> USE ClientAssumption, SpecialsDiffer DEF IInv, ChatSocketFails,
        mainVars, listenerVars, chatVars, netVars, Main, Listens, Chat, Sends, Receives, Open, Close
<1>1. TypeOK'
  BY DEF TypeOK
<1>2. ExitInv'
  BY DEF ExitInv, SetupInv, TypeOK
<1>3. SetupInv'
  BY DEF SetupInv, TypeOK, NumberInv
<1>4. NumberInv'
  BY DEF NumberInv, SetupInv, TypeOK
<1>5. ChatSocketsHeld'
  BY DEF ChatSocketsHeld, NumberInv, SetupInv, TypeOK
<1>6. AloneInv'
  BY DEF AloneInv, Alone, ExitInv, NumberInv, SetupInv, TypeOK
<1>7. QED
  BY <1>1, <1>2, <1>3, <1>4, <1>5, <1>6

(* connect() succeeds ...                                                  *)
LEMMA ChatConnectStep == ASSUME IInv, ChatConnect PROVE IInv'
<1> USE ClientAssumption, SpecialsDiffer DEF IInv, ChatConnect,
        mainVars, listenerVars, chatVars, netVars, Main, Listens, Chat, Sends, Receives, Open, Close
<1>1. TypeOK'
  BY DEF TypeOK
<1>2. ExitInv'
  BY DEF ExitInv, SetupInv, TypeOK
<1>3. SetupInv'
  BY DEF SetupInv, TypeOK, NumberInv
<1>4. NumberInv'
  BY DEF NumberInv, SetupInv, TypeOK
<1>5. ChatSocketsHeld'
  BY DEF ChatSocketsHeld, NumberInv, SetupInv, TypeOK
<1>6. AloneInv'
  BY DEF AloneInv, Alone, ExitInv, NumberInv, SetupInv, TypeOK
<1>7. QED
  BY <1>1, <1>2, <1>3, <1>4, <1>5, <1>6

(* ... or fails, and the number is closed.                                 *)
LEMMA ChatConnectFailsStep == ASSUME IInv, ChatConnectFails PROVE IInv'
<1> USE ClientAssumption, SpecialsDiffer DEF IInv, ChatConnectFails,
        mainVars, listenerVars, chatVars, netVars, Main, Listens, Chat, Sends, Receives, Open, Close
<1>1. TypeOK'
  BY DEF TypeOK
<1>2. ExitInv'
  BY DEF ExitInv, SetupInv, TypeOK
<1>3. SetupInv'
  BY DEF SetupInv, TypeOK, NumberInv
<1>4. NumberInv'
  BY DEF NumberInv, SetupInv, TypeOK
<1>5. ChatSocketsHeld'
  BY DEF ChatSocketsHeld, NumberInv, SetupInv, TypeOK
<1>6. AloneInv'
  BY DEF AloneInv, Alone, ExitInv, NumberInv, SetupInv, TypeOK
<1>7. QED
  BY <1>1, <1>2, <1>3, <1>4, <1>5, <1>6

(* The chat gets a thread, or its number is closed.                        *)
LEMMA ChatCreateStep == ASSUME IInv, ChatCreate PROVE IInv'
<1> USE ClientAssumption, SpecialsDiffer DEF IInv, ChatCreate, HandOver,
        mainVars, listenerVars, chatVars, netVars, Main, Listens, Chat, Sends, Receives, Open, Close
<1>1. TypeOK'
  BY DEF TypeOK
<1>2. ExitInv'
  BY DEF ExitInv, SetupInv, TypeOK
<1>3. SetupInv'
  BY DEF SetupInv, TypeOK, NumberInv
<1>4. NumberInv'
  BY DEF NumberInv, SetupInv, TypeOK
<1>5. ChatSocketsHeld'
  BY DEF ChatSocketsHeld, NumberInv, SetupInv, TypeOK
<1>6. AloneInv'
  BY DEF AloneInv, Alone, ExitInv, NumberInv, SetupInv, TypeOK
<1>7. QED
  BY <1>1, <1>2, <1>3, <1>4, <1>5, <1>6

(* ~Client() closes the listener's socket; no chat has the number yet.     *)
LEMMA CloseListenerStep == ASSUME IInv, CloseListener PROVE IInv'
<1> USE ClientAssumption, SpecialsDiffer DEF IInv, CloseListener,
        mainVars, listenerVars, chatVars, netVars, Main, Listens, Chat, Sends, Receives, Open, Close
<1>1. TypeOK'
  BY DEF TypeOK
<1>2. ExitInv'
  BY DEF ExitInv, SetupInv, TypeOK
<1>3. SetupInv'
  BY DEF SetupInv, TypeOK, NumberInv
<1>4. NumberInv'
  BY DEF NumberInv, SetupInv, TypeOK
<1>5. ChatSocketsHeld'
  BY DEF ChatSocketsHeld, NumberInv, SetupInv, TypeOK
<1>6. AloneInv'
  BY DEF AloneInv, Alone, ExitInv, NumberInv, SetupInv, TypeOK
<1>7. QED
  BY <1>1, <1>2, <1>3, <1>4, <1>5, <1>6

(* It closes the server's socket; the listener thread has returned.        *)
LEMMA CloseServerStep == ASSUME IInv, CloseServer PROVE IInv'
<1> USE ClientAssumption, SpecialsDiffer DEF IInv, CloseServer,
        mainVars, listenerVars, chatVars, netVars, Main, Listens, Chat, Sends, Receives, Open, Close
<1>1. TypeOK'
  BY DEF TypeOK
<1>2. ExitInv'
  BY DEF ExitInv, SetupInv, TypeOK
<1>3. SetupInv'
  BY DEF SetupInv, TypeOK, NumberInv
<1>4. NumberInv'
  BY DEF NumberInv, SetupInv, TypeOK
<1>5. ChatSocketsHeld'
  BY DEF ChatSocketsHeld, NumberInv, SetupInv, TypeOK
<1>6. AloneInv'
  BY DEF AloneInv, Alone, ExitInv, NumberInv, SetupInv, TypeOK
<1>7. QED
  BY <1>1, <1>2, <1>3, <1>4, <1>5, <1>6

(* accept() gives a chat a free number.                                    *)
LEMMA AcceptReturnStep == ASSUME IInv, NEW c \in Chats, AcceptReturn(c), mpc # "exited" PROVE IInv'
<1> USE ClientAssumption, SpecialsDiffer DEF IInv, AcceptReturn, Free,
        mainVars, listenerVars, chatVars, netVars, Main, Listens, Chat, Sends, Receives, Open, Close
<1>1. TypeOK'
  BY DEF TypeOK
<1>2. ExitInv'
  BY DEF ExitInv, SetupInv, TypeOK
<1>3. SetupInv'
  BY DEF SetupInv, TypeOK, NumberInv
<1>4. NumberInv'
  BY DEF NumberInv, SetupInv, TypeOK
<1>5. ChatSocketsHeld'
  BY DEF ChatSocketsHeld, NumberInv, SetupInv, TypeOK
<1>6. AloneInv'
  BY DEF AloneInv, Alone, ExitInv, NumberInv, SetupInv, TypeOK
<1>7. QED
  BY <1>1, <1>2, <1>3, <1>4, <1>5, <1>6

(* The chat gets a thread, or its number is closed.                        *)
LEMMA ListenerCreateStep == ASSUME IInv, ListenerCreate PROVE IInv'
<1> USE ClientAssumption, SpecialsDiffer DEF IInv, ListenerCreate, HandOver,
        mainVars, listenerVars, chatVars, netVars, Main, Listens, Chat, Sends, Receives, Open, Close
<1>1. TypeOK'
  BY DEF TypeOK
<1>2. ExitInv'
  BY DEF ExitInv, SetupInv, TypeOK
<1>3. SetupInv'
  BY DEF SetupInv, TypeOK, NumberInv
<1>4. NumberInv'
  BY DEF NumberInv, SetupInv, TypeOK
<1>5. ChatSocketsHeld'
  BY DEF ChatSocketsHeld, NumberInv, SetupInv, TypeOK
<1>6. AloneInv'
  BY DEF AloneInv, Alone, ExitInv, NumberInv, SetupInv, TypeOK
<1>7. QED
  BY <1>1, <1>2, <1>3, <1>4, <1>5, <1>6

(* The send thread closes the number, whosever it is by now.               *)
LEMMA SenderCloseStep == ASSUME IInv, NEW c \in Chats, SenderClose(c), mpc # "exited" PROVE IInv'
<1> USE ClientAssumption, SpecialsDiffer DEF IInv, SenderClose,
        mainVars, listenerVars, chatVars, netVars, Main, Listens, Chat, Sends, Receives, Open, Close
<1>1. TypeOK'
  BY DEF TypeOK
<1>2. ExitInv'
  BY DEF ExitInv, SetupInv, TypeOK
<1>3. SetupInv'
  BY DEF SetupInv, TypeOK, NumberInv
<1>4. NumberInv'
  BY DEF NumberInv, SetupInv, TypeOK
<1>5. ChatSocketsHeld'
  BY DEF ChatSocketsHeld, NumberInv, SetupInv, TypeOK
<1>6. AloneInv'
  BY DEF AloneInv, Alone, ExitInv, NumberInv, SetupInv, TypeOK
<1>7. QED
  BY <1>1, <1>2, <1>3, <1>4, <1>5, <1>6

(* So does the receive thread.                                             *)
LEMMA ReceiverCloseStep == ASSUME IInv, NEW c \in Chats, ReceiverClose(c), mpc # "exited" PROVE IInv'
<1> USE ClientAssumption, SpecialsDiffer DEF IInv, ReceiverClose,
        mainVars, listenerVars, chatVars, netVars, Main, Listens, Chat, Sends, Receives, Open, Close
<1>1. TypeOK'
  BY DEF TypeOK
<1>2. ExitInv'
  BY DEF ExitInv, SetupInv, TypeOK
<1>3. SetupInv'
  BY DEF SetupInv, TypeOK, NumberInv
<1>4. NumberInv'
  BY DEF NumberInv, SetupInv, TypeOK
<1>5. ChatSocketsHeld'
  BY DEF ChatSocketsHeld, NumberInv, SetupInv, TypeOK
<1>6. AloneInv'
  BY DEF AloneInv, Alone, ExitInv, NumberInv, SetupInv, TypeOK
<1>7. QED
  BY <1>1, <1>2, <1>3, <1>4, <1>5, <1>6

(* A peer connects.                                                        *)
LEMMA PeerConnectStep == ASSUME IInv, NEW c \in Chats, PeerConnect(c) PROVE IInv'
<1> USE ClientAssumption, SpecialsDiffer DEF IInv, PeerConnect,
        mainVars, listenerVars, chatVars, netVars, Main, Listens, Chat, Sends, Receives, Open, Close
<1>1. TypeOK'
  BY DEF TypeOK
<1>2. ExitInv'
  BY DEF ExitInv, SetupInv, TypeOK
<1>3. SetupInv'
  BY DEF SetupInv, TypeOK, NumberInv
<1>4. NumberInv'
  BY DEF NumberInv, SetupInv, TypeOK
<1>5. ChatSocketsHeld'
  BY DEF ChatSocketsHeld, NumberInv, SetupInv, TypeOK
<1>6. AloneInv'
  BY DEF AloneInv, Alone, ExitInv, NumberInv, SetupInv, TypeOK
<1>7. QED
  BY <1>1, <1>2, <1>3, <1>4, <1>5, <1>6

(* The invariant is inductive.                                             *)
LEMMA StepIInv == IInv /\ [Next]_vars => IInv'
<1> SUFFICES ASSUME IInv, [Next]_vars PROVE IInv'
  OBVIOUS
<1>1. \/ Quiet
      \/ \E c \in Chats : \/ AnswerInfo(c) \/ PeerConnect(c)
                          \/ AcceptReturn(c) /\ mpc # "exited"
                          \/ SenderClose(c) /\ mpc # "exited"
                          \/ ReceiverClose(c) /\ mpc # "exited"
      \/ ChatSocket \/ ChatSocketFails \/ ChatConnect \/ ChatConnectFails \/ ChatCreate
      \/ CloseListener \/ CloseServer \/ ListenerCreate
  BY DEF Next, Dial, Destructor, ListenerLoop, Session, Sender, Receiver, Talk, Peer, Alive, Quiet
<1>2. QED
  BY <1>1, QuietStep, AnswerInfoStep, ChatSocketStep, ChatSocketFailsStep, ChatConnectStep,
     ChatConnectFailsStep, ChatCreateStep, CloseListenerStep, CloseServerStep, AcceptReturnStep,
     ListenerCreateStep, SenderCloseStep, ReceiverCloseStep, PeerConnectStep

(* ... and so holds in every reachable state.                              *)
LEMMA Invariance == Spec => []IInv
  BY InitIInv, StepIInv, PTL DEF Spec

-----------------------------------------------------------------------------
(* Every variable has its type, for any chats and descriptors.             *)
THEOREM TypeCorrect == Spec => []TypeOK
<1>1. IInv => TypeOK
  BY DEF IInv
<1>2. QED
  BY <1>1, Invariance, PTL

(* Two threads close a chat's number, once each and in any order, and yet  *)
(* no chat's socket is left that nobody is going to close.                 *)
THEOREM SocketsAreHeld == Spec => []ChatSocketsHeld
<1>1. IInv => ChatSocketsHeld
  BY DEF IInv
<1>2. QED
  BY <1>1, Invariance, PTL

(* A chat can only lose its connection to another chat that was given the  *)
(* same number.                                                            *)
THEOREM ConfusionNeedsReuse == Spec => []OnlyReuseConfuses
<1>1. IInv => OnlyReuseConfuses
  BY DEF IInv, AloneInv, Alone, SetupInv, OnlyReuseConfuses
<1>2. QED
  BY <1>1, Invariance, PTL

(* The chats' late closes hit neither the server's socket nor the          *)
(* listener's.                                                             *)
THEOREM OwnSocketsAreKept == Spec => []OwnSocketsKept
<1>1. IInv => OwnSocketsKept
  BY DEF IInv, ExitInv, OwnSocketsKept
<1>2. QED
  BY <1>1, Invariance, PTL
=============================================================================
