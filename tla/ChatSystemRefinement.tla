------------------------ MODULE ChatSystemRefinement ------------------------
(***************************************************************************)
(* What users see of the system is UserDirectory, and a user stays         *)
(* reachable until a command of his own: proved for any number of clients, *)
(* ports, names and passwords.                                             *)
(***************************************************************************)
EXTENDS ChatSystemProofs

(* A step of client c's, or of the server's for it.                        *)
StepOf(c) == \/ \E p \in Ports : Launch(c, p) \/ LaunchFails(c, p)
             \/ Ask(c)
             \/ Wait(c)
             \/ Dial(c)
             \/ Leave(c)
             \/ Serve(c)

(* It concerns nobody else.                                                *)
LEMMA Others ==
  ASSUME IInv, NEW c \in Clients, StepOf(c)
  PROVE  \A d \in Clients \ {c} : Same(d)
<1>0. VarsTyped
  BY DEF IInv
<1>1. CASE \E p \in Ports : Launch(c, p) \/ LaunchFails(c, p)
  BY <1>0, <1>1 DEF Launch, LaunchFails, Client, directory, serverVars, wire, VarsTyped, Same
<1>2. CASE Ask(c)
  BY <1>0, <1>2 DEF Ask, Client, directory, serverVars, VarsTyped, Same
<1>3. ASSUME NEW n \in 1 .. Len(down[c]), Answer(c, n)
      PROVE  \A d \in Clients \ {c} : Same(d)
  <2>1. \A d \in Clients \ {c} :
          /\ down'[d] = down[d] /\ cpc'[d] = cpc[d] /\ asked'[d] = asked[d]
          /\ dial'[d] = dial[d] /\ listenPort'[d] = listenPort[d]
    BY <1>0, <1>3 DEF Answer, Client, VarsTyped
  <2>2. UNCHANGED <<request, answer, connected, up, reset, cut>>
    BY <1>3 DEF Answer, directory, serverVars
  <2>3. QED
    BY <2>1, <2>2 DEF Same
<1>4. CASE AnswerFails(c)
  BY <1>0, <1>4 DEF AnswerFails, Client, directory, serverVars, VarsTyped, Same
<1>5. CASE Dial(c)
  BY <1>0, <1>5 DEF Dial, Client, directory, serverVars, wire, VarsTyped, Same
<1>6. CASE Leave(c)
  BY <1>0, <1>6 DEF Leave, directory, serverVars, VarsTyped, Same
<1>7. ASSUME NEW n \in 1 .. Len(up[c]), Receive(c, n) \/ ReceiveCut(c, n)
      PROVE  \A d \in Clients \ {c} : Same(d)
  BY <1>0, <1>7 DEF Receive, ReceiveCut, serverVars, clientVars, VarsTyped, Same
<1>8. CASE Process(c)
  <2>1. Decides(c) /\ UNCHANGED <<connected, wire, clientVars>>
    BY <1>8 DEF Process, Decides
  <2>2. UNCHANGED request /\ \E a \in Statuses : answer' = [answer EXCEPT ![c] = a]
    BY <2>1, Decision DEF IInv
  <2>3. QED
    BY <1>0, <2>1, <2>2 DEF wire, clientVars, VarsTyped, Same
<1>9. CASE Send(c) \/ SendReset(c) \/ SendSigPipe(c)
  <2>1. \A d \in Clients \ {c} : answer'[d] = answer[d] /\ request'[d] = request[d]
    BY <1>9, Returned DEF Send, SendReset, SendSigPipe
  <2>2. \A d \in Clients \ {c} : down'[d] = down[d] /\ (d \in reset' <=> d \in reset)
    BY <1>0, <1>9 DEF Send, SendReset, SendSigPipe, wire, VarsTyped
  <2>3. UNCHANGED <<connected, up, cut, clientVars>>
    BY <1>9 DEF Send, SendReset, SendSigPipe, serverVars, wire
  <2>4. QED
    BY <2>1, <2>2, <2>3 DEF clientVars, Same
<1>10. CASE Disconnect(c)
  BY <1>0, <1>10 DEF Disconnect, directory, clientVars, VarsTyped, Same
<1>11. QED
  BY <1>1, <1>2, <1>3, <1>4, <1>5, <1>6, <1>7, <1>8, <1>9, <1>10 DEF StepOf, Wait, Serve

LEMMA NextIsStepOf == Next <=> \E c \in Clients : StepOf(c)
BY DEF Next, StepOf

-----------------------------------------------------------------------------
(* The refinement mapping: a step of c's changes what is c's.              *)
LEMMA Mapped ==
  ASSUME NEW c \in Clients, \A d \in Clients \ {c} : Same(d)
  PROVE  /\ Requests' = [Requests EXCEPT ![c] = Pending(c)']
         /\ Decisions' = [Decisions EXCEPT ![c] = Decided(c)']
         /\ Requests[c] = Pending(c) /\ Decisions[c] = Decided(c)
<1>1. \A d \in Clients \ {c} : Pending(d)' = Pending(d) /\ Decided(d)' = Decided(d)
  BY DEF Same, Pending, Decided
<1>2. QED
  BY <1>1 DEF Requests, Decisions

LEMMA Stutters ==
  ASSUME NEW c \in Clients, \A d \in Clients \ {c} : Same(d),
         UNCHANGED <<accounts, online>>, Pending(c)' = Pending(c), Decided(c)' = Decided(c)
  PROVE  UNCHANGED EndToEnd!dirVars
<1>1. Requests' = Requests /\ Decisions' = Decisions
  BY Mapped DEF Requests, Decisions
<1>2. QED
  BY <1>1 DEF EndToEnd!dirVars

(* What is seen of a client by the caller it stands for: nothing has been  *)
(* decided of a command until the server has decided it, and the answer    *)
(* lasts until it is read.                                                 *)
LEMMA Seen ==
  ASSUME IInv, NEW c \in Clients, server = "up"
  PROVE  /\ c \in cut => Pending(c) = request[c] /\ Decided(c) = answer[c]
         /\ request[c] # NoCommand => Pending(c) = request[c] /\ Decided(c) = answer[c]
         /\ request[c] = NoCommand => answer[c] = "none"
         /\ c \notin cut /\ down[c] # <<>> =>
              /\ request[c] = NoCommand /\ up[c] = <<>> /\ cpc[c] = "recv"
              /\ Decided(c) # "none"
<1>1. VarsTyped /\ ClientInv(c) /\ StepInv(c)
  BY DEF IInv
<1>2. request[c] # NoCommand /\ c \notin cut =>
        /\ up[c] = <<>> /\ down[c] = <<>> /\ (cpc[c] = "recv" => request[c] = asked[c])
  BY <1>1 DEF StepInv
<1>3. down[c] # <<>> => Decided(c) # "none" \/ c \in cut
  <2>1. down[c] # <<>> => Head(down[c]) \in Said
    BY <1>1, Lengths
  <2>2. QED
    BY <2>1 DEF Decided, Said, Statuses
<1>4. QED
  BY <1>1, <1>2, <1>3 DEF Pending, Decided, StepInv, ClientInv

-----------------------------------------------------------------------------
(* Each step, seen end to end.                                             *)

(* A client that starts, dials or fails to start has nothing under way.    *)
LEMMA QuietStep ==
  ASSUME IInv, NEW c \in Clients, server = "up", cut' = cut,
         (\E p \in Ports : Launch(c, p) \/ LaunchFails(c, p)) \/ Dial(c)
  PROVE  UNCHANGED EndToEnd!dirVars
<1>1. \A d \in Clients \ {c} : Same(d)
  BY Others DEF StepOf
<1>2. /\ cpc[c] \in {"away", "dial"} /\ cpc'[c] \in {"prompt", "gone"}
      /\ UNCHANGED <<accounts, online, request, answer, up, down, cut>>
  BY DEF IInv, VarsTyped, Launch, LaunchFails, Dial, Client, directory, wire
<1>3. Pending(c)' = Pending(c) /\ Decided(c)' = Decided(c)
  BY <1>2 DEF Pending, Decided
<1>4. QED
  BY <1>1, <1>2, <1>3, Stutters

(* What a user types is requested as soon as it is sent ...                *)
LEMMA AskRequests ==
  ASSUME IInv, NEW c \in Clients, server = "up", cut' = cut, Ask(c)
  PROVE  EndToEnd!Request(c) \/ UNCHANGED EndToEnd!dirVars
<1>1. \A d \in Clients \ {c} : Same(d)
  BY Others DEF StepOf
<1>2. PICK k \in Typed(c) : asked' = [asked EXCEPT ![c] = k]
  BY DEF Ask
<1>3. VarsTyped /\ StepInv(c)
  BY DEF IInv
<1>4. k \in Commands
  BY <1>3, TypedSent, SentCommands DEF VarsTyped
<1>5. /\ cpc[c] = "prompt" /\ cpc'[c] = "recv" /\ asked'[c] = k
      /\ UNCHANGED <<accounts, online, request, answer, down, cut>>
  BY <1>2, <1>3 DEF Ask, Client, directory, serverVars, VarsTyped
<1>6. CASE c \in cut
  <2>1. Pending(c)' = Pending(c) /\ Decided(c)' = Decided(c)
    BY <1>5, <1>6 DEF Pending, Decided
  <2>2. QED
    BY <1>1, <1>5, <2>1, Stutters
<1>7. CASE c \notin cut
  <2>1. Pending(c) = NoCommand /\ Pending(c)' = k /\ Decided(c)' = Decided(c)
    BY <1>3, <1>5, <1>7 DEF StepInv, Pending, Decided
  <2>2. Requests[c] = NoCommand /\ Requests' = [Requests EXCEPT ![c] = k] /\ Decisions' = Decisions
    BY <1>1, <2>1, Mapped DEF Decisions
  <2>3. Requests'[c] = k
    BY <2>1 DEF Requests
  <2>4. QED
    BY <1>4, <1>5, <2>2, <2>3 DEF EndToEnd!Request
<1>8. QED
  BY <1>6, <1>7

(* ... and returned when the answer is read.                               *)
LEMMA AnswerReturns ==
  ASSUME IInv, IInv', NEW c \in Clients, server = "up", cut' = cut,
         NEW n \in 1 .. Len(down[c]), Answer(c, n)
  PROVE  EndToEnd!Return(c) \/ UNCHANGED EndToEnd!dirVars
<1>1. \A d \in Clients \ {c} : Same(d)
  BY Others DEF StepOf, Wait
<1>2. VarsTyped /\ StepInv(c) /\ (StepInv(c))'
  BY DEF IInv
<1>3. /\ cpc[c] = "recv" /\ cpc'[c] \in {"prompt", "dial", "threw"}
      /\ down'[c] = SubSeq(down[c], n+1, Len(down[c]))
      /\ UNCHANGED <<accounts, online, request, answer, up, cut>>
  BY <1>2 DEF Answer, Client, directory, serverVars, VarsTyped
<1>4. CASE c \in cut
  <2>1. Pending(c)' = Pending(c) /\ Decided(c)' = Decided(c)
    BY <1>3, <1>4 DEF Pending, Decided
  <2>2. QED
    BY <1>1, <1>3, <2>1, Stutters
<1>5. CASE c \notin cut
  <2>1. /\ down[c] # <<>> /\ Len(down'[c]) = Len(down[c]) - n /\ down'[c] \in Seq(Said)
        /\ Len(down[c]) \in Nat
    BY <1>2, <1>3, Lengths, Remaining
  <2>2. down'[c] = <<>>
    <3>1. Len(down[c]) <= 1
      BY <1>2, <1>5 DEF StepInv
    <3>2. \A i \in Nat : \A j \in 1 .. i : i <= 1 => i - j = 0
      OBVIOUS
    <3>3. Len(down'[c]) = 0
      BY <2>1, <3>1, <3>2
    <3>4. QED
      BY <2>1, <3>3
  <2>3. request[c] = NoCommand /\ up[c] = <<>> /\ answer[c] = "none" /\ Decided(c) # "none"
    BY <1>5, <2>1, Seen
  <2>4. Pending(c)' = NoCommand /\ Decided(c)' = "none"
    BY <1>3, <1>5, <2>2, <2>3 DEF Pending, Decided
  <2>5. /\ Requests' = [Requests EXCEPT ![c] = NoCommand] /\ Decisions' = [Decisions EXCEPT ![c] = "none"]
        /\ Decisions[c] # "none"
    BY <1>1, <2>3, <2>4, Mapped
  <2>6. QED
    BY <1>3, <2>5 DEF EndToEnd!Return
<1>6. QED
  BY <1>4, <1>5

(* A client that is gone leaves an answer unread, or its command behind.   *)
LEMMA LeaveReturns ==
  ASSUME IInv, NEW c \in Clients, server = "up", cut' = cut, Leave(c)
  PROVE  EndToEnd!Return(c) \/ UNCHANGED EndToEnd!dirVars
<1>1. \A d \in Clients \ {c} : Same(d)
  BY Others DEF StepOf
<1>2. VarsTyped /\ StepInv(c) /\ ClientInv(c)
  BY DEF IInv
<1>3. /\ Running(c) /\ cpc'[c] = "gone" /\ down'[c] = <<>>
      /\ UNCHANGED <<accounts, online, request, answer, up, cut>>
  BY <1>2 DEF Leave, directory, serverVars, VarsTyped
<1>4. CASE c \notin cut /\ down[c] # <<>>
  <2>1. request[c] = NoCommand /\ up[c] = <<>> /\ answer[c] = "none" /\ Decided(c) # "none"
    BY <1>4, Seen
  <2>2. Pending(c)' = NoCommand /\ Decided(c)' = "none"
    BY <1>3, <1>4, <2>1 DEF Pending, Decided
  <2>3. /\ Requests' = [Requests EXCEPT ![c] = NoCommand] /\ Decisions' = [Decisions EXCEPT ![c] = "none"]
        /\ Decisions[c] # "none"
    BY <1>1, <2>1, <2>2, Mapped
  <2>4. QED
    BY <1>3, <2>3 DEF EndToEnd!Return
<1>5. CASE c \in cut \/ down[c] = <<>>
  <2>1. Decided(c)' = Decided(c)
    BY <1>3, <1>5 DEF Decided
  <2>2. Pending(c)' = Pending(c)
    <3>1. CASE c \in cut \/ cpc[c] # "recv"
      BY <1>3, <3>1 DEF Pending
    <3>2. CASE c \notin cut /\ cpc[c] = "recv"
      <4>1. up[c] # <<>> => Head(up[c]) = asked[c]
        BY <1>2, <3>2 DEF StepInv
      <4>2. up[c] = <<>> => request[c] = asked[c]
        BY <1>2, <1>5, <3>2 DEF StepInv, ClientInv
      <4>3. QED
        BY <1>3, <3>2, <4>1, <4>2 DEF Pending
    <3>3. QED
      BY <3>1, <3>2
  <2>3. QED
    BY <1>1, <1>3, <2>1, <2>2, Stutters
<1>6. QED
  BY <1>4, <1>5

(* The server receives what has been requested: that is no step, unless it *)
(* is not known what the rest of a cut command stands for.                 *)
LEMMA ReceiveRequests ==
  ASSUME IInv, NEW c \in Clients, server = "up", cut' = cut,
         NEW n \in 1 .. Len(up[c]), Receive(c, n)
  PROVE  EndToEnd!Request(c) \/ UNCHANGED EndToEnd!dirVars
<1>1. \A d \in Clients \ {c} : Same(d)
  BY Others DEF StepOf, Serve
<1>2. VarsTyped /\ StepInv(c)
  BY DEF IInv
<1>0. PICK k \in Deciding(c, n) : request' = [request EXCEPT ![c] = k]
  BY DEF Receive
<1>k. k \in Commands /\ (Len(up[c]) <= 1 => k = Head(up[c]))
  BY <1>2, Lengths, Decider, SentCommands
<1>3. /\ request[c] = NoCommand /\ request'[c] = k
      /\ up'[c] = SubSeq(up[c], n+1, Len(up[c]))
      /\ UNCHANGED <<accounts, online, answer, down, cut, cpc, asked>>
  BY <1>0, <1>2 DEF Receive, Idle, serverVars, clientVars, VarsTyped
<1>4. /\ up[c] # <<>> /\ Len(up[c]) \in Nat
      /\ up'[c] \in Seq(Sent) /\ Len(up'[c]) = Len(up[c]) - n
  BY <1>2, <1>3, Lengths, Remaining
<1>5. CASE c \in cut
  <2>1. Pending(c) = NoCommand /\ Pending(c)' = k /\ Decided(c)' = Decided(c)
    BY <1>3, <1>5 DEF Pending, Decided
  <2>2. /\ Requests[c] = NoCommand /\ Requests' = [Requests EXCEPT ![c] = k]
        /\ Decisions' = Decisions
    BY <1>1, <2>1, Mapped DEF Decisions
  <2>3. Requests'[c] = k
    BY <2>1 DEF Requests
  <2>4. QED
    BY <1>k, <1>3, <2>2, <2>3 DEF EndToEnd!Request
<1>6. CASE c \notin cut
  <2>1. Len(up[c]) <= 1 /\ down[c] = <<>>
    BY <1>2, <1>4, <1>6 DEF StepInv
  <2>2. up'[c] = <<>>
    <3>1. \A i \in Nat : \A j \in 1 .. i : i <= 1 => i - j = 0
      OBVIOUS
    <3>2. Len(up'[c]) = 0
      BY <1>4, <2>1, <3>1
    <3>3. QED
      BY <1>4, <3>2
  <2>3. Pending(c)' = Pending(c) /\ Decided(c)' = Decided(c)
    BY <1>k, <1>3, <1>4, <1>6, <2>1, <2>2 DEF Pending, Decided
  <2>4. QED
    BY <1>1, <1>3, <2>3, Stutters
<1>7. QED
  BY <1>5, <1>6

(* It decides once.                                                        *)
LEMMA ProcessDecides ==
  ASSUME IInv, NEW c \in Clients, server = "up", cut' = cut, Process(c)
  PROVE  \/ EndToEnd!Register(c) \/ EndToEnd!Login(c) \/ EndToEnd!Logout(c)
         \/ EndToEnd!GetInfo(c) \/ EndToEnd!Unknown(c)
<1>1. \A d \in Clients \ {c} : Same(d)
  BY Others DEF StepOf, Serve
<1>2. VarsTyped /\ DirectoryTyped /\ StepInv(c)
  BY DEF IInv
<1>3. Decides(c) /\ UNCHANGED <<up, down, cut, cpc, asked>>
  BY DEF Process, Decides, wire, clientVars
<1>4. request[c] # NoCommand /\ answer[c] = "none" /\ UNCHANGED request
  BY <1>2, <1>3, Decision
<1>5. Requests[c] = request[c] /\ Decisions[c] = "none" /\ Requests' = Requests
  <2>1. Pending(c) = request[c] /\ Decided(c) = "none"
    BY <1>4, Seen
  <2>2. Pending(c)' = Pending(c)
    BY <1>3, <1>4 DEF Pending
  <2>3. QED
    BY <1>1, <2>1, <2>2, Mapped DEF Requests
<1>6. ASSUME NEW a, Directory!Say(c, a) PROVE EndToEnd!Say(c, a)
  <2>1. answer'[c] = a
    BY <1>2, <1>6 DEF Directory!Say, VarsTyped
  <2>2. c \in cut \/ down[c] = <<>>
    BY <1>4, Seen
  <2>3. Decided(c)' = a
    BY <1>3, <2>1, <2>2 DEF Decided
  <2>4. QED
    BY <1>1, <1>5, <2>3, Mapped DEF EndToEnd!Say
<1>7. \A op : Directory!Executes(c, op) => EndToEnd!Executes(c, op)
  BY <1>5 DEF Directory!Executes, EndToEnd!Executes
<1>8. CASE Directory!Register(c)
  BY <1>5, <1>6, <1>7, <1>8 DEF Directory!Register, EndToEnd!Register, Directory!Put, EndToEnd!Put
<1>9. CASE Directory!Login(c)
  BY <1>5, <1>6, <1>7, <1>9 DEF Directory!Login, EndToEnd!Login, Directory!Put, EndToEnd!Put
<1>10. CASE Directory!Logout(c)
  BY <1>5, <1>6, <1>7, <1>10 DEF Directory!Logout, EndToEnd!Logout, Directory!Drop, EndToEnd!Drop
<1>11. CASE Directory!GetInfo(c)
  BY <1>5, <1>6, <1>7, <1>11 DEF Directory!GetInfo, EndToEnd!GetInfo
<1>12. CASE Directory!Unknown(c)
  BY <1>5, <1>6, <1>7, <1>12 DEF Directory!Unknown, EndToEnd!Unknown
<1>13. QED
  BY <1>3, <1>8, <1>9, <1>10, <1>11, <1>12 DEF Decides

(* What it sends is the decision; a client that is gone never reads it.    *)
LEMMA SendReturns ==
  ASSUME IInv, IInv', NEW c \in Clients, server = "up", cut' = cut,
         Send(c) \/ SendReset(c) \/ SendSigPipe(c)
  PROVE  EndToEnd!Return(c) \/ UNCHANGED EndToEnd!dirVars
<1>1. \A d \in Clients \ {c} : Same(d)
  BY Others DEF StepOf, Serve
<1>2. VarsTyped /\ StepInv(c) /\ ClientInv(c) /\ (StepInv(c))'
  BY DEF IInv
<1>3. /\ Directory!Return(c) /\ answer[c] # "none" /\ UNCHANGED <<accounts, online>>
      /\ UNCHANGED <<up, cut, cpc, asked>>
  BY DEF Send, SendReset, SendSigPipe, Directory!Return, wire, clientVars
<1>4. request[c] # NoCommand /\ answer'[c] = "none" /\ request'[c] = NoCommand
  BY <1>3, Returned
<1>5. Pending(c) = request[c] /\ Decided(c) = answer[c]
  BY <1>4, Seen
<1>6. CASE c \notin cut /\ ~Gone(c)
  <2>1. /\ up[c] = <<>> /\ down[c] = <<>> /\ c \notin reset /\ cpc[c] = "recv"
        /\ request[c] = asked[c]
    BY <1>2, <1>4, <1>6 DEF StepInv, Gone, VarsTyped
  <2>2. Send(c)
    BY <1>6, <2>1 DEF SendReset, SendSigPipe
  <2>3. PICK a \in Answers(c) : down' = [down EXCEPT ![c] = Append(@, a)]
    BY <2>2 DEF Send
  <2>4. a.status = answer[c]
    BY DEF Answers
  <2>5. down'[c] = Append(<<>>, a)
    BY <1>2, <2>1, <2>3 DEF VarsTyped
  <2>6. down'[c] # <<>> /\ Head(down'[c]) = a
    BY <2>5
  <2>7. Pending(c)' = Pending(c) /\ Decided(c)' = Decided(c)
    BY <1>3, <1>5, <1>6, <2>1, <2>4, <2>6 DEF Pending, Decided
  <2>8. QED
    BY <1>1, <1>3, <2>7, Stutters
<1>7. CASE c \in cut \/ Gone(c)
  <2>1. Pending(c)' = NoCommand
    BY <1>2, <1>3, <1>4, <1>7 DEF Pending, StepInv, Gone
  <2>2. Decided(c)' = "none"
    <3>1. CASE c \in cut
      BY <1>3, <1>4, <3>1 DEF Decided
    <3>2. CASE c \notin cut
      <4>1. down'[c] = <<>>
        BY <1>2, <1>3, <1>7, <3>2 DEF StepInv, Gone
      <4>2. QED
        BY <1>4, <4>1 DEF Decided
    <3>3. QED
      BY <3>1, <3>2
  <2>3. /\ Requests' = [Requests EXCEPT ![c] = NoCommand] /\ Decisions' = [Decisions EXCEPT ![c] = "none"]
        /\ Decisions[c] # "none"
    BY <1>1, <1>3, <1>5, <2>1, <2>2, Mapped
  <2>4. QED
    BY <1>3, <2>3 DEF EndToEnd!Return
<1>8. QED
  BY <1>6, <1>7

LEMMA DisconnectStutters ==
  ASSUME IInv, NEW c \in Clients, server = "up", cut' = cut, Disconnect(c)
  PROVE  UNCHANGED EndToEnd!dirVars
<1>1. \A d \in Clients \ {c} : Same(d)
  BY Others DEF StepOf, Serve
<1>2. VarsTyped /\ StepInv(c)
  BY DEF IInv
<1>3. /\ Gone(c) /\ (up[c] = <<>> \/ c \in reset) /\ up'[c] = <<>>
      /\ UNCHANGED <<accounts, online, request, answer, down, cut, cpc, asked>>
  BY <1>2 DEF Disconnect, directory, clientVars, VarsTyped
<1>4. Pending(c)' = Pending(c) /\ Decided(c)' = Decided(c)
  BY <1>2, <1>3 DEF Pending, Decided, StepInv
<1>5. QED
  BY <1>1, <1>3, <1>4, Stutters

-----------------------------------------------------------------------------
LEMMA SeenInit == Init => EndToEnd!Init
<1> SUFFICES ASSUME Init PROVE EndToEnd!Init
  OBVIOUS
<1>1. \A c \in Clients : Pending(c) = NoCommand /\ Decided(c) = "none"
  BY DEF Init, Directory!Init, Pending, Decided
<1>2. QED
  BY <1>1 DEF Init, Directory!Init, EndToEnd!Init, Requests, Decisions

LEMMA SeenStep ==
  ASSUME IInv, IInv', [Next]_vars, server = "up", cut' = cut
  PROVE  EndToEnd!Next \/ UNCHANGED EndToEnd!dirVars
<1>1. CASE UNCHANGED vars
  <2>1. UNCHANGED <<accounts, online, request, answer, up, down, cut, cpc, asked>>
    BY <1>1 DEF vars, directory, wire, clientVars
  <2>2. QED
    BY <2>1 DEF EndToEnd!dirVars, Requests, Decisions, Pending, Decided
<1>2. ASSUME NEW c \in Clients, StepOf(c) PROVE EndToEnd!Next \/ UNCHANGED EndToEnd!dirVars
  <2>1. CASE (\E p \in Ports : Launch(c, p) \/ LaunchFails(c, p)) \/ Dial(c)
    BY <2>1, QuietStep
  <2>2. CASE Ask(c)
    BY <2>2, AskRequests DEF EndToEnd!Next
  <2>3. CASE Wait(c)
    <3>1. ~AnswerFails(c)
      BY DEF AnswerFails
    <3>2. QED
      BY <2>3, <3>1, AnswerReturns DEF Wait, EndToEnd!Next
  <2>4. CASE Leave(c)
    BY <2>4, LeaveReturns DEF EndToEnd!Next
  <2>5. CASE Serve(c)
    <3>1. ASSUME NEW n \in 1 .. Len(up[c]) PROVE ~ReceiveCut(c, n)
      BY DEF ReceiveCut
    <3>2. CASE \E n \in 1 .. Len(up[c]) : Receive(c, n)
      BY <3>2, ReceiveRequests DEF EndToEnd!Next
    <3>3. CASE Process(c)
      BY <3>3, ProcessDecides DEF EndToEnd!Next
    <3>4. CASE Send(c) \/ SendReset(c) \/ SendSigPipe(c)
      BY <3>4, SendReturns DEF EndToEnd!Next
    <3>5. CASE Disconnect(c)
      BY <3>5, DisconnectStutters
    <3>6. QED
      BY <2>5, <3>1, <3>2, <3>3, <3>4, <3>5 DEF Serve
  <2>6. QED
    BY <1>2, <2>1, <2>2, <2>3, <2>4, <2>5 DEF StepOf
<1>3. QED
  BY <1>1, <1>2, NextIsStepOf

(* What users see is a directory in which every command takes effect once, *)
(* between being typed and being answered, and is answered with what was   *)
(* decided: as long as the server lives and except for the moment a        *)
(* command is cut.                                                         *)
THEOREM EndToEndRefinement == Spec => UsersSeeDirectory
<1>1. IInv /\ IInv' /\ [Next]_vars =>
        [UNCHANGED EndToEnd!dirVars \/ (server = "up" /\ cut' = cut => EndToEnd!Next)]_vars
  BY SeenStep
<1>2. QED
  BY <1>1, SeenInit, Invariance, PTL DEF Spec, UsersSeeDirectory

-----------------------------------------------------------------------------
(* Reachable users stay so: a LOGOUT names nobody, cut or not, so what the *)
(* server does to n's entry it does for a login with n's password.         *)
Nameless(k) == k.op = "LOGOUT" => k.name = NoWord
WordInv ==
  \A c \in Clients : /\ \A i \in 1 .. Len(up[c]) : Nameless(up[c][i])
                     /\ request[c] # NoCommand => Nameless(request[c])

LEMMA TypedNameless ==
  ASSUME NEW c \in Clients, NEW k \in Typed(c)
  PROVE  Nameless(k)
BY DEF Typed, Nameless, Cmd

LEMMA PiecesNameless ==
  ASSUME NEW k \in Sent, Nameless(k), NEW q \in Pieces(k)
  PROVE  Nameless(q)
<1>1. CASE q \in {Rest, k}
  BY <1>1 DEF Rest, Cmd, Nameless
<1>2. ASSUME NEW n \in {NoWord, k.name} \cup
                       (IF k.name \in TypedNames THEN NamePrefixes[k.name] ELSE {}),
             q = Cmd(k.op, n, NoWord, 0)
      PROVE  Nameless(q)
  BY <1>2, ChatSystemAssumption DEF Cmd, Nameless
<1>3. ASSUME NEW w, q = Cmd(k.op, k.name, w, 0) PROVE Nameless(q)
  BY <1>3 DEF Cmd, Nameless
<1>4. ASSUME NEW p, q = [k EXCEPT !.port = p] PROVE Nameless(q)
  BY <1>4 DEF Sent, Nameless
<1>5. QED
  BY <1>1, <1>2, <1>3, <1>4 DEF Pieces

(* What is behind the n-th command keeps its order.                        *)
LEMMA Behind ==
  ASSUME NEW S, NEW s \in Seq(S), NEW n \in 1 .. Len(s), NEW i \in 1 .. Len(s) - n
  PROVE  SubSeq(s, n+1, Len(s))[i] = s[n + i]
<1>1. n \in Nat /\ Len(s) \in Nat /\ i \in 1 .. Len(s) - (n+1) + 1 /\ n+1+i-1 = n+i
  OBVIOUS
<1>2. \A j \in n+1 .. Len(s) : s[j] \in S
  BY <1>1
<1>3. \A j \in 1 .. Len(s) - (n+1) + 1 : SubSeq(s, n+1, Len(s))[j] = s[n+1+j-1]
  BY <1>1, <1>2, SubSeqProperties
<1>4. QED
  BY <1>1, <1>3

LEMMA NamelessBehind ==
  ASSUME NEW s \in Seq(Sent), \A i \in 1 .. Len(s) : Nameless(s[i]), NEW n \in 1 .. Len(s)
  PROVE  \A i \in 1 .. Len(SubSeq(s, n+1, Len(s))) : Nameless(SubSeq(s, n+1, Len(s))[i])
<1> TAKE i \in 1 .. Len(SubSeq(s, n+1, Len(s)))
<1>1. Len(s) \in Nat /\ Len(SubSeq(s, n+1, Len(s))) = Len(s) - n
  BY Remaining
<1>2. i \in 1 .. Len(s) - n /\ n + i \in 1 .. Len(s)
  BY <1>1
<1>3. SubSeq(s, n+1, Len(s))[i] = s[n + i]
  BY <1>2, Behind
<1>4. QED
  BY <1>2, <1>3

(* Commands come under way as they were typed, and a piece of one names no *)
(* more than the whole does.                                               *)
LEMMA WordStep ==
  ASSUME IInv, WordInv, NEW c \in Clients, StepOf(c)
  PROVE  WordInv'
<1>0. VarsTyped /\ \A d \in Clients \ {c} : Same(d)
  BY Others DEF IInv
<1>1. /\ \A i \in 1 .. Len(up[c]) : Nameless(up[c][i])
      /\ request[c] # NoCommand => Nameless(request[c])
      /\ up[c] \in Seq(Sent)
  BY <1>0, Lengths DEF WordInv
<1>2. ASSUME \A i \in 1 .. Len(up'[c]) : Nameless(up'[c][i]),
             request'[c] # NoCommand => Nameless(request'[c])
      PROVE  WordInv'
  <2>1. \A d \in Clients : /\ \A i \in 1 .. Len(up'[d]) : Nameless(up'[d][i])
                           /\ request'[d] # NoCommand => Nameless(request'[d])
    BY <1>0, <1>2 DEF WordInv, Same
  <2>2. QED
    BY <2>1 DEF WordInv, Nameless
<1>3. CASE \/ \E p \in Ports : Launch(c, p) \/ LaunchFails(c, p)
           \/ Dial(c) \/ Leave(c) \/ \E n \in 1 .. Len(down[c]) : Answer(c, n)
  <2>1. UNCHANGED <<request, up>>
    BY <1>3 DEF Launch, LaunchFails, Dial, Leave, Answer, directory, wire
  <2>2. QED
    BY <1>1, <1>2, <2>1
<1>4. CASE Ask(c)
  <2>1. PICK k \in Typed(c) : up' = [up EXCEPT ![c] = Append(@, k)]
    BY <1>4 DEF Ask
  <2>2. up'[c] = Append(up[c], k) /\ UNCHANGED request
    BY <1>0, <1>4, <2>1 DEF Ask, directory, VarsTyped
  <2>3. k \in Sent
    BY <1>0, TypedSent DEF VarsTyped
  <2>4. /\ Len(up'[c]) = Len(up[c]) + 1 /\ up'[c][Len(up[c]) + 1] = k /\ Len(up[c]) \in Nat
        /\ \A i \in 1 .. Len(up[c]) : up'[c][i] = up[c][i]
    BY <1>1, <2>2, <2>3, AppendProperties
  <2>5. \A i \in 1 .. Len(up'[c]) : Nameless(up'[c][i])
    BY <1>1, <2>4, TypedNameless
  <2>6. QED
    BY <1>1, <1>2, <2>2, <2>5
<1>5. CASE AnswerFails(c) \/ Disconnect(c)
  <2>1. up'[c] = <<>> /\ UNCHANGED request
    BY <1>0, <1>5 DEF AnswerFails, Disconnect, directory, VarsTyped
  <2>2. \A i \in 1 .. Len(up'[c]) : FALSE
    BY <2>1
  <2>3. QED
    BY <1>1, <1>2, <2>1, <2>2
<1>6. ASSUME NEW n \in 1 .. Len(up[c]), Receive(c, n) PROVE WordInv'
  <2>1. PICK k \in Deciding(c, n) : request' = [request EXCEPT ![c] = k]
    BY <1>6 DEF Receive
  <2>2. request'[c] = k /\ up'[c] = SubSeq(up[c], n+1, Len(up[c]))
    BY <1>0, <1>6, <2>1 DEF Receive, VarsTyped
  <2>3. Nameless(k)
    BY <1>1, Decider
  <2>4. QED
    BY <1>1, <1>2, <2>2, <2>3, NamelessBehind
<1>7. ASSUME NEW n \in 1 .. Len(up[c]), ReceiveCut(c, n) PROVE WordInv'
  <2> DEFINE behind == SubSeq(up[c], n+1, Len(up[c]))
  <2>1. Head(up[c]) \in Sent /\ Head(up[c]) = up[c][1] /\ 1 \in 1 .. Len(up[c]) /\ behind \in Seq(Sent)
    BY <1>1, Remaining
  <2>2. PICK k \in Pieces(Head(up[c])) \cup {Head(up[c])} : request' = [request EXCEPT ![c] = k]
    BY <1>7 DEF ReceiveCut
  <2>3. request'[c] = k /\ up'[c] = <<Rest>> \o behind
    BY <1>0, <1>7, <2>2 DEF ReceiveCut, VarsTyped
  <2>4. Nameless(k)
    BY <1>1, <2>1, <2>2, PiecesNameless
  <2>5. Nameless(Rest)
    BY DEF Rest, Cmd, Nameless
  <2>6. /\ Len(behind) \in Nat /\ Len(<<Rest>> \o behind) = 1 + Len(behind)
        /\ \A i \in 1 .. 1 + Len(behind) :
             (<<Rest>> \o behind)[i] = IF i = 1 THEN Rest ELSE behind[i - 1]
    <3>1. <<Rest>> \in Seq(Sent) /\ Len(<<Rest>>) = 1 /\ <<Rest>>[1] = Rest
      BY SentCommands
    <3>2. QED
      BY <2>1, <3>1, ConcatProperties
  <2>7. \A i \in 1 .. Len(behind) : Nameless(behind[i])
    BY <1>1, NamelessBehind
  <2>8. \A i \in 1 .. Len(up'[c]) : Nameless(up'[c][i])
    <3> TAKE i \in 1 .. Len(up'[c])
    <3>1. i \in 1 .. 1 + Len(behind) /\ up'[c][i] = IF i = 1 THEN Rest ELSE behind[i - 1]
      BY <2>3, <2>6
    <3>2. i # 1 => i - 1 \in 1 .. Len(behind)
      BY <2>6, <3>1
    <3>3. QED
      BY <2>5, <2>7, <3>1, <3>2
  <2>9. QED
    BY <1>2, <2>3, <2>4, <2>8
<1>8. CASE Process(c)
  <2>1. Decides(c) /\ UNCHANGED up
    BY <1>8 DEF Process, Decides, wire
  <2>2. UNCHANGED request
    BY <1>0, <2>1, Decision DEF IInv
  <2>3. QED
    BY <1>1, <1>2, <2>1, <2>2
<1>9. CASE Send(c) \/ SendReset(c) \/ SendSigPipe(c)
  <2>1. UNCHANGED up /\ request'[c] = NoCommand
    BY <1>9, Returned DEF Send, SendReset, SendSigPipe, wire
  <2>2. QED
    BY <1>1, <1>2, <2>1
<1>10. QED
  BY <1>3, <1>4, <1>5, <1>6, <1>7, <1>8, <1>9 DEF StepOf, Wait, Serve

LEMMA WordInvariance == Spec => []WordInv
<1>1. Init => WordInv
  BY DEF Init, Directory!Init, WordInv
<1>2. IInv /\ WordInv /\ [Next]_vars => WordInv'
  <2>1. WordInv /\ UNCHANGED vars => WordInv'
    BY DEF vars, directory, wire, WordInv, Nameless
  <2>2. QED
    BY <2>1, WordStep, NextIsStepOf
<1>3. QED
  BY <1>1, <1>2, Invariance, PTL DEF Spec

(* Only the server's decision of a login with n's password changes what    *)
(* the directory says of n.                                                *)
LEMMA OwnCommandStep ==
  ASSUME IInv, WordInv, [Next]_vars, NEW n \in TypedNames, n \in DOMAIN online, LosesAddress(n)
  PROVE  \E c \in Clients, p \in AnyPort : request[c] = Cmd("LOGIN", n, accounts[n], p)
<1>1. ~UNCHANGED online
  BY DEF LosesAddress
<1>2. ASSUME NEW c \in Clients, StepOf(c), ~Process(c) PROVE UNCHANGED online
  BY <1>2 DEF StepOf, Launch, LaunchFails, Ask, Wait, Answer, AnswerFails, Dial, Leave, Serve, Receive,
         ReceiveCut, Send, SendReset, SendSigPipe, Disconnect, directory, Directory!Return
<1>3. PICK c \in Clients : Process(c)
  BY <1>1, <1>2, NextIsStepOf DEF vars, directory
<1>4. Decides(c) /\ request[c] \in Commands /\ Nameless(request[c])
  <2>1. Decides(c) /\ VarsTyped
    BY <1>3 DEF Process, Decides, IInv
  <2>2. request[c] # NoCommand
    BY <2>1, Decision DEF IInv
  <2>3. QED
    BY <2>1, <2>2 DEF VarsTyped, WordInv
<1>5. CASE Directory!Login(c)
  <2>1. /\ request[c].op = "LOGIN" /\ accounts[request[c].name] = request[c].password
        /\ online' = Directory!Put(online, request[c].name, request[c].port)
    BY <1>1, <1>5 DEF Directory!Login, Directory!Executes, PortOf
  <2>2. n = request[c].name
    BY <2>1 DEF LosesAddress, Directory!Put
  <2>3. request[c] = Cmd("LOGIN", n, accounts[n], request[c].port) /\ request[c].port \in AnyPort
    BY <1>4, <2>1, <2>2 DEF Commands, Cmd
  <2>4. QED
    BY <2>3
<1>6. CASE Directory!Logout(c)
  <2>1. request[c].name = NoWord
    BY <1>4, <1>6 DEF Directory!Logout, Directory!Executes, Nameless
  <2>2. n # request[c].name
    BY <2>1, ChatSystemAssumption
  <2>3. QED
    BY <1>1, <1>6, <2>2 DEF Directory!Logout, Directory!Drop, LosesAddress
<1>7. CASE Directory!Register(c) \/ Directory!GetInfo(c) \/ Directory!Unknown(c)
  BY <1>1, <1>7 DEF Directory!Register, Directory!GetInfo, Directory!Unknown
<1>8. QED
  BY <1>4, <1>5, <1>6, <1>7 DEF Decides

(* A user stays reachable at the client he has last logged in from until   *)
(* he commands otherwise, over everything that others do, over ends of his *)
(* former clients and over cut commands.                                   *)
THEOREM ReachableUsersStay == Spec => ReachableTillOwnCommand
<1>1. IInv /\ WordInv /\ [Next]_vars =>
        [\A n \in TypedNames, r \in Clients : Reachable(n, r) /\ LosesAddress(n) =>
           \/ \E c \in Clients, p \in AnyPort : request[c] = Cmd("LOGIN", n, accounts[n], p)
           \/ request[r] = Cmd("LOGOUT", NoWord, NoWord, 0)]_vars
  BY OwnCommandStep DEF Reachable
<1>2. QED
  BY <1>1, Invariance, WordInvariance, PTL DEF Spec, ReachableTillOwnCommand
=============================================================================
