-------------------------- MODULE ChatSystemProofs --------------------------
(***************************************************************************)
(* The safety properties of ChatSystem, proved for any number of clients,  *)
(* ports, names and cut commands.                                          *)
(***************************************************************************)
EXTENDS ChatSystem, SequenceTheorems, TLAPS

-----------------------------------------------------------------------------
(* The inductive invariant.                                                *)

Sent == [op: {"REGISTER", "LOGIN", "LOGOUT", "GETINFO", "UNKNOWN"},
         name: Names, password: Passwords, port: Ports \cup {0}]
Statuses == {"REGISTERED", "USER_EXISTS", "LOGIN", "INVALID_CREDENTIALS", "LOGOUT",
             "NOT_LOGGED_IN", "INFO", "USER_NOT_FOUND", "UNKNOWN_COMMAND"}
Said == [status: Statuses, port: AnyPort]

VarsTyped ==
  /\ server \in {"up", "dead"}
  /\ up \in [Clients -> Seq(Sent)] /\ down \in [Clients -> Seq(Said)]
  /\ answer \in [Clients -> Statuses \cup {"none"}]
  /\ request \in [Clients -> Commands \cup {NoCommand}]
  /\ asked \in [Clients -> Commands \cup {NoCommand}]
  /\ connected \in [Clients -> BOOLEAN]
  /\ cpc \in [Clients -> {"away", "prompt", "recv", "dial", "gone", "threw"}]
  /\ listenPort \in [Clients -> Ports \cup {0}]
  /\ dial \in [Clients -> AnyPort]
  /\ published \subseteq Names \X AnyPort \X Clients
  /\ reset \subseteq Clients /\ cut \subseteq Clients

DirectoryTyped ==
  /\ DOMAIN accounts \subseteq Names /\ \A n \in DOMAIN accounts : accounts[n] \in Passwords
  /\ DOMAIN online \subseteq DOMAIN accounts /\ \A n \in DOMAIN online : online[n] \in AnyPort

(* Who runs is connected; who waits has asked for something that is under  *)
(* way; what the server has decided answers what it has received.          *)
ClientInv(c) ==
  /\ cpc[c] = "dial" <=> dial[c] # 0
  /\ Running(c) => connected[c]
  /\ connected[c] => cpc[c] # "away"
  /\ ~connected[c] => up[c] = <<>> /\ request[c] = NoCommand
  /\ c \in reset => Gone(c)
  /\ answer[c] # "none" => /\ request[c] # NoCommand
                           /\ request[c].op = "UNKNOWN" \/ answer[c] \in AnswersTo[request[c].op]
  /\ cpc[c] \in {"recv", "dial"} => asked[c] \in Commands /\ asked[c].op \in DOMAIN AnswersTo
  /\ cpc[c] = "dial" => asked[c].op = "GETINFO"
  /\ server = "up" /\ cpc[c] = "recv" =>
       up[c] # <<>> \/ down[c] # <<>> \/ request[c] # NoCommand

(* A login from port p under the name n was accepted.                      *)
Known(n, p) == \E l \in published : l[1] = n /\ l[2] = p

(* A LOGIN carries the port its client listens on.                         *)
OwnPort(c, k) == k.op = "LOGIN" => Gone(c) \/ k.port = listenPort[c]

(* Of a client none of whose commands was cut one thing at a time is under *)
(* way: its command, the server's work on it, or the answer.               *)
StepInv(c) ==
  c \notin cut =>
    /\ cpc[c] # "threw"
    /\ Len(up[c]) <= 1 /\ Len(down[c]) <= 1 /\ (up[c] = <<>> \/ down[c] = <<>>)
    /\ down[c] # <<>> => /\ cpc[c] = "recv" /\ request[c] = NoCommand
                         /\ Head(down[c]).status \in AnswersTo[asked[c].op]
                         /\ Head(down[c]).port = 0 \/ Known(asked[c].name, Head(down[c]).port)
    /\ cpc[c] \in {"away", "prompt", "dial"} => up[c] = <<>>
    /\ up[c] # <<>> => /\ cpc[c] = "recv" => Head(up[c]) = asked[c]
                       /\ OwnPort(c, Head(up[c]))
    /\ cpc[c] = "dial" => Known(asked[c].name, dial[c])
    /\ c \in reset => up[c] = <<>>
    /\ server = "up" /\ request[c] # NoCommand =>
         /\ up[c] = <<>> /\ cpc[c] \notin {"away", "prompt", "dial"} /\ c \notin reset
         /\ cpc[c] = "recv" => request[c] = asked[c]
         /\ OwnPort(c, request[c])

(* The server dies of a cut command only; ports have one listener, and a   *)
(* running client still listens on the port it has published.              *)
SystemInv ==
  /\ server = "dead" => cut # {}
  /\ \A c, d \in Clients : listenPort[c] = listenPort[d] /\ listenPort[c] # 0 => c = d
  /\ cut = {} => \A l \in published : /\ cpc[l[3]] # "away"
                                      /\ Gone(l[3]) \/ listenPort[l[3]] = l[2]

IInv == /\ VarsTyped /\ DirectoryTyped /\ SystemInv
        /\ \A c \in Clients : ClientInv(c) /\ StepInv(c)

-----------------------------------------------------------------------------
(* The data.                                                               *)

LEMMA AnswersOf ==
  /\ DOMAIN AnswersTo = {"REGISTER", "LOGIN", "LOGOUT", "GETINFO"}
  /\ AnswersTo["REGISTER"] = {"REGISTERED", "USER_EXISTS"}
  /\ AnswersTo["LOGIN"] = {"LOGIN", "INVALID_CREDENTIALS"}
  /\ AnswersTo["LOGOUT"] = {"LOGOUT", "NOT_LOGGED_IN"}
  /\ AnswersTo["GETINFO"] = {"INFO", "USER_NOT_FOUND"}
BY DEF AnswersTo

LEMMA Words ==
  /\ NoWord \in Names /\ NoWord \in Passwords /\ TypedNames \subseteq Names /\ TypedPasswords \subseteq Passwords
  /\ \A n \in TypedNames : NamePrefixes[n] \subseteq Names
  /\ \A w \in TypedPasswords : PasswordPrefixes[w] \subseteq Passwords
  /\ 0 \in AnyPort /\ Ports \subseteq AnyPort /\ \A p \in Ports : \A d \in Powers : p \div d \in AnyPort
  /\ \A p \in Ports : p # 0 /\ p \in Nat
<1>1. NoWord \in Names /\ TypedNames \subseteq Names
  BY DEF Names
<1>6. NoWord \in Passwords /\ TypedPasswords \subseteq Passwords
  BY DEF Passwords
<1>2. \A n \in TypedNames : NamePrefixes[n] \subseteq Names
  BY DEF Names
<1>3. \A w \in TypedPasswords : PasswordPrefixes[w] \subseteq Passwords
  BY DEF Passwords
<1>4. 0 \in AnyPort /\ Ports \subseteq AnyPort /\ \A p \in Ports : \A d \in Powers : p \div d \in AnyPort
  BY DEF AnyPort
<1>5. \A p \in Ports : p # 0 /\ p \in Nat
  BY ChatSystemAssumption
<1>7. QED
  BY <1>1, <1>2, <1>3, <1>4, <1>5, <1>6

LEMMA SentCommands == Sent \subseteq Commands /\ NoCommand \notin Sent /\ NoCommand \notin Commands /\ Rest \in Sent
<1>1. Sent \subseteq Commands
  BY Words DEF Sent, Commands
<1>2. NoCommand \notin Commands
  BY ChatSystemAssumption
<1>3. Rest \in Sent
  BY Words DEF Sent, Rest, Cmd
<1>4. QED
  BY <1>1, <1>2, <1>3

LEMMA TypedSent ==
  ASSUME NEW c \in Clients, listenPort[c] \in Ports \cup {0}, NEW k \in Typed(c)
  PROVE  k \in Sent /\ k.op \in DOMAIN AnswersTo /\ (k.op = "LOGIN" => k.port = listenPort[c])
BY Words, AnswersOf DEF Typed, Sent, Cmd

LEMMA PiecesAreCommands ==
  ASSUME NEW k \in Sent
  PROVE  Pieces(k) \subseteq Commands
<1> SUFFICES ASSUME NEW q \in Pieces(k) PROVE q \in Commands
  OBVIOUS
<1>1. \A d \in Powers : k.port \div d \in AnyPort
  <2>1. \A d \in Powers : 0 \div d = 0
    BY DEF Powers
  <2>2. QED
    BY <2>1, Words DEF Sent
<1>2. /\ k.op \in {"REGISTER", "LOGIN", "LOGOUT", "GETINFO", "UNKNOWN"}
      /\ k.name \in Names /\ k.password \in Passwords /\ k.port \in AnyPort
  BY Words DEF Sent
<1>3. CASE q \in {Rest, k}
  BY <1>3, SentCommands
<1>4. ASSUME NEW n \in {NoWord, k.name} \cup
                       (IF k.name \in TypedNames THEN NamePrefixes[k.name] ELSE {}),
             q = Cmd(k.op, n, NoWord, 0)
      PROVE  q \in Commands
  <2>1. n \in Names
    BY <1>2, <1>4, Words
  <2>2. QED
    BY <1>2, <1>4, <2>1, Words DEF Cmd, Commands
<1>5. ASSUME k.password \in TypedPasswords, NEW w \in PasswordPrefixes[k.password],
             q = Cmd(k.op, k.name, w, 0)
      PROVE  q \in Commands
  <2>1. w \in Passwords
    BY <1>5, Words
  <2>2. QED
    BY <1>2, <1>5, <2>1, Words DEF Cmd, Commands
<1>6. ASSUME NEW p \in {0} \cup {k.port \div d : d \in Powers}, q = [k EXCEPT !.port = p]
      PROVE  q \in Commands
  <2>1. p \in AnyPort
    BY <1>1, Words
  <2>2. q = [op |-> k.op, name |-> k.name, password |-> k.password, port |-> p]
    BY <1>6 DEF Sent
  <2>3. QED
    BY <1>2, <2>1, <2>2 DEF Commands
<1>7. QED
  BY <1>3, <1>4, <1>5, <1>6 DEF Pieces

(* At most one port is found, the one of the first INFO.                   *)
LEMMA PortsFound ==
  ASSUME NEW s \in Seq(Said)
  PROVE  /\ PortsIn(s) \subseteq AnyPort
         /\ \A p, q \in PortsIn(s) : p = q
         /\ Len(s) = 1 /\ s[1].status = "INFO" => PortsIn(s) = {s[1].port}
<1> DEFINE First == {j \in DOMAIN s : /\ s[j].status = "INFO"
                                      /\ \A h \in 1 .. j-1 : s[h].status \notin WithNul \cup {"INFO"}}
<1>1. DOMAIN s = 1 .. Len(s) /\ Len(s) \in Nat
  OBVIOUS
<1>2. PortsIn(s) = {s[i].port : i \in First}
  BY DEF PortsIn
<1>3. \A i \in First : s[i].port \in AnyPort
  <2>1. \A i \in First : s[i] \in Said
    BY <1>1
  <2>2. QED
    BY <2>1 DEF Said
<1>4. \A i, j \in First : i = j
  <2> SUFFICES ASSUME NEW i \in First, NEW j \in First, i < j PROVE FALSE
    BY <1>1
  <2>1. i \in 1 .. j-1
    BY <1>1
  <2>2. QED
    BY <2>1
<1>5. Len(s) = 1 /\ s[1].status = "INFO" => First = {1}
  BY <1>1
<1>6. QED
  BY <1>2, <1>3, <1>4, <1>5

(* What remains of a sequence when its first n elements are taken.         *)
LEMMA Remaining ==
  ASSUME NEW S, NEW s \in Seq(S), NEW n \in 1 .. Len(s)
  PROVE  /\ SubSeq(s, n+1, Len(s)) \in Seq(S) /\ Len(SubSeq(s, n+1, Len(s))) = Len(s) - n
         /\ SubSeq(s, 1, n) \in Seq(S) /\ Len(SubSeq(s, 1, n)) = n /\ SubSeq(s, 1, n)[1] = Head(s)
         /\ s # <<>> /\ Head(s) \in S /\ Head(s) = s[1] /\ Len(s) \in Nat
<1>1. Len(s) \in Nat /\ n \in Nat /\ s # <<>> /\ Head(s) = s[1] /\ s[1] \in S
  OBVIOUS
<1>2. /\ \A i \in n+1 .. Len(s) : s[i] \in S
      /\ \A i \in 1 .. n : s[i] \in S
  BY <1>1
<1>3. /\ SubSeq(s, n+1, Len(s)) \in Seq(S)
      /\ Len(SubSeq(s, n+1, Len(s))) = IF n+1 <= Len(s) THEN Len(s) - (n+1) + 1 ELSE 0
  BY <1>1, <1>2, SubSeqProperties
<1>4. /\ SubSeq(s, 1, n) \in Seq(S)
      /\ Len(SubSeq(s, 1, n)) = IF 1 <= n THEN n - 1 + 1 ELSE 0
      /\ \A i \in 1 .. n - 1 + 1 : SubSeq(s, 1, n)[i] = s[1+i-1]
  BY <1>1, <1>2, SubSeqProperties
<1>5. QED
  BY <1>1, <1>3, <1>4

-----------------------------------------------------------------------------
(* Every step is one client's, or the server's for one client.             *)

(* Nothing that concerns d changes.                                        *)
Same(d) == /\ up'[d] = up[d] /\ down'[d] = down[d] /\ request'[d] = request[d] /\ answer'[d] = answer[d]
           /\ cpc'[d] = cpc[d] /\ listenPort'[d] = listenPort[d]
           /\ asked'[d] = asked[d] /\ dial'[d] = dial[d] /\ connected'[d] = connected[d]
           /\ (d \in reset' <=> d \in reset) /\ (d \in cut' <=> d \in cut)

(* What is done can not be undone.                                         *)
Onward == server' \in {server, "dead"} /\ published \subseteq published'

LEMMA Lengths ==
  ASSUME VarsTyped, NEW c \in Clients
  PROVE  /\ up[c] \in Seq(Sent) /\ Len(up[c]) \in Nat /\ (up[c] = <<>> <=> Len(up[c]) = 0)
         /\ down[c] \in Seq(Said) /\ Len(down[c]) \in Nat /\ (down[c] = <<>> <=> Len(down[c]) = 0)
<1>1. up[c] \in Seq(Sent) /\ down[c] \in Seq(Said)
  BY DEF VarsTyped
<1>2. QED
  BY <1>1

LEMMA Frame ==
  ASSUME NEW d, Same(d), Onward, VarsTyped, ClientInv(d), StepInv(d)
  PROVE  ClientInv(d)' /\ StepInv(d)'
<1>1. server' = "up" => server = "up"
  BY DEF Onward, VarsTyped
<1>2. ClientInv(d)'
  BY <1>1 DEF Same, ClientInv, Running, Gone
<1>3. \A n, p : Known(n, p) => Known(n, p)'
  BY DEF Onward, Known
<1>4. \A k : OwnPort(d, k) => (k.op = "LOGIN" => Gone(d)' \/ k.port = listenPort'[d])
  BY DEF OwnPort, Same, Gone
<1>5. StepInv(d)'
  <2> SUFFICES ASSUME d \notin cut' PROVE StepInv(d)'
    BY DEF StepInv
  <2>1. d \notin cut
    BY DEF Same
  <2>2. /\ cpc'[d] # "threw"
        /\ Len(up'[d]) <= 1 /\ Len(down'[d]) <= 1 /\ (up'[d] = <<>> \/ down'[d] = <<>>)
        /\ cpc'[d] \in {"away", "prompt", "dial"} => up'[d] = <<>>
        /\ d \in reset' => up'[d] = <<>>
    BY <2>1 DEF StepInv, Same
  <2>8. Known(asked[d].name, dial[d]) => Known(asked[d].name, dial[d])'
    BY <1>3 DEF Known, Same, Onward
  <2>9. Known(asked[d].name, Head(down[d]).port) => Known(asked[d].name, Head(down[d]).port)'
    BY <1>3 DEF Known, Same, Onward
  <2>3. down'[d] # <<>> => /\ cpc'[d] = "recv" /\ request'[d] = NoCommand
                           /\ Head(down'[d]).status \in AnswersTo[asked'[d].op]
                           /\ Head(down'[d]).port = 0 \/ Known(asked[d].name, Head(down[d]).port)'
    BY <2>1, <2>9 DEF StepInv, Same
  <2>4. up'[d] # <<>> => /\ cpc'[d] = "recv" => Head(up'[d]) = asked'[d]
                         /\ OwnPort(d, Head(up[d]))'
    BY <2>1, <1>4 DEF StepInv, Same, OwnPort
  <2>5. cpc'[d] = "dial" => Known(asked[d].name, dial[d])'
    BY <2>1, <2>8 DEF StepInv, Same
  <2>6. server' = "up" /\ request'[d] # NoCommand =>
          /\ up'[d] = <<>> /\ cpc'[d] \notin {"away", "prompt", "dial"} /\ d \notin reset'
          /\ cpc'[d] = "recv" => request'[d] = asked'[d]
          /\ OwnPort(d, request[d])'
    BY <2>1, <1>1, <1>4 DEF StepInv, Same, OwnPort
  <2>7. QED
    BY <2>2, <2>3, <2>4, <2>5, <2>6 DEF StepInv
<1>6. QED
  BY <1>2, <1>5

LEMMA Assemble ==
  ASSUME IInv, NEW c \in Clients, \A d \in Clients \ {c} : Same(d), Onward,
         VarsTyped', DirectoryTyped', SystemInv', ClientInv(c)', StepInv(c)'
  PROVE  IInv'
<1>1. ASSUME NEW d \in Clients \ {c} PROVE ClientInv(d)' /\ StepInv(d)'
  BY <1>1, Frame DEF IInv
<1>2. QED
  BY <1>1 DEF IInv

(* Ports and published ports: what a step must respect.                    *)
LEMMA SystemFrame ==
  ASSUME IInv, NEW c \in Clients, \A d \in Clients \ {c} : Same(d), Onward, cut \subseteq cut',
         published' = published, cpc'[c] # "away",
         Gone(c)' \/ (~Gone(c) /\ listenPort'[c] = listenPort[c]),
         listenPort'[c] \in {0, listenPort[c]},
         server' = server \/ cut' # {}
  PROVE  SystemInv'
<1>1. server' = "dead" => cut' # {}
  BY DEF IInv, SystemInv
<1>2. \A a, d \in Clients : listenPort'[a] = listenPort'[d] /\ listenPort'[a] # 0 => a = d
  <2>1. \A a \in Clients : listenPort'[a] \in {0, listenPort[a]}
    BY DEF Same
  <2>2. QED
    BY <2>1 DEF IInv, SystemInv
<1>3. ASSUME cut' = {}, NEW l \in published'
      PROVE  cpc'[l[3]] # "away" /\ (Gone(l[3])' \/ listenPort'[l[3]] = l[2])
  <2>1. cut = {} /\ l \in published /\ l[3] \in Clients
    BY <1>3 DEF IInv, VarsTyped
  <2>2. cpc[l[3]] # "away" /\ (Gone(l[3]) \/ listenPort[l[3]] = l[2])
    BY <2>1 DEF IInv, SystemInv
  <2>3. CASE l[3] = c
    BY <2>2, <2>3
  <2>4. CASE l[3] # c
    BY <2>1, <2>2, <2>4 DEF Same, Gone
  <2>5. QED
    BY <2>3, <2>4
<1>4. QED
  BY <1>1, <1>2, <1>3 DEF SystemInv

-----------------------------------------------------------------------------
(* The client's steps.                                                     *)

LEMMA DirectoryFrame == DirectoryTyped /\ UNCHANGED <<accounts, online>> => DirectoryTyped'
BY DEF DirectoryTyped

LEMMA LaunchStep ==
  ASSUME IInv, NEW c \in Clients, NEW p \in Ports, Launch(c, p)
  PROVE  IInv'
<1>0. VarsTyped /\ DirectoryTyped /\ SystemInv /\ ClientInv(c) /\ StepInv(c)
  BY DEF IInv
<1>1. /\ cpc[c] = "away" /\ server = "up" /\ \A d \in Clients : listenPort[d] # p
      /\ cpc' = [cpc EXCEPT ![c] = "prompt"] /\ listenPort' = [listenPort EXCEPT ![c] = p]
      /\ connected' = [connected EXCEPT ![c] = TRUE]
      /\ UNCHANGED <<accounts, online, request, answer, server, published, up, down, reset, cut, asked, dial>>
  BY DEF Launch, Client, directory, wire
<1>2. /\ cpc'[c] = "prompt" /\ listenPort'[c] = p /\ connected'[c] = TRUE
      /\ \A d \in Clients \ {c} : Same(d)
  BY <1>0, <1>1 DEF VarsTyped, Same
<1>3. VarsTyped'
  BY <1>0, <1>1 DEF VarsTyped
<1>4. DirectoryTyped'
  BY <1>0, <1>1, DirectoryFrame
<1>5. SystemInv'
  <2>1. \A a, d \in Clients : listenPort'[a] = listenPort'[d] /\ listenPort'[a] # 0 => a = d
    BY <1>0, <1>1, <1>2 DEF SystemInv, Same
  <2>2. ASSUME cut' = {}, NEW l \in published'
        PROVE  cpc'[l[3]] # "away" /\ (Gone(l[3])' \/ listenPort'[l[3]] = l[2])
    <3>1. l \in published /\ cut = {} /\ l[3] \in Clients
      BY <1>0, <1>1, <2>2 DEF VarsTyped
    <3>2. cpc[l[3]] # "away" /\ (Gone(l[3]) \/ listenPort[l[3]] = l[2])
      BY <1>0, <3>1 DEF SystemInv
    <3>3. l[3] \in Clients \ {c}
      BY <1>1, <3>1, <3>2
    <3>4. QED
      BY <1>2, <3>2, <3>3 DEF Same, Gone
  <2>3. QED
    BY <1>0, <1>1, <2>1, <2>2 DEF SystemInv
<1>6. ClientInv(c)'
  BY <1>0, <1>1, <1>2 DEF ClientInv, Running, Gone
<1>7. StepInv(c)'
  BY <1>0, <1>1, <1>2 DEF StepInv, VarsTyped
<1>8. Onward
  BY <1>1 DEF Onward
<1>9. QED
  BY <1>2, <1>3, <1>4, <1>5, <1>6, <1>7, <1>8, Assemble

LEMMA LaunchFailsStep ==
  ASSUME IInv, NEW c \in Clients, NEW p \in Ports, LaunchFails(c, p)
  PROVE  IInv'
<1>0. VarsTyped /\ DirectoryTyped /\ SystemInv /\ ClientInv(c) /\ StepInv(c)
  BY DEF IInv
<1>1. /\ cpc[c] = "away" /\ cpc' = [cpc EXCEPT ![c] = "gone"]
      /\ UNCHANGED <<accounts, online, request, answer, server, connected, published, up, down, reset, cut,
                     listenPort, asked, dial>>
  BY DEF LaunchFails, Client, directory, serverVars, wire
<1>2. cpc'[c] = "gone" /\ \A d \in Clients \ {c} : Same(d)
  BY <1>0, <1>1 DEF VarsTyped, Same
<1>3. VarsTyped'
  BY <1>0, <1>1 DEF VarsTyped
<1>4. DirectoryTyped'
  BY <1>0, <1>1, DirectoryFrame
<1>5. Onward
  BY <1>1 DEF Onward
<1>6. SystemInv'
  BY <1>1, <1>2, <1>5, SystemFrame DEF Gone
<1>7. ClientInv(c)'
  BY <1>0, <1>1, <1>2 DEF ClientInv, Running, Gone
<1>8. StepInv(c)'
  BY <1>0, <1>1, <1>2 DEF StepInv, VarsTyped
<1>9. QED
  BY <1>2, <1>3, <1>4, <1>5, <1>6, <1>7, <1>8, Assemble

LEMMA AskStep ==
  ASSUME IInv, NEW c \in Clients, Ask(c)
  PROVE  IInv'
<1>0. VarsTyped /\ DirectoryTyped /\ SystemInv /\ ClientInv(c) /\ StepInv(c)
  BY DEF IInv
<1>1. PICK k \in Typed(c) : asked' = [asked EXCEPT ![c] = k] /\ up' = [up EXCEPT ![c] = Append(@, k)]
  BY DEF Ask
<1>2. /\ cpc[c] = "prompt" /\ cpc' = [cpc EXCEPT ![c] = "recv"]
      /\ UNCHANGED <<accounts, online, request, answer, server, connected, published, down, reset, cut,
                     listenPort, dial>>
  BY DEF Ask, Client, directory, serverVars
<1>3. k \in Sent /\ k.op \in DOMAIN AnswersTo /\ (k.op = "LOGIN" => k.port = listenPort[c]) /\ k \in Commands
  BY <1>0, TypedSent, SentCommands DEF VarsTyped
<1>4. up[c] \in Seq(Sent) /\ Append(up[c], k) \in Seq(Sent) /\ Append(up[c], k) # <<>>
  <2>1. up[c] \in Seq(Sent)
    BY <1>0 DEF VarsTyped
  <2>2. QED
    BY <1>3, <2>1, AppendProperties
<1>5. /\ cpc'[c] = "recv" /\ asked'[c] = k /\ up'[c] = Append(up[c], k)
      /\ \A d \in Clients \ {c} : Same(d)
  BY <1>0, <1>1, <1>2 DEF VarsTyped, Same
<1>6. VarsTyped'
  BY <1>0, <1>1, <1>2, <1>3, <1>4 DEF VarsTyped
<1>7. DirectoryTyped'
  BY <1>0, <1>2, DirectoryFrame
<1>8. Onward
  BY <1>2 DEF Onward
<1>9. SystemInv'
  BY <1>2, <1>5, <1>8, SystemFrame DEF Gone
<1>10. ClientInv(c)'
  BY <1>0, <1>2, <1>3, <1>4, <1>5 DEF ClientInv, Running, Gone
<1>11. StepInv(c)'
  <2> SUFFICES ASSUME c \notin cut' PROVE StepInv(c)'
    BY DEF StepInv
  <2>1. c \notin cut /\ up[c] = <<>> /\ down[c] = <<>> /\ (server = "up" => request[c] = NoCommand) /\ c \notin reset
    BY <1>0, <1>2 DEF StepInv, ClientInv, Gone
  <2>2. Len(up'[c]) = 1 /\ Head(up'[c]) = k /\ Len(down'[c]) = 0 /\ down'[c] = <<>>
    BY <1>2, <1>5, <2>1
  <2>3. OwnPort(c, Head(up[c]))'
    BY <1>2, <1>3, <2>2 DEF OwnPort
  <2>4. QED
    BY <1>2, <1>5, <2>1, <2>2, <2>3 DEF StepInv
<1>12. QED
  BY <1>5, <1>6, <1>7, <1>8, <1>9, <1>10, <1>11, Assemble

LEMMA AnswerStep ==
  ASSUME IInv, NEW c \in Clients, NEW n \in 1 .. Len(down[c]), Answer(c, n)
  PROVE  IInv'
<1> DEFINE first == Head(down[c]).status
           s == SubSeq(down[c], 1, n)
           ports == PortsIn(s)
           p == CHOOSE q \in ports : TRUE
<1>0. VarsTyped /\ DirectoryTyped /\ SystemInv /\ ClientInv(c) /\ StepInv(c)
  BY DEF IInv
<1>1. /\ cpc[c] = "recv" /\ down' = [down EXCEPT ![c] = SubSeq(@, n+1, Len(@))]
      /\ UNCHANGED <<accounts, online, request, answer, server, connected, published, up, reset, cut>>
  BY DEF Answer, directory, serverVars
<1>2. /\ down[c] \in Seq(Said) /\ s \in Seq(Said) /\ Len(s) = n /\ s[1] = Head(down[c])
      /\ SubSeq(down[c], n+1, Len(down[c])) \in Seq(Said) /\ Head(down[c]) \in Said
      /\ Len(SubSeq(down[c], n+1, Len(down[c]))) = Len(down[c]) - n
      /\ down[c] # <<>> /\ Len(down[c]) \in Nat
  <2>1. down[c] \in Seq(Said)
    BY <1>0 DEF VarsTyped
  <2>2. QED
    BY <2>1, Remaining
<1>3. /\ ports \subseteq AnyPort /\ \A q, r \in ports : q = r
      /\ n = 1 /\ first = "INFO" => ports = {Head(down[c]).port}
  BY <1>2, PortsFound
<1>4. ports # {} => p \in ports /\ ports = {p} /\ p \in AnyPort
  BY <1>3
<1>5. \/ /\ BackToPrompt(c, first, ports)
         /\ cpc' = [cpc EXCEPT ![c] = "prompt"] /\ asked' = [asked EXCEPT ![c] = NoCommand]
         /\ UNCHANGED <<dial, listenPort>>
      \/ /\ ~BackToPrompt(c, first, ports) /\ ports # {}
         /\ cpc' = [cpc EXCEPT ![c] = "dial"] /\ dial' = [dial EXCEPT ![c] = p]
         /\ UNCHANGED <<asked, listenPort>>
      \/ /\ ~BackToPrompt(c, first, ports) /\ ports = {}
         /\ cpc' = [cpc EXCEPT ![c] = "threw"] /\ asked' = [asked EXCEPT ![c] = NoCommand]
         /\ listenPort' = [listenPort EXCEPT ![c] = 0]
         /\ UNCHANGED dial
  BY DEF Answer, Client
<1> HIDE DEF p, ports, s, first
<1>6. Onward
  BY <1>1 DEF Onward
<1>7. \A d \in Clients \ {c} : Same(d)
  BY <1>0, <1>1, <1>5 DEF VarsTyped, Same
<1>8. VarsTyped'
  <2>1. down' \in [Clients -> Seq(Said)]
    BY <1>0, <1>1, <1>2 DEF VarsTyped
  <2>2. /\ cpc' \in [Clients -> {"away", "prompt", "recv", "dial", "gone", "threw"}]
        /\ listenPort' \in [Clients -> Ports \cup {0}]
    BY <1>0, <1>5 DEF VarsTyped
  <2>4. dial' \in [Clients -> AnyPort]
    BY <1>0, <1>4, <1>5 DEF VarsTyped
  <2>5. asked' \in [Clients -> Commands \cup {NoCommand}]
    BY <1>0, <1>5 DEF VarsTyped
  <2>3. QED
    BY <1>0, <1>1, <2>1, <2>2, <2>4, <2>5 DEF VarsTyped
<1>9. DirectoryTyped'
  BY <1>0, <1>1, DirectoryFrame
<1>10. /\ \/ cpc'[c] = "prompt" /\ dial'[c] = dial[c] /\ listenPort'[c] = listenPort[c]
          \/ /\ cpc'[c] = "dial" /\ dial'[c] = p /\ p \in ports /\ ports = {p} /\ p # 0
             /\ asked[c].op = "GETINFO" /\ first \in OK
             /\ asked'[c] = asked[c] /\ listenPort'[c] = listenPort[c]
          \/ /\ cpc'[c] = "threw" /\ dial'[c] = dial[c] /\ listenPort'[c] = 0
             /\ ports = {} /\ asked[c].op = "GETINFO" /\ first \in OK
       /\ down'[c] = SubSeq(down[c], n+1, Len(down[c]))
  BY <1>0, <1>1, <1>4, <1>5 DEF VarsTyped, BackToPrompt
<1>11. SystemInv'
  BY <1>1, <1>6, <1>7, <1>10, SystemFrame DEF Gone
<1>12. ClientInv(c)'
  BY <1>0, <1>1, <1>10 DEF ClientInv, Running, Gone
<1>13. StepInv(c)'
  <2> SUFFICES ASSUME c \notin cut' PROVE StepInv(c)'
    BY DEF StepInv
  <2>1. /\ c \notin cut /\ Len(up[c]) <= 1 /\ Len(down[c]) <= 1 /\ (up[c] = <<>> \/ down[c] = <<>>) /\ request[c] = NoCommand
        /\ first \in AnswersTo[asked[c].op]
        /\ Head(down[c]).port = 0 \/ Known(asked[c].name, Head(down[c]).port)
    BY <1>0, <1>1, <1>2 DEF StepInv, first
  <2>2. up[c] = <<>> /\ Len(down[c]) = 1 /\ n = 1 /\ Len(up[c]) = 0
    <3>1. /\ Len(up[c]) \in Nat /\ (up[c] = <<>> <=> Len(up[c]) = 0)
          /\ Len(down[c]) \in Nat /\ (down[c] = <<>> <=> Len(down[c]) = 0)
      BY <1>0, Lengths
    <3>2. up[c] = <<>> /\ Len(up[c]) = 0 /\ Len(down[c]) # 0
      BY <1>2, <2>1, <3>1
    <3>5. Len(down[c]) <= 1
      BY <2>1
    <3>6. \A i \in Nat : i <= 1 /\ i # 0 => i = 1
      OBVIOUS
    <3>3. Len(down[c]) = 1
      BY <3>1, <3>2, <3>5, <3>6
    <3>4. QED
      BY <3>2, <3>3
  <2>3. down'[c] \in Seq(Said) /\ Len(down'[c]) = 0 /\ down'[c] = <<>>
    BY <1>2, <1>10, <2>2
  <2>4. asked[c].op = "GETINFO" /\ first \in OK => ports = {Head(down[c]).port}
    BY <1>3, <2>1, <2>2, AnswersOf DEF OK
  <2>5. cpc'[c] # "threw"
    BY <1>10, <2>4
  <2>6. cpc'[c] = "dial" => Known(asked[c].name, dial[c])'
    <3>1. cpc'[c] = "dial" => Known(asked[c].name, p) /\ asked'[c] = asked[c] /\ dial'[c] = p
      BY <1>10, <2>1, <2>4
    <3>2. QED
      BY <1>1, <3>1 DEF Known
  <2>7. cpc'[c] \in {"prompt", "dial"}
    BY <1>10, <2>5
  <2>8. QED
    BY <1>1, <2>1, <2>2, <2>3, <2>6, <2>7 DEF StepInv
<1>14. QED
  BY <1>6, <1>7, <1>8, <1>9, <1>11, <1>12, <1>13, Assemble

LEMMA AnswerFailsStep ==
  ASSUME IInv, NEW c \in Clients, AnswerFails(c)
  PROVE  IInv'
<1>0. VarsTyped /\ DirectoryTyped /\ SystemInv /\ ClientInv(c) /\ StepInv(c)
  BY DEF IInv
<1>1. /\ cpc[c] = "recv" /\ cpc' = [cpc EXCEPT ![c] = "prompt"]
      /\ server = "dead" /\ down[c] = <<>>
      /\ asked' = [asked EXCEPT ![c] = NoCommand] /\ up' = [up EXCEPT ![c] = <<>>]
      /\ UNCHANGED <<accounts, online, request, answer, server, connected, published, down, reset, cut,
                     listenPort, dial>>
  BY DEF AnswerFails, Client, directory, serverVars
<1>2. /\ cpc'[c] = "prompt" /\ asked'[c] = NoCommand /\ up'[c] = <<>>
      /\ \A d \in Clients \ {c} : Same(d)
  BY <1>0, <1>1 DEF VarsTyped, Same
<1>3. VarsTyped'
  BY <1>0, <1>1 DEF VarsTyped
<1>4. DirectoryTyped'
  BY <1>0, <1>1, DirectoryFrame
<1>5. Onward
  BY <1>1 DEF Onward
<1>6. SystemInv'
  BY <1>1, <1>2, <1>5, SystemFrame DEF Gone
<1>7. ClientInv(c)'
  BY <1>0, <1>1, <1>2 DEF ClientInv, Running, Gone
<1>8. StepInv(c)'
  <2> SUFFICES ASSUME c \notin cut' PROVE StepInv(c)'
    BY DEF StepInv
  <2>1. Len(up'[c]) <= 1 /\ Len(down'[c]) <= 1 /\ (up'[c] = <<>> \/ down'[c] = <<>>)
    BY <1>1, <1>2
  <2>2. server' # "up" /\ c \notin cut
    BY <1>1
  <2>3. QED
    BY <1>1, <1>2, <2>1, <2>2 DEF StepInv
<1>9. QED
  BY <1>2, <1>3, <1>4, <1>5, <1>6, <1>7, <1>8, Assemble

LEMMA DialStep ==
  ASSUME IInv, NEW c \in Clients, Dial(c)
  PROVE  IInv'
<1>0. VarsTyped /\ DirectoryTyped /\ SystemInv /\ ClientInv(c) /\ StepInv(c)
  BY DEF IInv
<1>1. /\ cpc[c] = "dial" /\ cpc' = [cpc EXCEPT ![c] = "prompt"]
      /\ asked' = [asked EXCEPT ![c] = NoCommand] /\ dial' = [dial EXCEPT ![c] = 0]
      /\ UNCHANGED <<accounts, online, request, answer, server, connected, published, up, down, reset, cut,
                     listenPort>>
  BY DEF Dial, Client, directory, serverVars, wire
<1>2. /\ cpc'[c] = "prompt" /\ asked'[c] = NoCommand /\ dial'[c] = 0
      /\ \A d \in Clients \ {c} : Same(d)
  BY <1>0, <1>1, Words DEF VarsTyped, Same
<1>3. VarsTyped'
  BY <1>0, <1>1, Words DEF VarsTyped
<1>4. DirectoryTyped'
  BY <1>0, <1>1, DirectoryFrame
<1>5. Onward
  BY <1>1 DEF Onward
<1>6. SystemInv'
  BY <1>1, <1>2, <1>5, SystemFrame DEF Gone
<1>7. ClientInv(c)'
  BY <1>0, <1>1, <1>2 DEF ClientInv, Running, Gone
<1>8. StepInv(c)'
  <2> SUFFICES ASSUME c \notin cut' PROVE StepInv(c)'
    BY DEF StepInv
  <2>1. c \notin cut /\ up[c] = <<>> /\ down[c] = <<>> /\ (server = "up" => request[c] = NoCommand)
    BY <1>0, <1>1 DEF StepInv
  <2>2. Len(up'[c]) <= 1 /\ Len(down'[c]) <= 1 /\ (up'[c] = <<>> \/ down'[c] = <<>>)
    BY <1>1, <2>1
  <2>3. QED
    BY <1>1, <1>2, <2>1, <2>2 DEF StepInv
<1>9. QED
  BY <1>2, <1>3, <1>4, <1>5, <1>6, <1>7, <1>8, Assemble

LEMMA LeaveStep ==
  ASSUME IInv, NEW c \in Clients, Leave(c)
  PROVE  IInv'
<1>0. VarsTyped /\ DirectoryTyped /\ SystemInv /\ ClientInv(c) /\ StepInv(c)
  BY DEF IInv
<1>1. /\ Running(c) /\ cpc' = [cpc EXCEPT ![c] = "gone"]
      /\ reset' = (IF down[c] = <<>> THEN reset ELSE reset \cup {c})
      /\ down' = [down EXCEPT ![c] = <<>>]
      /\ asked' = [asked EXCEPT ![c] = NoCommand] /\ dial' = [dial EXCEPT ![c] = 0]
      /\ listenPort' = [listenPort EXCEPT ![c] = 0]
      /\ UNCHANGED <<accounts, online, request, answer, server, connected, published, up, cut>>
  BY DEF Leave, directory, serverVars
<1>2. /\ cpc'[c] = "gone" /\ asked'[c] = NoCommand /\ dial'[c] = 0 /\ down'[c] = <<>> /\ listenPort'[c] = 0
      /\ \A d \in Clients \ {c} : Same(d)
  BY <1>0, <1>1, Words DEF VarsTyped, Same
<1>3. VarsTyped'
  BY <1>0, <1>1, Words DEF VarsTyped
<1>4. DirectoryTyped'
  BY <1>0, <1>1, DirectoryFrame
<1>5. Onward
  BY <1>1 DEF Onward
<1>6. SystemInv'
  BY <1>1, <1>2, <1>5, SystemFrame DEF Gone
<1>7. ClientInv(c)'
  BY <1>0, <1>1, <1>2 DEF ClientInv, Running, Gone
<1>8. StepInv(c)'
  <2> SUFFICES ASSUME c \notin cut' PROVE StepInv(c)'
    BY DEF StepInv
  <2>1. c \notin cut /\ c \notin reset
    BY <1>0, <1>1 DEF ClientInv, Running, Gone
  <2>2. down[c] # <<>> => up[c] = <<>> /\ request[c] = NoCommand
    <3>1. Len(up[c]) <= 1 /\ Len(down[c]) <= 1 /\ (up[c] = <<>> \/ down[c] = <<>>) /\ (down[c] # <<>> => request[c] = NoCommand)
      BY <1>0, <2>1 DEF StepInv
    <3>3. /\ Len(up[c]) \in Nat /\ (up[c] = <<>> <=> Len(up[c]) = 0)
          /\ Len(down[c]) \in Nat /\ (down[c] = <<>> <=> Len(down[c]) = 0)
      BY <1>0, Lengths
    <3>2. QED
      BY <3>1, <3>3
  <2>3. Len(up'[c]) <= 1 /\ Len(down'[c]) <= 1 /\ (up'[c] = <<>> \/ down'[c] = <<>>)
    <3>1. Len(up[c]) <= 1 /\ Len(down[c]) <= 1 /\ (up[c] = <<>> \/ down[c] = <<>>)
      BY <1>0, <2>1 DEF StepInv
    <3>2. /\ Len(up[c]) \in Nat /\ (up[c] = <<>> <=> Len(up[c]) = 0)
          /\ Len(down[c]) \in Nat /\ (down[c] = <<>> <=> Len(down[c]) = 0)
      BY <1>0, Lengths
    <3>3. up'[c] = up[c] /\ Len(down'[c]) = 0
      BY <1>1, <1>2
    <3>4. QED
      BY <3>1, <3>2, <3>3
  <2>4. \A k : OwnPort(c, k)'
    BY <1>2 DEF OwnPort, Gone
  <2>5. QED
    BY <1>0, <1>1, <1>2, <2>1, <2>2, <2>3, <2>4 DEF StepInv, OwnPort
<1>9. QED
  BY <1>2, <1>3, <1>4, <1>5, <1>6, <1>7, <1>8, Assemble

-----------------------------------------------------------------------------
(* The server's steps.                                                     *)

(* What UserDirectory decides for c.                                       *)
Decides(c) == Directory!Register(c) \/ Directory!Login(c) \/ Directory!Logout(c)
              \/ Directory!GetInfo(c) \/ Directory!Unknown(c)

LEMMA Decision ==
  ASSUME VarsTyped, DirectoryTyped, NEW c \in Clients, Decides(c)
  PROVE  /\ request[c] # NoCommand /\ answer[c] = "none" /\ UNCHANGED request
         /\ \E a \in Statuses : /\ answer' = [answer EXCEPT ![c] = a]
                                /\ request[c].op = "UNKNOWN" \/ a \in AnswersTo[request[c].op]
                                /\ a = "LOGIN" => request[c].op = "LOGIN"
         /\ DirectoryTyped'
<1>1. request[c] # NoCommand /\ answer[c] = "none" /\ UNCHANGED request
  BY DEF Decides, Directory!Register, Directory!Login, Directory!Logout, Directory!GetInfo,
         Directory!Unknown, Directory!Executes, Directory!Say
<1>2. \E a \in Statuses : /\ answer' = [answer EXCEPT ![c] = a]
                          /\ request[c].op = "UNKNOWN" \/ a \in AnswersTo[request[c].op]
                          /\ a = "LOGIN" => request[c].op = "LOGIN"
  <2> USE AnswersOf DEF Statuses, Directory!Executes, Directory!Say
  <2>1. CASE Directory!Register(c)
    BY <2>1 DEF Directory!Register
  <2>2. CASE Directory!Login(c)
    BY <2>2 DEF Directory!Login
  <2>3. CASE Directory!Logout(c)
    BY <2>3 DEF Directory!Logout
  <2>4. CASE Directory!GetInfo(c)
    BY <2>4 DEF Directory!GetInfo
  <2>5. CASE Directory!Unknown(c)
    BY <2>5 DEF Directory!Unknown
  <2>6. QED
    BY <2>1, <2>2, <2>3, <2>4, <2>5 DEF Decides
<1>3. DirectoryTyped'
  <2>1. /\ request[c].name \in Names /\ request[c].password \in Passwords
        /\ request[c].port \in AnyPort
    <3>1. request[c] \in Commands
      BY <1>1 DEF VarsTyped
    <3>2. QED
      BY <3>1 DEF Commands
  <2>2. CASE UNCHANGED <<accounts, online>>
    BY <2>2, DirectoryFrame
  <2>3. ASSUME NEW n \in Names, NEW w \in Passwords, UNCHANGED online,
               accounts' = Directory!Put(accounts, n, w)
        PROVE  DirectoryTyped'
    BY <2>3 DEF DirectoryTyped, Directory!Put
  <2>4. ASSUME NEW n \in DOMAIN accounts, NEW p \in AnyPort, UNCHANGED accounts,
               online' = Directory!Put(online, n, p)
        PROVE  DirectoryTyped'
    BY <2>4 DEF DirectoryTyped, Directory!Put
  <2>5. ASSUME NEW n, UNCHANGED accounts, online' = Directory!Drop(online, n)
        PROVE  DirectoryTyped'
    BY <2>5 DEF DirectoryTyped, Directory!Drop
  <2>6. CASE Directory!Register(c)
    BY <2>1, <2>2, <2>3, <2>6 DEF Directory!Register
  <2>7. CASE Directory!Login(c)
    BY <2>1, <2>2, <2>4, <2>7 DEF Directory!Login, PortOf
  <2>8. CASE Directory!Logout(c)
    BY <2>2, <2>5, <2>8 DEF Directory!Logout
  <2>9. CASE Directory!GetInfo(c) \/ Directory!Unknown(c)
    BY <2>2, <2>9 DEF Directory!GetInfo, Directory!Unknown
  <2>10. QED
    BY <2>6, <2>7, <2>8, <2>9 DEF Decides
<1>4. QED
  BY <1>1, <1>2, <1>3

(* What a step of the server leaves alone of the client's.                 *)
LEMMA ServerFrame ==
  ASSUME IInv, NEW c \in Clients, UNCHANGED clientVars, \A d \in Clients \ {c} : Same(d), Onward,
         cut \subseteq cut', published' = published, server' = server \/ cut' # {},
         connected[c]
  PROVE  SystemInv'
<1>1. cpc[c] # "away"
  BY DEF IInv, ClientInv
<1>2. UNCHANGED <<cpc, listenPort>>
  BY DEF clientVars
<1>3. Gone(c)' \/ (~Gone(c) /\ listenPort'[c] = listenPort[c])
  BY <1>2 DEF Gone
<1>4. QED
  BY <1>1, <1>2, <1>3, SystemFrame

(* What decides is among what is received; alone under way it is that.     *)
LEMMA Decider ==
  ASSUME NEW c \in Clients, up[c] \in Seq(Sent), NEW n \in 1 .. Len(up[c]), NEW k \in Deciding(c, n)
  PROVE  /\ \E i \in 1 .. Len(up[c]) : k = up[c][i]
         /\ k \in Sent
         /\ Len(up[c]) <= 1 => k = Head(up[c])
<1>1. Len(up[c]) \in Nat /\ 1 \in 1 .. Len(up[c]) /\ Head(up[c]) = up[c][1]
  OBVIOUS
<1>2. k = up[c][1] \/ (2 \in 1 .. n /\ k = up[c][2])
  BY DEF Deciding
<1>3. 2 \in 1 .. n => 2 \in 1 .. Len(up[c])
  BY <1>1
<1>4. QED
  BY <1>1, <1>2, <1>3

LEMMA ReceiveStep ==
  ASSUME IInv, NEW c \in Clients, NEW n \in 1 .. Len(up[c]), Receive(c, n)
  PROVE  IInv'
<1>0. VarsTyped /\ DirectoryTyped /\ SystemInv /\ ClientInv(c) /\ StepInv(c)
  BY DEF IInv
<1>a. PICK k \in Deciding(c, n) : request' = [request EXCEPT ![c] = k]
  BY DEF Receive
<1>1. /\ server = "up" /\ connected[c] /\ request[c] = NoCommand
      /\ up' = [up EXCEPT ![c] = SubSeq(@, n+1, Len(@))]
      /\ UNCHANGED <<accounts, online, answer, server, connected, published, down, reset, cut, clientVars>>
  BY DEF Receive, Idle, Serves, serverVars
<1>2. UNCHANGED <<cpc, listenPort, asked, dial>>
  BY <1>1 DEF clientVars
<1>3. /\ up[c] # <<>> /\ Head(up[c]) \in Sent
      /\ SubSeq(up[c], n+1, Len(up[c])) \in Seq(Sent)
      /\ Len(SubSeq(up[c], n+1, Len(up[c]))) = Len(up[c]) - n
  <2>1. up[c] \in Seq(Sent)
    BY <1>0, Lengths
  <2>2. QED
    BY <2>1, Remaining
<1>4. k \in Commands /\ k # NoCommand
  BY <1>0, Lengths, Decider, SentCommands
<1>5. /\ request'[c] = k /\ up'[c] = SubSeq(up[c], n+1, Len(up[c]))
      /\ \A d \in Clients \ {c} : Same(d)
  BY <1>0, <1>a, <1>1, <1>2 DEF VarsTyped, Same
<1>6. VarsTyped'
  <2>1. up' \in [Clients -> Seq(Sent)]
    BY <1>0, <1>1, <1>3 DEF VarsTyped
  <2>2. request' \in [Clients -> Commands \cup {NoCommand}]
    BY <1>0, <1>a, <1>4 DEF VarsTyped
  <2>3. QED
    BY <1>0, <1>1, <1>2, <2>1, <2>2 DEF VarsTyped
<1>7. DirectoryTyped'
  BY <1>0, <1>1, DirectoryFrame
<1>8. Onward
  BY <1>1 DEF Onward
<1>9. SystemInv'
  BY <1>1, <1>5, <1>8, ServerFrame
<1>10. ClientInv(c)'
  BY <1>0, <1>1, <1>2, <1>4, <1>5 DEF ClientInv, Running, Gone
<1>11. StepInv(c)'
  <2> SUFFICES ASSUME c \notin cut' PROVE StepInv(c)'
    BY DEF StepInv
  <2>1. /\ c \notin cut /\ cpc[c] # "threw" /\ Len(up[c]) <= 1 /\ down[c] = <<>>
        /\ cpc[c] \notin {"away", "prompt", "dial"} /\ c \notin reset
        /\ cpc[c] = "recv" => Head(up[c]) = asked[c]
        /\ OwnPort(c, Head(up[c]))
    BY <1>0, <1>1, <1>3 DEF StepInv
  <2>5. k = Head(up[c])
    BY <1>0, <2>1, Lengths, Decider
  <2>2. up'[c] = <<>> /\ Len(up'[c]) = 0
    <3>1. Len(up[c]) \in Nat /\ Len(up[c]) <= 1 /\ Len(up'[c]) = Len(up[c]) - n /\ up'[c] \in Seq(Sent)
      BY <1>0, <1>3, <1>5, <2>1, Lengths
    <3>2. \A i \in Nat : \A j \in 1 .. i : i <= 1 => i - j = 0
      OBVIOUS
    <3>3. Len(up'[c]) = 0
      BY <3>1, <3>2
    <3>4. QED
      BY <3>1, <3>3
  <2>3. OwnPort(c, request[c])'
    BY <1>2, <1>5, <2>1, <2>5 DEF OwnPort, Gone
  <2>4. QED
    BY <1>1, <1>2, <1>5, <2>1, <2>2, <2>3, <2>5 DEF StepInv
<1>12. QED
  BY <1>5, <1>6, <1>7, <1>8, <1>9, <1>10, <1>11, Assemble

LEMMA ReceiveCutStep ==
  ASSUME IInv, NEW c \in Clients, NEW n \in 1 .. Len(up[c]), ReceiveCut(c, n)
  PROVE  IInv'
<1>0. VarsTyped /\ DirectoryTyped /\ SystemInv /\ ClientInv(c) /\ StepInv(c)
  BY DEF IInv
<1>1. /\ server = "up" /\ connected[c] /\ request[c] = NoCommand
      /\ up' = [up EXCEPT ![c] = <<Rest>> \o SubSeq(@, n+1, Len(@))]
      /\ cut' = cut \cup {c}
      /\ UNCHANGED <<accounts, online, answer, server, connected, published, down, reset, clientVars>>
  BY DEF ReceiveCut, Idle, Serves, serverVars
<1>2. UNCHANGED <<cpc, listenPort, asked, dial>>
  BY <1>1 DEF clientVars
<1>3. Head(up[c]) \in Sent /\ SubSeq(up[c], n+1, Len(up[c])) \in Seq(Sent)
  <2>1. up[c] \in Seq(Sent)
    BY <1>0, Lengths
  <2>2. QED
    BY <2>1, Remaining
<1>4. PICK k \in Commands : request' = [request EXCEPT ![c] = k]
  BY <1>3, PiecesAreCommands, SentCommands DEF ReceiveCut
<1>5. <<Rest>> \o SubSeq(up[c], n+1, Len(up[c])) \in Seq(Sent)
      /\ <<Rest>> \o SubSeq(up[c], n+1, Len(up[c])) # <<>>
  <2>1. <<Rest>> \in Seq(Sent) /\ Len(<<Rest>>) = 1
    BY SentCommands
  <2>2. QED
    BY <1>3, <2>1, ConcatProperties
<1>6. /\ request'[c] = k /\ k # NoCommand /\ up'[c] # <<>>
      /\ \A d \in Clients \ {c} : Same(d)
  BY <1>0, <1>1, <1>2, <1>4, <1>5, SentCommands DEF VarsTyped, Same
<1>7. VarsTyped'
  <2>1. up' \in [Clients -> Seq(Sent)]
    BY <1>0, <1>1, <1>5 DEF VarsTyped
  <2>2. request' \in [Clients -> Commands \cup {NoCommand}]
    BY <1>0, <1>4 DEF VarsTyped
  <2>3. QED
    BY <1>0, <1>1, <1>2, <2>1, <2>2 DEF VarsTyped
<1>8. DirectoryTyped'
  BY <1>0, <1>1, DirectoryFrame
<1>9. Onward
  BY <1>1 DEF Onward
<1>10. SystemInv'
  BY <1>1, <1>6, <1>9, ServerFrame
<1>11. ClientInv(c)'
  BY <1>0, <1>1, <1>2, <1>6 DEF ClientInv, Running, Gone
<1>12. StepInv(c)'
  BY <1>1 DEF StepInv
<1>13. QED
  BY <1>6, <1>7, <1>8, <1>9, <1>10, <1>11, <1>12, Assemble

LEMMA ProcessStep ==
  ASSUME IInv, NEW c \in Clients, Process(c)
  PROVE  IInv'
<1>0. VarsTyped /\ DirectoryTyped /\ SystemInv /\ ClientInv(c) /\ StepInv(c)
  BY DEF IInv
<1>1. /\ server = "up" /\ connected[c] /\ Decides(c)
      /\ published' = IF answer'[c] = "LOGIN"
                      THEN published \cup {<<request[c].name, request[c].port, c>>} ELSE published
      /\ UNCHANGED <<server, connected, up, down, reset, cut, clientVars>>
  BY DEF Process, Serves, Decides, wire
<1>2. UNCHANGED <<cpc, listenPort, asked, dial>>
  BY <1>1 DEF clientVars
<1>3. request[c] # NoCommand /\ answer[c] = "none" /\ UNCHANGED request /\ DirectoryTyped'
  BY <1>0, <1>1, Decision
<1>4. PICK a \in Statuses : /\ answer' = [answer EXCEPT ![c] = a]
                            /\ request[c].op = "UNKNOWN" \/ a \in AnswersTo[request[c].op]
                            /\ a = "LOGIN" => request[c].op = "LOGIN"
  BY <1>0, <1>1, Decision
<1>5. answer'[c] = a /\ \A d \in Clients \ {c} : Same(d)
  BY <1>0, <1>1, <1>2, <1>3, <1>4 DEF VarsTyped, Same
<1>6. <<request[c].name, request[c].port, c>> \in Names \X AnyPort \X Clients
  <2>1. request[c] \in Commands
    BY <1>0, <1>3 DEF VarsTyped
  <2>2. QED
    BY <2>1 DEF Commands
<1>7. VarsTyped'
  <2>1. answer' \in [Clients -> Statuses \cup {"none"}]
    BY <1>0, <1>4 DEF VarsTyped
  <2>2. published' \subseteq Names \X AnyPort \X Clients
    BY <1>0, <1>1, <1>6 DEF VarsTyped
  <2>3. QED
    BY <1>0, <1>1, <1>2, <1>3, <2>1, <2>2 DEF VarsTyped
<1>8. Onward
  BY <1>1 DEF Onward
<1>9. SystemInv'
  <2>1. ASSUME cut' = {}, NEW l \in published'
        PROVE  cpc'[l[3]] # "away" /\ (Gone(l[3])' \/ listenPort'[l[3]] = l[2])
    <3>1. cut = {}
      BY <1>1, <2>1
    <3>2. CASE l \in published
      BY <1>0, <1>2, <3>1, <3>2 DEF SystemInv, Gone
    <3>3. CASE answer'[c] = "LOGIN" /\ l = <<request[c].name, request[c].port, c>>
      <4>1. OwnPort(c, request[c]) /\ request[c].op = "LOGIN"
        BY <1>0, <1>1, <1>3, <1>4, <1>5, <3>1, <3>3 DEF StepInv
      <4>2. Gone(c) \/ request[c].port = listenPort[c]
        BY <4>1 DEF OwnPort
      <4>3. cpc[c] # "away"
        BY <1>0, <1>1 DEF ClientInv
      <4>4. QED
        BY <1>2, <3>3, <4>2, <4>3 DEF Gone
    <3>4. QED
      BY <1>1, <2>1, <3>2, <3>3
  <2>2. QED
    BY <1>0, <1>1, <1>2, <2>1 DEF SystemInv
<1>10. ClientInv(c)'
  BY <1>0, <1>1, <1>2, <1>3, <1>4, <1>5 DEF ClientInv, Running, Gone
<1>11. StepInv(c)'
  <2> SUFFICES ASSUME c \notin cut' PROVE StepInv(c)'
    BY DEF StepInv
  <2>1. c \notin cut
    BY <1>1
  <2>2. \A k : OwnPort(c, k) => (k.op = "LOGIN" => Gone(c)' \/ k.port = listenPort'[c])
    BY <1>2 DEF OwnPort, Gone
  <2>3. /\ down[c] = <<>> /\ up[c] = <<>> /\ c \notin reset /\ cpc[c] # "dial"
        /\ OwnPort(c, request[c])
    BY <1>0, <1>1, <1>3, <2>1 DEF StepInv
  <2>4. OwnPort(c, request[c])'
    BY <1>3, <2>2, <2>3 DEF OwnPort
  <2>5. QED
    BY <1>0, <1>1, <1>2, <1>3, <2>1, <2>3, <2>4 DEF StepInv
<1>12. QED
  BY <1>3, <1>5, <1>7, <1>8, <1>9, <1>10, <1>11, Assemble

(* The three ways to return from processData() have this in common.        *)
LEMMA Returned ==
  ASSUME IInv, NEW c \in Clients, Directory!Return(c)
  PROVE  /\ answer[c] \in Statuses /\ request[c] # NoCommand /\ request[c] \in Commands
         /\ answer' = [answer EXCEPT ![c] = "none"] /\ request' = [request EXCEPT ![c] = NoCommand]
         /\ answer'[c] = "none" /\ request'[c] = NoCommand
         /\ answer' \in [Clients -> Statuses \cup {"none"}]
         /\ request' \in [Clients -> Commands \cup {NoCommand}]
         /\ DirectoryTyped'
         /\ \A d \in Clients \ {c} : answer'[d] = answer[d] /\ request'[d] = request[d]
<1>1. VarsTyped /\ DirectoryTyped /\ ClientInv(c)
  BY DEF IInv
<1>2. /\ answer[c] # "none"
      /\ answer' = [answer EXCEPT ![c] = "none"] /\ request' = [request EXCEPT ![c] = NoCommand]
      /\ UNCHANGED <<accounts, online>>
  BY DEF Directory!Return
<1>3. answer[c] \in Statuses /\ request[c] # NoCommand /\ request[c] \in Commands
  BY <1>1, <1>2 DEF VarsTyped, ClientInv
<1>4. DirectoryTyped'
  BY <1>1, <1>2, DirectoryFrame
<1>5. /\ answer' \in [Clients -> Statuses \cup {"none"}]
      /\ request' \in [Clients -> Commands \cup {NoCommand}]
  BY <1>1, <1>2 DEF VarsTyped
<1>6. /\ answer'[c] = "none" /\ request'[c] = NoCommand
      /\ \A d \in Clients \ {c} : answer'[d] = answer[d] /\ request'[d] = request[d]
  BY <1>1, <1>2 DEF VarsTyped
<1>7. QED
  BY <1>2, <1>3, <1>4, <1>5, <1>6

LEMMA SendStep ==
  ASSUME IInv, NEW c \in Clients, Send(c)
  PROVE  IInv'
<1>0. VarsTyped /\ DirectoryTyped /\ SystemInv /\ ClientInv(c) /\ StepInv(c)
  BY DEF IInv
<1>1. /\ server = "up" /\ connected[c] /\ ~Gone(c) /\ Directory!Return(c)
      /\ UNCHANGED <<server, connected, published, up, reset, cut, clientVars>>
  BY DEF Send, Serves, serverVars
<1>2. UNCHANGED <<cpc, listenPort, asked, dial>>
  BY <1>1 DEF clientVars
<1>3. PICK a \in Answers(c) : down' = [down EXCEPT ![c] = Append(@, a)]
  BY DEF Send
<1>20. /\ answer[c] \in Statuses /\ request[c] # NoCommand /\ request[c] \in Commands
      /\ answer'[c] = "none" /\ request'[c] = NoCommand
      /\ answer' \in [Clients -> Statuses \cup {"none"}]
      /\ request' \in [Clients -> Commands \cup {NoCommand}]
      /\ DirectoryTyped'
      /\ \A d \in Clients \ {c} : answer'[d] = answer[d] /\ request'[d] = request[d]
  BY <1>1, Returned
<1>4. a.status = answer[c] /\ (a.port = 0 \/ Known(request[c].name, a.port)) /\ a \in Said
  <2>1. /\ a \in [status: {answer[c]}, port: {0} \cup {l[2] : l \in {h \in published : h[1] = request[c].name}}]
    BY <1>3 DEF Answers
  <2>2. a.status = answer[c] /\ (a.port = 0 \/ Known(request[c].name, a.port))
    BY <2>1 DEF Known
  <2>3. \A l \in published : l[2] \in AnyPort
    BY <1>0 DEF VarsTyped
  <2>4. QED
    BY <1>20, <2>1, <2>2, <2>3, Words DEF Said
<1>5. Append(down[c], a) \in Seq(Said) /\ Append(down[c], a) # <<>>
  <2>1. down[c] \in Seq(Said)
    BY <1>0, Lengths
  <2>2. QED
    BY <1>4, <2>1, AppendProperties
<1>6. down'[c] = Append(down[c], a) /\ \A d \in Clients \ {c} : Same(d)
  BY <1>0, <1>1, <1>2, <1>3, <1>20 DEF VarsTyped, Same
<1>7. VarsTyped'
  <2>1. down' \in [Clients -> Seq(Said)]
    BY <1>0, <1>3, <1>5 DEF VarsTyped
  <2>2. QED
    BY <1>0, <1>1, <1>2, <1>20, <2>1 DEF VarsTyped
<1>8. Onward
  BY <1>1 DEF Onward
<1>9. SystemInv'
  BY <1>1, <1>6, <1>8, ServerFrame
<1>10. ClientInv(c)'
  BY <1>0, <1>1, <1>2, <1>5, <1>6, <1>20 DEF ClientInv, Running, Gone
<1>11. StepInv(c)'
  <2> SUFFICES ASSUME c \notin cut' PROVE StepInv(c)'
    BY DEF StepInv
  <2>1. /\ c \notin cut /\ up[c] = <<>> /\ down[c] = <<>> /\ c \notin reset /\ cpc[c] # "threw"
        /\ cpc[c] \notin {"away", "prompt", "dial"} /\ (cpc[c] = "recv" => request[c] = asked[c])
    BY <1>0, <1>1, <1>20 DEF StepInv
  <2>2. cpc[c] = "recv" /\ request[c] = asked[c]
    BY <1>0, <1>1, <2>1 DEF Gone, VarsTyped
  <2>3. a.status \in AnswersTo[asked[c].op]
    <3>1. asked[c].op \in DOMAIN AnswersTo
      BY <1>0, <2>2 DEF ClientInv
    <3>2. request[c].op = "UNKNOWN" \/ answer[c] \in AnswersTo[request[c].op]
      BY <1>0, <1>20 DEF ClientInv, Statuses
    <3>3. QED
      BY <1>4, <2>2, <3>1, <3>2, AnswersOf
  <2>4. Len(down'[c]) = 1 /\ Head(down'[c]) = a
    <3>1. down'[c] = Append(<<>>, a)
      BY <1>6, <2>1
    <3>2. QED
      BY <3>1
  <2>5. a.port = 0 \/ Known(asked[c].name, a.port)'
    BY <1>1, <1>2, <1>4, <2>2 DEF Known
  <2>6. /\ Head(down'[c]).status \in AnswersTo[asked'[c].op]
        /\ Head(down'[c]).port = 0 \/ Known(asked[c].name, Head(down[c]).port)'
    BY <1>2, <2>3, <2>4, <2>5 DEF Known
  <2>7. Len(up'[c]) = 0 /\ up'[c] = <<>>
    BY <1>1, <2>1
  <2>8. QED
    BY <1>1, <1>2, <1>20, <2>1, <2>2, <2>4, <2>6, <2>7 DEF StepInv
<1>12. QED
  BY <1>6, <1>7, <1>8, <1>9, <1>10, <1>11, <1>20, Assemble

LEMMA SendResetStep ==
  ASSUME IInv, NEW c \in Clients, SendReset(c)
  PROVE  IInv'
<1>0. VarsTyped /\ DirectoryTyped /\ SystemInv /\ ClientInv(c) /\ StepInv(c)
  BY DEF IInv
<1>1. /\ server = "up" /\ connected[c] /\ Gone(c) /\ Directory!Return(c)
      /\ reset' = reset \cup {c}
      /\ UNCHANGED <<server, connected, published, up, down, cut, clientVars>>
  BY DEF SendReset, Serves, serverVars
<1>2. UNCHANGED <<cpc, listenPort, asked, dial>>
  BY <1>1 DEF clientVars
<1>20. /\ answer[c] \in Statuses /\ request[c] # NoCommand /\ request[c] \in Commands
      /\ answer'[c] = "none" /\ request'[c] = NoCommand
      /\ answer' \in [Clients -> Statuses \cup {"none"}]
      /\ request' \in [Clients -> Commands \cup {NoCommand}]
      /\ DirectoryTyped'
      /\ \A d \in Clients \ {c} : answer'[d] = answer[d] /\ request'[d] = request[d]
  BY <1>1, Returned
<1>3. \A d \in Clients \ {c} : Same(d)
  BY <1>1, <1>2, <1>20 DEF Same
<1>4. VarsTyped'
  BY <1>0, <1>1, <1>2, <1>20 DEF VarsTyped
<1>5. Onward
  BY <1>1 DEF Onward
<1>6. SystemInv'
  BY <1>1, <1>3, <1>5, ServerFrame
<1>7. ClientInv(c)'
  BY <1>0, <1>1, <1>2, <1>20 DEF ClientInv, Running, Gone
<1>8. StepInv(c)'
  <2> SUFFICES ASSUME c \notin cut' PROVE StepInv(c)'
    BY DEF StepInv
  <2>1. c \notin cut /\ up[c] = <<>> /\ down[c] = <<>> /\ cpc[c] \notin {"recv", "dial"}
    BY <1>0, <1>1, <1>20 DEF StepInv, Gone
  <2>2. cpc[c] # "threw"
    BY <1>0, <2>1 DEF StepInv
  <2>3. Len(up'[c]) = 0 /\ up'[c] = <<>> /\ Len(down'[c]) = 0 /\ down'[c] = <<>>
    BY <1>1, <2>1
  <2>4. QED
    BY <1>1, <1>2, <1>20, <2>1, <2>2, <2>3 DEF StepInv
<1>9. QED
  BY <1>3, <1>4, <1>5, <1>6, <1>7, <1>8, <1>20, Assemble

LEMMA SendSigPipeStep ==
  ASSUME IInv, NEW c \in Clients, SendSigPipe(c)
  PROVE  IInv'
<1>0. VarsTyped /\ DirectoryTyped /\ SystemInv /\ ClientInv(c) /\ StepInv(c)
  BY DEF IInv
<1>1. /\ server = "up" /\ connected[c] /\ c \in reset /\ Directory!Return(c) /\ server' = "dead"
      /\ UNCHANGED <<connected, published, up, down, reset, cut, clientVars>>
  BY DEF SendSigPipe, Serves, wire
<1>2. UNCHANGED <<cpc, listenPort, asked, dial>>
  BY <1>1 DEF clientVars
<1>20. /\ answer[c] \in Statuses /\ request[c] # NoCommand /\ request[c] \in Commands
      /\ answer'[c] = "none" /\ request'[c] = NoCommand
      /\ answer' \in [Clients -> Statuses \cup {"none"}]
      /\ request' \in [Clients -> Commands \cup {NoCommand}]
      /\ DirectoryTyped'
      /\ \A d \in Clients \ {c} : answer'[d] = answer[d] /\ request'[d] = request[d]
  BY <1>1, Returned
<1>3. \A d \in Clients \ {c} : Same(d)
  BY <1>1, <1>2, <1>20 DEF Same
<1>4. VarsTyped'
  BY <1>0, <1>1, <1>2, <1>20 DEF VarsTyped
<1>5. Onward
  BY <1>1 DEF Onward
<1>6. c \in cut
  BY <1>0, <1>1, <1>20 DEF StepInv
<1>7. SystemInv'
  BY <1>1, <1>3, <1>5, <1>6, ServerFrame
<1>8. ClientInv(c)'
  BY <1>0, <1>1, <1>2, <1>20 DEF ClientInv, Running, Gone
<1>9. StepInv(c)'
  BY <1>1, <1>6 DEF StepInv
<1>10. QED
  BY <1>3, <1>4, <1>5, <1>7, <1>8, <1>9, <1>20, Assemble

LEMMA DisconnectStep ==
  ASSUME IInv, NEW c \in Clients, Disconnect(c)
  PROVE  IInv'
<1>0. VarsTyped /\ DirectoryTyped /\ SystemInv /\ ClientInv(c) /\ StepInv(c)
  BY DEF IInv
<1>1. /\ server = "up" /\ connected[c] /\ request[c] = NoCommand /\ Gone(c)
      /\ connected' = [connected EXCEPT ![c] = FALSE] /\ up' = [up EXCEPT ![c] = <<>>]
      /\ UNCHANGED <<accounts, online, request, answer, server, published, down, reset, cut, clientVars>>
  BY DEF Disconnect, Idle, Serves, directory
<1>2. UNCHANGED <<cpc, listenPort, asked, dial>>
  BY <1>1 DEF clientVars
<1>3. /\ connected'[c] = FALSE /\ up'[c] = <<>> /\ Len(up'[c]) = 0
      /\ \A d \in Clients \ {c} : Same(d)
  BY <1>0, <1>1, <1>2 DEF VarsTyped, Same
<1>4. VarsTyped'
  BY <1>0, <1>1, <1>2 DEF VarsTyped
<1>5. DirectoryTyped'
  BY <1>0, <1>1, DirectoryFrame
<1>6. Onward
  BY <1>1 DEF Onward
<1>7. SystemInv'
  BY <1>1, <1>3, <1>6, ServerFrame
<1>8. ClientInv(c)'
  BY <1>0, <1>1, <1>2, <1>3 DEF ClientInv, Running, Gone
<1>9. StepInv(c)'
  <2> SUFFICES ASSUME c \notin cut' PROVE StepInv(c)'
    BY DEF StepInv
  <2>1. c \notin cut /\ cpc[c] # "threw" /\ down[c] = <<>> /\ cpc[c] \notin {"recv", "dial"}
    BY <1>0, <1>1 DEF StepInv, Gone
  <2>2. Len(down'[c]) = 0 /\ down'[c] = <<>>
    BY <1>1, <2>1
  <2>3. QED
    BY <1>1, <1>2, <1>3, <2>1, <2>2 DEF StepInv
<1>10. QED
  BY <1>3, <1>4, <1>5, <1>6, <1>7, <1>8, <1>9, Assemble

-----------------------------------------------------------------------------
LEMMA InitInv == Init => IInv
<1> SUFFICES ASSUME Init PROVE IInv
  OBVIOUS
<1>1. /\ DOMAIN accounts = {} /\ DOMAIN online = {}
      /\ request = [c \in Clients |-> NoCommand] /\ answer = [c \in Clients |-> "none"]
  BY DEF Init, Directory!Init
<1>2. <<>> \in Seq(Sent) /\ <<>> \in Seq(Said) /\ Len(<<>>) = 0
  OBVIOUS
<1>3. VarsTyped
  BY <1>1, <1>2, Words DEF Init, VarsTyped
<1>4. DirectoryTyped
  BY <1>1 DEF DirectoryTyped
<1>5. SystemInv
  BY DEF Init, SystemInv
<1>6. ASSUME NEW c \in Clients PROVE ClientInv(c) /\ StepInv(c)
  <2>1. ClientInv(c)
    BY <1>1, <1>6 DEF Init, ClientInv, Running, Gone
  <2>2. up[c] = <<>> /\ down[c] = <<>> /\ cpc[c] = "away" /\ request[c] = NoCommand /\ reset = {}
    BY <1>1, <1>6 DEF Init
  <2>3. StepInv(c)
    BY <1>2, <2>2 DEF StepInv
  <2>4. QED
    BY <2>1, <2>3
<1>7. QED
  BY <1>3, <1>4, <1>5, <1>6 DEF IInv

LEMMA StutterInv == IInv /\ UNCHANGED vars => IInv'
<1> SUFFICES ASSUME IInv, UNCHANGED vars PROVE IInv'
  OBVIOUS
<1>1. /\ UNCHANGED <<server, accounts, online, request, answer, published, connected, up, down, reset>>
      /\ UNCHANGED <<cpc, listenPort, asked, dial, cut>>
  BY DEF vars, directory, serverVars, wire, clientVars
<1>2. VarsTyped' /\ DirectoryTyped' /\ SystemInv'
  BY <1>1, DirectoryFrame DEF IInv, VarsTyped, SystemInv, Gone
<1>3. ASSUME NEW c \in Clients PROVE ClientInv(c)' /\ StepInv(c)'
  BY <1>1, <1>3, Frame DEF IInv, Same, Onward
<1>4. QED
  BY <1>2, <1>3 DEF IInv

LEMMA Invariance == Spec => []IInv
<1>1. IInv /\ [Next]_vars => IInv'
  <2> SUFFICES ASSUME IInv, Next PROVE IInv'
    BY StutterInv
  <2>1. PICK c \in Clients :
          \/ \E p \in Ports : Launch(c, p) \/ LaunchFails(c, p)
          \/ Ask(c)
          \/ Wait(c)
          \/ Dial(c)
          \/ Leave(c)
          \/ Serve(c)
    BY DEF Next
  <2>2. CASE \E p \in Ports : Launch(c, p) \/ LaunchFails(c, p)
    BY <2>2, LaunchStep, LaunchFailsStep
  <2>3. CASE Ask(c) \/ Dial(c) \/ Leave(c)
    BY <2>3, AskStep, DialStep, LeaveStep
  <2>4. CASE Wait(c)
    BY <2>4, AnswerStep, AnswerFailsStep DEF Wait
  <2>5. CASE Serve(c)
    BY <2>5, ReceiveStep, ReceiveCutStep, ProcessStep, SendStep, SendResetStep, SendSigPipeStep,
       DisconnectStep DEF Serve
  <2>6. QED
    BY <2>1, <2>2, <2>3, <2>4, <2>5
<1>2. QED
  BY <1>1, InitInv, PTL DEF Spec

(* Every variable of the server and its clients has its type, and a client *)
(* dials a port other than 0, however commands are cut.                    *)
THEOREM TypeCorrect == Spec => []TypeOK
<1>1. IInv => TypeOK
  <2> SUFFICES ASSUME IInv PROVE TypeOK
    OBVIOUS
  <2>1. VarsTyped /\ DirectoryTyped
    BY DEF IInv
  <2>2. ASSUME NEW c \in Clients
        PROVE  /\ up[c] \in Seq(Commands) /\ \A i \in DOMAIN down[c] : down[c][i].port \in AnyPort
               /\ cpc[c] = "dial" <=> dial[c] # 0
    <3>1. up[c] \in Seq(Sent) /\ down[c] \in Seq(Said) /\ ClientInv(c)
      BY <2>1, Lengths DEF IInv
    <3>2. up[c] \in Seq(Commands)
      BY <3>1, SentCommands
    <3>3. \A i \in DOMAIN down[c] : down[c][i] \in Said
      BY <3>1
    <3>4. QED
      BY <3>1, <3>2, <3>3 DEF Said, ClientInv
  <2>3. QED
    BY <2>1, <2>2 DEF TypeOK, VarsTyped, DirectoryTyped
<1>2. QED
  BY <1>1, Invariance, PTL

(* Whatever other clients do and however their commands arrive, a client   *)
(* whose own commands arrive whole is answered in step.                    *)
THEOREM Lockstep == Spec => []AnswersInStep
<1>1. IInv => AnswersInStep
  <2> SUFFICES ASSUME IInv, NEW c \in Clients, c \notin cut
               PROVE  /\ Len(up[c]) + Len(down[c]) <= 1
                      /\ down[c] # <<>> => /\ cpc[c] = "recv" /\ request[c] = NoCommand
                                           /\ Head(down[c]).status \in AnswersTo[asked[c].op]
    BY DEF AnswersInStep
  <2>1. VarsTyped /\ StepInv(c)
    BY DEF IInv
  <2>2. /\ Len(up[c]) \in Nat /\ (up[c] = <<>> <=> Len(up[c]) = 0) /\ Len(up[c]) <= 1
        /\ Len(down[c]) \in Nat /\ (down[c] = <<>> <=> Len(down[c]) = 0) /\ Len(down[c]) <= 1
        /\ up[c] = <<>> \/ down[c] = <<>>
    BY <2>1, Lengths DEF StepInv
  <2>3. Len(up[c]) + Len(down[c]) <= 1
    <3>1. \A i, j \in Nat : i <= 1 /\ j <= 1 /\ (i = 0 \/ j = 0) => i + j <= 1
      OBVIOUS
    <3>2. QED
      BY <2>2, <3>1
  <2>4. QED
    BY <2>1, <2>3 DEF StepInv
<1>2. QED
  BY <1>1, Invariance, PTL

(* Clients that vanish at any moment do not end the server, nor does an    *)
(* answer end a client, as long as commands arrive whole.                  *)
THEOREM NobodyEndsByItself == Spec => []EndsOnlyAfterCut
<1>1. IInv => EndsOnlyAfterCut
  BY DEF IInv, SystemInv, StepInv, EndsOnlyAfterCut
<1>2. QED
  BY <1>1, Invariance, PTL

(* CHAT never takes one running client for another.                        *)
THEOREM ChatsReachTheirUser == Spec => []ChatReachesUser
<1>1. IInv => ChatReachesUser
  <2> SUFFICES ASSUME IInv, cut = {}, NEW c \in Clients, NEW r \in Clients,
                      cpc[c] = "dial", listenPort[r] = dial[c]
               PROVE  LET from == {l[3] : l \in {h \in published : h[1] = asked[c].name /\ h[2] = dial[c]}}
                      IN r \in from \/ (from # {} /\ \A d \in from : Gone(d))
    BY DEF ChatReachesUser
  <2> DEFINE from == {l[3] : l \in {h \in published : h[1] = asked[c].name /\ h[2] = dial[c]}}
  <2>1. VarsTyped /\ SystemInv /\ ClientInv(c) /\ StepInv(c)
    BY DEF IInv
  <2>2. dial[c] # 0 /\ Known(asked[c].name, dial[c])
    BY <2>1 DEF ClientInv, StepInv
  <2>3. from # {}
    BY <2>2 DEF Known
  <2>4. ASSUME NEW d \in from, ~Gone(d) PROVE d = r
    <3>1. PICK l \in published : l[2] = dial[c] /\ l[3] = d
      OBVIOUS
    <3>2. d \in Clients /\ listenPort[d] = dial[c]
      BY <2>1, <2>4, <3>1 DEF SystemInv, VarsTyped
    <3>3. QED
      BY <2>1, <2>2, <3>2 DEF SystemInv
  <2>5. QED
    BY <2>3, <2>4
<1>2. QED
  BY <1>1, Invariance, PTL

(* A client in recv() waits for something that is under way.               *)
THEOREM NobodyWaitsInVain == Spec => []WaitsForAnswer
<1>1. IInv => WaitsForAnswer
  BY DEF IInv, ClientInv, WaitsForAnswer, Running
<1>2. QED
  BY <1>1, Invariance, PTL
=============================================================================
