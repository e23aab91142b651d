---------------------------- MODULE Stage1Proofs ----------------------------
(***************************************************************************)
(* The safety properties of UserFile and Stage1, proved for names and      *)
(* passwords of any characters and length, any number of sessions, and     *)
(* any bounds.                                                             *)
(***************************************************************************)
EXTENDS Stage1, SequenceTheorems, TLAPS

(* A user is let in iff the first line with the name has the password.     *)
LEMMA LoginIff ==
  ASSUME NEW f, NEW n, NEW p
  PROVE  loginUser(f, n, p) = 1 <=> \E i \in DOMAIN f : FirstLine(f, n, i) /\ HasPassword(f[i], p)
  BY DEF loginUser, userExist, FirstLine

(* A line that is appended changes nobody's first line.                    *)
LEMMA LoginAfterAppend ==
  ASSUME NEW f \in Seq(Text), NEW line \in Text, NEW n, NEW p, loginUser(f, n, p) = 1
  PROVE  loginUser(Append(f, line), n, p) = 1
<1>1. PICK i \in DOMAIN f : FirstLine(f, n, i) /\ HasPassword(f[i], p)
  BY LoginIff
<1>2. /\ DOMAIN f = 1 .. Len(f) /\ DOMAIN Append(f, line) = 1 .. Len(f) + 1 /\ Len(f) \in Nat
      /\ \A j \in 1 .. Len(f) : Append(f, line)[j] = f[j]
  BY AppendProperties
<1>3. FirstLine(Append(f, line), n, i) /\ HasPassword(Append(f, line)[i], p)
  BY <1>1, <1>2 DEF FirstLine
<1>4. i \in DOMAIN Append(f, line)
  BY <1>1, <1>2
<1>5. QED
  BY <1>3, <1>4, LoginIff

(* The line that is written for an account, character by character.        *)
LEMMA LineOfTexts ==
  ASSUME NEW n \in Text, NEW p \in Text
  PROVE  /\ AccountLine(n, p) \in Text /\ Len(AccountLine(n, p)) = Len(n) + 1 + Len(p)
         /\ \A i \in 1 .. Len(n) : AccountLine(n, p)[i] = n[i]
         /\ AccountLine(n, p)[Len(n) + 1] = Bar
         /\ \A i \in 1 .. Len(p) : AccountLine(n, p)[Len(n) + 1 + i] = p[i]
<1> DEFINE m == n \o <<Bar>>
<1>1. /\ m \in Seq(Char) /\ Len(m) = Len(n) + 1 /\ Len(n) \in Nat /\ Len(p) \in Nat
      /\ \A i \in 1 .. Len(n) : m[i] = n[i]
      /\ m[Len(n) + 1] = Bar
  <2>1. <<Bar>> \in Seq(Char) /\ Len(<<Bar>>) = 1 /\ <<Bar>>[1] = Bar
    BY UserFileAssumption
  <2>2. QED
    BY <2>1, ConcatProperties DEF Text
<1> HIDE DEF m
<1>2. p \in Seq(Char)
  BY DEF Text
<1>3. /\ m \o p \in Seq(Char) /\ Len(m \o p) = Len(m) + Len(p)
      /\ \A i \in 1 .. Len(m) + Len(p) : (m \o p)[i] = IF i <= Len(m) THEN m[i] ELSE p[i - Len(m)]
  BY <1>1, <1>2, ConcatProperties
<1>4. AccountLine(n, p) = m \o p
  BY DEF AccountLine, m
<1>5. \A i \in 1 .. Len(p) : (m \o p)[Len(n) + 1 + i] = p[i]
  BY <1>1, <1>3
<1>6. QED
  BY <1>1, <1>3, <1>4, <1>5 DEF Text

(* Who gets in has given what the line says: whatever separators there     *)
(* are, the first one is where name and password are split.                *)
LEMMA LineOfLogin ==
  ASSUME NEW line \in Text, NEW n \in Text, NEW p \in Text, HasName(line, n), HasPassword(line, p)
  PROVE  line = AccountLine(n, p)
<1>1. PICK k \in DOMAIN line : SplitAt(line, k) /\ SubSeq(line, 1, k-1) = n
  BY DEF HasName
<1>2. PICK l \in DOMAIN line : SplitAt(line, l) /\ SubSeq(line, l+1, Len(line)) = p
  BY DEF HasPassword
<1>3. /\ Len(line) \in Nat /\ DOMAIN line = 1 .. Len(line) /\ line \in Seq(Char)
      /\ \A i \in 1 .. Len(line) : line[i] \in Char
  BY DEF Text
<1>4. l = k
  BY <1>1, <1>2, <1>3 DEF SplitAt
<1>5. /\ Len(n) = k-1
      /\ \A i \in 1 .. k-1 : n[i] = line[i]
  <2>1. \A i \in 1 .. k-1 : line[i] \in Char
    BY <1>3
  <2>2. /\ Len(SubSeq(line, 1, k-1)) = IF 1 <= k-1 THEN k-1-1+1 ELSE 0
        /\ \A i \in 1 .. k-1-1+1 : SubSeq(line, 1, k-1)[i] = line[1+i-1]
    BY <1>3, <2>1, SubSeqProperties
  <2>3. QED
    BY <1>1, <1>3, <2>2
<1>6. /\ Len(p) = Len(line) - k
      /\ \A i \in 1 .. Len(line) - k : p[i] = line[k+i]
  <2>1. \A i \in k+1 .. Len(line) : line[i] \in Char
    BY <1>3
  <2>2. /\ Len(SubSeq(line, k+1, Len(line))) = IF k+1 <= Len(line) THEN Len(line)-(k+1)+1 ELSE 0
        /\ \A i \in 1 .. Len(line)-(k+1)+1 : SubSeq(line, k+1, Len(line))[i] = line[k+1+i-1]
    BY <1>3, <2>1, SubSeqProperties
  <2>3. p = SubSeq(line, k+1, Len(line)) /\ k \in 1 .. Len(line)
    BY <1>2, <1>3, <1>4
  <2>4. Len(p) = Len(line) - k
    BY <1>3, <2>2, <2>3
  <2>5. ASSUME NEW i \in 1 .. Len(line) - k PROVE p[i] = line[k+i]
    <3>1. i \in 1 .. Len(line)-(k+1)+1 /\ k+1+i-1 = k+i
      BY <1>3, <2>3
    <3>2. QED
      BY <2>2, <2>3, <3>1
  <2>6. QED
    BY <2>4, <2>5
<1> DEFINE w == AccountLine(n, p)
<1>7. /\ w \in Seq(Char) /\ Len(w) = Len(n) + 1 + Len(p)
      /\ \A i \in 1 .. Len(n) : w[i] = n[i]
      /\ w[Len(n) + 1] = Bar
      /\ \A i \in 1 .. Len(p) : w[Len(n) + 1 + i] = p[i]
  BY LineOfTexts DEF Text
<1> HIDE DEF w
<1>8. Len(w) = Len(line)
  BY <1>3, <1>5, <1>6, <1>7
<1>9. ASSUME NEW i \in 1 .. Len(line) PROVE w[i] = line[i]
  <2>1. CASE i < k
    BY <1>3, <1>5, <1>7, <2>1
  <2>2. CASE i = k
    BY <1>1, <1>3, <1>5, <1>7, <2>2 DEF SplitAt
  <2>3. CASE i > k
    <3>1. i - k \in 1 .. Len(line) - k /\ k + (i - k) = i
      BY <1>3, <2>3
    <3>2. p[i - k] = line[i] /\ w[Len(n) + 1 + (i - k)] = p[i - k]
      BY <1>3, <1>6, <1>7, <3>1
    <3>3. Len(n) + 1 + (i - k) = i
      BY <1>3, <1>5
    <3>4. QED
      BY <3>2, <3>3
  <2>4. QED
    BY <1>3, <2>1, <2>2, <2>3
<1>10. QED
  BY <1>3, <1>7, <1>8, <1>9, SeqEqual DEF w

(* The line of an account, if the name has no separator: the first         *)
(* separator is the one between name and password, whatever that holds.    *)
LEMMA LineOfAccount ==
  ASSUME NEW n \in Text, NEW p \in Text, \A i \in DOMAIN n : n[i] # Bar
  PROVE  LET line == AccountLine(n, p)
         IN  line \in Text /\ HasName(line, n) /\ HasPassword(line, p)
<1> DEFINE line == AccountLine(n, p)
           k == Len(n) + 1
<1>1. Len(n) \in Nat /\ Len(p) \in Nat /\ n \in Seq(Char) /\ p \in Seq(Char)
  BY DEF Text
<1>2. /\ line \in Seq(Char) /\ Len(line) = k + Len(p) /\ DOMAIN line = 1 .. Len(line)
      /\ \A i \in 1 .. k-1 : line[i] = n[i]
      /\ line[k] = Bar
      /\ \A i \in 1 .. Len(p) : line[k+i] = p[i]
  <2>1. line \in Seq(Char) /\ Len(line) = Len(n) + 1 + Len(p)
    BY LineOfTexts DEF Text
  <2>2. \A i \in 1 .. Len(n) : line[i] = n[i]
    BY LineOfTexts
  <2>3. line[k] = Bar
    BY LineOfTexts
  <2>4. \A i \in 1 .. Len(p) : line[k+i] = p[i]
    BY LineOfTexts
  <2> HIDE DEF line
  <2>5. QED
    BY <1>1, <2>1, <2>2, <2>3, <2>4
<1> HIDE DEF line
<1>3. SplitAt(line, k)
  <2>1. k \in DOMAIN line /\ line[k] = Bar
    BY <1>1, <1>2
  <2>2. \A j \in 1 .. k-1 : line[j] = n[j] /\ j \in DOMAIN n
    BY <1>1, <1>2 DEF Text
  <2>3. QED
    BY <2>1, <2>2 DEF SplitAt
<1>4. SubSeq(line, 1, k-1) = n
  <2>1. \A i \in 1 .. k-1 : line[i] = n[i] /\ n[i] \in Char
    BY <1>1, <1>2 DEF Text
  <2>2. /\ SubSeq(line, 1, k-1) \in Seq(Char) /\ Len(SubSeq(line, 1, k-1)) = Len(n)
        /\ \A i \in 1 .. Len(n) : SubSeq(line, 1, k-1)[i] = n[i]
    <3>1. 1 \in Int /\ k-1 \in Int /\ \A i \in 1 .. k-1 : line[i] \in Char
      BY <1>1, <2>1
    <3>2. /\ SubSeq(line, 1, k-1) \in Seq(Char)
          /\ Len(SubSeq(line, 1, k-1)) = IF 1 <= k-1 THEN k-1-1+1 ELSE 0
          /\ \A i \in 1 .. k-1-1+1 : SubSeq(line, 1, k-1)[i] = line[1+i-1]
      BY <3>1, SubSeqProperties
    <3>3. QED
      BY <1>1, <2>1, <3>2
  <2>3. QED
    BY <2>2, SeqEqual DEF Text
<1>5. SubSeq(line, k+1, Len(line)) = p
  <2>1. \A i \in 1 .. Len(p) : line[k+i] = p[i] /\ p[i] \in Char
    BY <1>1, <1>2 DEF Text
  <2>2. \A i \in k+1 .. Len(line) : line[i] \in Char
    BY <1>1, <1>2
  <2>3. /\ SubSeq(line, k+1, Len(line)) \in Seq(Char)
        /\ Len(SubSeq(line, k+1, Len(line))) = IF k+1 <= Len(line) THEN Len(line)-(k+1)+1 ELSE 0
        /\ \A i \in 1 .. Len(line)-(k+1)+1 : SubSeq(line, k+1, Len(line))[i] = line[k+1+i-1]
    BY <1>1, <1>2, <2>2, SubSeqProperties
  <2>4. /\ Len(SubSeq(line, k+1, Len(line))) = Len(p)
        /\ \A i \in 1 .. Len(p) : SubSeq(line, k+1, Len(line))[i] = p[i]
    BY <1>1, <1>2, <2>1, <2>3
  <2>5. QED
    BY <2>3, <2>4, SeqEqual DEF Text
<1>6. HasName(line, n)
  BY <1>3, <1>4 DEF HasName, SplitAt
<1>7. HasPassword(line, p)
  BY <1>3, <1>5 DEF HasPassword, SplitAt
<1>8. QED
  BY <1>2, <1>6, <1>7 DEF line, Text

(* An account that was registered can be used at once ...                  *)
LEMMA LoginAfterRegister ==
  ASSUME NEW f \in Seq(Text), NEW n \in Text, NEW p \in Text, ~userExist(f, n),
         \A i \in DOMAIN n : n[i] # Bar
  PROVE  loginUser(registerUser(f, n, p), n, p) = 1
<1> DEFINE line == AccountLine(n, p)
<1>1. line \in Text /\ HasName(line, n) /\ HasPassword(line, p)
  BY LineOfAccount
<1>2. registerUser(f, n, p) = Append(f, line)
  BY DEF registerUser
<1> HIDE DEF line
<1>3. /\ DOMAIN Append(f, line) = 1 .. Len(f) + 1 /\ Len(f) \in Nat /\ DOMAIN f = 1 .. Len(f)
      /\ Append(f, line)[Len(f) + 1] = line
      /\ \A j \in 1 .. Len(f) : Append(f, line)[j] = f[j]
  BY <1>1
<1>4. FirstLine(Append(f, line), n, Len(f) + 1)
  BY <1>1, <1>3 DEF FirstLine, userExist
<1>5. HasPassword(Append(f, line)[Len(f) + 1], p) /\ Len(f) + 1 \in DOMAIN Append(f, line)
  BY <1>1, <1>3
<1>6. QED
  BY <1>2, <1>4, <1>5, LoginIff

(* ... and no later registerUser() takes it away.                          *)
LEMMA LoginKept ==
  ASSUME NEW f \in Seq(Text), NEW m \in Text, NEW q \in Text, NEW n, NEW p, loginUser(f, n, p) = 1
  PROVE  loginUser(registerUser(f, m, q), n, p) = 1
<1>1. AccountLine(m, q) \in Text
  BY LineOfTexts
<1>2. QED
  BY <1>1, LoginAfterAppend DEF registerUser

-----------------------------------------------------------------------------
(* The inductive invariant.                                                *)

(* Nobody is asked for a name or a password while logged in: this is why   *)
(* what is typed later cannot spoil LoggedInWithAccount.                   *)
LoginInv == /\ LoggedInWithAccount
            /\ spc \in {"name", "password"} => ~clientLoggedIn

(* The file holds nothing but what was confirmed to a user, and what comes *)
(* with the program.                                                       *)
FileInv == \A i \in DOMAIN file : \E r \in registered : file[i] = AccountLine(r[1], r[2])

IInv == TypeOK /\ LoginInv /\ FileInv /\ RegisteredCanLogin /\ NoMutualWait

Lines == Prompts \cup Replies

-----------------------------------------------------------------------------
(* What a read() leaves of the lines under way, and what a write() adds.   *)
LEMMA Reading ==
  ASSUME NEW n, toServer \in Seq(Text), readFromClient(n)
  PROVE  /\ toServer # <<>> /\ Len(toServer) \in Nat /\ n \in 1 .. Len(toServer)
         /\ Message \in Text
         /\ toServer' \in Seq(Text) /\ Len(toServer') = Len(toServer) - n
<1>1. n \in 1 .. Len(toServer) /\ toServer' = SubSeq(toServer, n+1, Len(toServer)) /\ Len(toServer) \in Nat
  BY DEF readFromClient
<1>2. toServer # <<>> /\ Head(toServer) \in Text
  BY <1>1
<1>3. \A i \in n+1 .. Len(toServer) : toServer[i] \in Text
  BY <1>1
<1>4. /\ SubSeq(toServer, n+1, Len(toServer)) \in Seq(Text)
      /\ Len(SubSeq(toServer, n+1, Len(toServer))) =
           IF n+1 <= Len(toServer) THEN Len(toServer) - (n+1) + 1 ELSE 0
  BY <1>1, <1>3, SubSeqProperties
<1>5. QED
  BY <1>1, <1>2, <1>4 DEF Message

LEMMA Writing ==
  ASSUME NEW line \in Lines, toClient \in Seq(Lines), Write(line)
  PROVE  /\ toClient' \in Seq(Lines) /\ toClient' # <<>> /\ Len(toClient') = Len(toClient) + 1
         /\ Len(toClient) \in Nat /\ toClient'[Len(toClient) + 1] = line
         /\ \A i \in 1 .. Len(toClient) : toClient'[i] = toClient[i]
BY AppendProperties DEF Write

LEMMA Printing ==
  ASSUME NEW n \in 1 .. Len(toClient), toClient \in Seq(Lines), readFromServer(n)
  PROVE  /\ toClient' \in Seq(Lines) /\ toClient # <<>> /\ Len(toClient) \in Nat
         /\ shown' = toClient[n] /\ shown' \in Lines
         /\ Len(toClient') = Len(toClient) - n
         /\ \A i \in 1 .. Len(toClient') : toClient'[i] = toClient[n+i]
<1>1. toClient' = SubSeq(toClient, n+1, Len(toClient)) /\ shown' = toClient[n] /\ Len(toClient) \in Nat
  BY DEF readFromServer
<1>2. \A i \in n+1 .. Len(toClient) : toClient[i] \in Lines
  BY <1>1
<1>3. /\ SubSeq(toClient, n+1, Len(toClient)) \in Seq(Lines)
      /\ Len(SubSeq(toClient, n+1, Len(toClient))) =
           IF n+1 <= Len(toClient) THEN Len(toClient) - (n+1) + 1 ELSE 0
      /\ \A i \in 1 .. Len(toClient) - (n+1) + 1 : SubSeq(toClient, n+1, Len(toClient))[i] = toClient[n+1+i-1]
  BY <1>1, <1>2, SubSeqProperties
<1>4. QED
  BY <1>1, <1>3

LEMMA Registration ==
  ASSUME NEW f \in Seq(Text), NEW n \in Text, NEW p \in Text
  PROVE  registerUser(f, n, p) \in Seq(Text)
<1>1. AccountLine(n, p) \in Text
  BY LineOfTexts
<1>2. QED
  BY <1>1, AppendProperties DEF registerUser

(* The texts of Stage1Assumption, and the kinds of line.                   *)
LEMMA Kinds == /\ LoginText \in Text /\ RegisterText \in Text /\ LogoutText \in Text
               /\ Orders \subseteq Text /\ Answers \subseteq Text
               /\ Prompts \subseteq Lines /\ Replies \subseteq Lines /\ "NOTHING" \notin Lines
               /\ "WELCOME" \in Prompts /\ "USERNAME" \in Prompts /\ "PASSWORD" \in Prompts
               /\ "DONE" \in Replies /\ "REFUSED" \in Replies /\ Prompts \cap Replies = {}
               /\ <<>> \in Text
BY Stage1Assumption DEF Lines, Prompts, Replies, Text

LEMMA Empty == <<>> \in Seq(Text) /\ <<>> \in Seq(Lines) /\ <<>> \in Text
BY DEF Text

(* The file that comes with the program is what registering its account    *)
(* makes of an empty one.                                                  *)
LEMMA ShippedFile ==
  /\ Shipped \in Text \X Text /\ Shipped = <<Shipped[1], Shipped[2]>>
  /\ Shipped[1] \in Text /\ Shipped[2] \in Text
  /\ AccountLine(Shipped[1], Shipped[2]) \in Text
  /\ ~userExist(<<>>, Shipped[1])
  /\ registerUser(<<>>, Shipped[1], Shipped[2]) = <<AccountLine(Shipped[1], Shipped[2])>>
<1>1. Shipped \in Text \X Text
  BY Stage1Assumption
<1>2. Shipped = <<Shipped[1], Shipped[2]>> /\ Shipped[1] \in Text /\ Shipped[2] \in Text
  BY <1>1
<1>3. AccountLine(Shipped[1], Shipped[2]) \in Text
  BY <1>2, LineOfTexts
<1>4. ~userExist(<<>>, Shipped[1])
  BY DEF userExist
<1>5. QED
  BY <1>1, <1>2, <1>3, <1>4 DEF registerUser

LEMMA FileInit == Init => FileInv /\ RegisteredCanLogin
<1>1. CASE file = <<>> /\ registered = {}
  BY <1>1 DEF FileInv, RegisteredCanLogin
<1>2. ASSUME file = <<AccountLine(Shipped[1], Shipped[2])>>, registered = {Shipped}
      PROVE  FileInv /\ RegisteredCanLogin
  <2>1. FileInv
    <3>1. DOMAIN file = {1} /\ file[1] = AccountLine(Shipped[1], Shipped[2]) /\ Shipped \in registered
      BY <1>2
    <3>2. \A i \in DOMAIN file : i = 1
      BY <3>1
    <3>3. QED
      BY <3>1, <3>2 DEF FileInv
  <2>2. ASSUME \A i \in DOMAIN Shipped[1] : Shipped[1][i] # Bar
        PROVE  loginUser(file, Shipped[1], Shipped[2]) = 1
    BY <1>2, <2>2, ShippedFile, Empty, LoginAfterRegister
  <2>3. QED
    BY <1>2, <2>1, <2>2 DEF RegisteredCanLogin
<1>3. QED
  BY <1>1, <1>2 DEF Init

LEMMA TypeInit == Init => TypeOK
<1> SUFFICES ASSUME Init PROVE TypeOK
  OBVIOUS
<1>1. file \in Seq(Text) /\ toServer \in Seq(Text) /\ toClient \in Seq(Lines)
  <2>1. \A line \in Text : <<line>> \in Seq(Text)
    OBVIOUS
  <2>2. file \in Seq(Text)
    BY <2>1, Empty, ShippedFile DEF Init
  <2>3. QED
    BY <2>2, Empty DEF Init
<1>2. username \in Text /\ password \in Text /\ op \in {<<>>, LoginText, RegisterText}
  BY Empty DEF Init
<1>3. registered \subseteq Text \X Text /\ clientLoggedIn \in BOOLEAN
  BY ShippedFile DEF Init
<1>4. spc = "accept" /\ cpc = "away" /\ kind = "alternating" /\ shown = "NOTHING"
  BY DEF Init
<1>5. QED
  BY <1>1, <1>2, <1>3, <1>4 DEF TypeOK, Lines

LEMMA TypeStep == TypeOK /\ [Next]_vars => TypeOK'
<1> SUFFICES ASSUME TypeOK, [Next]_vars PROVE TypeOK'
  OBVIOUS
<1> USE Kinds
<1>t. toServer \in Seq(Text) /\ toClient \in Seq(Lines)
  BY DEF TypeOK, Lines
<1>c. ASSUME Crash PROVE TypeOK'
  <2>1. toServer' \in Seq(Text) /\ toClient' \in Seq(Lines)
    BY <1>c, Empty DEF Crash
  <2>2. username' \in Text /\ password' \in Text /\ op' \in {<<>>, LoginText, RegisterText}
    BY <1>c, Empty DEF Crash
  <2>3. spc' = "down" /\ clientLoggedIn' \in BOOLEAN /\ UNCHANGED <<file, clientVars, registered>>
    BY <1>c DEF Crash
  <2>4. QED
    BY <2>1, <2>2, <2>3 DEF TypeOK, clientVars, Lines
<1>1. CASE acceptConnections
  BY <1>1 DEF acceptConnections, TypeOK, clientVars, wireVars
<1>2. CASE handleMessage
  <2>1. CASE Welcome
    <3>1. toClient' \in Seq(Lines)
      BY <2>1, <1>t, Writing DEF Welcome
    <3>2. QED
      BY <2>1, <3>1 DEF Welcome, Serves, TypeOK, clientVars, Lines
  <2>2. ASSUME NEW n \in 1 .. Len(toServer),
               AskName(n) \/ Already(n) \/ Logout(n) \/ Unknown(n) \/ AskPassword(n) \/ Login(n) \/ Register(n)
        PROVE  TypeOK'
    <3>1. toServer' \in Seq(Text) /\ Message \in Text
      BY <2>2, <1>t, Reading DEF AskName, Already, Logout, Unknown, AskPassword, Login, Register
    <3>2. toClient' \in Seq(Lines)
      <4>1. (\E line \in Lines : Write(line)) \/ toClient' = toClient
        BY <2>2 DEF AskName, Already, Logout, Unknown, AskPassword, Login, Register
      <4>2. QED
        BY <4>1, <1>t, Writing
    <3>3. file' \in Seq(Text) /\ registered' \subseteq Text \X Text
      <4>1. CASE Register(n)
        <5>1. file \in Seq(Text) /\ username \in Text /\ registered \subseteq Text \X Text
          BY DEF TypeOK
        <5>2. file' = registerUser(file, username, Message)
          BY <4>1 DEF Register
        <5>3. registered' = registered \/ registered' = registered \cup {<<username, Message>>}
          BY <4>1 DEF Register
        <5>4. file' \in Seq(Text)
          BY <5>1, <5>2, <3>1, Registration
        <5>5. <<username, Message>> \in Text \X Text
          BY <5>1, <3>1
        <5>6. QED
          BY <5>1, <5>3, <5>4, <5>5
      <4>2. CASE ~Register(n)
        BY <2>2, <4>2 DEF AskName, Already, Logout, Unknown, AskPassword, Login, TypeOK
      <4>3. QED
        BY <4>1, <4>2
    <3>4. /\ spc' \in {"accept", "welcome", "command", "name", "password", "down"}
          /\ op' \in {<<>>, LoginText, RegisterText}
      BY <2>2 DEF AskName, Already, Logout, Unknown, AskPassword, Login, Register, Serves, TypeOK
    <3>5. username' \in Text /\ password' \in Text /\ clientLoggedIn' \in BOOLEAN
      BY <2>2, <3>1 DEF AskName, Already, Logout, Unknown, AskPassword, Login, Register, TypeOK
    <3>6. UNCHANGED clientVars
      BY <2>2 DEF AskName, Already, Logout, Unknown, AskPassword, Login, Register
    <3>7. QED
      BY <3>1, <3>2, <3>3, <3>4, <3>5, <3>6 DEF TypeOK, clientVars, Lines
  <2>3. CASE ReadEnd \/ ReadPart
    BY <2>3, <1>c DEF ReadEnd, ReadPart
  <2>4. QED
    BY <1>2, <2>1, <2>2, <2>3 DEF handleMessage
<1>3. CASE Reset \/ Kill
  BY <1>3, <1>c DEF Reset, Kill
<1>4. CASE Restart
  BY <1>4 DEF Restart, TypeOK, wireVars
<1>5. CASE \E k \in {"alternating", "selecting"} : Connect(k)
  BY <1>5 DEF Connect, TypeOK, serverVars, wireVars
<1>6. ASSUME NEW n \in 1 .. Len(toClient), readFromServer(n) PROVE TypeOK'
  <2>1. toClient' \in Seq(Lines) /\ shown' \in Lines
    BY <1>6, <1>t, Printing
  <2>2. shown' # "NOTHING"
    BY <2>1 DEF Lines, Prompts, Replies
  <2>3. QED
    BY <1>6, <2>1, <2>2 DEF readFromServer, TypeOK, serverVars, Lines
<1>7. ASSUME NEW t \in Orders \cup Answers, writeToServer(t) PROVE TypeOK'
  <2>1. t \in Text
    OBVIOUS
  <2>2. QED
    BY <1>7, <1>t, <2>1, AppendProperties DEF writeToServer, TypeOK, serverVars, Lines
<1>8. CASE Leave
  BY <1>8 DEF Leave, TypeOK, serverVars, wireVars
<1>9. CASE UNCHANGED vars
  BY <1>9 DEF vars, TypeOK, serverVars, clientVars, wireVars
<1>10. QED
  BY <1>1, <1>2, <1>3, <1>4, <1>5, <1>6, <1>7, <1>8, <1>9 DEF Next

(* The file: lines are appended, never changed.                            *)
LEMMA FileStep ==
  ASSUME TypeOK, [Next]_vars
  PROVE  \/ UNCHANGED <<file, registered>>
         \/ \E n \in 1 .. Len(toServer) : Register(n) /\ Message \in Text
<1>1. CASE Next
  <2>1. ASSUME NEW n \in 1 .. Len(toServer), Register(n) PROVE Message \in Text
    BY <2>1, Reading DEF Register, TypeOK, Lines
  <2>2. ASSUME NEW n \in 1 .. Len(toServer),
               AskName(n) \/ Already(n) \/ Logout(n) \/ Unknown(n) \/ AskPassword(n) \/ Login(n)
        PROVE  UNCHANGED <<file, registered>>
    BY <2>2 DEF AskName, Already, Logout, Unknown, AskPassword, Login
  <2>3. ASSUME \/ acceptConnections \/ Welcome \/ Crash \/ Restart \/ Leave
               \/ \E k \in {"alternating", "selecting"} : Connect(k)
               \/ \E n \in 1 .. Len(toClient) : readFromServer(n)
               \/ \E t \in Orders \cup Answers : writeToServer(t)
        PROVE  UNCHANGED <<file, registered>>
    BY <2>3 DEF acceptConnections, Welcome, Crash, Restart, Leave, Connect, readFromServer, writeToServer
  <2>4. QED
    BY <1>1, <2>1, <2>2, <2>3 DEF Next, handleMessage, ReadEnd, ReadPart, Reset, Kill
<1>2. CASE UNCHANGED vars
  BY <1>2 DEF vars
<1>3. QED
  BY <1>1, <1>2

LEMMA RegisteredStep ==
  ASSUME TypeOK, RegisteredCanLogin, [Next]_vars
  PROVE  RegisteredCanLogin'
<1>1. CASE UNCHANGED <<file, registered>>
  BY <1>1 DEF RegisteredCanLogin
<1>2. ASSUME NEW n \in 1 .. Len(toServer), Register(n), Message \in Text
      PROVE  RegisteredCanLogin'
  <2>1. file \in Seq(Text) /\ username \in Text /\ registered \subseteq Text \X Text
    BY DEF TypeOK
  <2>2. /\ file' = registerUser(file, username, Message)
        /\ \/ registered' = registered
           \/ ~userExist(file, username) /\ registered' = registered \cup {<<username, Message>>}
    BY <1>2 DEF Register
  <2>3. SUFFICES ASSUME NEW r \in registered', \A i \in DOMAIN r[1] : r[1][i] # Bar
                 PROVE  loginUser(file', r[1], r[2]) = 1
    BY DEF RegisteredCanLogin
  <2>4. CASE r \in registered
    <3>1. loginUser(file, r[1], r[2]) = 1
      BY <2>3, <2>4 DEF RegisteredCanLogin
    <3>2. QED
      BY <1>2, <2>1, <2>2, <3>1, LoginKept
  <2>5. CASE r = <<username, Message>> /\ ~userExist(file, username)
    BY <1>2, <2>1, <2>2, <2>3, <2>5, LoginAfterRegister
  <2>6. QED
    BY <2>2, <2>3, <2>4, <2>5
<1>3. QED
  BY <1>1, <1>2, FileStep

LEMMA FileInvStep ==
  ASSUME TypeOK, FileInv, [Next]_vars
  PROVE  FileInv'
<1>1. CASE UNCHANGED <<file, registered>>
  BY <1>1 DEF FileInv
<1>2. ASSUME NEW n \in 1 .. Len(toServer), Register(n), Message \in Text
      PROVE  FileInv'
  <2>1. file \in Seq(Text) /\ username \in Text
    BY DEF TypeOK
  <2>2. CASE userExist(file, username)
    BY <1>2, <2>2 DEF Register, registerUser, FileInv
  <2>3. CASE ~userExist(file, username)
    <3>1. /\ file' = Append(file, AccountLine(username, Message))
          /\ registered' = registered \cup {<<username, Message>>}
      BY <1>2, <2>3 DEF Register, registerUser
    <3>2. AccountLine(username, Message) \in Text
      BY <1>2, <2>1, LineOfTexts
    <3>3. /\ DOMAIN file = 1 .. Len(file) /\ DOMAIN file' = 1 .. Len(file) + 1 /\ Len(file) \in Nat
          /\ \A i \in 1 .. Len(file) : file'[i] = file[i]
          /\ file'[Len(file) + 1] = AccountLine(username, Message)
      BY <2>1, <3>1, <3>2, AppendProperties
    <3>4. \A i \in DOMAIN file : \E r \in registered' : file'[i] = AccountLine(r[1], r[2])
      BY <3>1, <3>3 DEF FileInv
    <3>5. \E r \in registered' : file'[Len(file) + 1] = AccountLine(r[1], r[2])
      <4>1. <<username, Message>> \in registered'
        BY <3>1
      <4>2. QED
        BY <3>3, <4>1
    <3>6. QED
      BY <3>3, <3>4, <3>5 DEF FileInv
  <2>4. QED
    BY <2>2, <2>3
<1>3. QED
  BY <1>1, <1>2, FileStep

(* Who is logged in stays logged in with the same name and password, and   *)
(* who gets logged in has just given both.                                 *)
LEMMA LoginStep ==
  ASSUME TypeOK, LoginInv, [Next]_vars
  PROVE  LoginInv'
<1>k. ASSUME UNCHANGED <<clientLoggedIn, username, password, file>>,
             spc' \in {"name", "password"} => spc \in {"name", "password"}
      PROVE  LoginInv'
  BY <1>k DEF LoginInv, LoggedInWithAccount
<1>c. ASSUME Crash PROVE LoginInv'
  BY <1>c DEF Crash, LoginInv, LoggedInWithAccount
<1>1. CASE acceptConnections
  BY <1>1, <1>k DEF acceptConnections
<1>2. CASE handleMessage
  <2>1. CASE Welcome
    BY <2>1, <1>k DEF Welcome, Serves
  <2>2. ASSUME NEW n \in 1 .. Len(toServer), AskName(n) PROVE LoginInv'
    BY <2>2 DEF AskName, LoginInv, LoggedInWithAccount
  <2>3. ASSUME NEW n \in 1 .. Len(toServer), Already(n) \/ Unknown(n) PROVE LoginInv'
    BY <2>3, <1>k DEF Already, Unknown, Serves
  <2>4. ASSUME NEW n \in 1 .. Len(toServer), Logout(n) PROVE LoginInv'
    BY <2>4 DEF Logout, Serves, LoginInv, LoggedInWithAccount
  <2>5. ASSUME NEW n \in 1 .. Len(toServer), AskPassword(n) PROVE LoginInv'
    BY <2>5 DEF AskPassword, Serves, LoginInv, LoggedInWithAccount
  <2>6. ASSUME NEW n \in 1 .. Len(toServer), Login(n) PROVE LoginInv'
    <3>1. /\ spc = "password" /\ spc' = "welcome" /\ password' = Message /\ UNCHANGED <<file, username>>
          /\ clientLoggedIn' = (clientLoggedIn \/ loginUser(file, username, Message) = 1)
      BY <2>6 DEF Login, Serves
    <3>2. ~clientLoggedIn
      BY <3>1 DEF LoginInv
    <3>3. clientLoggedIn' => loginUser(file', username', password') = 1
      BY <3>1, <3>2
    <3>4. QED
      BY <3>1, <3>3 DEF LoginInv, LoggedInWithAccount
  <2>7. ASSUME NEW n \in 1 .. Len(toServer), Register(n) PROVE LoginInv'
    BY <2>7 DEF Register, Serves, LoginInv, LoggedInWithAccount
  <2>8. CASE ReadEnd \/ ReadPart
    BY <2>8, <1>c DEF ReadEnd, ReadPart
  <2>9. QED
    BY <1>2, <2>1, <2>2, <2>3, <2>4, <2>5, <2>6, <2>7, <2>8 DEF handleMessage
<1>3. CASE Reset \/ Kill
  BY <1>3, <1>c DEF Reset, Kill
<1>4. CASE Restart
  BY <1>4, <1>k DEF Restart
<1>5. ASSUME \/ Leave
             \/ \E k \in {"alternating", "selecting"} : Connect(k)
             \/ \E n \in 1 .. Len(toClient) : readFromServer(n)
             \/ \E t \in Orders \cup Answers : writeToServer(t)
      PROVE  LoginInv'
  BY <1>5, <1>k DEF Leave, Connect, readFromServer, writeToServer, serverVars
<1>6. CASE UNCHANGED vars
  BY <1>6, <1>k DEF vars, serverVars
<1>7. QED
  BY <1>1, <1>2, <1>3, <1>4, <1>5, <1>6 DEF Next

(* Whoever starts to wait has just put something under way.                *)
LEMMA WaitStep ==
  ASSUME TypeOK, NoMutualWait, [Next]_vars
  PROVE  NoMutualWait'
<1>t. toServer \in Seq(Text) /\ toClient \in Seq(Lines)
  BY DEF TypeOK, Lines
<1>1. CASE acceptConnections
  BY <1>1 DEF acceptConnections, NoMutualWait
<1>2. CASE handleMessage
  <2>1. CASE Welcome
    BY <2>1, <1>t, Writing, Kinds DEF Welcome, NoMutualWait
  <2>2. ASSUME NEW n \in 1 .. Len(toServer), AskName(n) \/ AskPassword(n) PROVE NoMutualWait'
    BY <2>2, <1>t, Writing, Kinds DEF AskName, AskPassword, NoMutualWait
  <2>3. ASSUME NEW n \in 1 .. Len(toServer),
               Already(n) \/ Logout(n) \/ Unknown(n) \/ Login(n) \/ Register(n)
        PROVE  NoMutualWait'
    BY <2>3 DEF Already, Logout, Unknown, Login, Register, Serves, NoMutualWait
  <2>4. CASE ReadEnd \/ ReadPart
    BY <2>4 DEF ReadEnd, ReadPart, Crash, NoMutualWait
  <2>5. QED
    BY <1>2, <2>1, <2>2, <2>3, <2>4 DEF handleMessage
<1>3. CASE Reset \/ Kill
  BY <1>3 DEF Reset, Kill, Crash, NoMutualWait
<1>4. ASSUME Restart \/ Leave \/ \E k \in {"alternating", "selecting"} : Connect(k)
      PROVE  NoMutualWait'
  BY <1>4 DEF Restart, Leave, Connect, serverVars, NoMutualWait
<1>5. ASSUME NEW n \in 1 .. Len(toClient), readFromServer(n) PROVE NoMutualWait'
  BY <1>5 DEF readFromServer, NoMutualWait
<1>6. ASSUME NEW t \in Orders \cup Answers, writeToServer(t) PROVE NoMutualWait'
  <2>1. toServer' # <<>>
    BY <1>6, <1>t, AppendProperties DEF writeToServer
  <2>2. QED
    BY <2>1 DEF NoMutualWait
<1>7. CASE UNCHANGED vars
  BY <1>7 DEF vars, serverVars, clientVars, wireVars, NoMutualWait
<1>8. QED
  BY <1>1, <1>2, <1>3, <1>4, <1>5, <1>6, <1>7 DEF Next

-----------------------------------------------------------------------------
LEMMA Invariance == Spec => []IInv
<1>1. Init => IInv
  <2>1. Init => LoginInv /\ NoMutualWait
    BY DEF Init, LoginInv, LoggedInWithAccount, NoMutualWait
  <2>2. QED
    BY <2>1, FileInit, TypeInit DEF IInv
<1>2. IInv /\ [Next]_vars => IInv'
  BY TypeStep, LoginStep, FileInvStep, RegisteredStep, WaitStep DEF IInv
<1>3. QED
  BY <1>1, <1>2, PTL DEF Spec

(* Every variable of the first version has its type, whatever is typed and *)
(* in whatever chunks it is read.                                          *)
THEOREM TypeCorrect == Spec => []TypeOK
BY Invariance, PTL DEF IInv

(* A session that is logged in is so with the name and password of an      *)
(* account in ./UserDB.                                                    *)
THEOREM SessionsAreAccounts == Spec => []LoggedInWithAccount
<1>1. IInv => LoggedInWithAccount
  BY DEF IInv, LoginInv
<1>2. QED
  BY <1>1, Invariance, PTL

(* An account that was confirmed is usable for ever, over any number of    *)
(* sessions and crashes, if its name has no separator.                     *)
THEOREM AccountsLast == Spec => []RegisteredCanLogin
BY Invariance, PTL DEF IInv

(* Nobody is logged in with a name and a password whose line was not       *)
(* confirmed to some user, in whatever session and before whatever crash.  *)
THEOREM NobodyElseGetsIn == Spec => []LoggedInWasRegistered
<1>1. IInv => LoggedInWasRegistered
  <2>1. SUFFICES ASSUME IInv, clientLoggedIn
                 PROVE  \E r \in registered : AccountLine(r[1], r[2]) = AccountLine(username, password)
    BY DEF LoggedInWasRegistered
  <2>2. file \in Seq(Text) /\ username \in Text /\ password \in Text
    BY <2>1 DEF IInv, TypeOK
  <2>3. loginUser(file, username, password) = 1
    BY <2>1 DEF IInv, LoginInv, LoggedInWithAccount
  <2>4. PICK i \in DOMAIN file : FirstLine(file, username, i) /\ HasPassword(file[i], password)
    BY <2>3, LoginIff
  <2>5. file[i] = AccountLine(username, password)
    BY <2>2, <2>4, LineOfLogin DEF FirstLine
  <2>6. QED
    BY <2>1, <2>5 DEF IInv, FileInv
<1>2. QED
  BY <1>1, Invariance, PTL

(* The alternating client and the server never both wait for the other's   *)
(* next line, in whatever chunks lines are read and however many dropped.  *)
THEOREM AlternatingNeverBothWait == Spec => []NoMutualWait
BY Invariance, PTL DEF IInv
=============================================================================
