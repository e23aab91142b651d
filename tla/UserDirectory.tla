--------------------------- MODULE UserDirectory ----------------------------
(***************************************************************************)
(* What the UserManager promises those who call it for a client: accounts  *)
(* that last for ever, a set of users on line, and commands that each take *)
(* effect at one instant between the request and its answer.  GETINFO      *)
(* answers INFO of a user on line at such an instant and USER_NOT_FOUND of *)
(* one off line; which address the answer carries is not promised (see     *)
(* InfoFromOwnLogins and InfoWasPublished of Connection).                 *)
(***************************************************************************)
CONSTANTS Callers,        \* the threads that serve a client each
          Commands,       \* [op, name, password, ...]: see Connection
          NoCommand,
          Address(_, _)   \* where the caller's client is reached, given its LOGIN

VARIABLES accounts, \* username -> password, for registered names
          online,   \* username -> address, for users logged in
          request,  \* the command each caller executes, or NoCommand
          answer    \* what was decided of it, or "none"

dirVars == <<accounts, online, request, answer>>

Put(f, n, v) == [m \in DOMAIN f \cup {n} |-> IF m = n THEN v ELSE f[m]]
Drop(f, n) == [m \in DOMAIN f \ {n} |-> f[m]]

Init == /\ accounts = [n \in {} |-> n]
        /\ online = [n \in {} |-> n]
        /\ request = [c \in Callers |-> NoCommand]
        /\ answer = [c \in Callers |-> "none"]

Request(c) ==
  /\ request[c] = NoCommand
  /\ request'[c] \in Commands /\ request' = [request EXCEPT ![c] = request'[c]]
  /\ UNCHANGED <<accounts, online, answer>>

Return(c) ==
  /\ answer[c] # "none"
  /\ request' = [request EXCEPT ![c] = NoCommand]
  /\ answer' = [answer EXCEPT ![c] = "none"]
  /\ UNCHANGED <<accounts, online>>

Executes(c, op) == request[c] # NoCommand /\ request[c].op = op /\ answer[c] = "none"
Say(c, a) == answer' = [answer EXCEPT ![c] = a] /\ UNCHANGED request

Register(c) ==
  LET n == request[c].name IN
  /\ Executes(c, "REGISTER")
  /\ UNCHANGED online
  /\ \/ /\ n \notin DOMAIN accounts
        /\ accounts' = Put(accounts, n, request[c].password)
        /\ Say(c, "REGISTERED")
     \/ /\ n \in DOMAIN accounts
        /\ UNCHANGED accounts
        /\ Say(c, "USER_EXISTS")

Login(c) ==
  LET n == request[c].name IN
  /\ Executes(c, "LOGIN")
  /\ UNCHANGED accounts
  /\ IF n \in DOMAIN accounts /\ accounts[n] = request[c].password
     THEN online' = Put(online, n, Address(c, request[c])) /\ Say(c, "LOGIN")
     ELSE UNCHANGED online /\ Say(c, "INVALID_CREDENTIALS")

Logout(c) ==
  LET n == request[c].name IN
  /\ Executes(c, "LOGOUT")
  /\ UNCHANGED accounts
  /\ \/ n \in DOMAIN online /\ online' = Drop(online, n) /\ Say(c, "LOGOUT")
     \/ n \notin DOMAIN online /\ UNCHANGED online /\ Say(c, "NOT_LOGGED_IN")

GetInfo(c) ==
  /\ Executes(c, "GETINFO")
  /\ UNCHANGED <<accounts, online>>
  /\ Say(c, IF request[c].name \in DOMAIN online THEN "INFO" ELSE "USER_NOT_FOUND")

Unknown(c) ==
  /\ Executes(c, "UNKNOWN")
  /\ UNCHANGED <<accounts, online>>
  /\ Say(c, "UNKNOWN_COMMAND")

Next == \E c \in Callers :
          \/ Request(c)
          \/ Register(c)
          \/ Login(c)
          \/ Logout(c)
          \/ GetInfo(c)
          \/ Unknown(c)
          \/ Return(c)

Spec == Init /\ [][Next]_dirVars
=============================================================================
