---------------------------- MODULE UserManager -----------------------------
(***************************************************************************)
(* UserManager.cpp: the users, in an unordered_map behind userMutex_, and  *)
(* its operations as steps of a calling thread c.  registerUser and        *)
(* findUser touch what no other thread can see outside the mutex, so each  *)
(* is one step.  The record a login or a logout rewrites may be in the     *)
(* hands of a thread that findUser() gave a pointer to: there every write  *)
(* of a field is a step, and the ipAddress, a std::string, is unreadable   *)
(* (TornIP) in the middle of its assignment.                               *)
(***************************************************************************)
EXTENDS Integers, Sequences

CONSTANTS Threads,   \* the worker threads, each serving one connection
          NoThread,  \* owner of a free mutex
          Names,     \* usernames a command can carry, "" among them
          Passwords,
          IPs,       \* addresses of clients
          NoIP,      \* the empty string
          TornIP,    \* what is read of a string while it is being assigned
          NullUser   \* nullptr

ASSUME UserManagerAssumption ==
  /\ NoThread \notin Threads
  /\ NoIP \notin IPs /\ TornIP \notin IPs /\ NoIP # TornIP
  /\ NullUser \notin Names

VARIABLES userDatabase, \* userDatabase_: username -> User, for registered names
          userMutex     \* the thread that holds userMutex_, or NoThread

userVars == <<userDatabase, userMutex>>

PortWidth == 65536
Port == 0 .. PortWidth - 1
hashPassword(p) == <<"hashed_", p>>
Hash == {hashPassword(p) : p \in Passwords}

User == [passwordHash: Hash, ipAddress: IPs \cup {NoIP, TornIP},
         port: Port, isLoggedIn: BOOLEAN]

UserTypeOK ==
  /\ DOMAIN userDatabase \subseteq Names
  /\ userDatabase \in [DOMAIN userDatabase -> User]
  /\ userMutex \in Threads \cup {NoThread}

UserInit == /\ userDatabase = [n \in {} |-> {}]
            /\ userMutex = NoThread

Registered(n) == n \in DOMAIN userDatabase
LoggedIn(n) == Registered(n) /\ userDatabase[n].isLoggedIn
getActiveUsers == {n \in DOMAIN userDatabase : userDatabase[n].isLoggedIn}

-----------------------------------------------------------------------------
(* lock_guard<mutex> lock(userMutex_): blocks while another thread has it. *)
Free == userMutex = NoThread

(* registerUser                                                            *)
Register(n, p) ==
  /\ Free
  /\ userDatabase' =
       IF Registered(n) THEN userDatabase
       ELSE [m \in DOMAIN userDatabase \cup {n} |->
               IF m = n
               THEN [passwordHash |-> hashPassword(p), ipAddress |-> NoIP,
                     port |-> 0, isLoggedIn |-> FALSE]
               ELSE userDatabase[m]]
  /\ UNCHANGED userMutex

(* Mutant: loginUser does not compare the hashes.                          *)
CredentialsAny(n, p) == Registered(n)

(* The test loginUser starts with.                                         *)
CredentialsOK(n, p) == Registered(n) /\ userDatabase[n].passwordHash = hashPassword(p)

(* Mutant: an early return that forgets to unlock.                         *)
RefuseLocked == /\ Free
                /\ userMutex' = CHOOSE c \in Threads : TRUE
                /\ UNCHANGED userDatabase

(* `return false` of loginUser and logoutUser.                             *)
Refuse == Free /\ UNCHANGED userVars

(* The writes both end with, in the order of the code; the last one ends   *)
(* the scope of the lock_guard.                                            *)
WriteIsLoggedIn(c, n, b) ==
  /\ Free
  /\ userMutex' = c
  /\ userDatabase' = [userDatabase EXCEPT ![n].isLoggedIn = b]

BeginWriteIP(n) ==
  /\ userDatabase' = [userDatabase EXCEPT ![n].ipAddress = TornIP]
  /\ UNCHANGED userMutex

(* Mutant: the lock_guard's scope ends before the port is written.         *)
EndWriteIPUnlock(n, ip) ==
  /\ userDatabase' = [userDatabase EXCEPT ![n].ipAddress = ip]
  /\ userMutex' = NoThread

EndWriteIP(n, ip) ==
  /\ userDatabase' = [userDatabase EXCEPT ![n].ipAddress = ip]
  /\ UNCHANGED userMutex

(* Mutant: the port is kept as the int it was parsed to.                   *)
WritePortWide(n, port) ==
  /\ userDatabase' = [userDatabase EXCEPT ![n].port = port]
  /\ userMutex' = NoThread

WritePort(n, port) ==
  /\ userDatabase' = [userDatabase EXCEPT ![n].port = port % PortWidth]
  /\ userMutex' = NoThread

(* Mutant: the iterator of some user on line, whatever the name.           *)
findUserAny(n) == IF getActiveUsers = {} THEN NullUser
                  ELSE CHOOSE m \in getActiveUsers : TRUE

(* findUser: the pointer it returns outlives the lock.                     *)
findUser(n) == IF LoggedIn(n) THEN n ELSE NullUser
=============================================================================
