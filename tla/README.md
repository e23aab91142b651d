# A verification development for OnlineChatRoom

The repository is a chat room in C++: a **server** that keeps accounts and the
addresses of the users who are logged in, and **clients** that ask it for an
address and then chat with each other directly. This directory holds TLA+ models
of the code, configurations that check them with TLC on small instances, and
proofs, checked by TLAPS, that hold for any number of threads, tasks, users and
commands. `PROJECT.json` lists the runs, the mutants, the theorems and, per
definition, the lines of code it stands for.

## 1. The system

| Component | State | Operations | Used by |
|---|---|---|---|
| `ThreadPool` | `taskQueue_`, `stop_`, `queueMutex_`, `condition_`, the threads | `enqueue`, `workerLoop`, `~ThreadPool` | `Server` |
| `UserManager` | `userDatabase_` under `userMutex_` | `registerUser`, `loginUser`, `logoutUser`, `getActiveUsers`, `findUser` | `Connection` |
| `Connection` | `socketFd_`, `connected_`, local variables of `processData` | `handleClient`, `receiveData`, `processData`, `sendData`, `closeConnection` | tasks of the pool |
| `Server` | `running_`, `serverSocket_`, the pool, the `UserManager` | `start`/`acceptLoop`, `stop`, `~Server`/`cleanup` | `server.cpp`, `ServerTest.cpp` |
| `Client` | `running_`, two sockets, the listener thread, two threads per chat | the commands, `listenerLoop`, `chatWithClient`, `startChatSession`, `~Client` | `client.cpp` |
| Client commands (`client.cpp`) | what `recv()` returned, the address CHAT was given | REGISTER, LOGIN, LOGOUT, CHAT, EXIT against the server | the user |
| Stage 1 (`archive/stage1`) | a user file, `clientLoggedIn`, `username`, `password` | `Login`, `Register`, `Logout` of a single client, by prompts | two clients of its own |

How they interact. The accept loop enqueues one closure per accepted socket; a
worker runs it, which is a whole client session: it holds the worker until the
client leaves. All sessions call one `UserManager`. The owner of a `Server`
calls `stop()` from another thread and destroys the object. In a client the main
thread and the send thread of every chat read lines from one stdin, while the
listener thread accepts chats and receive threads print; they share sockets
by descriptor number only. Clients and server exchange text over TCP: one
`send()` per command and per answer, and each side takes what one `recv()`
returns for one command or one answer. An address that GETINFO answers is used
later, for a `connect()` to whoever listens there then.

What is hard in this code, and listed line by line as `hazards` in
`PROJECT.json`:

* wake-ups: `enqueue` signals after unlocking, `~ThreadPool` sets `stop_` and
  broadcasts without the mutex;
* state read under a lock and used after it: the pointer `findUser()` returns;
* descriptors: `close()` frees a number that another thread still holds, and it
  wakes nobody who is blocked in `accept()` or `recv()`;
* destruction while others still run: the order of `Server`'s members, tasks
  that were never started, clients that stay connected;
* limits: more clients than workers, no free descriptor, ports beyond 16 bits;
* messages without borders: a command cut in two is answered twice, from then on
  answers are out of step; a client that vanishes and a second answer kill the
  server by SIGPIPE;
* addresses that outlive their client: nobody is logged out by a disconnect;
* restarts: the first server's file outlives its process.

What makes each component correct: *ThreadPool* - every task starts once, in
order, nobody sleeps beside work, and the destructor returns. *UserManager with
Connection* - commands appear atomic, records are whole, accounts last, replies
are about the user asked for. *Server* - a connection uses its own client's
socket, no socket is lost, all clients are served, `stop()` works. *Client* - a
chat uses its own socket, ends when it is told to, and so does the program. *The
system* - an answer is to the command that was sent, nobody waits in vain, nobody
is ended by somebody else, CHAT reaches the user it names. *Stage 1* - a session
is an account's, accounts last, the server ends with its client.

## 2. The modules

| Module | Models |
|---|---|
| `TaskPool` | what a thread pool promises its owner: FIFO, at most once, one late start |
| `ThreadPool` | `ThreadPool.cpp`, one action per critical step; `ImplementsTaskPool` |
| `ThreadPoolProofs` | its theorems |
| `UserManager` | the operations on `userDatabase_` as operators, in the pieces other threads can see |
| `UserDirectory` | what the commands promise: a directory of accounts and of who is on line, each command atomic |
| `Connection` | `handleClient` and `processData` over `UserManager`; `ImplementsUserDirectory` |
| `ConnectionQuiet` | `Connection` with a history variable: the GETINFOs disturbed by a writer |
| `ConnectionProofs`, `ConnectionRefinement` | theorems about both; the second that `Connection` implements `UserDirectory` |
| `Server`, `ServerProofs` | `Server.cpp` and the sockets of `Connection.cpp` over the actions of `TaskPool`; its theorems |
| `Client`, `ClientProofs` | `Client.cpp` and the main loop of `client.cpp`: threads and descriptors; its theorems |
| `ChatSystem`, `ChatSystemProofs`, `ChatSystemRefinement` | the commands of several clients, the wire and the server over the actions of `UserDirectory`; its theorems; the third module that users see `UserDirectory` end to end |
| `UserFile` | `UserManager` of `archive/stage1/server.cpp` as operators on a file |
| `Stage1`, `Stage1Proofs` | the first server over `UserFile`, and its two clients; its theorems |
| `MCConnection`, `MCChatSystem`, `MCStage1` | instances of these for TLC: sets of commands, names and prefixes, the shipped account, symmetry (`ThreadPool`, `Server` and `Client` need none) |

Composition: `Server` uses the pool, and `ChatSystem` the directory, through
their abstract specifications, which `ThreadPool` and `Connection` are proved to
implement. `Client` has the descriptors and threads that `ChatSystem` leaves out,
`ChatSystem` the commands that are one step in `Client`.

### ThreadPool

Variables carry the names of the code without the trailing underscore. A worker's
program counter is one of the points of `workerLoop` where another thread can be
seen: at the lock, at the loop test, about to wait, waiting, about to decide,
to pop, executing. The loop test reads `stop_` and the queue in one step under
the mutex, but `WorkerCheck` and `WorkerWait` are two steps, and `Destroy`, which
does not take the mutex, may come between them: this is where the destructor's
broadcast is missed. `EnqueueLock`, `EnqueuePush`, `EnqueueSignal` are the three
parts of `enqueue`; `SpuriousWakeup` is what POSIX allows of
`pthread_cond_wait`. `Tasks` are closures, each enqueued once at most.
Producers call `enqueue` only before the destructor begins, as a C++ program must.

`lateStarts` and the other history variables record what the properties
mention and influence no action.

### UserManager and Connection

The mutex covers whole operations, so `registerUser` and the test part of login
and logout are single steps. The three assignments of a successful login or
logout are separate ones (`WriteIsLoggedIn`, `BeginWriteIP`/`EndWriteIP`,
`WritePort`), because GETINFO dereferences the pointer returned by `findUser()`
without the mutex. A read of `ipAddress` between the two halves of its assignment
yields `TornIP`, which stands for whatever a string being overwritten yields. A
`User` pointer is the name of its record: `std::unordered_map` does not move its
elements, and no operation erases one (`AccountsLast` says so). The port is
`atoi`'s int modulo 2^16. The hash is injective; nothing else is assumed of it.

`ImplementsUserDirectory` maps a login or logout to its first write, at which the
directory already shows the address the login is going to write, and a GETINFO
to its test of `isLoggedIn`. The *answer's address* is left out of
the abstract directory: it is exactly what is not atomic (`InfoWasPublished`).

### Server

The pool is used through the actions of `TaskPool` (`Submit`, `Start`, `Finish`,
`Stop`, `Close`), which `ThreadPool` is proved to implement. `apc` is the thread
in `start()`, `opc` the owner that calls `stop()`, joins that thread as
`ServerTest.cpp` does, and destroys the server: `cleanup()`, then the members in
reverse order of declaration. `table` is the process's descriptor table. A
blocked `accept()` keeps the listening socket alive, as on Linux; accepting picks
any free number, which covers kernels that reserve it at the call. `table`,
`backlog` and `peer` are not code but what the code calls. The data race on
`serverSocket_` (`stop()` writes it while `acceptLoop()` reads it) is a choice
between the two values: `AcceptCall` may come before or after `StopReset`, and an
old value read late names a closed or foreign descriptor, on which `accept()`
fails as it does on -1.

### Client

`mpc` is the main thread, `lpc` the listener, `cpc`, `spc`, `rpc` the three
threads of each chat. A line may go to any reader of stdin: `GetLine` lets every
send thread receive `quit` or anything else, including commands meant for the
main thread. A blocked `recv()` refers to the connection it began with
(`reading`), not to the number; the next call uses the number again and so may
read another chat's connection. `HandOver` includes the failure of
`pthread_create`. The end of `main` ends all threads.

Two ways out are not commands. `CommandSigPipe` and `SendSigPipe` are `send()`s to a
server or a peer that is gone: nobody handles SIGPIPE, and the process ends on the spot.
`Exit` begins `~Client()` for EXIT and for an exception: `std::stoi` in `getClientInfo`
throws on an answer without a port, and `main` catches outside its loop.
`AcceptReturn` takes any number that is free when `accept()` returns. Descriptors that the
parent process left open are `Inherited` in the table, and nobody closes them.

### ChatSystem

All processes run on one host: `client.cpp` connects to 127.0.0.1 and so does
every peer. `cpc` is where a client's main thread is (`prompt`, in `recv()`, about
to `connect()` to a peer), `up` and `down` are the commands and answers under way,
`asked` is the command the user typed, `dial` the port CHAT is going to use. A
client is started on a port that nobody listens on or its constructor throws
(`LaunchFails`). A session of the server receives (`Receive`), lets
`UserDirectory` decide (`Process`), and sends (`Send`).

*Cuts.* `ReceiveCut` is a `recv()` that ends inside a command: what has arrived
is parsed as far as it goes (`Pieces`), with empty words and what `atoi` makes of any
number of the port's first digits, and the remainder (`Rest`) is an unknown command
later. Words are model values and
`NamePrefixes` says which words are prefixes of which. `Receive` with n > 1
is a `recv()` that returns several commands, of which the first is executed - or the
second, if the first is a remainder of a line feed alone, which `iss >>` skips (`Deciding`);
`Answer` with n > 1 returns several answers, of which the first decides
success and the first INFO not hidden behind a NUL gives the port - or no port
is found, `std::stoi` throws, and the client ends (`threw`).

*Ends.* A client may end at any moment (`Leave`). A `send()` to it learns of
that (`SendReset`); one more raises SIGPIPE, which kills the server
(`SendSigPipe`). Ended processes are not started again, but another client may
take a port over, and users may log in from anywhere.

*The server's side* is the directory's contract: a command takes effect at one
instant, and the port of an INFO is one that a login of the named user has
published, or 0 (`InfoFromOwnLogins`). `published` is the history of logins.

### Stage 1

`spc` is the point of `Server::run` and `handleMessage` that the server is at:
`accept`, about to write the welcome, or in a `read()` for a command, a name or
a password. Both sides write lines and read chunks: `readFromClient(n)` takes the
first n lines that have arrived, uses one and drops the others, as the code does
with everything behind the first line end. Of the server's replies only DONE and
REFUSED are told apart. The file is empty at first, or holds the account that the
repository ships in `archive/stage1/UserDB` (`Shipped`). Names and passwords are sequences of characters, because
the file's separator `|` may be one of them: `SplitAt`, `HasName` and `HasPassword`
are what `find('|')` and `substr` do to a line of the file.

`kind` is which of two clients is connected: the one that was handed in reads a
chunk and sends a word, in turns; `client.cpp` never leaves its inner `select()`
loop and only reads. The server serves one client: when that leaves, `strchr` finds
no line end in an empty buffer, and the process dies writing to address 0
(`ReadEnd`); a `read()` that returns the beginning of a line has the same end
(`ReadPart`). `Kill` may end it at any moment, `Restart` starts it again with the file as
it is. `registered` is history: what users registered, and what was shipped.

## 3. The runs

Symmetry is used only in `ChatSystem`, where no liveness property is checked and the
temporal properties speak of single steps and treat all clients alike. Runs that check both
safety and liveness do so under one specification with fairness, which excludes no
finite behaviour. A run without deadlock check says why in its .cfg: pools,
servers and clients that have ended take no step.

| Run | Instance | Shows |
|---|---|---|
| `Pool` | 3 workers, 2 producers, 4 tasks | no pop of an empty queue; sleepers are covered by signals or awake workers; the destructor's broadcast misses one worker at most; `ThreadPool` implements `TaskPool`, so a task is in one place and one starts late at most; a queued task starts unless all workers are busy, even if tasks never end; if they end all are executed, and the destructor returns if no worker dozes off at the wrong moment |
| `Connection` | 2 connections, 2 accounts, 2 passwords, ports 5001, 5002 and 65536 | whole records; atomic commands on accounts that last; GETINFO is answered from the right record only, and with one login's address unless somebody writes to the record while it is read; nobody keeps `userMutex_` |
| `Server` | 1 worker, 3 clients, 3 descriptors | a descriptor means the same to its holder all along; no open socket is forgotten, and only the connection it belongs to closes it; one late client; `start()` returns after `stop()`, however late a client wakes it, unless it is blocked in `accept()` and nobody ever connects again; more clients than workers and than descriptors are all served |
| `Client` | 2 chats, 2 descriptors for them, or 1 | no socket is forgotten; only reused numbers confuse chats; the command and listening sockets are never hit; every receive thread ends once peers leave; EXIT ends the client, however late a peer wakes the listener, unless it is blocked and nobody ever connects again |
| `ChatSystem` | 2 clients, ports 5 and 50, user `bob` and its prefix `bo`, 1 cut | `UserDirectory` is implemented from the moment a command is sent to the moment its answer is read; commands and answers stay in step for a client of which no command was cut, and processes do not end by themselves as long as none was; CHAT never takes one running client for another; nobody waits in vain, cut or not; a user whose last login came from a client that still runs can be reached there until a command of his own, whatever others do |
| `Stage1` | 2 accounts with names and passwords `a` and `a\|a`, one of them shipped or none, 2 lines ahead | sessions are of accounts that a user registered; accounts last over kills and restarts; no mutual wait with the alternating client, although lines are dropped; the server ends with its client |

Runs that are expected to find a violation. Each is a place where the code does
other than the repository says; `findings` quotes the sentence.

| Run | The code | The sentence |
|---|---|---|
| `PoolDestructor` | a worker between test and wait misses the broadcast, the join hangs | `ThreadPool.h:26` |
| `ConnectionInfo` | GETINFO answers an address nobody published | `UserManager.h:74` |
| `ServerStop` | `close()` does not wake a blocked `accept()`: `start()` returns only if a client connects | `Server.cpp:75`, `ServerTest.cpp:89-92` |
| `ServerTeardown` | sessions use a destroyed `UserManager` | `Server.h:60`, `Connection.h:67` |
| `ClientWrongPeer` | a line typed for one peer goes to another | `README.md:95` |
| `ChatLogout` | LOGOUT carries no name: the user stays logged in | `README.md:73`, `README.md:87` |

`server.cpp` never calls `stop()`: what concerns `~Server` matters to
`ServerTest.cpp` and to any program that embeds the class.

Further behaviours of the code that the models have and no run singles out:

* one task may start after the destructor was called (`TaskPool` says one, and `AtMostOneLateStart`),
  where `ThreadPoolTest.cpp:89` says "new tasks will not start";
* `findUser` answers `nullptr` for users who are registered and off line, where
  `UserManager.h:61` says "if found" and `UserManagerTest.cpp:18` expects a pointer;
* sockets of tasks that were never started stay open after `~Server`
  (`OpenSocketsHeld` says that the abandoned queue is who holds them);
* EXIT, "Exit the application" (`README.md:111`), waits in `pthread_join` for a listener
  blocked in `accept()`, until some peer connects: `Client.cpp:32` closes it in the way that
  `ServerStop` refutes for the server, and `ExitEndsUnlessBlocked` says that this is all;
* the second half of that holds for the server as well: one connection, at any later time, ends
  the loop (`StopEndsLoopUnlessBlocked`);
* `quit` ends no connection (`README.md:109`): the receive thread, blocked in
  `recv()`, keeps it open until the peer leaves (`ReceiversEnd` needs that);
* `stop()` before `start()` is lost;
* one command cut by TCP puts its client out of step for good; its later answers
  are to earlier commands, and a vanished client of which a command was cut can
  kill the server (`AnswersInStep` and `EndsOnlyAfterCut` except exactly these);
* the first version's `client.cpp` and its server wait for each other after the
  welcome (`NoMutualWait` is about the alternating client only); an account whose name
  has a `|` cannot be used (`RegisteredCanLogin` excepts it).

### Why the bounds are enough

*Pool.* A hazard of the wait loop needs a worker that sleeps, one that is woken
and one that takes the task in between: three workers, and two producers whose
unlock and signal overlap; four tasks are more than there are workers.
*Connection.* Two threads suffice for every conflict over one record; the second
account is there so that a pointer could lead to the wrong one. 65536 is the
smallest port that is narrowed to 0. A GETINFO between two others' logins needs a third
thread, which `UndisturbedInfoIsExact` covers. *Server.* With three descriptors the listener
and two clients fill the table, the third client meets EMFILE, and the
listener's number can be reused while workers hold others; one worker makes the
pool saturated with a single client. *Client.* Two chats over two
numbers, one of which the process may have inherited (`Inheritable`): a chat may get the number
of the other while its former users are still at work, or one of its own, and in a
process with one number left accepting and dialling contend for it and may find none; the
theorems have any number of chats. *ChatSystem.* Two
clients contend for a port and for an account, and one watches the other vanish;
5 is a prefix of 50, so a cut port can be another client's; `MaxCuts` bounds the
cut commands, at most one per client. More clients are left to the theorems. *Stage1.* `MaxAhead` bounds the lines under way when a
word is typed: two are enough for a chunk with a line to drop; `MaxAccounts`
bounds the file's length.

The theorems of section 4 hold for all values of these constants; of `MaxAhead`,
`MaxAccounts` and `MaxCuts` too.

### Fairness

Weak fairness of each thread's own steps: a thread that can go on does. It is what
a scheduler gives; no strong fairness is assumed, so nothing is said of the order
in which a mutex is granted. Not assumed: that anybody sends, connects, types or
stops the server. That tasks end, that clients or peers leave is never part of
the specification of a passing run; a property that needs it says so
(`TasksEnd => ...`, `ClientsLeave => ...`, `PeersLeave => ...`). `Server` takes from
`ThreadPool` that an idle worker starts a queued task,
`QueuedTaskStartsOrPoolIsBusy`. In `Stage1` only the server's own steps are fair.
`ChatSystem` has no fairness: `WaitsForAnswer` is the invariant that leaves nothing
but a process's next step to wait for.

## 4. What is proved

`ThreadPoolProofs`, for any finite sets of workers and producers and any tasks:

* `TypeCorrect`, `NeverPopsEmpty`, `TasksOnce`, `AtMostOneLateStart` from one
  inductive invariant `IInv`. The properties are not inductive alone: that a pop
  finds a task follows from the loop test under the mutex (`TestInv`), which
  stays true only because one thread holds the mutex (`MutexInv`); a task is
  unique because tasks in hand and in the queue are disjoint and all enqueued
  (`TaskInv`); one late start because a worker past its test of `stop_` holds
  the mutex until it pops (`LateInv`).
* `NoSleeperBesideWork`: while somebody waits, the queue is no longer than the
  signals on their way plus the workers awake. The argument counts: a push adds a
  task and a signal, a pop takes a task and keeps its worker awake, a worker
  goes to sleep only at an empty queue.
* `Refinement`: `Spec => ImplementsTaskPool`, from `AbstractInit` and
  `AbstractStep` under `IInv`.
* `AtMostOneMissesBroadcast`: after the broadcast a worker can only fall asleep if it held
  the mutex between test and wait when `stop_` was set (`DozeStep`); the mutex has one owner,
  so it is one worker at most that `DestructorReturns` is lost to.

`ConnectionProofs`, for any threads, users, passwords, hosts and commands:

* `TypeCorrect`, `RecordsAreWhole`, `AccountsAreForEver`. The invariant relates
  the mutex to program counters (`OwnerInv`), says what a writer has written so
  far (`WriterInv`), and that a record nobody writes is whole (`WholeInv`);
  `RecordsWhole` is the case in which the mutex is free.

* `InfoIsOwn`: GETINFO, which reads a record without the mutex, answers only with what logins and
  logouts of the named user wrote. `SessionInv` ties the pointer a session holds
  and its half-built reply to its command; `OwnInv` says that a record, and what
  was read of it, holds only its own user's addresses, torn or not.
* `UndisturbedInfoIsExact`, about `ConnectionQuiet`: how far the refuted
  `InfoWasPublished` is from being true. A record changes only while its writer is in flight
  (`Untouched`), and a read that is disturbed by none collects the fields of one whole
  record (`QuietInv`), which one login wrote. So it would be enough if
  GETINFO held `userMutex_` from the test of `isLoggedIn` on; that `findUser()` has
  released it before does no harm.

`ConnectionRefinement`: `DirectoryRefinement` is `Spec => ImplementsUserDirectory`.
At most one record is being written, the mutex owner's (`FinalFacts`), and
`Final` says what it will hold; a login or logout takes effect at its first write,
and the remaining writes map to stuttering.

`ServerProofs`, for any workers, clients and descriptors:

* `SocketsAreOwn` and `SocketsAreHeld`: a client is in one place only - backlog,
  accept loop, queue once, one worker (`OnceInv`) - and the number of its open
  socket is the one its task captured (`NumberInv`); so whoever closes a number
  closes its own. `ListenerInv` keeps `stop()` from closing a client's.
* `AtMostOneLateClient`: the loop passes its test no more once `running_` is
  false (`LateInv`).
* `PoolIsThereForTheLoop`: the owner joins the thread in `start()` before the server
  is destroyed (`OwnerInv`), and a client is submitted once (`OnceInv`). It discharges what
  `ThreadPool` and `TaskPool` assume of their callers: no `enqueue` once the
  destructor runs, no task twice.
* `SocketsAreClosedByOwner`: `close()` is called twice on some numbers
  (`closeConnection()`, then `~Connection()`, `stop()`, then `cleanup()`), and yet a
  client's socket is closed by its own session only: the second calls use the -1
  that the first wrote (`WorkerInv`), or the listener's number (`ListenerInv`).

`ClientProofs`, for any chats and descriptors:

* `OwnSocketsAreKept`: the two long-lived sockets keep their numbers until
  `~Client` (`ExitInv`), and chats never get one (`SetupInv`), so their double
  `close()` cannot hit them.
* `SocketsAreHeld`, from `NumberInv`: an open socket has the number some chat was
  given, and the last of that chat's threads has not closed it yet.
* `ConfusionNeedsReuse`, from `AloneInv`, the property from the moment a chat has
  its socket.

`ChatSystemProofs`, for any clients, ports, words and cuts. Every step is one
client's, or the server's for one client, and leaves the rest alone (`Frame`):

* `Lockstep`, from `StepInv`: of a client none of whose commands was cut, one
  thing is under way - its command, the server's work on it, or the answer.
* `NobodyEndsByItself`: hence nothing is sent twice to a client that has gone,
  and the answer to a CHAT has a port.
* `ChatsReachTheirUser`: logins carry the port their client listens on
  (`OwnPort`), a running client goes on listening on the port it published and
  no two listen on one (`SystemInv`).
* `NobodyWaitsInVain`, from `ClientInv`, also for clients with cut commands.

`ChatSystemRefinement`, under the same assumptions:

* `EndToEndRefinement`: `Spec => UsersSeeDirectory`. `DirectoryRefinement` says that the server's
  sessions see an atomic directory; this says it of the users. A client is a
  caller from sending a command to reading its answer, so `Ask` maps to the directory's
  request, `Process` to the effect, `Answer` to the return; sending and
  receiving map to stuttering because one thing is under way at a time (`StepInv`). A
  client with a cut command sees what the server understood: the step at which
  its command is cut, and those after the server's end, are excepted.
* `ReachableUsersStay`: whoever is reachable at a running client loses that address only
  to a LOGIN as himself or, were it to work, a LOGOUT of that client. The server names no user
  in any other command it executes: a LOGOUT under way carries no name, and a piece of
  a command no more than the whole (`WordInv`), so this one holds for cut commands as well.

`Stage1Proofs`, for names and passwords of any characters:

* `AccountsLast`: a new account's line splits at the separator between its name
  and its password if the name has none (`LineOfAccount`), and a line appended
  later is nobody's first line (`LoginKept`).
* `SessionsAreAccounts`: nobody is asked for a name while logged in (`LoginInv`).
* `NobodyElseGetsIn`: every line of the file is the `AccountLine` of a registration,
  or of the shipped account (`FileInv`), and a line that accepts a name and a password is the one they make up
  (`LineOfLogin`), wherever the separator is. So an account whose name has a `|` lets in
  who splits the same line elsewhere, and nobody else.
* `AlternatingNeverBothWait`: every line that the server reads is answered, and the
  alternating client reads after each word. `client.cpp` is excepted, which only reads.

Every component has a `TypeCorrect` too. Assumptions on constants are the `ASSUME`s of
the modules: special values are not elements of the sets they are special to, sets
of threads are finite where they are counted, ports are not 0. TLC evaluates
each of them.

Five of the properties in these theorems are not in a run's .cfg. Of four a property that is
there says the same or more: `ImplementsTaskPool` of `EachTaskOnce` and `OneLateStart`,
`ImplementsUserDirectory` of `AccountsLast`, `LoggedInWasRegistered` of what a session
of `LoggedInWithAccount` may be. `PoolOutlivesLoop` rests on the owner's join alone.

Only model-checked: all liveness properties (`EveryTaskExecutes`,
`EveryClientServed`, `ServerEndsWithClient` and the like), which need fairness that
the prover cannot reason about.

## 5. What is not modelled

* TLS (`USE_OPENSSL` is not defined by the Makefile), logging, the wording of
  replies.
* Failures of `pthread_create` in the pool and inside `startChatSession`, of
  mutex calls, of memory.
* `connectToClient` and `handlePeerConnection` have no caller.
* End of file on stdin, after which the readers spin.
* Out of step clients are followed only as far as `ChatSystem`'s cuts go: one
  per client. Commands longer than the server's buffer are not distinguished from other cuts.
* Text that reads as something else: a remainder of a cut command is unknown to the server,
  though it would be a command if a name or password were a command's word
  (`Connection.cpp:211`); a LOGOUT that arrives together with the next line would read that
  line's first word as a username (`Connection.cpp:237`). In the models both are refused.
* Client and server on different hosts, and client processes that are started
  again with a port of their own choice while the old one still runs (they fail
  to bind, `LaunchFails`).
* `client.cpp` of stage 1 hangs after the welcome; nothing in the repository
  says otherwise, so no run refutes it. `client2.cpp` does not compile.
  `logoutUser` of the first server has no caller; lines longer than
  `MAX_MSG_LEN` are left out.
* Failures of the first server's file: `registerUser` (`server.cpp:73-77`) looks neither at
  the opening nor at the writing of it and returns 1; in the model the line is always there,
  so `RegisteredCanLogin` assumes a disk that takes it.
* What would follow a `read()` that ends inside a line (`server.cpp:222`): the write to
  address 0 ends the process in the model, as it does on Linux.
* The archived copies: stage 2 is the current code file by file, the server handed
  in for stage 1 differs from `archive/stage1/server.cpp` in `main()` only.

## 6. What could come next

1. Failing `pthread_create` in the pool: the constructor goes on with a handle that
   was never written, and the destructor joins it.
2. A larger part of `ChatSystem` over `Client`: the chat that follows `Dial`, with
   the descriptors and threads that `Client` has.
3. Liveness of the whole: a client that asks is answered, if earlier clients leave
   and free their workers (`EveryClientServed` composed with `WaitsForAnswer`).
4. A proof that `Connection` with the lock held over GETINFO's read would satisfy
   `InfoWasPublished`, from `Untouched`: the repaired code, beside the code.
