----------------------------- MODULE ThreadPool -----------------------------
(***************************************************************************)
(* ThreadPool.cpp: a queue of tasks behind queueMutex_, worker threads     *)
(* that sleep on condition_, producers that call enqueue(), and one owner  *)
(* whose destructor sets the atomic flag stop_ WITHOUT the mutex, wakes    *)
(* everybody and joins.  Every step below is one the scheduler can be      *)
(* preempted after: a lock, an unlock, a read or a write of stop_, a       *)
(* signal.  What happens between a lock and an unlock and touches only the *)
(* queue is one step with the unlock.                                      *)
(***************************************************************************)
EXTENDS Naturals, Sequences, FiniteSets

CONSTANTS Workers,    \* the threads pthread_create'd by the constructor
          Producers,  \* threads that call enqueue(); the server has one
          Tasks,      \* the callables they hand over, each a fresh object
          NoThread,   \* owner of a free mutex
          NoTask      \* a worker's empty local variable `task`

ASSUME PoolAssumption ==
  /\ IsFiniteSet(Workers)
  /\ IsFiniteSet(Producers)
  /\ Workers \cap Producers = {}
  /\ NoThread \notin Workers \cup Producers
  /\ NoTask \notin Tasks

VARIABLES queueMutex, \* the thread that holds queueMutex_, or NoThread
          taskQueue,  \* taskQueue_, oldest task first
          stop,       \* stop_
          wpc,        \* where each worker is in workerLoop()
          task,       \* each worker's local variable `task`
          ppc,        \* where each producer is in enqueue()
          dpc,        \* where the owner is in ~ThreadPool()
          submitted,  \* history: every task pushed so far
          lateStarts  \* history: how many tasks were popped after stop_ was set

vars == <<queueMutex, taskQueue, stop, wpc, task, ppc, dpc, submitted, lateStarts>>
history == <<submitted, lateStarts>>

WorkerPC == {"lock",     \* at pthread_mutex_lock, or re-locking inside cond_wait
             "check",    \* holds the mutex, evaluates !stop_ && empty()
             "sleep",    \* holds the mutex, about to call pthread_cond_wait
             "waiting",  \* blocked on condition_, mutex released
             "decide",   \* holds the mutex, evaluates the second if (stop_)
             "pop",      \* holds the mutex, found stop_ false
             "run",      \* executes task()
             "exited"}   \* left workerLoop()
ProducerPC == {"idle", "push", "signal"}
DestructorPC == {"alive", "broadcast", "join", "destroyed"}

Queued(t) == \E i \in DOMAIN taskQueue : taskQueue[i] = t
Waiting == {w \in Workers : wpc[w] = "waiting"}
Awake == {w \in Workers : wpc[w] \in {"lock", "check", "sleep", "decide", "pop"}}
Signalling == {p \in Producers : ppc[p] = "signal"}

(* The constructor: an empty queue, and a thread per worker that is about  *)
(* to enter its loop (one not yet scheduled has not moved from there).     *)
Init == /\ queueMutex = NoThread
        /\ taskQueue = <<>>
        /\ stop = FALSE
        /\ wpc = [w \in Workers |-> "lock"]
        /\ task = [w \in Workers |-> NoTask]
        /\ ppc = [p \in Producers |-> "idle"]
        /\ dpc = "alive"
        /\ submitted = {}
        /\ lateStarts = 0

-----------------------------------------------------------------------------
(* enqueue(): lock; push and unlock; signal one waiter, if there is one.   *)
(* A pool being destroyed has no caller left: an object's member functions *)
(* may not be entered once its destructor runs (see Destroy).              *)

EnqueueLock(p) ==
  /\ ppc[p] = "idle"
  /\ dpc = "alive"
  /\ submitted # Tasks                \* bound: a finite instance runs out of tasks
  /\ queueMutex = NoThread
  /\ queueMutex' = p
  /\ ppc' = [ppc EXCEPT ![p] = "push"]
  /\ UNCHANGED <<taskQueue, stop, wpc, task, dpc, history>>

(* Mutant: an empty Task is pushed, as after one std::move too many.       *)
EnqueuePushMoved(p, t) ==
  /\ ppc[p] = "push"
  /\ t \notin submitted
  /\ taskQueue' = Append(taskQueue, NoTask)
  /\ submitted' = submitted \cup {t}
  /\ queueMutex' = NoThread
  /\ ppc' = [ppc EXCEPT ![p] = "signal"]
  /\ UNCHANGED <<stop, wpc, task, dpc, lateStarts>>

(* Mutant: the newest task is served first.                                *)
EnqueuePushFront(p, t) ==
  /\ ppc[p] = "push"
  /\ t \notin submitted
  /\ taskQueue' = <<t>> \o taskQueue
  /\ submitted' = submitted \cup {t}
  /\ queueMutex' = NoThread
  /\ ppc' = [ppc EXCEPT ![p] = "signal"]
  /\ UNCHANGED <<stop, wpc, task, dpc, lateStarts>>

EnqueuePush(p, t) ==
  /\ ppc[p] = "push"
  /\ t \notin submitted
  /\ taskQueue' = Append(taskQueue, t)
  /\ submitted' = submitted \cup {t}
  /\ queueMutex' = NoThread
  /\ ppc' = [ppc EXCEPT ![p] = "signal"]
  /\ UNCHANGED <<stop, wpc, task, dpc, lateStarts>>

(* Mutant: signals only when the queue was empty before the push.          *)
EnqueueSignalFirst(p) ==
  /\ ppc[p] = "signal"
  /\ ppc' = [ppc EXCEPT ![p] = "idle"]
  /\ \/ /\ Waiting = {} \/ Len(taskQueue) # 1
        /\ UNCHANGED wpc
     \/ /\ Len(taskQueue) = 1
        /\ \E w \in Waiting : wpc' = [wpc EXCEPT ![w] = "lock"]
  /\ UNCHANGED <<queueMutex, taskQueue, stop, task, dpc, history>>

(* Mutant: the call of pthread_cond_signal is missing.                     *)
EnqueueSignalNever(p) ==
  /\ ppc[p] = "signal"
  /\ ppc' = [ppc EXCEPT ![p] = "idle"]
  /\ UNCHANGED <<queueMutex, taskQueue, stop, wpc, task, dpc, history>>

EnqueueSignal(p) ==
  /\ ppc[p] = "signal"
  /\ ppc' = [ppc EXCEPT ![p] = "idle"]
  /\ \/ /\ Waiting = {}
        /\ UNCHANGED wpc
     \/ \E w \in Waiting : wpc' = [wpc EXCEPT ![w] = "lock"]
  /\ UNCHANGED <<queueMutex, taskQueue, stop, task, dpc, history>>

-----------------------------------------------------------------------------
(* workerLoop() of one worker.                                             *)

WorkerLock(w) ==
  /\ wpc[w] = "lock"
  /\ queueMutex = NoThread
  /\ queueMutex' = w
  /\ wpc' = [wpc EXCEPT ![w] = "check"]
  /\ UNCHANGED <<taskQueue, stop, task, ppc, dpc, history>>

(* Mutant: the wait loop does not test stop_.                              *)
WorkerCheckQueueOnly(w) ==
  /\ wpc[w] = "check"
  /\ wpc' = [wpc EXCEPT ![w] = IF taskQueue = <<>> THEN "sleep" ELSE "decide"]
  /\ UNCHANGED <<queueMutex, taskQueue, stop, task, ppc, dpc, history>>

WorkerCheck(w) ==
  /\ wpc[w] = "check"
  /\ wpc' = [wpc EXCEPT ![w] = IF ~stop /\ taskQueue = <<>> THEN "sleep" ELSE "decide"]
  /\ UNCHANGED <<queueMutex, taskQueue, stop, task, ppc, dpc, history>>

(* pthread_cond_wait releases the mutex and blocks in one atomic step.     *)
WorkerWait(w) ==
  /\ wpc[w] = "sleep"
  /\ queueMutex' = NoThread
  /\ wpc' = [wpc EXCEPT ![w] = "waiting"]
  /\ UNCHANGED <<taskQueue, stop, task, ppc, dpc, history>>

(* Mutant: `if` instead of `while` around pthread_cond_wait.               *)
SpuriousWakeupIf(w) ==
  /\ wpc[w] = "waiting"
  /\ queueMutex = NoThread
  /\ queueMutex' = w
  /\ wpc' = [wpc EXCEPT ![w] = "decide"]
  /\ UNCHANGED <<taskQueue, stop, task, ppc, dpc, history>>

(* POSIX lets pthread_cond_wait return without a signal.                   *)
SpuriousWakeup(w) ==
  /\ wpc[w] = "waiting"
  /\ wpc' = [wpc EXCEPT ![w] = "lock"]
  /\ UNCHANGED <<queueMutex, taskQueue, stop, task, ppc, dpc, history>>

WorkerDecide(w) ==
  /\ wpc[w] = "decide"
  /\ \/ /\ stop
        /\ queueMutex' = NoThread
        /\ wpc' = [wpc EXCEPT ![w] = "exited"]
     \/ /\ ~stop
        /\ wpc' = [wpc EXCEPT ![w] = "pop"]
        /\ UNCHANGED queueMutex
  /\ UNCHANGED <<taskQueue, stop, task, ppc, dpc, history>>

WorkerPop(w) ==
  /\ wpc[w] = "pop"
  /\ task' = [task EXCEPT ![w] = Head(taskQueue)]
  /\ taskQueue' = Tail(taskQueue)
  /\ queueMutex' = NoThread
  /\ wpc' = [wpc EXCEPT ![w] = "run"]
  /\ lateStarts' = IF stop THEN lateStarts + 1 ELSE lateStarts
  /\ UNCHANGED <<stop, ppc, dpc, submitted>>

(* Mutant: a worker leaves its loop after one task.                        *)
WorkerFinishOnce(w) ==
  /\ wpc[w] = "run"
  /\ task' = [task EXCEPT ![w] = NoTask]
  /\ wpc' = [wpc EXCEPT ![w] = "exited"]
  /\ UNCHANGED <<queueMutex, taskQueue, stop, ppc, dpc, history>>

(* task() returns; the loop variable `task` goes out of scope.             *)
WorkerFinish(w) ==
  /\ wpc[w] = "run"
  /\ task' = [task EXCEPT ![w] = NoTask]
  /\ wpc' = [wpc EXCEPT ![w] = "lock"]
  /\ UNCHANGED <<queueMutex, taskQueue, stop, ppc, dpc, history>>

-----------------------------------------------------------------------------
(* ~ThreadPool(): set stop_, broadcast, join every worker.                 *)

Destroy ==
  /\ dpc = "alive"
  /\ \A p \in Producers : ppc[p] = "idle"
  /\ stop' = TRUE
  /\ dpc' = "broadcast"
  /\ UNCHANGED <<queueMutex, taskQueue, wpc, task, ppc, history>>

(* Mutant: pthread_cond_signal in place of pthread_cond_broadcast.         *)
DestroySignal ==
  /\ dpc = "broadcast"
  /\ IF Waiting = {} THEN UNCHANGED wpc
     ELSE \E w \in Waiting : wpc' = [wpc EXCEPT ![w] = "lock"]
  /\ dpc' = "join"
  /\ UNCHANGED <<queueMutex, taskQueue, stop, task, ppc, history>>

DestroyBroadcast ==
  /\ dpc = "broadcast"
  /\ wpc' = [w \in Workers |-> IF wpc[w] = "waiting" THEN "lock" ELSE wpc[w]]
  /\ dpc' = "join"
  /\ UNCHANGED <<queueMutex, taskQueue, stop, task, ppc, history>>

DestroyJoin ==
  /\ dpc = "join"
  /\ \A w \in Workers : wpc[w] = "exited"
  /\ dpc' = "destroyed"
  /\ UNCHANGED <<queueMutex, taskQueue, stop, wpc, task, ppc, history>>

-----------------------------------------------------------------------------
WorkerStep(w) == \/ WorkerLock(w)
                 \/ WorkerCheck(w)
                 \/ WorkerWait(w)
                 \/ WorkerDecide(w)
                 \/ WorkerPop(w)
EnqueueReturns(p) == (\E t \in Tasks : EnqueuePush(p, t)) \/ EnqueueSignal(p)

Next == \/ \E p \in Producers : EnqueueLock(p) \/ EnqueueReturns(p)
        \/ \E w \in Workers : WorkerStep(w) \/ SpuriousWakeup(w) \/ WorkerFinish(w)
        \/ Destroy
        \/ DestroyBroadcast
        \/ DestroyJoin

Spec == Init /\ [][Next]_vars

(* Scheduling: a thread that can take a step is not left out for ever.     *)
(* Nothing is assumed of spurious wake-ups, of callers of enqueue() or of  *)
(* the owner starting the destructor, nor, in SchedSpec, of tasks ending:  *)
(* the server's tasks serve a client for as long as it stays connected.    *)
SchedFairness == /\ \A w \in Workers : WF_vars(WorkerStep(w))
                 /\ \A p \in Producers : WF_vars(EnqueueReturns(p))
                 /\ WF_vars(DestroyBroadcast \/ DestroyJoin)
SchedSpec == Spec /\ SchedFairness

(* Tasks end, as those of ThreadPoolTest.cpp do.                           *)
TasksEnd == \A w \in Workers : WF_vars(WorkerFinish(w))
FairSpec == SchedSpec /\ TasksEnd

-----------------------------------------------------------------------------
(* Every variable has its type.                                            *)
TypeOK == /\ queueMutex \in Workers \cup Producers \cup {NoThread}
          /\ taskQueue \in Seq(Tasks)
          /\ stop \in BOOLEAN
          /\ wpc \in [Workers -> WorkerPC]
          /\ task \in [Workers -> Tasks \cup {NoTask}]
          /\ ppc \in [Producers -> ProducerPC]
          /\ dpc \in DestructorPC
          /\ submitted \in SUBSET Tasks
          /\ lateStarts \in Nat

(* front() and pop() are never called on an empty taskQueue_, although the *)
(* queue is tested in one place (line 112) and popped in another (131),    *)
(* with a read of stop_ in between.                                        *)
NoPopOfEmptyQueue == \A w \in Workers : wpc[w] = "pop" => taskQueue # <<>>

(* A task is in one place only: once in the queue or in the hands of one   *)
(* worker; with that, and since a popped task is not pushed again, no task *)
(* is executed twice or by two workers.                                    *)
EachTaskOnce ==
  /\ \A i, j \in DOMAIN taskQueue : taskQueue[i] = taskQueue[j] => i = j
  /\ \A w \in Workers : task[w] # NoTask => ~Queued(task[w])
  /\ \A v, w \in Workers : task[v] = task[w] /\ v # w => task[v] = NoTask

(* enqueue() signals outside the mutex and wakes one worker at most.  Even *)
(* so no worker sleeps beside work: while one waits on condition_ and the  *)
(* pool is not stopping, every queued task has a signal on its way or an   *)
(* awake worker that will look at the queue.  A client queued behind ten   *)
(* long conversations must not be left there once a worker is idle.        *)
SleepersCovered ==
  ~stop /\ Waiting # {} =>
     Len(taskQueue) <= Cardinality(Signalling) + Cardinality(Awake)

(* stop_ is set without the mutex, so a worker between its last test of    *)
(* stop_ and the pop still starts a task; since that stretch is inside the *)
(* mutex, at most one task is started after the stop request, however many *)
(* workers and tasks there are.                                            *)
OneLateStart == lateStarts <= 1

(* The broadcast can be missed (see DestructorReturns), but by one worker  *)
(* at most, the one that held the mutex between its test of stop_ and      *)
(* pthread_cond_wait: all others leave their loops and can be joined.      *)
Dozes(w) == wpc[w] \in {"sleep", "waiting"}
OneMissesBroadcast ==
  dpc \in {"join", "destroyed"} => \A v, w \in Workers : Dozes(v) /\ Dozes(w) => v = w

(* The pool implements what TaskPool promises.                             *)
Abstract == INSTANCE TaskPool WITH
              Threads <- Workers,
              pending <- taskQueue,
              running <- task,
              phase   <- CASE dpc = "alive" -> "open"
                           [] dpc = "destroyed" -> "closed"
                           [] OTHER -> IF lateStarts = 0 THEN "stopping" ELSE "drained"
ImplementsTaskPool == Abstract!Spec

(* A queued task is started, or every worker becomes busy with another     *)
(* one, or the pool is destroyed; nothing is assumed of tasks ending.      *)
QueuedTaskStartsOrPoolIsBusy ==
  \A t \in Tasks :
     Queued(t) ~> \/ ~Queued(t)
                  \/ \A w \in Workers : wpc[w] = "run"
                  \/ stop

(* Test ExecutesAllTasks: with tasks that end, every task enqueued into a  *)
(* pool that is not destroyed is executed to its end.                      *)
EveryTaskExecutes ==
  TasksEnd => \A t \in Tasks :
     t \in submitted ~> \/ ~Queued(t) /\ \A w \in Workers : task[w] # t
                       \/ stop

(* If tasks end and the broadcast finds no worker on its way from the test *)
(* of stop_ into pthread_cond_wait, the destructor returns.                *)
DestructorReturnsIfNoneDozesOff ==
  TasksEnd => (dpc = "join" /\ \A w \in Workers : ~Dozes(w))
                 ~> dpc = "destroyed"

(* ThreadPool.h: the destructor notifies the workers to stop and joins     *)
(* them all.  Refuted: a worker that tested stop_ before it was set and    *)
(* waits after the broadcast is woken by nobody.                           *)
DestructorReturns == dpc = "broadcast" ~> dpc = "destroyed"
=============================================================================
