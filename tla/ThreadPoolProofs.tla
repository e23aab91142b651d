-------------------------- MODULE ThreadPoolProofs --------------------------
(***************************************************************************)
(* The safety properties of ThreadPool, proved for any finite number of    *)
(* workers, producers and tasks.                                           *)
(***************************************************************************)
EXTENDS ThreadPool, FiniteSetTheorems, TLAPS

(* queueMutex_ is held exactly by the thread that is between its lock and  *)
(* its unlock.                                                             *)
Locked == {"check", "sleep", "decide", "pop"}
MutexInv ==
  /\ \A w \in Workers : wpc[w] \in Locked <=> queueMutex = w
  /\ \A p \in Producers : ppc[p] = "push" <=> queueMutex = p

(* What a worker that holds the mutex knows from its tests.                *)
TestInv ==
  \A w \in Workers :
    /\ wpc[w] = "sleep" => taskQueue = <<>>
    /\ wpc[w] = "decide" => stop \/ taskQueue # <<>>
    /\ wpc[w] = "pop" => taskQueue # <<>>

(* A worker has a task while it runs it; tasks at hand were submitted.     *)
TaskInv ==
  /\ \A w \in Workers : wpc[w] = "run" <=> task[w] # NoTask
  /\ \A w \in Workers : task[w] # NoTask => task[w] \in submitted
  /\ \A i \in DOMAIN taskQueue : taskQueue[i] \in submitted

(* The destructor's progress; no caller is left in enqueue() by then.      *)
StopInv ==
  /\ stop <=> dpc # "alive"
  /\ stop => \A p \in Producers : ppc[p] = "idle"
  /\ dpc = "destroyed" => \A w \in Workers : wpc[w] = "exited"

(* The late start is used up by the worker that was about to pop.          *)
LateInv ==
  /\ ~stop => lateStarts = 0
  /\ lateStarts <= 1
  /\ lateStarts = 1 => \A w \in Workers : wpc[w] # "pop"

IInv == /\ TypeOK
        /\ MutexInv
        /\ TestInv
        /\ TaskInv
        /\ EachTaskOnce
        /\ StopInv
        /\ LateInv

-----------------------------------------------------------------------------
(* Every initial state satisfies the inductive invariant.                  *)
LEMMA InitIInv == Init => IInv
<1> SUFFICES ASSUME Init PROVE IInv
  OBVIOUS
<1> USE PoolAssumption DEF Init
<1>1. TypeOK
  <2>1. taskQueue \in Seq(Tasks)
    OBVIOUS
  <2>2. wpc \in [Workers -> WorkerPC] /\ task \in [Workers -> Tasks \cup {NoTask}]
    BY DEF WorkerPC
  <2>3. ppc \in [Producers -> ProducerPC] /\ dpc \in DestructorPC
    BY DEF ProducerPC, DestructorPC
  <2>4. QED
    BY <2>1, <2>2, <2>3 DEF TypeOK
<1>2. MutexInv
  BY DEF MutexInv, Locked
<1>3. TestInv
  BY DEF TestInv
<1>4. TaskInv
  BY DEF TaskInv
<1>5. EachTaskOnce
  BY DEF EachTaskOnce
<1>6. StopInv
  BY DEF StopInv
<1>7. LateInv
  BY DEF LateInv
<1>8. QED
  BY <1>1, <1>2, <1>3, <1>4, <1>5, <1>6, <1>7 DEF IInv

(* Types are kept: what is popped is a task, because the queue is not empty. *)
LEMMA TypeStep ==
  ASSUME TypeOK, TestInv, [Next]_vars
  PROVE  TypeOK'
<1> USE PoolAssumption DEF TypeOK, TestInv, WorkerPC, ProducerPC, DestructorPC
<1>1. ASSUME NEW p \in Producers, EnqueueLock(p) PROVE TypeOK'
  BY <1>1 DEF EnqueueLock, vars, history
<1>2. ASSUME NEW p \in Producers, NEW t \in Tasks, EnqueuePush(p, t) PROVE TypeOK'
  BY <1>2 DEF EnqueuePush, vars, history
<1>3. ASSUME NEW p \in Producers, EnqueueSignal(p) PROVE TypeOK'
  BY <1>3 DEF EnqueueSignal, Waiting, vars, history
<1>4. ASSUME NEW w \in Workers, WorkerLock(w) PROVE TypeOK'
  BY <1>4 DEF WorkerLock, vars, history
<1>5. ASSUME NEW w \in Workers, WorkerCheck(w) PROVE TypeOK'
  BY <1>5 DEF WorkerCheck, vars, history
<1>6. ASSUME NEW w \in Workers, WorkerWait(w) PROVE TypeOK'
  BY <1>6 DEF WorkerWait, vars, history
<1>7. ASSUME NEW w \in Workers, WorkerDecide(w) PROVE TypeOK'
  BY <1>7 DEF WorkerDecide, vars, history
<1>8. ASSUME NEW w \in Workers, WorkerPop(w) PROVE TypeOK'
  BY <1>8 DEF WorkerPop, vars, history
<1>9. ASSUME NEW w \in Workers, SpuriousWakeup(w) PROVE TypeOK'
  BY <1>9 DEF SpuriousWakeup, vars, history
<1>10. ASSUME NEW w \in Workers, WorkerFinish(w) PROVE TypeOK'
  BY <1>10 DEF WorkerFinish, vars, history
<1>11. ASSUME Destroy PROVE TypeOK'
  BY <1>11 DEF Destroy, vars, history
<1>12. ASSUME DestroyBroadcast PROVE TypeOK'
  BY <1>12 DEF DestroyBroadcast, vars, history
<1>13. ASSUME DestroyJoin PROVE TypeOK'
  BY <1>13 DEF DestroyJoin, vars, history
<1>14. ASSUME UNCHANGED vars PROVE TypeOK'
  BY <1>14 DEF vars
<1>15. QED
  BY <1>1, <1>2, <1>3, <1>4, <1>5, <1>6, <1>7, <1>8, <1>9, <1>10, <1>11, <1>12, <1>13, <1>14 DEF Next, WorkerStep, EnqueueReturns

(* The mutex has one owner, the thread inside the critical section.        *)
LEMMA MutexStep ==
  ASSUME TypeOK, MutexInv, [Next]_vars
  PROVE  MutexInv'
<1> USE PoolAssumption DEF TypeOK, MutexInv, Locked, WorkerPC, ProducerPC
<1>1. ASSUME NEW p \in Producers, EnqueueLock(p) PROVE MutexInv'
  BY <1>1 DEF EnqueueLock, vars, history
<1>2. ASSUME NEW p \in Producers, NEW t \in Tasks, EnqueuePush(p, t) PROVE MutexInv'
  BY <1>2 DEF EnqueuePush, vars, history
<1>3. ASSUME NEW p \in Producers, EnqueueSignal(p) PROVE MutexInv'
  BY <1>3 DEF EnqueueSignal, Waiting, vars, history
<1>4. ASSUME NEW w \in Workers, WorkerLock(w) PROVE MutexInv'
  BY <1>4 DEF WorkerLock, vars, history
<1>5. ASSUME NEW w \in Workers, WorkerCheck(w) PROVE MutexInv'
  BY <1>5 DEF WorkerCheck, vars, history
<1>6. ASSUME NEW w \in Workers, WorkerWait(w) PROVE MutexInv'
  BY <1>6 DEF WorkerWait, vars, history
<1>7. ASSUME NEW w \in Workers, WorkerDecide(w) PROVE MutexInv'
  BY <1>7 DEF WorkerDecide, vars, history
<1>8. ASSUME NEW w \in Workers, WorkerPop(w) PROVE MutexInv'
  BY <1>8 DEF WorkerPop, vars, history
<1>9. ASSUME NEW w \in Workers, SpuriousWakeup(w) PROVE MutexInv'
  BY <1>9 DEF SpuriousWakeup, vars, history
<1>10. ASSUME NEW w \in Workers, WorkerFinish(w) PROVE MutexInv'
  BY <1>10 DEF WorkerFinish, vars, history
<1>11. ASSUME Destroy PROVE MutexInv'
  BY <1>11 DEF Destroy, vars, history
<1>12. ASSUME DestroyBroadcast PROVE MutexInv'
  BY <1>12 DEF DestroyBroadcast, vars, history
<1>13. ASSUME DestroyJoin PROVE MutexInv'
  BY <1>13 DEF DestroyJoin, vars, history
<1>14. ASSUME UNCHANGED vars PROVE MutexInv'
  BY <1>14 DEF vars
<1>15. QED
  BY <1>1, <1>2, <1>3, <1>4, <1>5, <1>6, <1>7, <1>8, <1>9, <1>10, <1>11, <1>12, <1>13, <1>14 DEF Next, WorkerStep, EnqueueReturns

(* Only the owner of the mutex changes the queue, so the tests stay true.  *)
LEMMA TestStep ==
  ASSUME TypeOK, MutexInv, TestInv, [Next]_vars
  PROVE  TestInv'
<1> USE PoolAssumption DEF TypeOK, MutexInv, Locked, TestInv
<1>1. ASSUME NEW p \in Producers, EnqueueLock(p) PROVE TestInv'
  BY <1>1 DEF EnqueueLock, vars, history
<1>2. ASSUME NEW p \in Producers, NEW t \in Tasks, EnqueuePush(p, t) PROVE TestInv'
  BY <1>2 DEF EnqueuePush, vars, history
<1>3. ASSUME NEW p \in Producers, EnqueueSignal(p) PROVE TestInv'
  BY <1>3 DEF EnqueueSignal, Waiting, vars, history
<1>4. ASSUME NEW w \in Workers, WorkerLock(w) PROVE TestInv'
  BY <1>4 DEF WorkerLock, vars, history
<1>5. ASSUME NEW w \in Workers, WorkerCheck(w) PROVE TestInv'
  BY <1>5 DEF WorkerCheck, vars, history
<1>6. ASSUME NEW w \in Workers, WorkerWait(w) PROVE TestInv'
  BY <1>6 DEF WorkerWait, vars, history
<1>7. ASSUME NEW w \in Workers, WorkerDecide(w) PROVE TestInv'
  BY <1>7 DEF WorkerDecide, vars, history
<1>8. ASSUME NEW w \in Workers, WorkerPop(w) PROVE TestInv'
  BY <1>8 DEF WorkerPop, vars, history
<1>9. ASSUME NEW w \in Workers, SpuriousWakeup(w) PROVE TestInv'
  BY <1>9 DEF SpuriousWakeup, vars, history
<1>10. ASSUME NEW w \in Workers, WorkerFinish(w) PROVE TestInv'
  BY <1>10 DEF WorkerFinish, vars, history
<1>11. ASSUME Destroy PROVE TestInv'
  BY <1>11 DEF Destroy, vars, history
<1>12. ASSUME DestroyBroadcast PROVE TestInv'
  BY <1>12 DEF DestroyBroadcast, vars, history
<1>13. ASSUME DestroyJoin PROVE TestInv'
  BY <1>13 DEF DestroyJoin, vars, history
<1>14. ASSUME UNCHANGED vars PROVE TestInv'
  BY <1>14 DEF vars
<1>15. QED
  BY <1>1, <1>2, <1>3, <1>4, <1>5, <1>6, <1>7, <1>8, <1>9, <1>10, <1>11, <1>12, <1>13, <1>14 DEF Next, WorkerStep, EnqueueReturns

(* Tasks at hand and tasks queued are submitted ones.                      *)
LEMMA TaskStep ==
  ASSUME TypeOK, TestInv, TaskInv, [Next]_vars
  PROVE  TaskInv'
<1> USE PoolAssumption DEF TypeOK, TestInv, TaskInv
<1>1. ASSUME NEW p \in Producers, EnqueueLock(p) PROVE TaskInv'
  BY <1>1 DEF EnqueueLock, vars, history
<1>2. ASSUME NEW p \in Producers, NEW t \in Tasks, EnqueuePush(p, t) PROVE TaskInv'
  BY <1>2 DEF EnqueuePush, vars, history
<1>3. ASSUME NEW p \in Producers, EnqueueSignal(p) PROVE TaskInv'
  BY <1>3 DEF EnqueueSignal, Waiting, vars, history
<1>4. ASSUME NEW w \in Workers, WorkerLock(w) PROVE TaskInv'
  BY <1>4 DEF WorkerLock, vars, history
<1>5. ASSUME NEW w \in Workers, WorkerCheck(w) PROVE TaskInv'
  BY <1>5 DEF WorkerCheck, vars, history
<1>6. ASSUME NEW w \in Workers, WorkerWait(w) PROVE TaskInv'
  BY <1>6 DEF WorkerWait, vars, history
<1>7. ASSUME NEW w \in Workers, WorkerDecide(w) PROVE TaskInv'
  BY <1>7 DEF WorkerDecide, vars, history
<1>8. ASSUME NEW w \in Workers, WorkerPop(w) PROVE TaskInv'
  BY <1>8 DEF WorkerPop, vars, history
<1>9. ASSUME NEW w \in Workers, SpuriousWakeup(w) PROVE TaskInv'
  BY <1>9 DEF SpuriousWakeup, vars, history
<1>10. ASSUME NEW w \in Workers, WorkerFinish(w) PROVE TaskInv'
  BY <1>10 DEF WorkerFinish, vars, history
<1>11. ASSUME Destroy PROVE TaskInv'
  BY <1>11 DEF Destroy, vars, history
<1>12. ASSUME DestroyBroadcast PROVE TaskInv'
  BY <1>12 DEF DestroyBroadcast, vars, history
<1>13. ASSUME DestroyJoin PROVE TaskInv'
  BY <1>13 DEF DestroyJoin, vars, history
<1>14. ASSUME UNCHANGED vars PROVE TaskInv'
  BY <1>14 DEF vars
<1>15. QED
  BY <1>1, <1>2, <1>3, <1>4, <1>5, <1>6, <1>7, <1>8, <1>9, <1>10, <1>11, <1>12, <1>13, <1>14 DEF Next, WorkerStep, EnqueueReturns

(* A submitted task is not pushed again and a popped one leaves the queue. *)
LEMMA OnceStep ==
  ASSUME TypeOK, TestInv, TaskInv, EachTaskOnce, [Next]_vars
  PROVE  EachTaskOnce'
<1> USE PoolAssumption DEF TypeOK, TestInv, TaskInv, EachTaskOnce, Queued
<1>1. ASSUME NEW p \in Producers, EnqueueLock(p) PROVE EachTaskOnce'
  BY <1>1 DEF EnqueueLock, vars, history
<1>2. ASSUME NEW p \in Producers, NEW t \in Tasks, EnqueuePush(p, t) PROVE EachTaskOnce'
  BY <1>2 DEF EnqueuePush, vars, history
<1>3. ASSUME NEW p \in Producers, EnqueueSignal(p) PROVE EachTaskOnce'
  BY <1>3 DEF EnqueueSignal, Waiting, vars, history
<1>4. ASSUME NEW w \in Workers, WorkerLock(w) PROVE EachTaskOnce'
  BY <1>4 DEF WorkerLock, vars, history
<1>5. ASSUME NEW w \in Workers, WorkerCheck(w) PROVE EachTaskOnce'
  BY <1>5 DEF WorkerCheck, vars, history
<1>6. ASSUME NEW w \in Workers, WorkerWait(w) PROVE EachTaskOnce'
  BY <1>6 DEF WorkerWait, vars, history
<1>7. ASSUME NEW w \in Workers, WorkerDecide(w) PROVE EachTaskOnce'
  BY <1>7 DEF WorkerDecide, vars, history
<1>8. ASSUME NEW w \in Workers, WorkerPop(w) PROVE EachTaskOnce'
  BY <1>8 DEF WorkerPop, vars, history
<1>9. ASSUME NEW w \in Workers, SpuriousWakeup(w) PROVE EachTaskOnce'
  BY <1>9 DEF SpuriousWakeup, vars, history
<1>10. ASSUME NEW w \in Workers, WorkerFinish(w) PROVE EachTaskOnce'
  BY <1>10 DEF WorkerFinish, vars, history
<1>11. ASSUME Destroy PROVE EachTaskOnce'
  BY <1>11 DEF Destroy, vars, history
<1>12. ASSUME DestroyBroadcast PROVE EachTaskOnce'
  BY <1>12 DEF DestroyBroadcast, vars, history
<1>13. ASSUME DestroyJoin PROVE EachTaskOnce'
  BY <1>13 DEF DestroyJoin, vars, history
<1>14. ASSUME UNCHANGED vars PROVE EachTaskOnce'
  BY <1>14 DEF vars
<1>15. QED
  BY <1>1, <1>2, <1>3, <1>4, <1>5, <1>6, <1>7, <1>8, <1>9, <1>10, <1>11, <1>12, <1>13, <1>14 DEF Next, WorkerStep, EnqueueReturns

(* stop_ is set by the destructor, which excludes callers of enqueue().    *)
LEMMA StopStep ==
  ASSUME TypeOK, StopInv, [Next]_vars
  PROVE  StopInv'
<1> USE PoolAssumption DEF TypeOK, StopInv
<1>1. ASSUME NEW p \in Producers, EnqueueLock(p) PROVE StopInv'
  BY <1>1 DEF EnqueueLock, vars, history
<1>2. ASSUME NEW p \in Producers, NEW t \in Tasks, EnqueuePush(p, t) PROVE StopInv'
  BY <1>2 DEF EnqueuePush, vars, history
<1>3. ASSUME NEW p \in Producers, EnqueueSignal(p) PROVE StopInv'
  BY <1>3 DEF EnqueueSignal, Waiting, vars, history
<1>4. ASSUME NEW w \in Workers, WorkerLock(w) PROVE StopInv'
  BY <1>4 DEF WorkerLock, vars, history
<1>5. ASSUME NEW w \in Workers, WorkerCheck(w) PROVE StopInv'
  BY <1>5 DEF WorkerCheck, vars, history
<1>6. ASSUME NEW w \in Workers, WorkerWait(w) PROVE StopInv'
  BY <1>6 DEF WorkerWait, vars, history
<1>7. ASSUME NEW w \in Workers, WorkerDecide(w) PROVE StopInv'
  BY <1>7 DEF WorkerDecide, vars, history
<1>8. ASSUME NEW w \in Workers, WorkerPop(w) PROVE StopInv'
  BY <1>8 DEF WorkerPop, vars, history
<1>9. ASSUME NEW w \in Workers, SpuriousWakeup(w) PROVE StopInv'
  BY <1>9 DEF SpuriousWakeup, vars, history
<1>10. ASSUME NEW w \in Workers, WorkerFinish(w) PROVE StopInv'
  BY <1>10 DEF WorkerFinish, vars, history
<1>11. ASSUME Destroy PROVE StopInv'
  BY <1>11 DEF Destroy, vars, history
<1>12. ASSUME DestroyBroadcast PROVE StopInv'
  BY <1>12 DEF DestroyBroadcast, vars, history
<1>13. ASSUME DestroyJoin PROVE StopInv'
  BY <1>13 DEF DestroyJoin, vars, history
<1>14. ASSUME UNCHANGED vars PROVE StopInv'
  BY <1>14 DEF vars
<1>15. QED
  BY <1>1, <1>2, <1>3, <1>4, <1>5, <1>6, <1>7, <1>8, <1>9, <1>10, <1>11, <1>12, <1>13, <1>14 DEF Next, WorkerStep, EnqueueReturns

(* Two workers are never both about to pop.                                *)
LEMMA LateStep ==
  ASSUME TypeOK, MutexInv, LateInv, [Next]_vars
  PROVE  LateInv'
<1> USE PoolAssumption DEF TypeOK, MutexInv, Locked, LateInv
<1>1. ASSUME NEW p \in Producers, EnqueueLock(p) PROVE LateInv'
  BY <1>1 DEF EnqueueLock, vars, history
<1>2. ASSUME NEW p \in Producers, NEW t \in Tasks, EnqueuePush(p, t) PROVE LateInv'
  BY <1>2 DEF EnqueuePush, vars, history
<1>3. ASSUME NEW p \in Producers, EnqueueSignal(p) PROVE LateInv'
  BY <1>3 DEF EnqueueSignal, Waiting, vars, history
<1>4. ASSUME NEW w \in Workers, WorkerLock(w) PROVE LateInv'
  BY <1>4 DEF WorkerLock, vars, history
<1>5. ASSUME NEW w \in Workers, WorkerCheck(w) PROVE LateInv'
  BY <1>5 DEF WorkerCheck, vars, history
<1>6. ASSUME NEW w \in Workers, WorkerWait(w) PROVE LateInv'
  BY <1>6 DEF WorkerWait, vars, history
<1>7. ASSUME NEW w \in Workers, WorkerDecide(w) PROVE LateInv'
  BY <1>7 DEF WorkerDecide, vars, history
<1>8. ASSUME NEW w \in Workers, WorkerPop(w) PROVE LateInv'
  BY <1>8 DEF WorkerPop, vars, history
<1>9. ASSUME NEW w \in Workers, SpuriousWakeup(w) PROVE LateInv'
  BY <1>9 DEF SpuriousWakeup, vars, history
<1>10. ASSUME NEW w \in Workers, WorkerFinish(w) PROVE LateInv'
  BY <1>10 DEF WorkerFinish, vars, history
<1>11. ASSUME Destroy PROVE LateInv'
  BY <1>11 DEF Destroy, vars, history
<1>12. ASSUME DestroyBroadcast PROVE LateInv'
  BY <1>12 DEF DestroyBroadcast, vars, history
<1>13. ASSUME DestroyJoin PROVE LateInv'
  BY <1>13 DEF DestroyJoin, vars, history
<1>14. ASSUME UNCHANGED vars PROVE LateInv'
  BY <1>14 DEF vars
<1>15. QED
  BY <1>1, <1>2, <1>3, <1>4, <1>5, <1>6, <1>7, <1>8, <1>9, <1>10, <1>11, <1>12, <1>13, <1>14 DEF Next, WorkerStep, EnqueueReturns

-----------------------------------------------------------------------------
(* The invariant is inductive ...                                          *)
LEMMA InductiveIInv == IInv /\ [Next]_vars => IInv'
  BY TypeStep, MutexStep, TestStep, TaskStep, OnceStep, StopStep, LateStep DEF IInv

(* ... and so holds in every reachable state.                              *)
THEOREM Invariance == Spec => []IInv
  BY InitIInv, InductiveIInv, PTL DEF Spec

(* Every variable of the pool has its type.                                *)
THEOREM TypeCorrect == Spec => []TypeOK
<1>1. IInv => TypeOK
  BY DEF IInv
<1>2. QED
  BY <1>1, Invariance, PTL

(* front() and pop() are never called on an empty queue, however many      *)
(* workers compete for a task.                                             *)
THEOREM NeverPopsEmpty == Spec => []NoPopOfEmptyQueue
<1>1. IInv => NoPopOfEmptyQueue
  BY DEF IInv, TestInv, NoPopOfEmptyQueue
<1>2. QED
  BY <1>1, Invariance, PTL

(* No task is queued twice, nor queued and executed, nor executed by two   *)
(* workers.                                                                *)
THEOREM TasksOnce == Spec => []EachTaskOnce
<1>1. IInv => EachTaskOnce
  BY DEF IInv
<1>2. QED
  BY <1>1, Invariance, PTL

(* One task at most is started after ~ThreadPool() set stop_.              *)
THEOREM AtMostOneLateStart == Spec => []OneLateStart
<1>1. IInv => OneLateStart
  BY DEF IInv, LateInv, OneLateStart
<1>2. QED
  BY <1>1, Invariance, PTL

-----------------------------------------------------------------------------
(* Once stop_ is set nobody goes to sleep any more, and the broadcast wakes *)
(* all but the one worker that holds the mutex then.                       *)
LEMMA DozeStep ==
  ASSUME IInv, OneMissesBroadcast, [Next]_vars
  PROVE  OneMissesBroadcast'
<1> USE PoolAssumption DEF IInv, TypeOK, MutexInv, Locked, StopInv, OneMissesBroadcast, Dozes
<1>1. ASSUME NEW p \in Producers, EnqueueLock(p) PROVE OneMissesBroadcast'
  BY <1>1 DEF EnqueueLock, vars, history
<1>2. ASSUME NEW p \in Producers, NEW t \in Tasks, EnqueuePush(p, t) PROVE OneMissesBroadcast'
  BY <1>2 DEF EnqueuePush, vars, history
<1>3. ASSUME NEW p \in Producers, EnqueueSignal(p) PROVE OneMissesBroadcast'
  BY <1>3 DEF EnqueueSignal, Waiting, vars, history
<1>4. ASSUME NEW w \in Workers, WorkerLock(w) PROVE OneMissesBroadcast'
  BY <1>4 DEF WorkerLock, vars, history
<1>5. ASSUME NEW w \in Workers, WorkerCheck(w) PROVE OneMissesBroadcast'
  BY <1>5 DEF WorkerCheck, vars, history
<1>6. ASSUME NEW w \in Workers, WorkerWait(w) PROVE OneMissesBroadcast'
  BY <1>6 DEF WorkerWait, vars, history
<1>7. ASSUME NEW w \in Workers, WorkerDecide(w) PROVE OneMissesBroadcast'
  BY <1>7 DEF WorkerDecide, vars, history
<1>8. ASSUME NEW w \in Workers, WorkerPop(w) PROVE OneMissesBroadcast'
  BY <1>8 DEF WorkerPop, vars, history
<1>9. ASSUME NEW w \in Workers, SpuriousWakeup(w) PROVE OneMissesBroadcast'
  BY <1>9 DEF SpuriousWakeup, vars, history
<1>10. ASSUME NEW w \in Workers, WorkerFinish(w) PROVE OneMissesBroadcast'
  BY <1>10 DEF WorkerFinish, vars, history
<1>11. ASSUME Destroy PROVE OneMissesBroadcast'
  BY <1>11 DEF Destroy, vars, history
<1>12. ASSUME DestroyBroadcast PROVE OneMissesBroadcast'
  BY <1>12 DEF DestroyBroadcast, vars, history
<1>13. ASSUME DestroyJoin PROVE OneMissesBroadcast'
  BY <1>13 DEF DestroyJoin, vars, history
<1>14. ASSUME UNCHANGED vars PROVE OneMissesBroadcast'
  BY <1>14 DEF vars
<1>15. QED
  BY <1>1, <1>2, <1>3, <1>4, <1>5, <1>6, <1>7, <1>8, <1>9, <1>10, <1>11, <1>12, <1>13, <1>14 DEF Next, WorkerStep, EnqueueReturns

(* After the broadcast one worker at most sleeps: the lost wake-up that    *)
(* makes ~ThreadPool hang is one worker's, however many there are.         *)
THEOREM AtMostOneMissesBroadcast == Spec => []OneMissesBroadcast
<1>1. Init => OneMissesBroadcast
  BY DEF Init, OneMissesBroadcast
<1>2. IInv /\ OneMissesBroadcast /\ [Next]_vars => OneMissesBroadcast'
  BY DozeStep
<1>3. QED
  BY <1>1, <1>2, Invariance, PTL DEF Spec

-----------------------------------------------------------------------------
(* The sets counted by SleepersCovered are finite.                         *)
LEMMA FiniteCounts ==
  /\ IsFiniteSet(Signalling) /\ Cardinality(Signalling) \in Nat
  /\ IsFiniteSet(Awake) /\ Cardinality(Awake) \in Nat
<1>1. Signalling \subseteq Producers /\ Awake \subseteq Workers
  BY DEF Signalling, Awake
<1>2. IsFiniteSet(Signalling) /\ IsFiniteSet(Awake)
  BY <1>1, PoolAssumption, FS_Subset
<1>3. QED
  BY <1>2, FS_CardinalityType

(* A push brings its signal, a signal an awake worker, and a worker that   *)
(* goes to sleep has seen an empty queue.                                  *)
LEMMA SleepersStep ==
  ASSUME IInv, SleepersCovered, [Next]_vars
  PROVE  SleepersCovered'
<1> USE PoolAssumption, FiniteCounts DEF IInv, TypeOK, WorkerPC, ProducerPC
<1> DEFINE Count == Cardinality(Signalling) + Cardinality(Awake)
<1>0. SUFFICES ASSUME ~stop', Waiting' # {} PROVE Len(taskQueue') <= Count'
  BY DEF SleepersCovered
<1>1. ASSUME NEW p \in Producers, EnqueueLock(p) PROVE Len(taskQueue') <= Count'
  <2>1. Signalling' = Signalling /\ Awake' = Awake /\ Waiting' = Waiting
    BY <1>1 DEF EnqueueLock, Signalling, Awake, Waiting
  <2>2. QED
    BY <1>0, <1>1, <2>1 DEF EnqueueLock, SleepersCovered
<1>2. ASSUME NEW p \in Producers, NEW t \in Tasks, EnqueuePush(p, t)
      PROVE  Len(taskQueue') <= Count'
  <2>1. Signalling' = Signalling \cup {p} /\ p \notin Signalling
    BY <1>2 DEF EnqueuePush, Signalling
  <2>2. Awake' = Awake /\ Waiting' = Waiting /\ stop' = stop
    BY <1>2 DEF EnqueuePush, Awake, Waiting
  <2>3. Cardinality(Signalling') = Cardinality(Signalling) + 1
    BY <2>1, FS_AddElement
  <2>4. Len(taskQueue') = Len(taskQueue) + 1
    BY <1>2 DEF EnqueuePush
  <2>5. Len(taskQueue) <= Count /\ Len(taskQueue) \in Nat
    BY <1>0, <2>2 DEF SleepersCovered
  <2>6. QED
    BY <2>2, <2>3, <2>4, <2>5
<1>3. ASSUME NEW p \in Producers, EnqueueSignal(p) PROVE Len(taskQueue') <= Count'
  <2>1. Waiting # {}
    BY <1>0, <1>3 DEF EnqueueSignal, Waiting
  <2>2. PICK w \in Waiting : wpc' = [wpc EXCEPT ![w] = "lock"]
    BY <1>3, <2>1 DEF EnqueueSignal
  <2>3. Signalling' = Signalling \ {p} /\ p \in Signalling
    BY <1>3 DEF EnqueueSignal, Signalling
  <2>4. Awake' = Awake \cup {w} /\ w \notin Awake
    BY <2>2 DEF Awake, Waiting
  <2>5. /\ Cardinality(Signalling') = Cardinality(Signalling) - 1
        /\ Cardinality(Awake') = Cardinality(Awake) + 1
    BY <2>3, <2>4, FS_AddElement, FS_RemoveElement
  <2>6. taskQueue' = taskQueue /\ stop' = stop
    BY <1>3 DEF EnqueueSignal
  <2>7. Len(taskQueue) <= Count /\ Len(taskQueue) \in Nat
    BY <1>0, <2>1, <2>6 DEF SleepersCovered
  <2>8. QED
    BY <2>5, <2>6, <2>7
<1>4. ASSUME NEW w \in Workers, WorkerLock(w) \/ WorkerCheck(w)
      PROVE  Len(taskQueue') <= Count'
  <2>1. Signalling' = Signalling /\ Awake' = Awake /\ Waiting' = Waiting
    BY <1>4 DEF WorkerLock, WorkerCheck, Signalling, Awake, Waiting
  <2>2. QED
    BY <1>0, <1>4, <2>1 DEF WorkerLock, WorkerCheck, SleepersCovered
<1>5. ASSUME NEW w \in Workers, WorkerWait(w) PROVE Len(taskQueue') <= Count'
  <2>1. taskQueue' = <<>>
    BY <1>5 DEF WorkerWait, TestInv
  <2>2. Count' \in Nat
    <3>1. Signalling' \subseteq Producers /\ Awake' \subseteq Workers
      BY DEF Signalling, Awake
    <3>2. QED
      BY <3>1, FS_Subset, FS_CardinalityType
  <2>3. QED
    BY <2>1, <2>2
<1>6. ASSUME NEW w \in Workers, WorkerDecide(w) PROVE Len(taskQueue') <= Count'
  <2>1. ~stop /\ wpc' = [wpc EXCEPT ![w] = "pop"] /\ wpc[w] = "decide"
    BY <1>0, <1>6 DEF WorkerDecide
  <2>2. Signalling' = Signalling /\ Awake' = Awake /\ Waiting' = Waiting
    BY <1>6, <2>1 DEF WorkerDecide, Signalling, Awake, Waiting
  <2>3. QED
    BY <1>0, <1>6, <2>1, <2>2 DEF WorkerDecide, SleepersCovered
<1>7. ASSUME NEW w \in Workers, WorkerPop(w) PROVE Len(taskQueue') <= Count'
  <2>1. Awake' = Awake \ {w} /\ w \in Awake
    BY <1>7 DEF WorkerPop, Awake
  <2>2. Signalling' = Signalling /\ Waiting' = Waiting /\ stop' = stop
    BY <1>7 DEF WorkerPop, Signalling, Waiting
  <2>3. Cardinality(Awake') = Cardinality(Awake) - 1
    BY <2>1, FS_RemoveElement
  <2>4. Len(taskQueue') = Len(taskQueue) - 1
    BY <1>7 DEF WorkerPop, TestInv
  <2>5. Len(taskQueue) <= Count /\ Len(taskQueue) \in Nat
    BY <1>0, <2>2 DEF SleepersCovered
  <2>6. QED
    BY <2>2, <2>3, <2>4, <2>5
<1>8. ASSUME NEW w \in Workers, SpuriousWakeup(w) \/ WorkerFinish(w)
      PROVE  Len(taskQueue') <= Count'
  <2>1. Awake' = Awake \cup {w} /\ w \notin Awake
    BY <1>8 DEF SpuriousWakeup, WorkerFinish, Awake
  <2>2. Waiting # {} /\ stop' = stop /\ taskQueue' = taskQueue /\ Signalling' = Signalling
    BY <1>0, <1>8 DEF SpuriousWakeup, WorkerFinish, Waiting, Signalling
  <2>3. Cardinality(Awake') = Cardinality(Awake) + 1
    BY <2>1, FS_AddElement
  <2>4. Len(taskQueue) <= Count /\ Len(taskQueue) \in Nat
    BY <1>0, <2>2 DEF SleepersCovered
  <2>5. QED
    BY <2>2, <2>3, <2>4
<1>9. CASE Destroy
  BY <1>0, <1>9 DEF Destroy
<1>10. CASE DestroyBroadcast \/ DestroyJoin
  BY <1>0, <1>10 DEF DestroyBroadcast, DestroyJoin, StopInv
<1>11. CASE UNCHANGED vars
  <2>1. Signalling' = Signalling /\ Awake' = Awake /\ Waiting' = Waiting
    BY <1>11 DEF vars, Signalling, Awake, Waiting
  <2>2. QED
    BY <1>0, <1>11, <2>1 DEF vars, SleepersCovered
<1>12. QED
  BY <1>1, <1>2, <1>3, <1>4, <1>5, <1>6, <1>7, <1>8, <1>9, <1>10, <1>11
     DEF Next, WorkerStep, EnqueueReturns

(* No worker sleeps beside a task that nobody was woken for.               *)
THEOREM NoSleeperBesideWork == Spec => []SleepersCovered
<1>1. Init => SleepersCovered
  BY DEF Init, SleepersCovered, Waiting
<1>2. IInv /\ SleepersCovered /\ [Next]_vars => SleepersCovered'
  BY SleepersStep
<1>3. QED
  BY <1>1, <1>2, Invariance, PTL DEF Spec

-----------------------------------------------------------------------------
(* A new pool is an open one without tasks.                                *)
LEMMA AbstractInit == Init => Abstract!Init
  BY DEF Init, Abstract!Init

(* A push is Submit, a pop is Start, the end of a task is Finish, setting  *)
(* stop_ is Stop and the end of the joins is Close; all else is a stutter. *)
LEMMA AbstractStep ==
  ASSUME IInv, [Next]_vars
  PROVE  [Abstract!Next]_(Abstract!poolVars)
<1> USE DEF IInv, TypeOK, WorkerPC, ProducerPC, DestructorPC, Abstract!poolVars
<1>1. ASSUME NEW p \in Producers, NEW t \in Tasks, EnqueuePush(p, t)
      PROVE  Abstract!Submit(t)
  <2>1. dpc = "alive"
    BY <1>1 DEF EnqueuePush, StopInv
  <2>2. QED
    BY <1>1, <2>1 DEF EnqueuePush, Abstract!Submit
<1>2. ASSUME NEW w \in Workers, WorkerPop(w) PROVE Abstract!Start(w)
  <2>1. task[w] = NoTask /\ taskQueue # <<>> /\ dpc # "destroyed"
    BY <1>2 DEF WorkerPop, TaskInv, TestInv, StopInv
  <2>2. CASE ~stop
    <3>1. dpc = "alive" /\ dpc' = "alive"
      BY <1>2, <2>2 DEF WorkerPop, StopInv
    <3>2. QED
      BY <1>2, <2>1, <2>2, <3>1 DEF WorkerPop, Abstract!Start
  <2>3. CASE stop
    <3>1. dpc # "alive" /\ lateStarts = 0 /\ lateStarts' = 1 /\ dpc' = dpc
      BY <1>2, <2>3 DEF WorkerPop, StopInv, LateInv
    <3>2. QED
      BY <1>2, <2>1, <3>1 DEF WorkerPop, Abstract!Start
  <2>4. QED
    BY <2>2, <2>3
<1>3. ASSUME NEW w \in Workers, WorkerFinish(w) PROVE Abstract!Finish(w)
  BY <1>3 DEF WorkerFinish, history, TaskInv, Abstract!Finish
<1>4. ASSUME Destroy PROVE Abstract!Stop
  BY <1>4 DEF Destroy, history, StopInv, LateInv, Abstract!Stop
<1>5. ASSUME DestroyJoin PROVE Abstract!Close
  <2>1. \A w \in Workers : task[w] = NoTask
    BY <1>5 DEF DestroyJoin, TaskInv
  <2>2. QED
    BY <1>5, <2>1 DEF DestroyJoin, history, Abstract!Close
<1>6. ASSUME \/ \E p \in Producers : EnqueueLock(p) \/ EnqueueSignal(p)
             \/ \E w \in Workers : \/ WorkerLock(w) \/ WorkerCheck(w) \/ WorkerWait(w)
                                   \/ WorkerDecide(w) \/ SpuriousWakeup(w)
             \/ DestroyBroadcast
             \/ UNCHANGED vars
      PROVE  UNCHANGED Abstract!poolVars
  BY <1>6 DEF EnqueueLock, EnqueueSignal, WorkerLock, WorkerCheck, WorkerWait, WorkerDecide,
              SpuriousWakeup, DestroyBroadcast, vars, history
<1>7. QED
  BY <1>1, <1>2, <1>3, <1>4, <1>5, <1>6 DEF Next, WorkerStep, EnqueueReturns, Abstract!Next

(* The thread pool implements what TaskPool promises its owner.            *)
THEOREM Refinement == Spec => ImplementsTaskPool
  BY AbstractInit, AbstractStep, Invariance, PTL DEF Spec, ImplementsTaskPool, Abstract!Spec
=============================================================================
