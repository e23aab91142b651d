------------------------------ MODULE TaskPool ------------------------------
(***************************************************************************)
(* What a ThreadPool promises its owner, without mutex, condition variable *)
(* or wake-ups: tasks are started in the order they were enqueued, each at *)
(* most once; a thread runs one task at a time; a task that was started is *)
(* run to its end before the destructor returns; tasks still pending when  *)
(* the destructor runs are dropped, except that ONE of them may still be   *)
(* started after the stop request (phase "stopping" -> "drained").         *)
(***************************************************************************)
EXTENDS Sequences

CONSTANTS Threads,   \* the pool's threads
          Tasks,     \* the callables handed to enqueue, each a fresh object
          NoTask     \* marks a thread that runs nothing

VARIABLES pending,   \* tasks enqueued and not started, oldest first
          running,   \* running[w] is the task thread w executes, or NoTask
          submitted, \* every task ever enqueued
          phase      \* "open", "stopping", "drained", "closed"

poolVars == <<pending, running, submitted, phase>>

Init == /\ pending = <<>>
        /\ running = [w \in Threads |-> NoTask]
        /\ submitted = {}
        /\ phase = "open"

Submit(t) ==
  /\ phase = "open"
  /\ t \notin submitted
  /\ pending' = Append(pending, t)
  /\ submitted' = submitted \cup {t}
  /\ UNCHANGED <<running, phase>>

Start(w) ==
  /\ phase \in {"open", "stopping"}
  /\ running[w] = NoTask
  /\ pending # <<>>
  /\ running' = [running EXCEPT ![w] = Head(pending)]
  /\ pending' = Tail(pending)
  /\ phase' = IF phase = "stopping" THEN "drained" ELSE phase
  /\ UNCHANGED submitted

Finish(w) ==
  /\ running[w] # NoTask
  /\ running' = [running EXCEPT ![w] = NoTask]
  /\ UNCHANGED <<pending, submitted, phase>>

Stop ==
  /\ phase = "open"
  /\ phase' = "stopping"
  /\ UNCHANGED <<pending, running, submitted>>

Close ==
  /\ phase \in {"stopping", "drained"}
  /\ \A w \in Threads : running[w] = NoTask
  /\ phase' = "closed"
  /\ UNCHANGED <<pending, running, submitted>>

Next == \/ \E t \in Tasks : Submit(t)
        \/ \E w \in Threads : Start(w) \/ Finish(w)
        \/ Stop
        \/ Close

Spec == Init /\ [][Next]_poolVars
=============================================================================
