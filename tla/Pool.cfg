CONSTANTS
  Workers = {w1, w2, w3}
  Producers = {p1, p2}
  Tasks = {t1, t2, t3, t4}
  NoThread = NoThread
  NoTask = NoTask
SPECIFICATION SchedSpec
INVARIANTS
  TypeOK
  NoPopOfEmptyQueue
  SleepersCovered
  OneMissesBroadcast
PROPERTIES
  ImplementsTaskPool
  QueuedTaskStartsOrPoolIsBusy
  EveryTaskExecutes
  DestructorReturnsIfNoneDozesOff
\* A destroyed pool takes no step.
CHECK_DEADLOCK FALSE
