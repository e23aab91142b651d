CONSTANTS
  Workers = {w1, w2}
  Producers = {p1}
  Tasks = {t1, t2, t3}
  NoThread = NoThread
  NoTask = NoTask
SPECIFICATION FairSpec
PROPERTY DestructorReturns
\* A destroyed pool takes no step.
CHECK_DEADLOCK FALSE
