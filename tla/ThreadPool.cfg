SPECIFICATION Spec
CONSTANTS
  Workers = {w1, w2}
  Callers = {c1, c2}
  Tasks = {t1, t2, t3}
  NoTask = NoTask
INVARIANTS
  TypeOK
  CountExact
  NoStrandedTask
  NoSleeperAfterShutdown
  ShutdownComplete
  NoWaiterOverlooked
PROPERTIES
  WaitForAllReturnsDone
  CallsReturn
  ImplementsExecutor
