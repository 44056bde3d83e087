\* Three threads, so that a thread can be overtaken twice while it is between
\* two loads; two pushes and any number of pops, so that the queue is empty,
\* has a lagging tail and loses nodes to the retired chain again and again.
SPECIFICATION Spec
CONSTANTS
  Threads = {t1, t2, t3}
  MaxPushes = 2
  Null = null
INVARIANTS
  TypeOK
  FreedOnce
  TailInChain
PROPERTY
  ImplementsFifo
