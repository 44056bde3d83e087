\* Three threads, so that a third one can come between a notification and the
\* thread it was meant for; capacities of 1 and 2, so that queues are empty and
\* full again and again; two timers or tasks and a clock of two readings, so
\* that one is cancelled, or repeats, while the other is due.
SPECIFICATION Spec
CONSTANTS
  Threads = {t1, t2, t3}
  Items = {a, b, c}
  Urgent = {c}
  Empty = Empty
  Capacity = 1
  Slots = 2
  MinSize = 1
  MaxSize = 2
  Bound = 2
  Keys = {1, 2}
  Values = {5, 6}
  Size = 2
INVARIANTS
  NoLostWakeup
  HandedOutOnce
  ReadsOneState
PROPERTIES
  CancelledStaysQuiet
  CallsReturn
\* A run of threads that all wait for an item or a connection is a legal end.
CHECK_DEADLOCK FALSE
