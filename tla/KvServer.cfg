\* Two clients that write the same two keys over each other, or the command
\* line instead; the process crashes once, at any point.
SPECIFICATION Spec
CONSTANTS
  Clients = {c1, c2}
  Starter = Starter
  Stopper = Stopper
  Console = Console
  Keys = {k1, k2}
  Vals = {v1}
  NoVal = NoVal
  Nobody = Nobody
  MaxCrashes = 1
INVARIANTS
  TypeOK
  AnsweredIsSaved
  StopSaves
CHECK_DEADLOCK FALSE
