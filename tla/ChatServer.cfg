\* Two clients that choose the same name (the case in which one overwrites the
\* entry of the other), a thread that stops the server whenever it likes, also
\* before and while start() raises the flag, three descriptor numbers: one to
\* listen and one per client, of which those that are free may be taken by the
\* rest of the program.
SPECIFICATION Spec
CONSTANTS
  Clients = {c1, c2}
  Stoppers = {s1}
  Names = {alice}
  Rooms = {general}
  Fds = {f1, f2, f3}
  NoFd = NoFd
  NoName = NoName
  MaxStarts = 1
INVARIANTS
  TypeOK
  DescriptorsOurs
  StoppedMeansQuiet
PROPERTIES
  StopReturns
  AcceptLoopEnds
CHECK_DEADLOCK FALSE
