\* Two workers and three connections: one is queued while both workers are
\* blocked in read(); start() is called a second time after stop().
SPECIFICATION Spec
CONSTANTS
  Clients = {c1, c2, c3}
  Workers = {w1, w2}
  NoClient = NoClient
  MaxStarts = 2
INVARIANTS
  TypeOK
  ShutsDownOwn
  InOneHand
PROPERTIES
  StopEndsConnections
  AcceptLoopEnds
  DestructorReturns
CHECK_DEADLOCK FALSE
