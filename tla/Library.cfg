\* Every part has its bounds where it is instantiated in Library.tla.  The objects
\* are called until a bound is reached: a part may end.
SPECIFICATION Spec
INVARIANTS
  Delivered
  StoresAgree
  OwnedOnce
  TurnsKept
  
CHECK_DEADLOCK FALSE
