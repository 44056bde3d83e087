SPECIFICATION Spec
CONSTANTS
  Slots = 2
  MaxTick = 4
  MaxTimers = 2
INVARIANT RefusedIsNotPending
CHECK_DEADLOCK FALSE
