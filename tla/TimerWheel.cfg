\* Two slots and a clock of five ticks: every timer beyond the next two ticks
\* goes through a lap or two.  Three timers share a slot in every order.
SPECIFICATION Spec
CONSTANTS
  Slots = 2
  MaxTick = 5
  MaxTimers = 3
INVARIANTS
  TypeOK
  EntriesAhead
PROPERTY
  ImplementsTimers
CHECK_DEADLOCK FALSE
