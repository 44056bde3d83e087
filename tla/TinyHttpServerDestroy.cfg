\* One worker and one connection are enough for a worker to outlive the
\* registry.
SPECIFICATION Spec
CONSTANTS
  Clients = {c1}
  Workers = {w1}
  NoClient = NoClient
  MaxStarts = 1
INVARIANT RegistryAlive
CHECK_DEADLOCK FALSE
