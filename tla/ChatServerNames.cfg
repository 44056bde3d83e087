\* Two clients that choose the same name; nothing else can go wrong here.
SPECIFICATION Spec
CONSTANTS
  Clients = {c1, c2}
  Stoppers = {s1}
  Names = {alice}
  Rooms = {general}
  Fds = {f1, f2, f3}
  NoFd = NoFd
  NoName = NoName
  MaxStarts = 1
INVARIANT ConnectedUsersListed
CHECK_DEADLOCK FALSE
