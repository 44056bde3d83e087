----------------------------- MODULE ChatServer -----------------------------
(***************************************************************************)
(* chat_server::ChatServer (04-stage4/chat-server).  One thread runs       *)
(* start(), the accept loop; every accepted connection is served by a      *)
(* thread that runs handleClient(); other threads call stop().  They share *)
(* the maps of users and rooms, the list of client threads and the set of  *)
(* client descriptors under mutex_, and the flag running_ without it.      *)
(*                                                                         *)
(* Descriptors are numbers that the system hands out again once they are   *)
(* closed, to this server or to some other part of the program, so the     *)
(* model keeps who owns each number.  A message leaves no trace in the     *)
(* server: broadcast(), sendToUser() and sendToRoom() only send on         *)
(* descriptors found in users, and the callbacks run without the lock.     *)
(***************************************************************************)
EXTENDS Naturals, FiniteSets

CONSTANTS Clients,    \* connections that may arrive, one thread for each
          Stoppers,   \* threads that call stop()
          Names,      \* user names
          Rooms,      \* room names
          Fds,        \* descriptor numbers
          NoFd,       \* -1, and a name that is not in users_
          NoName,     \* the empty local variable username
          MaxStarts   \* bound: calls of start()

ASSUME FdsAssumption == IsFiniteSet(Fds) /\ NoFd \notin Fds
ASSUME NamesAssumption == NoName \notin Names
ASSUME BoundAssumption == MaxStarts \in Nat
ASSUME ThreadsAssumption ==
  /\ IsFiniteSet(Clients)
  /\ {"free", "listen", "other"} \cap Clients = {}

VARIABLES
  running,        \* running_
  serverFd,       \* server_fd_
  users,          \* users_, NoFd for a name that is absent
  rooms,          \* rooms_, {} for a room that is absent
  userRooms,      \* userRooms_
  clientThreads,  \* clientThreads_
  clientFds,      \* clientFds_
  listenFd,       \* the local variable fd of start()
  starts,         \* calls of start() so far
  startPc,        \* where start() is
  stopPc,         \* [Stoppers -> where stop() is]
  joining,        \* [Stoppers -> the local list of threads]
  pc,             \* [Clients -> where handleClient() is]
  fd,             \* [Clients -> client_fd]
  name,           \* [Clients -> username]
  owner,          \* [Fds -> who holds the descriptor]
  shut            \* descriptors that were shut down and not closed yet

shared == <<running, serverFd, users, rooms, userRooms, clientThreads, clientFds>>
starter == <<listenFd, starts, startPc>>
stoppers == <<stopPc, joining>>
clients == <<pc, fd, name>>
sockets == <<owner, shut>>
vars == <<shared, starter, stoppers, clients, sockets>>

Init ==
  /\ running = FALSE /\ serverFd = NoFd
  /\ users = [n \in Names |-> NoFd]
  /\ rooms = [r \in Rooms |-> {}]
  /\ userRooms = [n \in Names |-> {}]
  /\ clientThreads = {} /\ clientFds = {}
  /\ listenFd = NoFd /\ starts = 0 /\ startPc = "idle"
  /\ stopPc = [s \in Stoppers |-> "idle"]
  /\ joining = [s \in Stoppers |-> {}]
  /\ pc = [c \in Clients |-> "away"]
  /\ fd = [c \in Clients |-> NoFd]
  /\ name = [c \in Clients |-> NoName]
  /\ owner = [f \in Fds |-> "free"]
  /\ shut = {}
-----------------------------------------------------------------------------
(***************************************************************************)
(* The system.  Another part of the program opens and closes descriptors.  *)
(***************************************************************************)
OtherOpens(f) ==
  /\ owner[f] = "free"
  /\ owner' = [owner EXCEPT ![f] = "other"]
  /\ UNCHANGED <<shared, starter, stoppers, clients, shut>>

OtherCloses(f) ==
  /\ owner[f] = "other"
  /\ owner' = [owner EXCEPT ![f] = "free"]
  /\ shut' = shut \ {f}
  /\ UNCHANGED <<shared, starter, stoppers, clients>>

Close(f) ==
  /\ owner' = [owner EXCEPT ![f] = "free"]
  /\ shut' = shut \ {f}
-----------------------------------------------------------------------------
(***************************************************************************)
(* start().  A failing socket(), bind() or listen() throws and leaves no   *)
(* trace.  Only one call runs at a time, because the port can be bound     *)
(* only once.                                                              *)
(***************************************************************************)
StartAt(from, to) == startPc = from /\ startPc' = to

StartListen(f) ==
  /\ starts < MaxStarts
  /\ StartAt("idle", "flag")
  /\ owner[f] = "free"
  /\ owner' = [owner EXCEPT ![f] = "listen"]
  /\ listenFd' = f
  /\ starts' = starts + 1
  /\ UNCHANGED <<shared, stoppers, clients, shut>>

StartFlag ==
  /\ StartAt("flag", "publish")
  /\ running' = TRUE
  /\ UNCHANGED <<serverFd, users, rooms, userRooms, clientThreads, clientFds>>
  /\ UNCHANGED <<listenFd, starts, stoppers, clients, sockets>>

StartPublish ==
  /\ StartAt("publish", "loop")
  /\ serverFd' = listenFd
  /\ UNCHANGED <<running, users, rooms, userRooms, clientThreads, clientFds>>
  /\ UNCHANGED <<listenFd, starts, stoppers, clients, sockets>>

\* while (running_)
StartLoop ==
  /\ StartAt("loop", IF running THEN "accept" ELSE "unpublish")
  /\ UNCHANGED <<shared, listenFd, starts, stoppers, clients, sockets>>

\* accept() returns the connection of c, on a descriptor that was free.
Accept(c, f) ==
  /\ StartAt("accept", "spawn")
  /\ listenFd \notin shut
  /\ pc[c] = "away" /\ owner[f] = "free"
  /\ owner' = [owner EXCEPT ![f] = c]
  /\ fd' = [fd EXCEPT ![c] = f]
  /\ pc' = [pc EXCEPT ![c] = "accepted"]
  /\ UNCHANGED <<shared, listenFd, starts, stoppers, name, shut>>

\* accept() fails: for good once the socket was shut down, else for now.
AcceptFails ==
  /\ StartAt("accept", IF running /\ listenFd \notin shut THEN "loop" ELSE "unpublish")
  /\ UNCHANGED <<shared, listenFd, starts, stoppers, clients, sockets>>

MutSpawnUnchecked(c) ==   \* mutant: running_ not read again under the lock
  /\ pc[c] = "accepted"
  /\ StartAt("spawn", "loop")
  /\ clientThreads' = clientThreads \cup {c}
  /\ pc' = [pc EXCEPT ![c] = "spawned"]
  /\ UNCHANGED <<running, serverFd, users, rooms, userRooms, clientFds>>
  /\ UNCHANGED <<listenFd, starts, stoppers, fd, name, sockets>>

Spawn(c) ==
  /\ pc[c] = "accepted" /\ running
  /\ StartAt("spawn", "loop")
  /\ clientThreads' = clientThreads \cup {c}
  /\ pc' = [pc EXCEPT ![c] = "spawned"]
  /\ UNCHANGED <<running, serverFd, users, rooms, userRooms, clientFds>>
  /\ UNCHANGED <<listenFd, starts, stoppers, fd, name, sockets>>

\* Stopped in the meantime: the connection is closed, the loop ends.
Refuse(c) ==
  /\ pc[c] = "accepted" /\ ~running
  /\ StartAt("spawn", "unpublish")
  /\ Close(fd[c])
  /\ pc' = [pc EXCEPT ![c] = "done"]
  /\ UNCHANGED <<shared, listenFd, starts, stoppers, fd, name>>

MutUnpublishForgotten ==   \* mutant: server_fd_ kept when the loop ends
  /\ StartAt("unpublish", "close")
  /\ UNCHANGED <<shared, listenFd, starts, stoppers, clients, sockets>>

StartUnpublish ==
  /\ StartAt("unpublish", "close")
  /\ serverFd' = IF serverFd = listenFd THEN NoFd ELSE serverFd
  /\ UNCHANGED <<running, users, rooms, userRooms, clientThreads, clientFds>>
  /\ UNCHANGED <<listenFd, starts, stoppers, clients, sockets>>

StartClose ==
  /\ StartAt("close", "idle")
  /\ Close(listenFd)
  /\ listenFd' = NoFd
  /\ UNCHANGED <<shared, starts, stoppers, clients>>
-----------------------------------------------------------------------------
(***************************************************************************)
(* stop(), also called by the destructor, at any time: nothing makes a     *)
(* caller wait until start() is up.  A stop() that lowers the flag after   *)
(* listen() and before start() raises it is overtaken: it has found no     *)
(* socket to shut down, the server runs on, and the call is still joining. *)
(***************************************************************************)
StopAt(s, from, to) == stopPc[s] = from /\ stopPc' = [stopPc EXCEPT ![s] = to]

StopFlag(s) ==
  /\ StopAt(s, "idle", "shutdown")
  /\ running' = FALSE
  /\ UNCHANGED <<serverFd, users, rooms, userRooms, clientThreads, clientFds>>
  /\ UNCHANGED <<starter, joining, clients, sockets>>

MutStopShutdownClients(s) ==   \* mutant: the listening socket not shut down
  /\ StopAt(s, "shutdown", "take")
  /\ shut' = shut \cup clientFds
  /\ UNCHANGED <<shared, starter, joining, clients, owner>>

StopShutdown(s) ==
  /\ StopAt(s, "shutdown", "take")
  /\ shut' = shut \cup clientFds \cup ({serverFd} \ {NoFd})
  /\ UNCHANGED <<shared, starter, joining, clients, owner>>

\* One turn of the loop: an empty list ends it, another one is joined.
StopReturn(s) ==
  /\ clientThreads = {}
  /\ StopAt(s, "take", "idle")
  /\ UNCHANGED <<shared, starter, joining, clients, sockets>>

StopTake(s) ==
  /\ clientThreads # {}
  /\ StopAt(s, "take", "join")
  /\ joining' = [joining EXCEPT ![s] = clientThreads]
  /\ clientThreads' = {}
  /\ UNCHANGED <<running, serverFd, users, rooms, userRooms, clientFds>>
  /\ UNCHANGED <<starter, clients, sockets>>

StopJoined(s) ==
  /\ \A c \in joining[s] : pc[c] = "done"
  /\ StopAt(s, "join", "take")
  /\ joining' = [joining EXCEPT ![s] = {}]
  /\ UNCHANGED <<shared, starter, clients, sockets>>
-----------------------------------------------------------------------------
(***************************************************************************)
(* handleClient()                                                          *)
(***************************************************************************)
ClientAt(c, from, to) == pc[c] = from /\ pc' = [pc EXCEPT ![c] = to]

MutRegisterUnchecked(c) ==   \* mutant: running_ not read before registering
  /\ ClientAt(c, "spawned", "name")
  /\ clientFds' = clientFds \cup {fd[c]}
  /\ UNCHANGED <<running, serverFd, users, rooms, userRooms, clientThreads>>
  /\ UNCHANGED <<starter, stoppers, fd, name, sockets>>

Register(c) ==
  /\ ClientAt(c, "spawned", IF running THEN "name" ELSE "close")
  /\ clientFds' = IF running THEN clientFds \cup {fd[c]} ELSE clientFds
  /\ UNCHANGED <<running, serverFd, users, rooms, userRooms, clientThreads>>
  /\ UNCHANGED <<starter, stoppers, fd, name, sockets>>

\* The first recv() returns the user name, on a socket that was shut down
\* too if the line had already arrived.  The client enters the map of users,
\* is announced and welcomed.
ReceiveName(c, n) ==
  /\ ClientAt(c, "name", "loop")
  /\ name' = [name EXCEPT ![c] = n]
  /\ users' = [users EXCEPT ![n] = fd[c]]
  /\ UNCHANGED <<running, serverFd, rooms, userRooms, clientThreads, clientFds>>
  /\ UNCHANGED <<starter, stoppers, fd, sockets>>

\* The client has gone, or its socket was shut down.
ReceiveNoName(c) ==
  /\ ClientAt(c, "name", "close")
  /\ clientFds' = clientFds \ {fd[c]}
  /\ UNCHANGED <<running, serverFd, users, rooms, userRooms, clientThreads>>
  /\ UNCHANGED <<starter, stoppers, fd, name, sockets>>

\* while (running_)
ClientLoop(c) ==
  /\ ClientAt(c, "loop", IF running THEN "recv" ELSE "leave")
  /\ UNCHANGED <<shared, starter, stoppers, fd, name, sockets>>

\* A line to broadcast, or a command that only asks.
ReceiveLine(c) ==
  /\ ClientAt(c, "recv", "loop")
  /\ UNCHANGED <<shared, starter, stoppers, fd, name, sockets>>

JoinRoom(c, r) ==
  /\ ClientAt(c, "recv", "loop")
  /\ rooms' = [rooms EXCEPT ![r] = @ \cup {name[c]}]
  /\ userRooms' = [userRooms EXCEPT ![name[c]] = @ \cup {r}]
  /\ UNCHANGED <<running, serverFd, users, clientThreads, clientFds>>
  /\ UNCHANGED <<starter, stoppers, fd, name, sockets>>

LeaveRoom(c, r) ==
  /\ ClientAt(c, "recv", "loop")
  /\ rooms' = [rooms EXCEPT ![r] = @ \ {name[c]}]
  /\ userRooms' = [userRooms EXCEPT ![name[c]] = @ \ {r}]
  /\ UNCHANGED <<running, serverFd, users, clientThreads, clientFds>>
  /\ UNCHANGED <<starter, stoppers, fd, name, sockets>>

\* /quit, the client has gone, or its socket was shut down.
ReceiveEnd(c) ==
  /\ ClientAt(c, "recv", "leave")
  /\ UNCHANGED <<shared, starter, stoppers, fd, name, sockets>>

MutLeaveStillRegistered(c) ==   \* mutant: clientFds_ keeps the descriptor
  /\ ClientAt(c, "leave", "close")
  /\ users' = [users EXCEPT ![name[c]] = NoFd]
  /\ userRooms' = [n \in Names |-> userRooms[n] \ {name[c]}]
  /\ UNCHANGED <<running, serverFd, rooms, clientThreads, clientFds>>
  /\ UNCHANGED <<starter, stoppers, fd, name, sockets>>

\* The farewell.  The loop over userRooms_ takes the user's name out of sets
\* of room names, so that a user stays a member of its rooms.
Leave(c) ==
  /\ ClientAt(c, "leave", "close")
  /\ users' = [users EXCEPT ![name[c]] = NoFd]
  /\ userRooms' = [n \in Names |-> userRooms[n] \ {name[c]}]
  /\ clientFds' = clientFds \ {fd[c]}
  /\ UNCHANGED <<running, serverFd, rooms, clientThreads>>
  /\ UNCHANGED <<starter, stoppers, fd, name, sockets>>

CloseClient(c) ==
  /\ ClientAt(c, "close", "done")
  /\ Close(fd[c])
  /\ UNCHANGED <<shared, starter, stoppers, fd, name>>
-----------------------------------------------------------------------------
StartStep ==
  \/ StartFlag \/ StartPublish \/ StartLoop
  \/ \E c \in Clients : Spawn(c) \/ Refuse(c)
  \/ StartUnpublish \/ StartClose

StopStep(s) ==
  StopShutdown(s) \/ StopReturn(s) \/ StopTake(s) \/ StopJoined(s)

\* What a client thread does without the other end of its connection.
ClientStep(c) ==
  Register(c) \/ ClientLoop(c) \/ Leave(c) \/ CloseClient(c)

\* What the other end makes it do.
PeerStep(c) ==
  \/ \E n \in Names : ReceiveName(c, n)
  \/ ReceiveNoName(c) \/ ReceiveLine(c) \/ ReceiveEnd(c)
  \/ \E r \in Rooms : JoinRoom(c, r) \/ LeaveRoom(c, r)

Next ==
  \/ \E f \in Fds : StartListen(f) \/ \E c \in Clients : Accept(c, f)
  \/ AcceptFails \/ StartStep
  \/ \E s \in Stoppers : StopFlag(s) \/ StopStep(s)
  \/ \E c \in Clients : ClientStep(c) \/ PeerStep(c)
  \/ \E f \in Fds : OtherOpens(f) \/ OtherCloses(f)

\* The threads run when they can.  accept() and recv() come back on their own
\* only from a socket that was shut down: a peer may stay silent forever.
Fairness ==
  /\ WF_vars(StartStep)
  /\ WF_vars(listenFd \in shut /\ AcceptFails)
  /\ \A s \in Stoppers : WF_vars(StopStep(s))
  /\ \A c \in Clients :
       /\ WF_vars(ClientStep(c))
       /\ WF_vars(fd[c] \in shut /\ (ReceiveNoName(c) \/ ReceiveEnd(c)))

Spec == Init /\ [][Next]_vars /\ Fairness
-----------------------------------------------------------------------------
TypeOK ==
  /\ running \in BOOLEAN
  /\ users \in [Names -> Fds \cup {NoFd}]
  /\ rooms \in [Rooms -> SUBSET Names]
  /\ userRooms \in [Names -> SUBSET Rooms]
  /\ clientThreads \in SUBSET Clients /\ clientFds \in SUBSET Fds
  /\ listenFd \in Fds \cup {NoFd} /\ serverFd \in {listenFd, NoFd}
  /\ starts \in 0..MaxStarts
  /\ startPc \in {"idle", "flag", "publish", "loop", "accept", "spawn",
                  "unpublish", "close"}
  /\ stopPc \in [Stoppers -> {"idle", "shutdown", "take", "join"}]
  /\ joining \in [Stoppers -> SUBSET Clients]
  /\ pc \in [Clients -> {"away", "accepted", "spawned", "name", "loop", "recv",
                         "leave", "close", "done"}]
  /\ fd \in [Clients -> Fds \cup {NoFd}]
  /\ name \in [Clients -> Names \cup {NoName}]
  /\ owner \in [Fds -> {"free", "listen", "other"} \cup Clients]
  /\ shut \in SUBSET Fds

Serving(c) == pc[c] \in {"spawned", "name", "loop", "recv", "leave", "close"}

\* Whatever number the server keeps belongs to the server: a descriptor that
\* stop() shuts down or a message is sent on is open and its own, although
\* the system hands out the number of a closed one again.
DescriptorsOurs ==
  /\ serverFd # NoFd => owner[serverFd] = "listen"
  /\ \A f \in clientFds : \E c \in Clients : fd[c] = f /\ owner[f] = c
  /\ \A n \in Names :
       users[n] # NoFd =>
         \E c \in Clients : /\ pc[c] \in {"loop", "recv", "leave"}
                            /\ name[c] = n /\ fd[c] = users[n] /\ owner[fd[c]] = c

\* Once the calls of stop() have come back no client is served any more, and
\* none is until the next start(), whatever was being accepted meanwhile.
StoppedMeansQuiet ==
  ~running /\ (\A s \in Stoppers : stopPc[s] = "idle") =>
     \A c \in Clients : ~Serving(c)

\* stop() comes back although no client says or closes anything, unless
\* start() raises the flag again that stop() had lowered: an overtaken call may
\* join a silent client for as long as the flag stays up, and comes back once
\* another stop() lowers it.
StopReturns ==
  \A s \in Stoppers : stopPc[s] # "idle" ~> (stopPc[s] = "idle" \/ running)

\* ... and the accept loop ends too, unless the stop() was overtaken: then the
\* loop runs on, whatever was being accepted or published at the time.
AcceptLoopEnds ==
  \A s \in Stoppers :
    stopPc[s] = "shutdown" ~> (startPc \in {"idle", "flag"} \/ running)

\* getOnlineUsers() "lists every connected user": a client whose user name
\* was received, announced and welcomed is in the map of users.
ConnectedUsersListed ==
  \A c \in Clients : pc[c] \in {"loop", "recv"} => users[name[c]] # NoFd
=============================================================================
