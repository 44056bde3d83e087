-------------------------- MODULE ChatServerProofs --------------------------
(***************************************************************************)
(* Theorems about ChatServer, for every set of clients, of threads that    *)
(* call stop(), of names, rooms and descriptor numbers.                    *)
(***************************************************************************)
EXTENDS ChatServer, TLAPS

\* start() holds a descriptor from socket() to close(), and server_fd_ is a
\* copy of it that is taken back before.
ListenerPublished ==
  /\ startPc = "idle" <=> listenFd = NoFd
  /\ serverFd # NoFd => startPc \in {"loop", "accept", "spawn", "unpublish"}

\* A client has a descriptor from accept() to close(), and only one that has
\* sent its name enters rooms.
Connected == {"accepted", "spawned", "name", "loop", "recv", "leave", "close"}
LocalsSet ==
  \A c \in Clients :
    /\ pc[c] \in Connected => fd[c] \in Fds
    /\ pc[c] \in {"loop", "recv", "leave"} => name[c] \in Names

TypeInv == TypeOK /\ ListenerPublished /\ LocalsSet

\* Who holds a descriptor: the listener its own, and each client from
\* accept() to close().
Owned ==
  /\ listenFd # NoFd => owner[listenFd] = "listen"
  /\ \A c \in Clients : pc[c] \in Connected => owner[fd[c]] = c

\* A number in clientFds_ or users_ is that of a client between the line that
\* enters it and the line that takes it out.
Registered ==
  \A f \in clientFds :
    \E c \in Clients : pc[c] \in {"name", "loop", "recv", "leave"} /\ fd[c] = f
Listed ==
  \A n \in Names : users[n] # NoFd =>
    \E c \in Clients :
      pc[c] \in {"loop", "recv", "leave"} /\ name[c] = n /\ fd[c] = users[n]

DescriptorInv == Owned /\ Registered /\ Listed

\* The thread of a client that is served is in clientThreads_ or in the hands
\* of a stop() that joins it; and while the server is stopped and a thread is
\* in the list, some stop() has yet to look into it.
Tracked ==
  \A c \in Clients : Serving(c) =>
    c \in clientThreads \/ \E s \in Stoppers : c \in joining[s]
JoinedByOne == \A s \in Stoppers : joining[s] # {} => stopPc[s] = "join"
StopAhead ==
  ~running /\ clientThreads # {} => \E s \in Stoppers : stopPc[s] # "idle"

QuietInv == Tracked /\ JoinedByOne /\ StopAhead
-----------------------------------------------------------------------------
(***************************************************************************)
(* Types                                                                   *)
(***************************************************************************)
LEMMA InitTypeInv == Init => TypeInv
<1> SUFFICES ASSUME Init PROVE TypeInv
  OBVIOUS
<1>1. /\ rooms \in [Rooms -> SUBSET Names]
      /\ userRooms \in [Names -> SUBSET Rooms]
      /\ joining \in [Stoppers -> SUBSET Clients]
  BY DEF Init
<1>2. TypeOK
  <2>1. starts \in 0..MaxStarts /\ serverFd \in {listenFd, NoFd}
    BY BoundAssumption DEF Init
  <2>2. QED
    BY <1>1, <2>1 DEF Init, TypeOK
<1>3. ListenerPublished /\ LocalsSet
  BY DEF Init, ListenerPublished, LocalsSet, Connected
<1>4. QED
  BY <1>2, <1>3 DEF TypeInv

\* start() keeps the types.
LEMMA StartTypeInv ==
  ASSUME TypeInv,
         \/ \E f \in Fds : StartListen(f)
         \/ StartFlag \/ StartPublish \/ StartLoop \/ AcceptFails
         \/ StartUnpublish \/ StartClose
  PROVE  TypeInv'
<1> USE DEF TypeInv, TypeOK, ListenerPublished, LocalsSet, Connected, StartAt, Close,
            shared, starter, stoppers, clients, sockets
<1>1. ASSUME NEW f \in Fds, StartListen(f) PROVE TypeInv'
  BY <1>1, FdsAssumption, BoundAssumption DEF StartListen
<1>2. CASE StartFlag
  BY <1>2 DEF StartFlag
<1>3. CASE StartPublish
  BY <1>3 DEF StartPublish
<1>4. CASE StartLoop
  BY <1>4 DEF StartLoop
<1>5. CASE AcceptFails
  BY <1>5 DEF AcceptFails
<1>6. CASE StartUnpublish
  BY <1>6 DEF StartUnpublish
<1>7. CASE StartClose
  BY <1>7 DEF StartClose
<1>8. QED
  BY <1>1, <1>2, <1>3, <1>4, <1>5, <1>6, <1>7

\* The accept thread keeps the types.
LEMMA AcceptTypeInv ==
  ASSUME TypeInv, NEW c \in Clients,
         (\E f \in Fds : Accept(c, f)) \/ Spawn(c) \/ Refuse(c)
  PROVE  TypeInv'
<1> USE DEF TypeInv, TypeOK, ListenerPublished, LocalsSet, Connected, StartAt, Close,
            shared, starter, stoppers, clients, sockets
<1>1. ASSUME NEW f \in Fds, Accept(c, f) PROVE TypeInv'
  BY <1>1 DEF Accept
<1>2. CASE Spawn(c)
  BY <1>2 DEF Spawn
<1>3. CASE Refuse(c)
  BY <1>3 DEF Refuse
<1>4. QED
  BY <1>1, <1>2, <1>3

\* stop() keeps the types.
LEMMA StopTypeInv ==
  ASSUME TypeInv, NEW s \in Stoppers, StopFlag(s) \/ StopStep(s)
  PROVE  TypeInv'
<1> USE DEF TypeInv, TypeOK, ListenerPublished, LocalsSet, Connected, StopAt,
            shared, starter, stoppers, clients, sockets
<1>1. CASE StopFlag(s)
  BY <1>1 DEF StopFlag
<1>2. CASE StopShutdown(s)
  BY <1>2 DEF StopShutdown
<1>3. CASE StopReturn(s)
  BY <1>3 DEF StopReturn
<1>4. CASE StopTake(s)
  BY <1>4 DEF StopTake
<1>5. CASE StopJoined(s)
  BY <1>5 DEF StopJoined
<1>6. QED
  BY <1>1, <1>2, <1>3, <1>4, <1>5 DEF StopStep

\* A client's thread keeps the types.
LEMMA ClientTypeInv ==
  ASSUME TypeInv, NEW c \in Clients, ClientStep(c) \/ PeerStep(c)
  PROVE  TypeInv'
<1> USE DEF TypeInv, TypeOK, ListenerPublished, LocalsSet, Connected, ClientAt, Close,
            shared, starter, stoppers, clients, sockets
<1>1. CASE Register(c)
  BY <1>1 DEF Register
<1>2. CASE ClientLoop(c)
  BY <1>2 DEF ClientLoop
<1>3. CASE Leave(c)
  BY <1>3 DEF Leave
<1>4. CASE CloseClient(c)
  BY <1>4 DEF CloseClient
<1>5. ASSUME NEW n \in Names, ReceiveName(c, n) PROVE TypeInv'
  BY <1>5 DEF ReceiveName
<1>6. CASE ReceiveNoName(c)
  BY <1>6 DEF ReceiveNoName
<1>7. CASE ReceiveLine(c) \/ ReceiveEnd(c)
  BY <1>7 DEF ReceiveLine, ReceiveEnd
<1>8. ASSUME NEW r \in Rooms, JoinRoom(c, r) PROVE TypeInv'
  BY <1>8 DEF JoinRoom
<1>9. ASSUME NEW r \in Rooms, LeaveRoom(c, r) PROVE TypeInv'
  BY <1>9 DEF LeaveRoom
<1>10. QED
  BY <1>1, <1>2, <1>3, <1>4, <1>5, <1>6, <1>7, <1>8, <1>9 DEF ClientStep, PeerStep

\* Every step keeps the types.
LEMMA NextTypeInv == TypeInv /\ [Next]_vars => TypeInv'
<1> SUFFICES ASSUME TypeInv, [Next]_vars PROVE TypeInv'
  OBVIOUS
<1>1. CASE UNCHANGED vars
  BY <1>1
  DEF TypeInv, TypeOK, ListenerPublished, LocalsSet, vars, shared, starter,
      stoppers, clients, sockets
<1>2. ASSUME NEW f \in Fds, OtherOpens(f) \/ OtherCloses(f) PROVE TypeInv'
  BY <1>2
  DEF TypeInv, TypeOK, ListenerPublished, LocalsSet, OtherOpens, OtherCloses,
      shared, starter, stoppers, clients
<1>3. QED
  BY <1>1, <1>2, StartTypeInv, AcceptTypeInv, StopTypeInv, ClientTypeInv
  DEF Next, StartStep

\* The variables keep their types; in particular whoever enters a room has a
\* name, whoever is registered has a descriptor, and server_fd_ never outlives
\* the descriptor that start() holds.
THEOREM TypeCorrect == Spec => []TypeOK
<1>1. TypeInv => TypeOK
  BY DEF TypeInv
<1>2. QED
  BY <1>1, InitTypeInv, NextTypeInv, PTL DEF Spec
-----------------------------------------------------------------------------
(***************************************************************************)
(* Descriptors                                                             *)
(***************************************************************************)
LEMMA InitDescriptorInv == Init => DescriptorInv
BY DEF Init, DescriptorInv, Owned, Registered, Listed, Connected

\* A step that leaves alone what the maps say and whom they speak of.
LEMMA MapsKept ==
  ASSUME Registered, Listed, UNCHANGED <<users, clientFds, pc, fd, name>>
  PROVE  Registered' /\ Listed'
BY DEF Registered, Listed

\* Descriptors change hands one at a time, and only those that are free, or
\* that their holder closes.
LEMMA StartDescriptorInv ==
  ASSUME TypeInv, DescriptorInv,
         \/ \E f \in Fds : StartListen(f)
         \/ StartFlag \/ StartPublish \/ StartLoop \/ AcceptFails
         \/ StartUnpublish \/ StartClose
  PROVE  DescriptorInv'
<1>1. Registered' /\ Listed'
  BY MapsKept DEF DescriptorInv, StartListen, StartFlag, StartPublish, StartLoop,
     AcceptFails, StartUnpublish, StartClose, shared, clients, sockets
<1>2. Owned'
  <2> USE ThreadsAssumption, FdsAssumption
      DEF TypeInv, TypeOK, ListenerPublished, LocalsSet, DescriptorInv, Owned,
          Connected, clients, sockets
  <2>1. ASSUME NEW f \in Fds, StartListen(f) PROVE Owned'
    BY <2>1 DEF StartListen
  <2>2. CASE StartClose
    BY <2>2 DEF StartClose, StartAt, Close
  <2>3. CASE StartFlag \/ StartPublish \/ StartLoop \/ AcceptFails \/ StartUnpublish
    BY <2>3 DEF StartFlag, StartPublish, StartLoop, AcceptFails, StartUnpublish
  <2>4. QED
    BY <2>1, <2>2, <2>3
<1>3. QED
  BY <1>1, <1>2 DEF DescriptorInv

\* The accept loop takes a free descriptor and closes only one of its own.
LEMMA AcceptDescriptorInv ==
  ASSUME TypeInv, DescriptorInv, NEW c \in Clients,
         (\E f \in Fds : Accept(c, f)) \/ Spawn(c) \/ Refuse(c)
  PROVE  DescriptorInv'
<1> USE ThreadsAssumption, FdsAssumption
    DEF TypeInv, TypeOK, ListenerPublished, LocalsSet, DescriptorInv, Owned,
        Registered, Listed, Connected, shared
<1>1. ASSUME NEW f \in Fds, Accept(c, f) PROVE DescriptorInv'
  BY <1>1 DEF Accept
<1>2. CASE Spawn(c)
  BY <1>2 DEF Spawn, sockets
<1>3. CASE Refuse(c)
  BY <1>3 DEF Refuse, Close
<1>4. QED
  BY <1>1, <1>2, <1>3

\* stop() leaves the descriptors with those who own them.
LEMMA StopDescriptorInv ==
  ASSUME DescriptorInv, NEW s \in Stoppers, StopFlag(s) \/ StopStep(s)
  PROVE  DescriptorInv'
<1>1. UNCHANGED <<users, clientFds, listenFd, pc, fd, name, owner>>
  BY DEF StopStep, StopFlag, StopShutdown, StopReturn, StopTake, StopJoined,
         shared, starter, clients, sockets
<1>2. QED
  BY <1>1 DEF DescriptorInv, Owned, Registered, Listed

\* A client's thread enters its descriptor, takes it out and closes it.
LEMMA ClientDescriptorInv ==
  ASSUME TypeInv, DescriptorInv, NEW c \in Clients, ClientStep(c) \/ PeerStep(c)
  PROVE  DescriptorInv'
<1> USE DEF TypeInv, TypeOK, LocalsSet, DescriptorInv, Owned, Registered, Listed,
            Connected, ClientAt, shared, starter, sockets
<1>1. CASE Register(c)
  BY <1>1 DEF Register
<1>2. CASE ClientLoop(c)
  BY <1>2 DEF ClientLoop
<1>3. CASE Leave(c)
  BY <1>3 DEF Leave
<1>4. CASE CloseClient(c)
  BY <1>4, FdsAssumption, ThreadsAssumption DEF CloseClient, Close, ListenerPublished
<1>5. ASSUME NEW n \in Names, ReceiveName(c, n) PROVE DescriptorInv'
  BY <1>5 DEF ReceiveName
<1>6. CASE ReceiveNoName(c)
  BY <1>6 DEF ReceiveNoName
<1>7. CASE ReceiveLine(c) \/ ReceiveEnd(c)
  BY <1>7 DEF ReceiveLine, ReceiveEnd
<1>8. ASSUME NEW r \in Rooms, JoinRoom(c, r) \/ LeaveRoom(c, r) PROVE DescriptorInv'
  BY <1>8 DEF JoinRoom, LeaveRoom
<1>9. QED
  BY <1>1, <1>2, <1>3, <1>4, <1>5, <1>6, <1>7, <1>8 DEF ClientStep, PeerStep

\* Every step keeps the descriptors in order.
LEMMA NextDescriptorInv ==
  TypeInv /\ DescriptorInv /\ [Next]_vars => DescriptorInv'
<1> SUFFICES ASSUME TypeInv, DescriptorInv, [Next]_vars PROVE DescriptorInv'
  OBVIOUS
<1>1. CASE UNCHANGED vars
  BY <1>1 DEF DescriptorInv, Owned, Registered, Listed, vars, shared, starter,
              clients, sockets
<1>2. ASSUME NEW f \in Fds, OtherOpens(f) \/ OtherCloses(f) PROVE DescriptorInv'
  <2>1. Registered' /\ Listed'
    BY <1>2, MapsKept DEF DescriptorInv, OtherOpens, OtherCloses, shared, clients
  <2>2. Owned'
    BY <1>2, ThreadsAssumption, FdsAssumption
    DEF DescriptorInv, Owned, TypeInv, TypeOK, LocalsSet, Connected,
        OtherOpens, OtherCloses, starter, clients
  <2>3. QED
    BY <2>1, <2>2 DEF DescriptorInv
<1>3. QED
  BY <1>1, <1>2, StartDescriptorInv, AcceptDescriptorInv, StopDescriptorInv,
     ClientDescriptorInv
  DEF Next, StartStep

\* Whatever number the server keeps is open and its own: stop() never shuts
\* down, and no message is ever sent on, a descriptor that was closed and has
\* been given to somebody else.
THEOREM DescriptorsCorrect == Spec => []DescriptorsOurs
<1>1. TypeInv /\ DescriptorInv => DescriptorsOurs
  BY FdsAssumption
  DEF TypeInv, TypeOK, ListenerPublished, LocalsSet, DescriptorInv, Owned,
      Registered, Listed, Connected, DescriptorsOurs
<1>2. QED
  BY <1>1, InitTypeInv, NextTypeInv, InitDescriptorInv, NextDescriptorInv, PTL
  DEF Spec
-----------------------------------------------------------------------------
(***************************************************************************)
(* Quiet after stop()                                                      *)
(***************************************************************************)
LEMMA InitQuietInv == Init => QuietInv
BY DEF Init, QuietInv, Tracked, JoinedByOne, StopAhead, Serving

\* stop() takes over the threads under the lock and joins each.
LEMMA StopQuietInv ==
  ASSUME TypeInv, QuietInv, NEW s \in Stoppers, StopFlag(s) \/ StopStep(s)
  PROVE  QuietInv'
<1> USE DEF TypeInv, TypeOK, QuietInv, Tracked, JoinedByOne, StopAhead, Serving,
            StopAt, shared, clients
<1>1. CASE StopFlag(s)
  BY <1>1 DEF StopFlag
<1>2. CASE StopShutdown(s)
  BY <1>2 DEF StopShutdown
<1>3. CASE StopReturn(s)
  BY <1>3 DEF StopReturn
<1>4. CASE StopTake(s)
  BY <1>4 DEF StopTake
<1>5. CASE StopJoined(s)
  BY <1>5 DEF StopJoined
<1>6. QED
  BY <1>1, <1>2, <1>3, <1>4, <1>5 DEF StopStep

\* A step in which no client begins to be served and stop() does nothing.
LEMMA QuietKept ==
  ASSUME QuietInv, UNCHANGED <<clientThreads, stopPc, joining>>,
         ~running' => ~running,
         \A c \in Clients : Serving(c)' => Serving(c)
  PROVE  QuietInv'
BY DEF QuietInv, Tracked, JoinedByOne, StopAhead

\* Every step keeps that order.
LEMMA NextQuietInv == TypeInv /\ QuietInv /\ [Next]_vars => QuietInv'
<1> SUFFICES ASSUME TypeInv, QuietInv, [Next]_vars PROVE QuietInv'
  OBVIOUS
<1> USE DEF Serving, shared, stoppers, clients
<1>1. CASE UNCHANGED vars
  BY <1>1, QuietKept DEF vars
<1>2. ASSUME NEW f \in Fds, OtherOpens(f) \/ OtherCloses(f) PROVE QuietInv'
  BY <1>2, QuietKept DEF OtherOpens, OtherCloses
<1>3. ASSUME NEW f \in Fds, StartListen(f) PROVE QuietInv'
  BY <1>3, QuietKept DEF StartListen
<1>4. CASE StartFlag
  BY <1>4, QuietKept DEF StartFlag
<1>5. CASE StartPublish \/ StartLoop \/ AcceptFails \/ StartUnpublish \/ StartClose
  BY <1>5, QuietKept
  DEF StartPublish, StartLoop, AcceptFails, StartUnpublish, StartClose
<1>6. ASSUME NEW f \in Fds, NEW c \in Clients, Accept(c, f) PROVE QuietInv'
  BY <1>6, QuietKept DEF Accept, TypeInv, TypeOK
<1>7. ASSUME NEW c \in Clients, Spawn(c) PROVE QuietInv'
  BY <1>7 DEF Spawn, TypeInv, TypeOK, QuietInv, Tracked, JoinedByOne, StopAhead
<1>8. ASSUME NEW c \in Clients, Refuse(c) PROVE QuietInv'
  BY <1>8, QuietKept DEF Refuse, TypeInv, TypeOK
<1>9. ASSUME NEW c \in Clients, ClientStep(c) \/ PeerStep(c) PROVE QuietInv'
  <2>1. /\ UNCHANGED <<running, clientThreads, stopPc, joining>>
        /\ \A d \in Clients : Serving(d)' => Serving(d)
    BY <1>9
    DEF ClientStep, PeerStep, Register, ClientLoop, Leave, CloseClient, ReceiveName,
        ReceiveNoName, ReceiveLine, ReceiveEnd, JoinRoom, LeaveRoom, ClientAt,
        TypeInv, TypeOK
  <2>2. QED
    BY <2>1, QuietKept
<1>10. QED
  BY <1>1, <1>2, <1>3, <1>4, <1>5, <1>6, <1>7, <1>8, <1>9, StopQuietInv
  DEF Next, StartStep

\* When the calls of stop() have come back no client is served any more, and
\* none is until the next start(), whatever was being accepted meanwhile.
THEOREM QuietCorrect == Spec => []StoppedMeansQuiet
<1>1. QuietInv => StoppedMeansQuiet
  BY DEF QuietInv, Tracked, JoinedByOne, StopAhead, StoppedMeansQuiet
<1>2. QED
  BY <1>1, InitTypeInv, NextTypeInv, InitQuietInv, NextQuietInv, PTL DEF Spec
=============================================================================
