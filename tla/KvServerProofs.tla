--------------------------- MODULE KvServerProofs ---------------------------
(***************************************************************************)
(* Theorems about KvServer, for every set of clients, keys and values and  *)
(* every number of crashes.                                                *)
(***************************************************************************)
EXTENDS KvServer, FiniteSetTheorems, TLAPS

\* Where the threads can be: start() never saves, and only the thread of the
\* mode that was chosen does anything.
ClientPlaces == {"idle", "accepted", "spawned", "loop", "read", "save",
                 "saving", "reply", "close", "done"}
StarterPlaces == {"idle", "publish", "accept", "spawn", "unpublish", "returned"}
StopperPlaces == {"idle", "shutdown", "take", "join", "save", "saving", "stopped"}
ConsolePlaces == {"idle", "prompt", "save", "saving", "exited"}
Places == ClientPlaces \cup StarterPlaces \cup StopperPlaces \cup ConsolePlaces
PlacesOK ==
  /\ pc \in [Threads -> Places]
  /\ \A c \in Clients : pc[c] \in ClientPlaces
  /\ pc[Starter] \in StarterPlaces
  /\ pc[Stopper] \in StopperPlaces
  /\ pc[Console] \in ConsolePlaces

TypeInv == TypeOK /\ PlacesOK

\* A key that a request in front of its save may have changed.
Unsaved(k) ==
  \/ \E c \in Clients : pc[c] = "save" /\ k \in Touched(req[c])
  \/ pc[Console] = "save"

\* What has changed since the snapshot being written was taken belongs to
\* requests that have yet to save.
SnapshotFresh ==
  \A t \in Threads : pc[t] = "saving" =>
    \A k \in Keys : snap[t][k] # store[k] => Unsaved(k)

SavedInv == AnsweredIsSaved /\ SnapshotFresh

\* stop() runs in server mode only; it keeps at hand the threads of all clients,
\* and unless start() has raised the flag again it saves when none is left and
\* none can come.
StopInv ==
  /\ mode = "server" => pc[Console] = "idle"
  /\ pc[Stopper] # "idle" => mode = "server"
  /\ \A c \in Clients :
       pc[c] \notin {"idle", "accepted", "done"} => c \in clientThreads \cup joining
  /\ joining # {} => pc[Stopper] = "join"
  /\ pc[Stopper] \in {"save", "saving", "stopped"} /\ ~running => clientThreads = {}
-----------------------------------------------------------------------------
(***************************************************************************)
(* Threads, requests and what they do to the store                         *)
(***************************************************************************)
LEMMA TwoAreFew == \A x, y : Cardinality({x, y}) # 3
<1> TAKE x, y
<1>1. IsFiniteSet({x}) /\ Cardinality({x}) = 1
  BY FS_Singleton
<1>2. Cardinality({x} \cup {y}) \in {1, 2}
  BY <1>1, FS_AddElement
<1>3. QED
  BY <1>2, {x, y} = {x} \cup {y}

\* The server, the console and the clients are different threads.
LEMMA ThreadsDistinct ==
  /\ Starter # Stopper /\ Starter # Console /\ Stopper # Console
  /\ Starter \notin Clients /\ Stopper \notin Clients /\ Console \notin Clients
<1>1. Starter = Stopper => {Starter, Stopper, Console} = {Stopper, Console}
  OBVIOUS
<1>2. Starter = Console => {Starter, Stopper, Console} = {Stopper, Console}
  OBVIOUS
<1>3. Stopper = Console => {Starter, Stopper, Console} = {Starter, Console}
  OBVIOUS
<1>4. QED
  BY <1>1, <1>2, <1>3, TwoAreFew, ThreadsAssumption

Contents == [Keys -> Vals \cup {NoVal}]

\* A request changes the keys it touches and no other, and one whose status is
\* not ok -- the ones the server does not save after -- changes nothing.
LEMMA AppliedChanges ==
  ASSUME NEW r \in Requests, store \in Contents
  PROVE  /\ Applied(r) \in Contents
         /\ \A k \in Keys : Applied(r)[k] # store[k] => k \in Touched(r)
         /\ r.op \in {"SET", "CLEAR"} \/ (r.op = "DEL" /\ Present(r.key)) => StatusOk(r)
         /\ ~(r.op \in {"SET", "CLEAR"} \/ (r.op = "DEL" /\ Present(r.key)))
              => Applied(r) = store
<1> USE DEF Contents, Applied, Present, StatusOk
<1>1. CASE r.op = "SET"
  <2>1. r.key \in Keys /\ r.val \in Vals
    BY <1>1 DEF Requests
  <2>2. Touched(r) = {r.key}
    BY <1>1 DEF Touched
  <2>3. QED
    BY <1>1, <2>1, <2>2
<1>2. CASE r.op = "DEL"
  <2>1. r.key \in Keys
    BY <1>2 DEF Requests
  <2>2. Touched(r) = {r.key}
    BY <1>2 DEF Touched
  <2>3. QED
    BY <1>2, <2>1, <2>2
<1>3. CASE r.op = "CLEAR"
  <2>1. Touched(r) = Keys
    BY <1>3 DEF Touched
  <2>2. QED
    BY <1>3, <2>1
<1>4. CASE r.op \notin {"SET", "DEL", "CLEAR"}
  <2>1. Touched(r) = {}
    BY <1>4 DEF Touched
  <2>2. QED
    BY <1>4, <2>1
<1>5. QED
  BY <1>1, <1>2, <1>3, <1>4

\* The empty store is one of the contents.
LEMMA EmptyContents == Empty \in Contents
BY DEF Empty, Contents
-----------------------------------------------------------------------------
(***************************************************************************)
(* Types                                                                   *)
(***************************************************************************)
LEMMA StartPcOK ==
  ASSUME NEW m \in {"server", "cli"}, pc' = StartPc(m)
  PROVE  PlacesOK' /\ \A t \in Threads : pc'[t] # "saving"
BY ThreadsDistinct
DEF StartPc, PlacesOK, Threads, ClientPlaces, StarterPlaces, StopperPlaces, ConsolePlaces, Places

\* The server starts with its types.
LEMMA InitTypeInv == Init => TypeInv
<1> SUFFICES ASSUME Init PROVE TypeInv
  OBVIOUS
<1>1. PlacesOK /\ \A t \in Threads : pc[t] # "saving"
  BY ThreadsDistinct
  DEF Init, StartPc, PlacesOK, Threads, ClientPlaces, StarterPlaces, StopperPlaces,
      ConsolePlaces, Places
<1>2. /\ store \in Contents /\ disk \in Contents /\ snap \in [Threads -> Contents]
      /\ req \in [Threads -> Requests \cup {NoReq}]
  BY EmptyContents DEF Init
<1>3. /\ \A t \in Threads : holder = t <=> pc[t] = "saving"
      /\ holder \in Threads \cup {Nobody}
  BY <1>1, ThreadsAssumption DEF Init
<1>4. mode \in {"server", "cli"} /\ crashes \in 0..MaxCrashes
  BY BoundAssumption DEF Init
<1>5. /\ running \in BOOLEAN /\ published \in BOOLEAN /\ ioError \in BOOLEAN
      /\ shut = {} /\ clientThreads = {} /\ clientFds = {} /\ joining = {}
  BY DEF Init
<1>6. TypeOK
  BY <1>2, <1>3, <1>4, <1>5 DEF TypeOK, Contents
<1>7. QED
  BY <1>1, <1>6 DEF TypeInv

\* A client's connection keeps the types.
LEMMA ClientTypeInv ==
  ASSUME TypeInv, NEW c \in Clients,
         \/ \E r \in Requests : Execute(c, r)
         \/ SendReply(c) \/ Accept(c) \/ Spawn(c)
         \/ Register(c) \/ ClientLoop(c) \/ ReadEnd(c) \/ CloseClient(c)
  PROVE  TypeInv'
<1> USE ThreadsDistinct
    DEF TypeInv, TypeOK, PlacesOK, Threads, At, net, data, calls,
        ClientPlaces, StarterPlaces, StopperPlaces, ConsolePlaces, Places
<1>1. ASSUME NEW r \in Requests, Execute(c, r) PROVE TypeInv'
  <2>1. store' \in [Keys -> Vals \cup {NoVal}]
    BY <1>1, AppliedChanges DEF Execute, Contents
  <2>2. PlacesOK' /\ \A t \in Threads : pc'[t] = "saving" <=> pc[t] = "saving"
    BY <1>1 DEF Execute
  <2>3. req' \in [Threads -> Requests \cup {NoReq}]
    BY <1>1 DEF Execute
  <2>4. QED
    BY <1>1, <2>1, <2>2, <2>3 DEF Execute
<1>2. CASE SendReply(c)
  BY <1>2 DEF SendReply
<1>3. CASE Accept(c)
  BY <1>3 DEF Accept
<1>4. CASE Spawn(c)
  BY <1>4 DEF Spawn
<1>5. CASE Register(c)
  BY <1>5 DEF Register
<1>6. CASE ClientLoop(c) \/ ReadEnd(c)
  BY <1>6 DEF ClientLoop, ReadEnd
<1>7. CASE CloseClient(c)
  BY <1>7 DEF CloseClient
<1>8. QED
  BY <1>1, <1>2, <1>3, <1>4, <1>5, <1>6, <1>7

\* save() keeps the types.
LEMMA SaveTypeInv ==
  ASSUME TypeInv, NEW t \in Clients \cup {Stopper, Console},
         \/ SaveBegin(t) \/ SaveEnd(t) \/ SaveRefused(t) \/ SaveTorn(t)
         \/ \E k \in Keys : SaveEntry(t, k)
  PROVE  TypeInv'
<1> USE ThreadsDistinct, ThreadsAssumption
    DEF TypeInv, TypeOK, PlacesOK, Threads, At, net, data, calls,
        ClientPlaces, StarterPlaces, StopperPlaces, ConsolePlaces, Places
<1>1. /\ t \in Clients => AfterSave(t) = "reply"
      /\ t = Stopper => AfterSave(t) = "stopped"
      /\ t = Console => AfterSave(t) = "prompt"
  BY DEF AfterSave
<1>2. CASE SaveBegin(t)
  BY <1>2, EmptyContents DEF SaveBegin, Contents
<1>3. CASE SaveEnd(t)
  <2>1. snap' \in [Threads -> [Keys -> Vals \cup {NoVal}]]
    BY <1>3, EmptyContents DEF SaveEnd, Contents
  <2>2. PlacesOK' /\ \A u \in Threads : pc'[u] # "saving"
    BY <1>1, <1>3 DEF SaveEnd
  <2>3. disk' = disk /\ holder' = Nobody /\ ioError' = FALSE
    BY <1>3 DEF SaveEnd
  <2>4. UNCHANGED <<mode, running, published, shut, clientThreads, clientFds, joining, store, req, crashes>>
    BY <1>3 DEF SaveEnd
  <2>5. TypeOK'
    BY <2>1, <2>2, <2>3, <2>4
  <2>6. QED
    BY <2>2, <2>5
<1>4. CASE SaveRefused(t)
  BY <1>1, <1>4 DEF SaveRefused
<1>5. CASE SaveTorn(t)
  BY <1>1, <1>5, EmptyContents DEF SaveTorn, Contents
<1>6. ASSUME NEW k \in Keys, SaveEntry(t, k) PROVE TypeInv'
  BY <1>6 DEF SaveEntry
<1>7. QED
  BY <1>2, <1>3, <1>4, <1>5, <1>6

\* The server's thread keeps the types.
LEMMA ServerTypeInv ==
  ASSUME TypeInv,
         \/ StartFlag \/ StartPublish \/ AcceptEnds \/ StartReturn
         \/ StopFlag \/ StopShutdown \/ StopTake \/ StopJoined
  PROVE  TypeInv'
<1> USE ThreadsDistinct
    DEF TypeInv, TypeOK, PlacesOK, Threads, At, net, data, calls, netButFlag,
        ClientPlaces, StarterPlaces, StopperPlaces, ConsolePlaces, Places
<1>1. CASE StartFlag
  BY <1>1 DEF StartFlag
<1>2. CASE StartPublish
  BY <1>2 DEF StartPublish
<1>3. CASE AcceptEnds
  BY <1>3 DEF AcceptEnds
<1>4. CASE StartReturn
  BY <1>4 DEF StartReturn
<1>5. CASE StopFlag
  BY <1>5 DEF StopFlag
<1>6. CASE StopShutdown
  BY <1>6 DEF StopShutdown
<1>7. CASE StopTake
  BY <1>7 DEF StopTake
<1>8. CASE StopJoined
  BY <1>8 DEF StopJoined
<1>9. QED
  BY <1>1, <1>2, <1>3, <1>4, <1>5, <1>6, <1>7, <1>8

\* The console keeps the types.
LEMMA ConsoleTypeInv ==
  ASSUME TypeInv,
         \/ \E r \in Requests : ConsoleExecute(r)
         \/ ConsoleSave \/ ConsoleLoad \/ ConsoleExit
  PROVE  TypeInv'
<1> USE ThreadsDistinct
    DEF TypeInv, TypeOK, PlacesOK, Threads, At, net, data, calls,
        ClientPlaces, StarterPlaces, StopperPlaces, ConsolePlaces, Places
<1>1. ASSUME NEW r \in Requests, ConsoleExecute(r) PROVE TypeInv'
  <2>1. store' \in [Keys -> Vals \cup {NoVal}]
    BY <1>1, AppliedChanges DEF ConsoleExecute, Contents
  <2>2. PlacesOK' /\ \A t \in Threads : pc'[t] = "saving" <=> pc[t] = "saving"
    BY <1>1 DEF ConsoleExecute
  <2>3. QED
    BY <1>1, <2>1, <2>2 DEF ConsoleExecute
<1>2. CASE ConsoleSave \/ ConsoleExit
  BY <1>2 DEF ConsoleSave, ConsoleExit
<1>3. CASE ConsoleLoad
  BY <1>3 DEF ConsoleLoad
<1>4. QED
  BY <1>1, <1>2, <1>3

\* A crash keeps the types.
LEMMA CrashTypeInv ==
  ASSUME TypeInv, Crash
  PROVE  TypeInv'
<1>1. PlacesOK' /\ \A t \in Threads : pc'[t] # "saving"
  BY StartPcOK DEF Crash
<1>2. store' \in Contents /\ disk' \in Contents /\ snap' \in [Threads -> Contents]
  BY EmptyContents DEF Crash, TypeInv, TypeOK, Contents
<1>3. /\ \A t \in Threads : holder' = t <=> pc'[t] = "saving"
      /\ holder' \in Threads \cup {Nobody}
  BY <1>1, ThreadsAssumption DEF Crash
<1>4. req' \in [Threads -> Requests \cup {NoReq}]
  BY DEF Crash
<1>5. mode' \in {"server", "cli"} /\ ioError' \in BOOLEAN /\ crashes' \in 0..MaxCrashes
  <2>1. mode' \in {"server", "cli"} /\ crashes' \in 0..MaxCrashes
    BY BoundAssumption DEF Crash, TypeInv, TypeOK
  <2>2. ioError' \in BOOLEAN
    BY DEF Crash
  <2>3. QED
    BY <2>1, <2>2
<1>6. /\ running' \in BOOLEAN /\ published' \in BOOLEAN
      /\ shut' = {} /\ clientThreads' = {} /\ clientFds' = {} /\ joining' = {}
  BY DEF Crash
<1>7. TypeOK'
  BY <1>2, <1>3, <1>4, <1>5, <1>6 DEF TypeOK, Contents
<1>8. QED
  BY <1>1, <1>7 DEF TypeInv

\* Every step keeps the types.
LEMMA NextTypeInv == TypeInv /\ [Next]_vars => TypeInv'
<1> SUFFICES ASSUME TypeInv, [Next]_vars PROVE TypeInv'
  OBVIOUS
<1>1. CASE UNCHANGED vars
  BY <1>1 DEF TypeInv, TypeOK, PlacesOK, vars, net, data, calls
<1>2. QED
  BY <1>1, ClientTypeInv, SaveTypeInv, ServerTypeInv, ConsoleTypeInv, CrashTypeInv
  DEF Next

\* The variables keep their types, and persistenceMutex_ is held by the thread
\* that is writing the file and by no other: one writes at a time, and whoever
\* fails gives the lock back.
THEOREM TypeCorrect == Spec => []TypeOK
<1>1. TypeInv => TypeOK
  BY DEF TypeInv
<1>2. QED
  BY <1>1, InitTypeInv, NextTypeInv, PTL DEF Spec
-----------------------------------------------------------------------------
(***************************************************************************)
(* What was answered is in the file                                        *)
(***************************************************************************)
LEMMA InitSavedInv == Init => SavedInv
<1> SUFFICES ASSUME Init PROVE SavedInv
  OBVIOUS
<1>1. disk = store /\ \A t \in Threads : pc[t] # "saving"
  BY DEF Init, StartPc
<1>2. QED
  BY <1>1 DEF SavedInv, AnsweredIsSaved, SnapshotFresh

\* A step that leaves the store, the file and the saves alone.
LEMMA SavedKept ==
  ASSUME TypeInv, SavedInv, UNCHANGED <<store, disk, snap, ioError>>,
         \A t \in Threads :
           /\ pc'[t] = "saving" <=> pc[t] = "saving"
           /\ pc[t] = "save" => pc'[t] = "save" /\ req'[t] = req[t]
  PROVE  SavedInv'
<1>1. \A k \in Keys : Unsaved(k) => Unsaved(k)'
  <2> SUFFICES ASSUME NEW k \in Keys, Unsaved(k) PROVE Unsaved(k)'
    OBVIOUS
  <2>1. ASSUME NEW c \in Clients, pc[c] = "save", k \in Touched(req[c])
        PROVE  Unsaved(k)'
    <3>1. pc'[c] = "save" /\ req'[c] = req[c]
      BY <2>1 DEF Threads
    <3>2. QED
      BY <2>1, <3>1 DEF Unsaved, Touched
  <2>2. CASE pc[Console] = "save"
    BY <2>2 DEF Unsaved, Threads
  <2>3. QED
    BY <2>1, <2>2 DEF Unsaved
<1>2. AnsweredIsSaved'
  BY <1>1 DEF SavedInv, AnsweredIsSaved, Unsaved
<1>3. SnapshotFresh'
  BY <1>1 DEF SavedInv, SnapshotFresh
<1>4. QED
  BY <1>2, <1>3 DEF SavedInv

\* A step that changes nothing but keys which are then unsaved.
LEMMA SavedChange ==
  ASSUME TypeInv, SavedInv, UNCHANGED <<disk, snap, ioError>>,
         \A t \in Threads : pc'[t] = "saving" <=> pc[t] = "saving",
         \A k \in Keys : Unsaved(k) \/ store'[k] # store[k] => Unsaved(k)'
  PROVE  SavedInv'
<1>1. AnsweredIsSaved'
  BY DEF SavedInv, AnsweredIsSaved, Unsaved
<1>2. SnapshotFresh'
  BY DEF SavedInv, SnapshotFresh
<1>3. QED
  BY <1>1, <1>2 DEF SavedInv

\* A client's request is answered behind its save, or changed nothing.
LEMMA ClientSavedInv ==
  ASSUME TypeInv, SavedInv, NEW c \in Clients,
         \/ \E r \in Requests : Execute(c, r)
         \/ SendReply(c) \/ Accept(c) \/ Spawn(c)
         \/ Register(c) \/ ClientLoop(c) \/ ReadEnd(c) \/ CloseClient(c)
  PROVE  SavedInv'
<1> USE ThreadsDistinct
    DEF TypeInv, TypeOK, PlacesOK, Threads, At, net, data, calls
<1>1. ASSUME NEW r \in Requests, Execute(c, r) PROVE SavedInv'
  <2>1. /\ UNCHANGED <<disk, snap, ioError>>
        /\ pc[c] = "read"
        /\ pc' = [pc EXCEPT ![c] = IF StatusOk(r) THEN "save" ELSE "reply"]
        /\ req' = [req EXCEPT ![c] = r]
        /\ store' = Applied(r)
    BY <1>1 DEF Execute
  <2>2. \A t \in Threads : pc'[t] = "saving" <=> pc[t] = "saving"
    BY <2>1
  <2>3. \A d \in Clients : d # c => pc'[d] = pc[d] /\ req'[d] = req[d]
    BY <2>1
  <2>4. ASSUME NEW k \in Keys, Unsaved(k) PROVE Unsaved(k)'
    <3>1. ASSUME NEW d \in Clients, pc[d] = "save", k \in Touched(req[d])
          PROVE  Unsaved(k)'
      <4>1. pc'[d] = "save" /\ req'[d] = req[d]
        BY <2>1, <2>3, <3>1
      <4>2. QED
        BY <3>1, <4>1 DEF Unsaved, Touched
    <3>2. pc'[Console] = pc[Console]
      BY <2>1
    <3>3. QED
      BY <2>4, <3>1, <3>2 DEF Unsaved
  <2>5. ASSUME NEW k \in Keys, store'[k] # store[k] PROVE Unsaved(k)'
    <3>1. k \in Touched(r) /\ StatusOk(r)
      BY <2>1, <2>5, AppliedChanges DEF Contents
    <3>2. pc'[c] = "save" /\ req'[c] = r
      BY <2>1, <3>1
    <3>3. QED
      BY <3>1, <3>2 DEF Unsaved, Touched
  <2>6. QED
    BY <2>1, <2>2, <2>4, <2>5, SavedChange
<1>2. CASE SendReply(c)
  BY <1>2, SavedKept DEF SendReply
<1>3. CASE Accept(c)
  BY <1>3, SavedKept DEF Accept
<1>4. CASE Spawn(c)
  BY <1>4, SavedKept DEF Spawn
<1>5. CASE Register(c)
  BY <1>5, SavedKept DEF Register
<1>6. CASE ClientLoop(c) \/ ReadEnd(c)
  BY <1>6, SavedKept DEF ClientLoop, ReadEnd
<1>7. CASE CloseClient(c)
  BY <1>7, SavedKept DEF CloseClient
<1>8. QED
  BY <1>1, <1>2, <1>3, <1>4, <1>5, <1>6, <1>7

\* save() takes its snapshot and writes it under one lock.
LEMMA SaveSavedInv ==
  ASSUME TypeInv, SavedInv, NEW t \in Clients \cup {Stopper, Console},
         \/ SaveBegin(t) \/ SaveEnd(t) \/ SaveRefused(t) \/ SaveTorn(t)
         \/ \E k \in Keys : SaveEntry(t, k)
  PROVE  SavedInv'
<1> USE ThreadsDistinct, ThreadsAssumption
    DEF TypeInv, TypeOK, PlacesOK, Threads, At, net, data, calls
<1>1. AfterSave(t) \notin {"save", "saving"}
  BY DEF AfterSave
<1>2. CASE SaveBegin(t)
  <2>1. /\ snap'[t] = store /\ store' = store
        /\ \A u \in Threads : pc'[u] = "saving" <=> u = t
    BY <1>2 DEF SaveBegin
  <2>2. QED
    BY <2>1 DEF SavedInv, AnsweredIsSaved, SnapshotFresh
<1>3. CASE SaveEnd(t)
  <2>1. /\ disk' = snap[t] /\ store' = store /\ req' = req
        /\ \A u \in Threads : pc'[u] # "saving"
        /\ \A u \in Threads : pc[u] = "save" => pc'[u] = "save"
        /\ pc[t] = "saving"
    BY <1>1, <1>3 DEF SaveEnd
  <2>2. SnapshotFresh'
    BY <2>1 DEF SnapshotFresh
  <2>3. ASSUME NEW k \in Keys, disk'[k] # store'[k] PROVE Unsaved(k)'
    <3>1. Unsaved(k)
      BY <2>1, <2>3 DEF SavedInv, SnapshotFresh
    <3>2. QED
      BY <2>1, <3>1 DEF Unsaved, Touched
  <2>4. AnsweredIsSaved'
    BY <2>3 DEF AnsweredIsSaved, Unsaved
  <2>5. QED
    BY <2>2, <2>4 DEF SavedInv
<1>4. CASE SaveRefused(t) \/ SaveTorn(t)
  <2>1. ioError' /\ \A u \in Threads : pc'[u] # "saving"
    <3>1. CASE SaveRefused(t)
      BY <1>1, <3>1 DEF SaveRefused
    <3>2. CASE SaveTorn(t)
      BY <1>1, <3>2 DEF SaveTorn
    <3>3. QED
      BY <1>4, <3>1, <3>2
  <2>2. QED
    BY <2>1 DEF SavedInv, AnsweredIsSaved, SnapshotFresh
<1>5. ASSUME NEW k \in Keys, SaveEntry(t, k) PROVE SavedInv'
  <2>1. /\ pc[t] = "saving" /\ UNCHANGED <<pc, store, snap, req>>
    BY <1>5 DEF SaveEntry
  <2>2. AnsweredIsSaved'
    BY <2>1 DEF AnsweredIsSaved
  <2>3. SnapshotFresh'
    BY <2>1 DEF SavedInv, SnapshotFresh, Unsaved, Touched
  <2>4. QED
    BY <2>2, <2>3 DEF SavedInv
<1>6. QED
  BY <1>2, <1>3, <1>4, <1>5

\* start() and stop() change neither the store nor the file.
LEMMA ServerSavedInv ==
  ASSUME TypeInv, SavedInv,
         \/ StartFlag \/ StartPublish \/ AcceptEnds \/ StartReturn
         \/ StopFlag \/ StopShutdown \/ StopTake \/ StopJoined
  PROVE  SavedInv'
<1> USE ThreadsDistinct
    DEF TypeInv, TypeOK, PlacesOK, Threads, At, net, data, calls, netButFlag
<1>1. CASE StartFlag \/ StartPublish \/ AcceptEnds \/ StartReturn
  BY <1>1, SavedKept DEF StartFlag, StartPublish, AcceptEnds, StartReturn
<1>2. CASE StopFlag \/ StopShutdown
  BY <1>2, SavedKept DEF StopFlag, StopShutdown
<1>3. CASE StopTake
  BY <1>3, SavedKept DEF StopTake
<1>4. CASE StopJoined
  BY <1>4, SavedKept DEF StopJoined
<1>5. QED
  BY <1>1, <1>2, <1>3, <1>4

\* What the console changes it has yet to save.
LEMMA ConsoleSavedInv ==
  ASSUME TypeInv, SavedInv,
         \/ \E r \in Requests : ConsoleExecute(r)
         \/ ConsoleSave \/ ConsoleLoad \/ ConsoleExit
  PROVE  SavedInv'
<1> USE ThreadsDistinct, ThreadsAssumption
    DEF TypeInv, TypeOK, PlacesOK, Threads, At, net, data, calls
<1>1. ASSUME NEW r \in Requests, ConsoleExecute(r) PROVE SavedInv'
  <2> DEFINE Changes == r.op \in {"SET", "CLEAR"} \/ (r.op = "DEL" /\ Present(r.key))
  <2>1. /\ UNCHANGED <<disk, snap, ioError, req>>
        /\ pc[Console] = "prompt"
        /\ pc' = [pc EXCEPT ![Console] = IF Changes THEN "save" ELSE "prompt"]
        /\ store' = Applied(r)
    BY <1>1 DEF ConsoleExecute
  <2>2. ASSUME NEW k \in Keys, store'[k] # store[k] PROVE Unsaved(k)'
    <3>1. Changes
      BY <2>1, <2>2, AppliedChanges DEF Contents
    <3>2. QED
      BY <2>1, <3>1 DEF Unsaved
  <2>3. ASSUME NEW k \in Keys, Unsaved(k) PROVE Unsaved(k)'
    BY <2>1, <2>3 DEF Unsaved, Touched
  <2>4. \A t \in Threads : pc'[t] = "saving" <=> pc[t] = "saving"
    BY <2>1
  <2>5. QED
    BY <2>1, <2>2, <2>3, <2>4, SavedChange
<1>2. CASE ConsoleSave \/ ConsoleExit
  BY <1>2, SavedKept DEF ConsoleSave, ConsoleExit
<1>3. CASE ConsoleLoad
  <2>1. store' = disk' /\ \A t \in Threads : pc'[t] # "saving"
    BY <1>3 DEF ConsoleLoad
  <2>2. QED
    BY <2>1 DEF SavedInv, AnsweredIsSaved, SnapshotFresh
<1>4. QED
  BY <1>1, <1>2, <1>3

\* Every step keeps the answered requests in the file.
LEMMA NextSavedInv == TypeInv /\ SavedInv /\ [Next]_vars => SavedInv'
<1> SUFFICES ASSUME TypeInv, SavedInv, [Next]_vars PROVE SavedInv'
  OBVIOUS
<1>1. CASE UNCHANGED vars
  BY <1>1, SavedKept DEF vars, net, data, calls
<1>2. CASE Crash
  <2>1. /\ store' = disk' \/ ioError'
        /\ \A t \in Threads : pc'[t] # "saving"
    BY <1>2, StartPcOK DEF Crash
  <2>2. QED
    BY <2>1 DEF SavedInv, AnsweredIsSaved, SnapshotFresh
<1>3. QED
  BY <1>1, <1>2, ClientSavedInv, SaveSavedInv, ServerSavedInv, ConsoleSavedInv
  DEF Next

\* Whatever a client was told has been written, however the saves and the
\* requests of the others fall between: the snapshot that a save writes is
\* taken inside of persistenceMutex_, so an older one never overwrites a
\* newer one.
THEOREM SavesCorrect == Spec => []AnsweredIsSaved
<1>1. SavedInv => AnsweredIsSaved
  BY DEF SavedInv
<1>2. QED
  BY <1>1, InitTypeInv, NextTypeInv, InitSavedInv, NextSavedInv, PTL DEF Spec
-----------------------------------------------------------------------------
(***************************************************************************)
(* stop()                                                                  *)
(***************************************************************************)
LEMMA InitStopInv == Init => StopInv
BY ThreadsDistinct DEF Init, StopInv, StartPc, Threads

\* A client is among the threads at hand until it is done.
LEMMA ClientStopInv ==
  ASSUME TypeInv, StopInv, NEW c \in Clients,
         \/ \E r \in Requests : Execute(c, r)
         \/ SendReply(c) \/ Accept(c) \/ Spawn(c)
         \/ Register(c) \/ ClientLoop(c) \/ ReadEnd(c) \/ CloseClient(c)
  PROVE  StopInv'
<1> USE ThreadsDistinct
    DEF TypeInv, TypeOK, PlacesOK, Threads, At, net, StopInv
<1>1. CASE \/ \E r \in Requests : Execute(c, r)
           \/ ClientLoop(c) \/ ReadEnd(c) \/ CloseClient(c)
  BY <1>1 DEF Execute, ClientLoop, ReadEnd, CloseClient
<1>2. CASE SendReply(c)
  BY <1>2 DEF SendReply
<1>3. CASE Accept(c)
  BY <1>3 DEF Accept
<1>4. CASE Spawn(c)
  BY <1>4 DEF Spawn
<1>5. CASE Register(c)
  BY <1>5 DEF Register
<1>6. QED
  BY <1>1, <1>2, <1>3, <1>4, <1>5

\* The save of stop() ends it; those of the others leave the stop alone.
LEMMA SaveStopInv ==
  ASSUME TypeInv, StopInv, NEW t \in Clients \cup {Stopper, Console},
         \/ SaveBegin(t) \/ SaveEnd(t) \/ SaveRefused(t) \/ SaveTorn(t)
         \/ \E k \in Keys : SaveEntry(t, k)
  PROVE  StopInv'
<1> USE ThreadsDistinct
    DEF TypeInv, TypeOK, PlacesOK, Threads, At, net, StopInv
<1>1. /\ t \in Clients => AfterSave(t) = "reply"
      /\ t = Stopper => AfterSave(t) = "stopped"
      /\ t = Console => AfterSave(t) = "prompt"
  BY DEF AfterSave
<1>2. CASE SaveBegin(t)
  BY <1>2 DEF SaveBegin
<1>3. CASE SaveEnd(t)
  BY <1>1, <1>3 DEF SaveEnd
<1>4. CASE SaveRefused(t)
  BY <1>1, <1>4 DEF SaveRefused
<1>5. CASE SaveTorn(t)
  BY <1>1, <1>5 DEF SaveTorn
<1>6. ASSUME NEW k \in Keys, SaveEntry(t, k) PROVE StopInv'
  BY <1>6 DEF SaveEntry
<1>7. QED
  BY <1>2, <1>3, <1>4, <1>5, <1>6

\* stop() takes the threads over, joins each, and only then saves.
LEMMA ServerStopInv ==
  ASSUME TypeInv, StopInv,
         \/ StartFlag \/ StartPublish \/ AcceptEnds \/ StartReturn
         \/ StopFlag \/ StopShutdown \/ StopTake \/ StopJoined
  PROVE  StopInv'
<1> USE ThreadsDistinct
    DEF TypeInv, TypeOK, PlacesOK, Threads, At, net, netButFlag, StopInv
<1>1. CASE StartFlag
  BY <1>1 DEF StartFlag
<1>2. CASE StartPublish \/ AcceptEnds \/ StartReturn
  BY <1>2 DEF StartPublish, AcceptEnds, StartReturn
<1>3. CASE StopFlag
  BY <1>3 DEF StopFlag
<1>4. CASE StopShutdown
  BY <1>4 DEF StopShutdown
<1>5. CASE StopTake
  BY <1>5 DEF StopTake
<1>6. CASE StopJoined
  BY <1>6 DEF StopJoined
<1>7. QED
  BY <1>1, <1>2, <1>3, <1>4, <1>5, <1>6

\* Every step keeps that order.
LEMMA NextStopInv == TypeInv /\ StopInv /\ [Next]_vars => StopInv'
<1> SUFFICES ASSUME TypeInv, StopInv, [Next]_vars PROVE StopInv'
  OBVIOUS
<1>1. CASE UNCHANGED vars
  BY <1>1 DEF StopInv, vars, net
<1>2. ASSUME (\E r \in Requests : ConsoleExecute(r))
             \/ ConsoleSave \/ ConsoleLoad \/ ConsoleExit
      PROVE  StopInv'
  BY <1>2, ThreadsDistinct
  DEF ConsoleExecute, ConsoleSave, ConsoleLoad, ConsoleExit, StopInv, net, At,
      TypeInv, TypeOK, PlacesOK, Threads
<1>3. CASE Crash
  BY <1>3, ThreadsDistinct DEF Crash, StartPc, StopInv, Threads
<1>4. QED
  BY <1>1, <1>2, <1>3, ClientStopInv, SaveStopInv, ServerStopInv DEF Next

\* When stop() has come back and the flag is still down, every client has been
\* joined, so nothing is left that could change the store, and the file is the
\* store, if it could be written.
THEOREM StopCorrect == Spec => []StopSaves
<1>1. TypeInv /\ SavedInv /\ StopInv => StopSaves
  <2> SUFFICES ASSUME TypeInv, SavedInv, StopInv, pc[Stopper] = "stopped", ~running, ~ioError
               PROVE  disk = store
    BY DEF StopSaves
  <2>1. /\ \A c \in Clients : pc[c] \in {"idle", "accepted", "done"}
        /\ pc[Console] = "idle"
    BY DEF StopInv
  <2>2. \A t \in Threads : pc[t] # "saving"
    BY <2>1 DEF Threads, TypeInv, PlacesOK, StarterPlaces
  <2>3. \A k \in Keys : disk[k] = store[k]
    BY <2>1, <2>2 DEF SavedInv, AnsweredIsSaved
  <2>4. QED
    BY <2>3 DEF TypeInv, TypeOK
<1>2. QED
  BY <1>1, InitTypeInv, NextTypeInv, InitSavedInv, NextSavedInv, InitStopInv,
     NextStopInv, PTL
  DEF Spec
=============================================================================
