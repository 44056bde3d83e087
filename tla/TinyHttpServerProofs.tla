------------------------ MODULE TinyHttpServerProofs ------------------------
(***************************************************************************)
(* Theorems about TinyHttpServer, for every set of connections, every size *)
(* of the pool and every number of calls of start().                       *)
(***************************************************************************)
EXTENDS TinyHttpServer, FiniteSetTheorems, TLAPS

\* server_fd_ is set only while start() has the socket.
Published == published => startPc \notin {"idle", "flag", "publish", "close"}

TypeInv == TypeOK /\ Published

\* A connection is in one place at a time: in the accept loop, at one position
\* of the queue, or with one worker.
Once ==
  /\ \A v, w \in Workers : serving[v] = serving[w] /\ serving[v] # NoClient => v = w
  /\ \A i, j \in DOMAIN tasks : tasks[i] = tasks[j] => i = j
  /\ \A i \in DOMAIN tasks :
       tasks[i] # accepted /\ \A w \in Workers : tasks[i] # serving[w]
  /\ \A w \in Workers : serving[w] = accepted => accepted = NoClient

\* A connection is open exactly while it is in one of these places.
Held(c) ==
  \/ accepted = c
  \/ \E w \in Workers : serving[w] = c
  \/ \E i \in DOMAIN tasks : tasks[i] = c
OpenHeld == \A c \in Clients : sock[c] = "open" <=> Held(c)

\* clientFds_ holds the connection of a worker between the block that enters
\* it and the block that takes it out.
Registered ==
  \A c \in clientFds :
    \E w \in Workers : pc[w] \in {"read", "respond", "unregister"} /\ serving[w] = c

HandsInv == Once /\ OpenHeld /\ Registered
-----------------------------------------------------------------------------
(***************************************************************************)
(* Types                                                                   *)
(***************************************************************************)
LEMMA InitTypeInv == Init => TypeInv
<1> SUFFICES ASSUME Init PROVE TypeInv
  OBVIOUS
<1>1. tasks \in Seq(Clients)
  BY DEF Init
<1>2. /\ shut \in SUBSET (Clients \cup {NoClient}) /\ clientFds \in SUBSET Clients
      /\ starts \in 0..MaxStarts
  BY BoundAssumption DEF Init
<1>3. /\ accepted # NoClient <=> startPc \in {"check", "enqueue"}
      /\ \A w \in Workers :
           serving[w] = NoClient <=> pc[w] \in {"wait", "blocked", "exited"}
  BY DEF Init
<1>4. TypeOK /\ Published
  BY <1>1, <1>2, <1>3 DEF Init, TypeOK, Published
<1>5. QED
  BY <1>4 DEF TypeInv

\* start() keeps the types.
LEMMA StartTypeInv ==
  ASSUME TypeInv,
         \/ StartListen \/ AcceptFails \/ StartStep
         \/ \E c \in Clients : Accept(c)
  PROVE  TypeInv'
<1> USE DEF TypeInv, TypeOK, Published, StartAt, server, pool, workers
<1>1. CASE StartListen
  BY <1>1, BoundAssumption DEF StartListen
<1>2. CASE AcceptFails
  BY <1>2 DEF AcceptFails
<1>3. ASSUME NEW c \in Clients, Accept(c) PROVE TypeInv'
  BY <1>3, ClientsAssumption DEF Accept
<1>4. CASE StartFlag \/ StartPublish
  <2>1. CASE StartFlag
    BY <2>1 DEF StartFlag
  <2>2. CASE StartPublish
    BY <2>2 DEF StartPublish
  <2>3. QED
    BY <1>4, <2>1, <2>2
<1>5. CASE StartLoop
  BY <1>5 DEF StartLoop
<1>6. CASE AcceptCheck
  BY <1>6 DEF AcceptCheck
<1>7. CASE AcceptRefuse
  BY <1>7 DEF AcceptRefuse
<1>8. CASE Enqueue
  <2>1. accepted \in Clients
    BY <1>8 DEF Enqueue
  <2>2. tasks' \in Seq(Clients)
    BY <1>8, <2>1 DEF Enqueue
  <2>3. QED
    BY <1>8, <2>2 DEF Enqueue
<1>9. CASE EnqueueNotify
  BY <1>9 DEF EnqueueNotify
<1>10. CASE StartUnpublish \/ StartClose
  <2>1. CASE StartUnpublish
    BY <2>1 DEF StartUnpublish
  <2>2. CASE StartClose
    BY <2>2 DEF StartClose
  <2>3. QED
    BY <1>10, <2>1, <2>2
<1>11. QED
  BY <1>1, <1>2, <1>3, <1>4, <1>5, <1>6, <1>7, <1>8, <1>9, <1>10 DEF StartStep

\* The owner's calls keep the types.
LEMMA OwnerTypeInv ==
  ASSUME TypeInv, StopFlag \/ DestroyFlag \/ OwnerStep
  PROVE  TypeInv'
<1> USE DEF TypeInv, TypeOK, Published, OwnerAt, server, starter, pool, workers
<1>1. CASE StopFlag \/ DestroyFlag
  <2>1. CASE StopFlag
    BY <2>1 DEF StopFlag
  <2>2. CASE DestroyFlag
    BY <2>2 DEF DestroyFlag
  <2>3. QED
    BY <1>1, <2>1, <2>2
<1>2. CASE StopShutdown
  BY <1>2 DEF StopShutdown
<1>3. CASE DestroyRegistry \/ PoolFlag
  <2>1. CASE DestroyRegistry
    BY <2>1 DEF DestroyRegistry
  <2>2. CASE PoolFlag
    BY <2>2 DEF PoolFlag
  <2>3. QED
    BY <1>3, <2>1, <2>2
<1>4. CASE PoolNotify
  BY <1>4 DEF PoolNotify
<1>5. CASE PoolJoined
  BY <1>5 DEF PoolJoined
<1>6. QED
  BY <1>1, <1>2, <1>3, <1>4, <1>5 DEF OwnerStep

\* A worker keeps the types.
LEMMA WorkerTypeInv ==
  ASSUME TypeInv, NEW w \in Workers,
         \/ WorkerStep(w) \/ SpuriousWakeup(w)
         \/ Read(w) \/ ReadEnd(w) \/ DiesOfRegistry(w)
  PROVE  TypeInv'
<1> USE DEF TypeInv, TypeOK, Published, At, server, starter, pool
<1>1. CASE WorkerBlock(w) \/ SpuriousWakeup(w) \/ WorkerExit(w)
  BY <1>1 DEF WorkerBlock, SpuriousWakeup, WorkerExit
<1>2. CASE WorkerTake(w)
  <2>1. Head(tasks) \in Clients /\ tasks' \in Seq(Clients)
    BY <1>2 DEF WorkerTake
  <2>2. QED
    BY <1>2, <2>1, ClientsAssumption DEF WorkerTake
<1>3. CASE Register(w)
  BY <1>3 DEF Register
<1>4. CASE Read(w) \/ ReadEnd(w) \/ Respond(w)
  BY <1>4 DEF Read, ReadEnd, Respond
<1>5. CASE Unregister(w)
  BY <1>5 DEF Unregister
<1>6. CASE CloseClient(w)
  BY <1>6 DEF CloseClient
<1>7. CASE DiesOfRegistry(w)
  BY <1>7 DEF DiesOfRegistry, workers
<1>8. QED
  BY <1>1, <1>2, <1>3, <1>4, <1>5, <1>6, <1>7 DEF WorkerStep

\* Every step keeps the types.
LEMMA NextTypeInv == TypeInv /\ [Next]_vars => TypeInv'
<1> SUFFICES ASSUME TypeInv, [Next]_vars PROVE TypeInv'
  OBVIOUS
<1>1. CASE UNCHANGED vars
  BY <1>1 DEF TypeInv, TypeOK, Published, vars, server, starter, pool, workers
<1>2. QED
  BY <1>1, StartTypeInv, OwnerTypeInv, WorkerTypeInv DEF Next

\* The variables keep their types; in particular the accept loop holds a
\* connection exactly between accept() and the queue, and a worker exactly
\* between the queue and close().
THEOREM TypeCorrect == Spec => []TypeOK
<1>1. TypeInv => TypeOK
  BY DEF TypeInv
<1>2. QED
  BY <1>1, InitTypeInv, NextTypeInv, PTL DEF Spec
-----------------------------------------------------------------------------
(***************************************************************************)
(* Connections                                                             *)
(***************************************************************************)
LEMMA InitHandsInv == Init => HandsInv
<1> SUFFICES ASSUME Init PROVE HandsInv
  OBVIOUS
<1>1. /\ DOMAIN tasks = {} /\ clientFds = {} /\ accepted = NoClient
      /\ \A w \in Workers : serving[w] = NoClient
      /\ \A c \in Clients : sock[c] = "away"
  BY DEF Init
<1>2. Once /\ Registered
  BY <1>1 DEF Once, Registered
<1>3. OpenHeld
  BY <1>1, ClientsAssumption DEF OpenHeld, Held
<1>4. QED
  BY <1>2, <1>3 DEF HandsInv

\* A step that moves no connection, and no worker between its two blocks.
LEMMA HandsKept ==
  ASSUME HandsInv, UNCHANGED <<sock, accepted, tasks, serving, clientFds>>,
         \A w \in Workers :
           pc[w] \in {"read", "respond", "unregister"} => pc'[w] = pc[w]
  PROVE  HandsInv'
BY DEF HandsInv, Once, OpenHeld, Held, Registered

\* start() accepts a connection and puts it into the queue once.
LEMMA StartHandsInv ==
  ASSUME TypeInv, HandsInv,
         \/ StartListen \/ AcceptFails \/ StartStep
         \/ \E c \in Clients : Accept(c)
  PROVE  HandsInv'
<1> USE DEF TypeInv, TypeOK, StartAt, server, pool, workers
<1>1. CASE \/ StartListen \/ AcceptFails \/ StartFlag \/ StartPublish \/ StartLoop
           \/ AcceptCheck \/ StartUnpublish \/ StartClose
  BY <1>1, HandsKept
  DEF StartListen, AcceptFails, StartFlag, StartPublish, StartLoop, AcceptCheck,
      StartUnpublish, StartClose
<1>2. CASE EnqueueNotify
  BY <1>2, HandsKept DEF EnqueueNotify
<1>3. ASSUME NEW c \in Clients, Accept(c) PROVE HandsInv'
  <2>1. ~Held(c) /\ accepted = NoClient
    BY <1>3 DEF Accept, HandsInv, OpenHeld
  <2>2. Once'
    BY <1>3, <2>1, ClientsAssumption DEF Accept, HandsInv, Once, Held
  <2>3. OpenHeld'
    <3>1. \A d \in Clients : Held(d)' <=> d = c \/ Held(d)
      BY <1>3, <2>1, ClientsAssumption DEF Accept, Held
    <3>2. \A d \in Clients : sock'[d] = IF d = c THEN "open" ELSE sock[d]
      BY <1>3 DEF Accept
    <3>3. QED
      BY <3>1, <3>2 DEF HandsInv, OpenHeld
  <2>4. Registered'
    BY <1>3 DEF Accept, HandsInv, Registered
  <2>5. QED
    BY <2>2, <2>3, <2>4 DEF HandsInv
<1>4. CASE AcceptRefuse
  <2>1. accepted \in Clients /\ sock' = [sock EXCEPT ![accepted] = "closed"]
    BY <1>4 DEF AcceptRefuse
  <2>2. Once'
    BY <1>4, ClientsAssumption DEF AcceptRefuse, HandsInv, Once
  <2>3. OpenHeld'
    BY <1>4, <2>1, ClientsAssumption DEF AcceptRefuse, HandsInv, Once, OpenHeld, Held
  <2>4. Registered'
    BY <1>4 DEF AcceptRefuse, HandsInv, Registered
  <2>5. QED
    BY <2>2, <2>3, <2>4 DEF HandsInv
<1>5. CASE Enqueue
  <2>1. /\ accepted \in Clients /\ accepted' = NoClient
        /\ DOMAIN tasks' = DOMAIN tasks \cup {Len(tasks) + 1}
        /\ Len(tasks) + 1 \notin DOMAIN tasks
        /\ \A i \in DOMAIN tasks : tasks'[i] = tasks[i]
        /\ tasks'[Len(tasks) + 1] = accepted
    BY <1>5 DEF Enqueue
  <2>2. Once'
    BY <1>5, <2>1, ClientsAssumption DEF Enqueue, HandsInv, Once
  <2>3. OpenHeld'
    BY <1>5, <2>1, ClientsAssumption DEF Enqueue, HandsInv, OpenHeld, Held
  <2>4. Registered'
    BY <1>5 DEF Enqueue, HandsInv, Registered
  <2>5. QED
    BY <2>2, <2>3, <2>4 DEF HandsInv
<1>6. QED
  BY <1>1, <1>2, <1>3, <1>4, <1>5 DEF StartStep

\* The owner's calls move no connection.
LEMMA OwnerHandsInv ==
  ASSUME TypeInv, HandsInv, StopFlag \/ DestroyFlag \/ OwnerStep
  PROVE  HandsInv'
<1>1. CASE PoolNotify
  BY <1>1, HandsKept DEF PoolNotify, TypeInv, TypeOK, server, starter, pool
<1>2. CASE \/ StopFlag \/ DestroyFlag \/ StopShutdown
           \/ DestroyRegistry \/ PoolFlag \/ PoolJoined
  BY <1>2, HandsKept
  DEF StopFlag, DestroyFlag, StopShutdown, DestroyRegistry, PoolFlag, PoolJoined,
      server, starter, pool, workers
<1>3. QED
  BY <1>1, <1>2 DEF OwnerStep

\* A worker takes its descriptor off the list before it closes it.
LEMMA WorkerHandsInv ==
  ASSUME TypeInv, HandsInv, NEW w \in Workers,
         \/ WorkerStep(w) \/ SpuriousWakeup(w)
         \/ Read(w) \/ ReadEnd(w) \/ DiesOfRegistry(w)
  PROVE  HandsInv'
<1> USE DEF TypeInv, TypeOK, At, server, starter, pool
<1>1. CASE WorkerBlock(w) \/ SpuriousWakeup(w) \/ WorkerExit(w) \/ DiesOfRegistry(w)
  BY <1>1, HandsKept
  DEF WorkerBlock, SpuriousWakeup, WorkerExit, DiesOfRegistry, workers
<1>2. CASE WorkerTake(w)
  <2>1. /\ 1 \in DOMAIN tasks /\ Head(tasks) = tasks[1] /\ tasks[1] \in Clients
        /\ \A i \in DOMAIN tasks' : i + 1 \in DOMAIN tasks /\ tasks'[i] = tasks[i + 1]
        /\ \A i \in DOMAIN tasks : i # 1 => i - 1 \in DOMAIN tasks' /\ tasks'[i - 1] = tasks[i]
        /\ \A i \in DOMAIN tasks' : i \in Nat /\ i # 0
    BY <1>2 DEF WorkerTake
  <2>2. /\ serving[w] = NoClient
        /\ \A v \in Workers : serving'[v] = IF v = w THEN tasks[1] ELSE serving[v]
        /\ UNCHANGED <<sock, accepted, clientFds>>
        /\ \A v \in Workers : v # w => pc'[v] = pc[v]
        /\ pc[w] = "wait"
    BY <1>2, <2>1 DEF WorkerTake
  <2>3. Once'
    <3>1. \A i, j \in DOMAIN tasks' : tasks'[i] = tasks'[j] => i = j
      BY <2>1 DEF HandsInv, Once
    <3>2. \A i \in DOMAIN tasks' :
            tasks'[i] # accepted' /\ \A v \in Workers : tasks'[i] # serving'[v]
      BY <2>1, <2>2 DEF HandsInv, Once
    <3>3. \A u, v \in Workers : serving'[u] = serving'[v] /\ serving'[u] # NoClient => u = v
      BY <2>1, <2>2 DEF HandsInv, Once
    <3>4. \A v \in Workers : serving'[v] = accepted' => accepted' = NoClient
      BY <2>1, <2>2 DEF HandsInv, Once
    <3>5. QED
      BY <3>1, <3>2, <3>3, <3>4 DEF Once
  <2>4. \A c \in Clients : Held(c) <=> Held(c)'
    <3>1. ASSUME NEW c \in Clients, Held(c) PROVE Held(c)'
      <4>1. ASSUME NEW i \in DOMAIN tasks, tasks[i] = c PROVE Held(c)'
        BY <2>1, <2>2, <4>1 DEF Held
      <4>2. QED
        BY <2>2, <3>1, <4>1, ClientsAssumption DEF Held
    <3>2. ASSUME NEW c \in Clients, Held(c)' PROVE Held(c)
      <4>1. ASSUME NEW v \in Workers, serving'[v] = c PROVE Held(c)
        BY <2>1, <2>2, <4>1 DEF Held
      <4>2. ASSUME NEW i \in DOMAIN tasks', tasks'[i] = c PROVE Held(c)
        BY <2>1, <4>2 DEF Held
      <4>3. QED
        BY <2>2, <3>2, <4>1, <4>2 DEF Held
    <3>3. QED
      BY <3>1, <3>2
  <2>5. OpenHeld' /\ Registered'
    <3>1. OpenHeld'
      BY <2>2, <2>4 DEF HandsInv, OpenHeld
    <3>2. Registered'
      BY <2>2 DEF HandsInv, Registered
    <3>3. QED
      BY <3>1, <3>2
  <2>6. QED
    BY <2>3, <2>5 DEF HandsInv
<1>3. CASE Register(w)
  <2>1. Once' /\ OpenHeld'
    BY <1>3 DEF Register, HandsInv, Once, OpenHeld, Held
  <2>2. Registered'
    BY <1>3 DEF Register, HandsInv, Registered
  <2>3. QED
    BY <2>1, <2>2 DEF HandsInv
<1>4. CASE Read(w) \/ ReadEnd(w) \/ Respond(w)
  <2>1. Once' /\ OpenHeld'
    BY <1>4 DEF Read, ReadEnd, Respond, HandsInv, Once, OpenHeld, Held
  <2>2. Registered'
    BY <1>4 DEF Read, ReadEnd, Respond, HandsInv, Registered
  <2>3. QED
    BY <2>1, <2>2 DEF HandsInv
<1>5. CASE Unregister(w)
  <2>1. Once' /\ OpenHeld'
    BY <1>5 DEF Unregister, HandsInv, Once, OpenHeld, Held
  <2>2. Registered'
    BY <1>5 DEF Unregister, HandsInv, Registered
  <2>3. QED
    BY <2>1, <2>2 DEF HandsInv
<1>6. CASE CloseClient(w)
  <2>1. /\ serving[w] \in Clients
        /\ \A v \in Workers : serving'[v] = IF v = w THEN NoClient ELSE serving[v]
        /\ sock' = [sock EXCEPT ![serving[w]] = "closed"]
        /\ UNCHANGED <<accepted, tasks, clientFds>>
        /\ \A v \in Workers : v # w => pc'[v] = pc[v]
        /\ pc[w] = "close"
    BY <1>6 DEF CloseClient
  <2>2. Once'
    BY <2>1, ClientsAssumption DEF HandsInv, Once
  <2>3. OpenHeld'
    BY <2>1, ClientsAssumption DEF HandsInv, Once, OpenHeld, Held
  <2>4. Registered'
    BY <2>1 DEF HandsInv, Registered
  <2>5. QED
    BY <2>2, <2>3, <2>4 DEF HandsInv
<1>7. QED
  BY <1>1, <1>2, <1>3, <1>4, <1>5, <1>6 DEF WorkerStep

\* Every step keeps each descriptor in one hand.
LEMMA NextHandsInv == TypeInv /\ HandsInv /\ [Next]_vars => HandsInv'
<1> SUFFICES ASSUME TypeInv, HandsInv, [Next]_vars PROVE HandsInv'
  OBVIOUS
<1>1. CASE UNCHANGED vars
  BY <1>1, HandsKept DEF vars, server, starter, pool, workers
<1>2. QED
  BY <1>1, StartHandsInv, OwnerHandsInv, WorkerHandsInv DEF Next

\* Whatever stop() shuts down is open and in the hands of a worker: no worker
\* closes its socket, which it does without the lock, while the registry
\* still has it.
THEOREM ShutdownsCorrect == Spec => []ShutsDownOwn
<1>1. TypeInv /\ HandsInv => ShutsDownOwn
  BY DEF TypeInv, TypeOK, Published, HandsInv, OpenHeld, Held, Registered, ShutsDownOwn
<1>2. QED
  BY <1>1, InitTypeInv, NextTypeInv, InitHandsInv, NextHandsInv, PTL DEF Spec

\* A set whose elements are all equal has one or none.
LEMMA AtMostOne ==
  ASSUME NEW S, \A x, y \in S : x = y
  PROVE  Cardinality(S) = IF S = {} THEN 0 ELSE 1
<1>1. CASE S = {}
  BY <1>1, FS_EmptySet
<1>2. ASSUME NEW x \in S PROVE Cardinality(S) = 1
  <2>1. S = {x}
    OBVIOUS
  <2>2. QED
    BY <2>1, FS_Singleton
<1>3. QED
  BY <1>1, <1>2

\* Between accept() and close() a connection is with exactly one thread, or in
\* the queue once: none is lost on the way, and none is closed by two.
THEOREM HandsCorrect == Spec => []InOneHand
<1>1. TypeInv /\ HandsInv => InOneHand
  <2> SUFFICES ASSUME TypeInv, HandsInv, NEW c \in Clients
               PROVE  Cardinality({w \in Workers : serving[w] = c})
                        + Cardinality({i \in DOMAIN tasks : tasks[i] = c})
                        + (IF accepted = c THEN 1 ELSE 0)
                      = (IF sock[c] = "open" THEN 1 ELSE 0)
    BY DEF InOneHand
  <2> DEFINE Serves == {w \in Workers : serving[w] = c}
             Queued == {i \in DOMAIN tasks : tasks[i] = c}
  <2>1. c # NoClient
    BY ClientsAssumption
  <2>2. /\ Cardinality(Serves) = IF Serves = {} THEN 0 ELSE 1
        /\ Cardinality(Queued) = IF Queued = {} THEN 0 ELSE 1
    <3>1. \A v, w \in Serves : v = w
      BY <2>1 DEF HandsInv, Once
    <3>2. \A i, j \in Queued : i = j
      BY DEF HandsInv, Once
    <3>3. QED
      BY <3>1, <3>2, AtMostOne
  <2>3. /\ Queued # {} => Serves = {} /\ accepted # c
        /\ Serves # {} => accepted # c
    BY <2>1 DEF HandsInv, Once
  <2>4. sock[c] = "open" <=> accepted = c \/ Serves # {} \/ Queued # {}
    BY DEF HandsInv, OpenHeld, Held
  <2>5. QED
    BY <2>2, <2>3, <2>4
<1>2. QED
  BY <1>1, InitTypeInv, NextTypeInv, InitHandsInv, NextHandsInv, PTL DEF Spec
=============================================================================
