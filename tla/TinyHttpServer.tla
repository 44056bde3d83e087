--------------------------- MODULE TinyHttpServer ---------------------------
(***************************************************************************)
(* tiny_http_server::Server with its own ThreadPool                        *)
(* (02-intermediate/tiny-http-server): one thread runs start(), the accept *)
(* loop, and hands each connection to the pool, whose workers serve it     *)
(* from the first byte to the close.  The owner calls stop() and, when     *)
(* start() has come back, destroys the server: ~Server() calls stop(),     *)
(* then the members die in the reverse order of their declaration --       *)
(* clientFds_ and mutex_ first, and only then the pool, which joins.       *)
(*                                                                         *)
(* A connection stands for its socket; a number that the system hands out  *)
(* again is one that was closed, so what must not happen to it is that the *)
(* server still keeps it.  Parsing and routing are left out: from read()   *)
(* to the response nothing shared changes.                                 *)
(***************************************************************************)
EXTENDS Naturals, Sequences, FiniteSets, Functions

CONSTANTS Clients,     \* connections that may arrive
          Workers,     \* threads of the pool
          NoClient,    \* a worker, or an accept loop, without a connection
          MaxStarts    \* bound: calls of start()

ASSUME WorkersAssumption == IsFiniteSet(Workers) /\ Workers # {}
ASSUME ClientsAssumption == IsFiniteSet(Clients) /\ NoClient \notin Clients
ASSUME BoundAssumption == MaxStarts \in Nat

VARIABLES
  running,     \* running_
  published,   \* server_fd_ >= 0
  shut,        \* sockets shut down; NoClient stands for the listening one
  clientFds,   \* clientFds_
  registry,    \* mutex_ and clientFds_ have not been destroyed
  sock,        \* [Clients -> "away", "open" or "closed"]
  starts, startPc, accepted,   \* start(): calls, place, client_fd
  ownerPc,     \* where stop() or ~Server() is
  tasks, stop, \* tasks_ and stop_ of the pool
  pc,          \* [Workers -> place in the worker's loop or handle_client()]
  serving,     \* [Workers -> client_fd]
  crashed      \* a member was used after its end and the process died of it

server == <<running, published, shut, clientFds, registry>>
starter == <<starts, startPc, accepted>>
pool == <<tasks, stop>>
workers == <<pc, serving>>
vars == <<server, sock, starter, ownerPc, pool, workers, crashed>>

Init ==
  /\ running = FALSE /\ published = FALSE /\ shut = {}
  /\ clientFds = {} /\ registry = TRUE
  /\ sock = [c \in Clients |-> "away"]
  /\ starts = 0 /\ startPc = "idle" /\ accepted = NoClient
  /\ ownerPc = "idle"
  /\ tasks = <<>> /\ stop = FALSE
  /\ pc = [w \in Workers |-> "wait"]
  /\ serving = [w \in Workers |-> NoClient]
  /\ crashed = FALSE

StartAt(from, to) == startPc = from /\ startPc' = to
OwnerAt(from, to) == ownerPc = from /\ ownerPc' = to
At(w, from, to) == pc[w] = from /\ pc' = [pc EXCEPT ![w] = to]
-----------------------------------------------------------------------------
(***************************************************************************)
(* start()                                                                 *)
(***************************************************************************)
\* setup_socket(); one that fails throws and leaves no trace.
StartListen ==
  /\ starts < MaxStarts /\ ownerPc \in {"idle", "shutdown"}
  /\ StartAt("idle", "flag")
  /\ starts' = starts + 1
  /\ UNCHANGED <<server, sock, accepted, ownerPc, pool, workers, crashed>>

StartFlag ==
  /\ StartAt("flag", "publish")
  /\ running' = TRUE
  /\ UNCHANGED <<published, shut, clientFds, registry>>
  /\ UNCHANGED <<sock, starts, accepted, ownerPc, pool, workers, crashed>>

StartPublish ==
  /\ StartAt("publish", "loop")
  /\ published' = TRUE
  /\ UNCHANGED <<running, shut, clientFds, registry>>
  /\ UNCHANGED <<sock, starts, accepted, ownerPc, pool, workers, crashed>>

StartLoop ==
  /\ StartAt("loop", IF running THEN "accept" ELSE "unpublish")
  /\ UNCHANGED <<server, sock, starts, accepted, ownerPc, pool, workers, crashed>>

Accept(c) ==
  /\ NoClient \notin shut /\ sock[c] = "away"
  /\ StartAt("accept", "check")
  /\ sock' = [sock EXCEPT ![c] = "open"]
  /\ accepted' = c
  /\ UNCHANGED <<server, starts, ownerPc, pool, workers, crashed>>

\* accept() fails: a socket that was shut down ends the loop, any other error
\* goes round again.
AcceptFails ==
  /\ StartAt("accept", IF NoClient \in shut \/ ~running THEN "unpublish" ELSE "loop")
  /\ UNCHANGED <<server, sock, starts, accepted, ownerPc, pool, workers, crashed>>

AcceptCheck ==
  /\ running
  /\ StartAt("check", "enqueue")
  /\ UNCHANGED <<server, sock, starts, accepted, ownerPc, pool, workers, crashed>>

MutAcceptRefuse ==   \* mutant: a refused connection is not closed
  /\ ~running
  /\ StartAt("check", "unpublish")
  /\ UNCHANGED <<server, sock, starts, accepted, ownerPc, pool, workers, crashed>>

AcceptRefuse ==
  /\ ~running
  /\ StartAt("check", "unpublish")
  /\ sock' = [sock EXCEPT ![accepted] = "closed"]
  /\ accepted' = NoClient
  /\ UNCHANGED <<server, starts, ownerPc, pool, workers, crashed>>

\* ThreadPool::enqueue(): push under the lock of the pool, then notify_one.
Enqueue ==
  /\ ~stop
  /\ StartAt("enqueue", "notify")
  /\ tasks' = Append(tasks, accepted)
  /\ accepted' = NoClient
  /\ UNCHANGED <<server, sock, starts, ownerPc, stop, workers, crashed>>

EnqueueNotify ==
  /\ StartAt("notify", "loop")
  /\ LET blocked == {w \in Workers : pc[w] = "blocked"} IN
       \/ blocked = {} /\ UNCHANGED pc
       \/ \E w \in blocked : pc' = [pc EXCEPT ![w] = "wait"]
  /\ UNCHANGED <<server, sock, starts, accepted, ownerPc, pool, serving, crashed>>

StartUnpublish ==
  /\ StartAt("unpublish", "close")
  /\ published' = FALSE
  /\ UNCHANGED <<running, shut, clientFds, registry>>
  /\ UNCHANGED <<sock, starts, accepted, ownerPc, pool, workers, crashed>>

StartClose ==
  /\ StartAt("close", "idle")
  /\ shut' = shut \ {NoClient}
  /\ UNCHANGED <<running, published, clientFds, registry>>
  /\ UNCHANGED <<sock, starts, accepted, ownerPc, pool, workers, crashed>>

StartStep ==
  \/ StartFlag \/ StartPublish \/ StartLoop \/ AcceptCheck \/ AcceptRefuse
  \/ Enqueue \/ EnqueueNotify \/ StartUnpublish \/ StartClose
-----------------------------------------------------------------------------
(***************************************************************************)
(* stop(), and ~Server(), which begins with a stop().  The owner destroys  *)
(* the server when start() has come back.                                  *)
(***************************************************************************)
StopFlag ==
  /\ OwnerAt("idle", "shutdown")
  /\ running' = FALSE
  /\ UNCHANGED <<published, shut, clientFds, registry>>
  /\ UNCHANGED <<sock, starter, pool, workers, crashed>>

DestroyFlag ==
  /\ startPc = "idle"
  /\ OwnerAt("idle", "destroyShutdown")
  /\ running' = FALSE
  /\ UNCHANGED <<published, shut, clientFds, registry>>
  /\ UNCHANGED <<sock, starter, pool, workers, crashed>>

MutStopShutdown ==   \* mutant: the listening socket is not shut down
  /\ \/ OwnerAt("shutdown", "idle")
     \/ OwnerAt("destroyShutdown", "destroyRegistry")
  /\ shut' = shut \cup clientFds
  /\ UNCHANGED <<running, published, clientFds, registry>>
  /\ UNCHANGED <<sock, starter, pool, workers, crashed>>

StopShutdown ==
  /\ \/ OwnerAt("shutdown", "idle")
     \/ OwnerAt("destroyShutdown", "destroyRegistry")
  /\ shut' = shut \cup clientFds \cup (IF published THEN {NoClient} ELSE {})
  /\ UNCHANGED <<running, published, clientFds, registry>>
  /\ UNCHANGED <<sock, starter, pool, workers, crashed>>

DestroyRegistry ==
  /\ OwnerAt("destroyRegistry", "poolFlag")
  /\ registry' = FALSE
  /\ UNCHANGED <<running, published, shut, clientFds>>
  /\ UNCHANGED <<sock, starter, pool, workers, crashed>>

\* ThreadPool::~ThreadPool()
PoolFlag ==
  /\ OwnerAt("poolFlag", "poolNotify")
  /\ stop' = TRUE
  /\ UNCHANGED <<server, sock, starter, tasks, workers, crashed>>

MutPoolNotify ==   \* mutant: notify_one() instead of notify_all()
  /\ OwnerAt("poolNotify", "poolJoin")
  /\ LET blocked == {w \in Workers : pc[w] = "blocked"} IN
       \/ blocked = {} /\ UNCHANGED pc
       \/ \E w \in blocked : pc' = [pc EXCEPT ![w] = "wait"]
  /\ UNCHANGED <<server, sock, starter, pool, serving, crashed>>

PoolNotify ==
  /\ OwnerAt("poolNotify", "poolJoin")
  /\ pc' = [w \in Workers |-> IF pc[w] = "blocked" THEN "wait" ELSE pc[w]]
  /\ UNCHANGED <<server, sock, starter, pool, serving, crashed>>

PoolJoined ==
  /\ \A w \in Workers : pc[w] = "exited"
  /\ OwnerAt("poolJoin", "gone")
  /\ UNCHANGED <<server, sock, starter, pool, workers, crashed>>

OwnerStep == StopShutdown \/ DestroyRegistry \/ PoolFlag \/ PoolNotify \/ PoolJoined
-----------------------------------------------------------------------------
(***************************************************************************)
(* A worker: the loop of the pool and, inside of it, handle_client().      *)
(***************************************************************************)
WorkerBlock(w) ==
  /\ ~stop /\ tasks = <<>>
  /\ At(w, "wait", "blocked")
  /\ UNCHANGED <<server, sock, starter, ownerPc, pool, serving, crashed>>

SpuriousWakeup(w) ==
  /\ At(w, "blocked", "wait")
  /\ UNCHANGED <<server, sock, starter, ownerPc, pool, serving, crashed>>

WorkerExit(w) ==
  /\ stop /\ tasks = <<>>
  /\ At(w, "wait", "exited")
  /\ UNCHANGED <<server, sock, starter, ownerPc, pool, serving, crashed>>

MutWorkerTake(w) ==   \* mutant: the lock is released between front() and pop()
  /\ tasks # <<>>
  /\ At(w, "wait", "register")
  /\ serving' = [serving EXCEPT ![w] = Head(tasks)]
  /\ tasks' \in {tasks, Tail(tasks)}
  /\ UNCHANGED <<server, sock, starter, ownerPc, stop, crashed>>

WorkerTake(w) ==
  /\ tasks # <<>>
  /\ At(w, "wait", "register")
  /\ serving' = [serving EXCEPT ![w] = Head(tasks)]
  /\ tasks' = Tail(tasks)
  /\ UNCHANGED <<server, sock, starter, ownerPc, stop, crashed>>

MutRegister(w) ==   \* mutant: running_ is not asked
  /\ At(w, "register", "read")
  /\ clientFds' = clientFds \cup {serving[w]}
  /\ UNCHANGED <<running, published, shut, registry>>
  /\ UNCHANGED <<sock, starter, ownerPc, pool, serving, crashed>>

Register(w) ==
  /\ At(w, "register", IF running THEN "read" ELSE "close")
  /\ clientFds' = IF running THEN clientFds \cup {serving[w]} ELSE clientFds
  /\ UNCHANGED <<running, published, shut, registry>>
  /\ UNCHANGED <<sock, starter, ownerPc, pool, serving, crashed>>

\* A request was read; what had arrived before a shutdown still can be.
Read(w) ==
  /\ At(w, "read", "respond")
  /\ UNCHANGED <<server, sock, starter, ownerPc, pool, serving, crashed>>

\* read() fails, or the peer or stop() has shut the socket down.
ReadEnd(w) ==
  /\ At(w, "read", "unregister")
  /\ UNCHANGED <<server, sock, starter, ownerPc, pool, serving, crashed>>

\* The response, of whatever status, is written, or not as far as its end.
Respond(w) ==
  /\ At(w, "respond", "unregister")
  /\ UNCHANGED <<server, sock, starter, ownerPc, pool, serving, crashed>>

MutUnregister(w) ==   \* mutant: the socket stays in the registry
  /\ At(w, "unregister", "close")
  /\ UNCHANGED <<server, sock, starter, ownerPc, pool, serving, crashed>>

Unregister(w) ==
  /\ At(w, "unregister", "close")
  /\ clientFds' = clientFds \ {serving[w]}
  /\ UNCHANGED <<running, published, shut, registry>>
  /\ UNCHANGED <<sock, starter, ownerPc, pool, serving, crashed>>

CloseClient(w) ==
  /\ At(w, "close", "wait")
  /\ sock' = [sock EXCEPT ![serving[w]] = "closed"]
  /\ shut' = shut \ {serving[w]}
  /\ serving' = [serving EXCEPT ![w] = NoClient]
  /\ UNCHANGED <<running, published, clientFds, registry>>
  /\ UNCHANGED <<starter, ownerPc, pool, crashed>>

\* A lock of mutex_ after its end, or an access of clientFds_ after its end,
\* has no defined outcome: it may do no harm or be the end of the process.
UsesRegistry(w) == pc[w] \in {"register", "unregister"}

DiesOfRegistry(w) ==
  /\ UsesRegistry(w) /\ ~registry
  /\ crashed' = TRUE
  /\ UNCHANGED <<server, sock, starter, ownerPc, pool, workers>>

WorkerStep(w) ==
  \/ WorkerBlock(w) \/ WorkerExit(w) \/ WorkerTake(w)
  \/ Register(w) \/ Respond(w) \/ Unregister(w) \/ CloseClient(w)
-----------------------------------------------------------------------------
Next ==
  /\ ~crashed
  /\ \/ StartListen \/ AcceptFails \/ StartStep
     \/ \E c \in Clients : Accept(c)
     \/ StopFlag \/ DestroyFlag \/ OwnerStep
     \/ \E w \in Workers :
          \/ WorkerStep(w) \/ SpuriousWakeup(w)
          \/ Read(w) \/ ReadEnd(w) \/ DiesOfRegistry(w)

\* The threads run when they can.  accept() and read() come back on their own
\* only from a socket that was shut down: a peer may stay silent forever.
Fairness ==
  /\ WF_vars(~crashed /\ StartStep)
  /\ WF_vars(~crashed /\ NoClient \in shut /\ AcceptFails)
  /\ WF_vars(~crashed /\ OwnerStep)
  /\ \A w \in Workers :
       /\ WF_vars(~crashed /\ WorkerStep(w))
       /\ WF_vars(~crashed /\ serving[w] \in shut /\ ReadEnd(w))

Spec == Init /\ [][Next]_vars /\ Fairness
-----------------------------------------------------------------------------
TypeOK ==
  /\ running \in BOOLEAN /\ published \in BOOLEAN /\ registry \in BOOLEAN
  /\ stop \in BOOLEAN /\ crashed \in BOOLEAN
  /\ shut \in SUBSET (Clients \cup {NoClient})
  /\ clientFds \in SUBSET Clients
  /\ sock \in [Clients -> {"away", "open", "closed"}]
  /\ starts \in 0..MaxStarts
  /\ startPc \in {"idle", "flag", "publish", "loop", "accept", "check",
                  "enqueue", "notify", "unpublish", "close"}
  /\ accepted \in Clients \cup {NoClient}
  /\ accepted # NoClient <=> startPc \in {"check", "enqueue"}
  /\ ownerPc \in {"idle", "shutdown", "destroyShutdown", "destroyRegistry",
                  "poolFlag", "poolNotify", "poolJoin", "gone"}
  /\ tasks \in Seq(Clients)
  /\ pc \in [Workers -> {"wait", "blocked", "register", "read", "respond",
                         "unregister", "close", "exited"}]
  /\ serving \in [Workers -> Clients \cup {NoClient}]
  /\ \A w \in Workers :
       serving[w] = NoClient <=> pc[w] \in {"wait", "blocked", "exited"}

\* Whatever stop() shuts down is a socket of the server that is still open,
\* never a number the system has handed out again, although each worker
\* closes its socket without the lock.
ShutsDownOwn ==
  /\ published => startPc \notin {"idle", "flag", "publish", "close"}
  /\ \A c \in clientFds :
       sock[c] = "open" /\ \E w \in Workers : serving[w] = c

\* An open connection is in the hands of one thread, or queued once: no
\* connection is lost between accept(), the queue and a worker, and none is
\* served, and closed, by two.
InOneHand ==
  \A c \in Clients :
    Cardinality({w \in Workers : serving[w] = c})
      + Cardinality({i \in DOMAIN tasks : tasks[i] = c})
      + (IF accepted = c THEN 1 ELSE 0)
    = (IF sock[c] = "open" THEN 1 ELSE 0)

\* stop() is enough: once running_ is down, every connection that had been
\* accepted is closed, although no client says a word, those still queued or
\* just being handed to the pool included -- unless start() is called again.
StopEndsConnections ==
  \A c \in Clients :
    ~running /\ sock[c] = "open" ~> sock[c] = "closed" \/ running \/ crashed

\* ... the accept loop ends, and start() comes back, unless start() set
\* running_ after stop() had taken it down: such a stop() is lost.
AcceptLoopEnds ==
  ownerPc = "shutdown" /\ ~running ~> startPc \in {"idle", "flag"} \/ crashed

\* ~Server() comes back: each worker, one that sleeps or is blocked in read()
\* included, wakes up and ends.
DestructorReturns == ownerPc \notin {"idle", "shutdown"} ~> ownerPc = "gone" \/ crashed

\* "The socket is taken out of the registry on every way out": a worker that
\* is about to lock mutex_ and to look into clientFds_ finds them alive.
RegistryAlive == \A w \in Workers : UsesRegistry(w) => registry
=============================================================================
