------------------------------ MODULE KvServer ------------------------------
(***************************************************************************)
(* key_value_store (02-intermediate/key-value-store): the TCP server, or   *)
(* the command line, in front of the in-memory store and its file.         *)
(*                                                                         *)
(* A client thread executes a request on the store (KeyValueStore locks    *)
(* for one call), then writes the whole store to the file                  *)
(* (StoreManager::save, under persistenceMutex_), then replies; the        *)
(* requests of other clients interleave with these steps.  Writing is not  *)
(* atomic: the file is truncated and then written entry by entry, and a    *)
(* crash leaves what has been written.  The sockets are abstract here, as  *)
(* ChatServer models the same accept loop down to the descriptors.         *)
(*                                                                         *)
(* A line that read() delivers in two pieces is executed as two requests;  *)
(* a request of the model is what the server executes.                     *)
(***************************************************************************)
EXTENDS Naturals, FiniteSets

CONSTANTS Clients,     \* connections, one thread for each
          Starter,     \* the thread that runs start()
          Stopper,     \* the thread that runs stop()
          Console,     \* the thread that runs runCli()
          Keys, Vals,
          NoVal,       \* a key that is absent
          Nobody,      \* persistenceMutex_ is free
          MaxCrashes   \* bound: crashes of the process

Threads == Clients \cup {Starter, Stopper, Console}

ASSUME ThreadsAssumption ==
  /\ Cardinality({Starter, Stopper, Console}) = 3
  /\ Clients \cap {Starter, Stopper, Console} = {}
  /\ Nobody \notin Threads
ASSUME NoValAssumption == NoVal \notin Vals
ASSUME BoundAssumption == MaxCrashes \in Nat

VARIABLES
  mode,           \* "server" or "cli", chosen on the command line
  running,        \* running_
  published,      \* server_fd_ is set
  shut,           \* sockets shut down: Starter for the listening one
  clientThreads,  \* clientThreads_
  clientFds,      \* clientFds_, a client stands for its socket
  joining,        \* the local list of stop()
  store,          \* data_ of KeyValueStore
  disk,           \* the entries of the persistence file
  snap,           \* [Threads -> the snapshot the thread is writing]
  holder,         \* who holds persistenceMutex_
  req,            \* [Threads -> the request being served]
  reply,          \* [Threads -> the reply to it]
  pc,             \* [Threads -> where the thread is]
  ioError,        \* an access to the file failed and no save repaired it yet
  crashes

net == <<mode, running, published, shut, clientThreads, clientFds, joining>>
data == <<store, disk, snap, holder, ioError>>
calls == <<req, reply>>
vars == <<net, data, calls, pc, crashes>>

Empty == [k \in Keys |-> NoVal]
NoReq == [op |-> "none"]

Requests ==
  [op : {"SET"}, key : Keys, val : Vals]
    \cup [op : {"DEL", "GET", "EXISTS"}, key : Keys]
    \cup [op : {"CLEAR", "PING"}]
    \cup {[op |-> "ask"]}   \* COUNT, HELP, and whatever is an error

StartPc(m) == [t \in Threads |-> IF t = Console /\ m = "cli" THEN "prompt" ELSE "idle"]

\* The constructor has called load(); there was no file yet.
Init ==
  /\ mode \in {"server", "cli"}
  /\ running = FALSE /\ published = FALSE /\ shut = {}
  /\ clientThreads = {} /\ clientFds = {} /\ joining = {}
  /\ store = Empty /\ disk = Empty /\ snap = [t \in Threads |-> Empty]
  /\ holder = Nobody /\ ioError = FALSE
  /\ req = [t \in Threads |-> NoReq] /\ reply = [t \in Threads |-> "none"]
  /\ pc = StartPc(mode)
  /\ crashes = 0

At(t, from, to) == pc[t] = from /\ pc' = [pc EXCEPT ![t] = to]
-----------------------------------------------------------------------------
(***************************************************************************)
(* Protocol::execute and the KeyValueStore behind it.                      *)
(***************************************************************************)
Touched(r) ==
  CASE r.op \in {"SET", "DEL"} -> {r.key}
    [] r.op = "CLEAR" -> Keys
    [] OTHER -> {}

Applied(r) ==
  [k \in Keys |-> IF k \notin Touched(r) THEN store[k]
                  ELSE IF r.op = "SET" THEN r.val ELSE NoVal]

Present(k) == store[k] # NoVal

\* ProtocolStatus::ok, the only status that makes the server save.
StatusOk(r) ==
  \/ r.op \in {"SET", "CLEAR", "PING", "EXISTS"}
  \/ r.op = "DEL" /\ Present(r.key)

\* ProtocolResponse::serialize: an ok response is +OK whatever its data are.
Reply(r) ==
  CASE StatusOk(r) -> "+OK"
    [] r.op = "DEL" -> "-NOT_FOUND"
    [] r.op = "GET" -> IF Present(r.key) THEN "$" ELSE "-NOT_FOUND"
    [] OTHER -> "other"

Execute(c, r) ==
  /\ At(c, "read", IF StatusOk(r) THEN "save" ELSE "reply")
  /\ store' = Applied(r)
  /\ req' = [req EXCEPT ![c] = r]
  /\ reply' = [reply EXCEPT ![c] = Reply(r)]
  /\ UNCHANGED <<net, disk, snap, holder, ioError, crashes>>

\* The loop over the lines of one read(), and around it the one over reads.
SendReply(c) ==
  /\ pc[c] = "reply"
  /\ \E to \in {"read", "loop"} : pc' = [pc EXCEPT ![c] = to]
  /\ req' = [req EXCEPT ![c] = NoReq]
  /\ reply' = [reply EXCEPT ![c] = "none"]
  /\ UNCHANGED <<net, data, crashes>>
-----------------------------------------------------------------------------
(***************************************************************************)
(* StoreManager::save.  The snapshot is taken inside of persistenceMutex_. *)
(* A failure is swallowed: save() returns false and nobody looks at it.    *)
(***************************************************************************)
MutSaveBegin(t) ==   \* mutant: persistenceMutex_ not locked
  /\ At(t, "save", "saving")
  /\ snap' = [snap EXCEPT ![t] = store]
  /\ disk' = Empty
  /\ UNCHANGED <<net, store, holder, ioError, calls, crashes>>

SaveBegin(t) ==
  /\ holder = Nobody
  /\ At(t, "save", "saving")
  /\ holder' = t
  /\ snap' = [snap EXCEPT ![t] = store]
  /\ disk' = Empty
  /\ UNCHANGED <<net, store, ioError, calls, crashes>>

SaveEntry(t, k) ==
  /\ pc[t] = "saving" /\ disk[k] # snap[t][k]
  /\ disk' = [disk EXCEPT ![k] = snap[t][k]]
  /\ UNCHANGED <<net, store, snap, holder, ioError, calls, pc, crashes>>

AfterSave(t) ==
  CASE t \in Clients -> "reply" [] t = Console -> "prompt" [] t = Stopper -> "stopped"

SaveEnd(t) ==
  /\ disk = snap[t]
  /\ At(t, "saving", AfterSave(t))
  /\ holder' = Nobody
  /\ snap' = [snap EXCEPT ![t] = Empty]
  /\ ioError' = FALSE
  /\ UNCHANGED <<net, store, disk, calls, crashes>>

\* The file cannot be opened for writing: it keeps its contents.
SaveRefused(t) ==
  /\ holder = Nobody
  /\ At(t, "save", AfterSave(t))
  /\ ioError' = TRUE
  /\ UNCHANGED <<net, store, disk, snap, holder, calls, crashes>>

MutSaveTorn(t) ==   \* mutant: persistenceMutex_ still locked after a failure
  /\ At(t, "saving", AfterSave(t))
  /\ disk # snap[t]
  /\ snap' = [snap EXCEPT ![t] = Empty]
  /\ ioError' = TRUE
  /\ UNCHANGED <<net, store, disk, holder, calls, crashes>>

\* A write fails: the file keeps what has been written.
SaveTorn(t) ==
  /\ At(t, "saving", AfterSave(t))
  /\ disk # snap[t]
  /\ holder' = Nobody
  /\ snap' = [snap EXCEPT ![t] = Empty]
  /\ ioError' = TRUE
  /\ UNCHANGED <<net, store, disk, calls, crashes>>
-----------------------------------------------------------------------------
(***************************************************************************)
(* Server::start, the accept loop, in the thread Starter.                  *)
(***************************************************************************)
netButFlag == <<mode, published, shut, clientThreads, clientFds, joining>>

StartFlag ==
  /\ mode = "server"
  /\ At(Starter, "idle", "publish")
  /\ running' = TRUE
  /\ UNCHANGED <<netButFlag, data, calls, crashes>>

StartPublish ==
  /\ At(Starter, "publish", "accept")
  /\ published' = TRUE
  /\ UNCHANGED <<mode, running, shut, clientThreads, clientFds, joining>>
  /\ UNCHANGED <<data, calls, crashes>>

Accept(c) ==
  /\ running /\ Starter \notin shut
  /\ pc[Starter] = "accept" /\ pc[c] = "idle"
  /\ pc' = [pc EXCEPT ![Starter] = "spawn", ![c] = "accepted"]
  /\ UNCHANGED <<net, data, calls, crashes>>

Spawn(c) ==
  /\ pc[Starter] = "spawn" /\ pc[c] = "accepted"
  /\ IF running
     THEN /\ pc' = [pc EXCEPT ![Starter] = "accept", ![c] = "spawned"]
          /\ clientThreads' = clientThreads \cup {c}
     ELSE /\ pc' = [pc EXCEPT ![Starter] = "unpublish", ![c] = "done"]
          /\ UNCHANGED clientThreads
  /\ UNCHANGED <<mode, running, published, shut, clientFds, joining>>
  /\ UNCHANGED <<data, calls, crashes>>

\* The flag is down, or accept() returned from a socket that was shut down.
AcceptEnds ==
  /\ ~running \/ Starter \in shut
  /\ At(Starter, "accept", "unpublish")
  /\ UNCHANGED <<net, data, calls, crashes>>

StartReturn ==
  /\ At(Starter, "unpublish", "returned")
  /\ published' = FALSE
  /\ shut' = shut \ {Starter}
  /\ UNCHANGED <<mode, running, clientThreads, clientFds, joining>>
  /\ UNCHANGED <<data, calls, crashes>>
-----------------------------------------------------------------------------
(***************************************************************************)
(* Server::stop: as in the chat server, and at the end the store is saved. *)
(* Nothing makes it wait for start(), which may raise the flag again while *)
(* it runs: then the server runs on.                                       *)
(***************************************************************************)
StopFlag ==
  /\ mode = "server"
  /\ At(Stopper, "idle", "shutdown")
  /\ running' = FALSE
  /\ UNCHANGED <<netButFlag, data, calls, crashes>>

StopShutdown ==
  /\ At(Stopper, "shutdown", "take")
  /\ shut' = shut \cup clientFds \cup (IF published THEN {Starter} ELSE {})
  /\ UNCHANGED <<mode, running, published, clientThreads, clientFds, joining>>
  /\ UNCHANGED <<data, calls, crashes>>

MutStopTake ==   \* mutant: the threads are detached instead of joined
  /\ At(Stopper, "take", "save")
  /\ clientThreads' = {}
  /\ UNCHANGED <<mode, running, published, shut, clientFds, joining>>
  /\ UNCHANGED <<data, calls, crashes>>

StopTake ==
  /\ At(Stopper, "take", IF clientThreads = {} THEN "save" ELSE "join")
  /\ joining' = clientThreads
  /\ clientThreads' = {}
  /\ UNCHANGED <<mode, running, published, shut, clientFds>>
  /\ UNCHANGED <<data, calls, crashes>>

StopJoined ==
  /\ \A c \in joining : pc[c] = "done"
  /\ At(Stopper, "join", "take")
  /\ joining' = {}
  /\ UNCHANGED <<mode, running, published, shut, clientThreads, clientFds>>
  /\ UNCHANGED <<data, calls, crashes>>
-----------------------------------------------------------------------------
(***************************************************************************)
(* Server::handleClient                                                    *)
(***************************************************************************)
Register(c) ==
  /\ At(c, "spawned", IF running THEN "loop" ELSE "done")
  /\ clientFds' = IF running THEN clientFds \cup {c} ELSE clientFds
  /\ UNCHANGED <<mode, running, published, shut, clientThreads, joining>>
  /\ UNCHANGED <<data, calls, crashes>>

ClientLoop(c) ==
  /\ At(c, "loop", IF running THEN "read" ELSE "close")
  /\ UNCHANGED <<net, data, calls, crashes>>

\* read() returns nothing: the peer has gone or the socket was shut down.
ReadEnd(c) ==
  /\ At(c, "read", "close")
  /\ UNCHANGED <<net, data, calls, crashes>>

CloseClient(c) ==
  /\ At(c, "close", "done")
  /\ clientFds' = clientFds \ {c}
  /\ shut' = shut \ {c}
  /\ UNCHANGED <<mode, running, published, clientThreads, joining>>
  /\ UNCHANGED <<data, calls, crashes>>
-----------------------------------------------------------------------------
(***************************************************************************)
(* runCli with CommandProcessor::execute; only there is a LOAD.            *)
(***************************************************************************)
ConsoleExecute(r) ==
  /\ At(Console, "prompt",
        IF r.op \in {"SET", "CLEAR"} \/ (r.op = "DEL" /\ Present(r.key))
        THEN "save" ELSE "prompt")
  /\ store' = Applied(r)
  /\ UNCHANGED <<net, disk, snap, holder, ioError, calls, crashes>>

ConsoleSave ==
  /\ At(Console, "prompt", "save")
  /\ UNCHANGED <<net, data, calls, crashes>>

\* StoreManager::load, under persistenceMutex_; a failure leaves the store.
ConsoleLoad ==
  /\ pc[Console] = "prompt" /\ holder = Nobody
  /\ store' = disk
  /\ ioError' = FALSE
  /\ UNCHANGED <<net, disk, snap, holder, calls, pc, crashes>>

ConsoleExit ==
  /\ At(Console, "prompt", "exited")
  /\ UNCHANGED <<net, data, calls, crashes>>
-----------------------------------------------------------------------------
\* The process dies, is started again and loads what is in the file; if it
\* cannot read the file it starts with an empty store, without a word.
Crash ==
  /\ crashes < MaxCrashes
  /\ crashes' = crashes + 1
  /\ mode' \in {"server", "cli"}
  /\ running' = FALSE /\ published' = FALSE /\ shut' = {}
  /\ clientThreads' = {} /\ clientFds' = {} /\ joining' = {}
  /\ snap' = [t \in Threads |-> Empty] /\ holder' = Nobody
  /\ req' = [t \in Threads |-> NoReq] /\ reply' = [t \in Threads |-> "none"]
  /\ pc' = StartPc(mode')
  /\ \/ store' = disk /\ ioError' = FALSE
     \/ store' = Empty /\ ioError' = TRUE
  /\ UNCHANGED disk

Next ==
  \/ \E c \in Clients :
       \/ \E r \in Requests : Execute(c, r)
       \/ SendReply(c) \/ Accept(c) \/ Spawn(c)
       \/ Register(c) \/ ClientLoop(c) \/ ReadEnd(c) \/ CloseClient(c)
  \/ \E t \in Clients \cup {Stopper, Console} :
       \/ SaveBegin(t) \/ SaveEnd(t) \/ SaveRefused(t) \/ SaveTorn(t)
       \/ \E k \in Keys : SaveEntry(t, k)
  \/ StartFlag \/ StartPublish \/ AcceptEnds \/ StartReturn
  \/ StopFlag \/ StopShutdown \/ StopTake \/ StopJoined
  \/ \E r \in Requests : ConsoleExecute(r)
  \/ ConsoleSave \/ ConsoleLoad \/ ConsoleExit
  \/ Crash

Spec == Init /\ [][Next]_vars
-----------------------------------------------------------------------------
TypeOK ==
  /\ mode \in {"server", "cli"} /\ running \in BOOLEAN /\ published \in BOOLEAN
  /\ shut \in SUBSET (Clients \cup {Starter})
  /\ clientThreads \in SUBSET Clients /\ clientFds \in SUBSET Clients
  /\ joining \in SUBSET Clients
  /\ store \in [Keys -> Vals \cup {NoVal}] /\ disk \in [Keys -> Vals \cup {NoVal}]
  /\ snap \in [Threads -> [Keys -> Vals \cup {NoVal}]]
  /\ holder \in Threads \cup {Nobody}
  /\ \A t \in Threads : holder = t <=> pc[t] = "saving"
  /\ req \in [Threads -> Requests \cup {NoReq}]
  /\ ioError \in BOOLEAN /\ crashes \in 0..MaxCrashes

\* An answered change is in the file.  Whenever the file is at rest, a key on
\* which it differs from the memory was changed by a request that has not been
\* answered, so a crash at that moment loses nothing a client was told.
AnsweredIsSaved ==
  (\A t \in Threads : pc[t] # "saving") /\ ~ioError =>
    \A k \in Keys :
      disk[k] # store[k] =>
        \/ \E c \in Clients : pc[c] = "save" /\ k \in Touched(req[c])
        \/ pc[Console] = "save"

\* When stop() has come back the file is the store and stays so, unless start()
\* raised the flag again that stop() had lowered: that server is still running.
StopSaves == pc[Stopper] = "stopped" /\ ~running /\ ~ioError => disk = store
=============================================================================
