----------------------------- MODULE Concurrency -----------------------------
(***************************************************************************)
(* The components whose objects several threads share, checked in one run. *)
(* part says which of them a behaviour is about; it is chosen initially    *)
(* and never changes, so the state spaces lie side by side.  All of them   *)
(* use the same variables: obj for the fields of the object, pc for the    *)
(* threads, log for what has happened, now for the clock.                  *)
(***************************************************************************)
EXTENDS Naturals, Sequences, FiniteSets

CONSTANTS Threads,     \* three: two to wait, and one that comes between
          Items,       \* values, tasks, messages and events
          Urgent,      \* those of high priority
          Empty,       \* no value
          Capacity,    \* of the blocking queue
          Slots,       \* of the ring buffer
          MinSize, MaxSize,  \* of the connection pool
          Bound,       \* of the mailbox
          Keys, Values,      \* of the map; values of the double buffer
          Size         \* of the double buffer and of the event buffer

\* The threads that have a name, and the places where things lie.
Names == {"c1", "c2", "w1", "w2", "stop", "owner", "object", "buffer", "handler", "pool", "tasks", "done", "joined"}

ASSUME ThreadsAssumption ==
  /\ IsFiniteSet(Threads) /\ \E t, u \in Threads : t # u
  /\ Names \intersect Threads = {}
ASSUME SizesAssumption == {Capacity, Slots, MinSize, MaxSize, Bound, Size} \subseteq Nat
ASSUME KeysAssumption == Keys \subseteq Nat
ASSUME EmptyAssumption == Empty \notin Nat

VARIABLES part, obj, pc, log, now

vars == <<part, obj, pc, log, now>>

Owner == CHOOSE t \in Threads : TRUE
Pair == {Owner, CHOOSE t \in Threads \ {Owner} : TRUE}

Blocking == INSTANCE BlockingQueue
Ring == INSTANCE RingBuffer WITH Threads <- Pair, Capacity <- Slots
Demo == INSTANCE ProducerConsumerDemo WITH
          Producers <- Pair, Consumers <- {"c1", "c2"}, ItemsPerProducer <- 2, Capacity <- 1
Pool == INSTANCE ConnectionPool WITH None <- Empty
Actor == INSTANCE Mailbox
Queue == INSTANCE CommandQueue WITH Workers <- {"w1", "w2"}, Callers <- Pair, Tasks <- Items
Shared == INSTANCE SharedState WITH Events <- Items
Sched == INSTANCE TaskScheduler WITH Workers <- Pair, MaxTasks <- 2, MaxNow <- 1, Intervals <- {1}
Loop == INSTANCE EventLoop WITH MaxTimers <- 2, MaxPosts <- 1, MaxNow <- 1, Intervals <- {1}
Debounce == INSTANCE DebouncedDispatcher WITH Emitters <- Pair, MaxEmits <- 3
Web == INSTANCE WebServers WITH Clients <- Pair, Fds <- {1, 2}

BoundedParts == {"BlockingQueue", "BoundedQueue"}
QueueParts == {"CommandQueue", "CommandQueueV2", "ThreadPoolAdvanced"}

Init ==
  /\ now = 0
  /\ \/ part \in BoundedParts /\ Blocking!Init
     \/ part = "RingBuffer" /\ Ring!Init
     \/ part = "ProducerConsumerDemo" /\ Demo!Init
     \/ part = "ConnectionPool" /\ Pool!Init
     \/ part = "Mailbox" /\ Actor!Init
     \/ part \in QueueParts /\ Queue!Init
     \/ part = "ThreadSafeMap" /\ Shared!MapInit
     \/ part = "DoubleBuffer" /\ Shared!DoubleInit
     \/ part = "BufferedDispatcher" /\ Shared!EventInit
     \/ part = "TaskScheduler" /\ Sched!Init
     \/ part = "EventLoop" /\ Loop!Init
     \/ part = "DebouncedDispatcher" /\ Debounce!Init
     \/ part \in {"WebServer", "App"} /\ Web!Init

Untimed ==
  /\ \/ part = "BlockingQueue" /\ Blocking!Next
     \/ part = "BoundedQueue" /\ Blocking!BoundedNext
     \/ part = "RingBuffer" /\ Ring!Next
     \/ part = "ProducerConsumerDemo" /\ Demo!Next
     \/ part = "ConnectionPool" /\ Pool!Next
     \/ part = "Mailbox" /\ Actor!Next
     \/ part = "CommandQueue" /\ Queue!NextV1
     \/ part = "CommandQueueV2" /\ Queue!NextV2
     \/ part = "ThreadPoolAdvanced" /\ Queue!NextAdvanced
     \/ part = "ThreadSafeMap" /\ Shared!MapNext
     \/ part = "DoubleBuffer" /\ Shared!DoubleNext
     \/ part = "BufferedDispatcher" /\ Shared!EventNext
     \/ part = "DebouncedDispatcher" /\ Debounce!Next
     \/ part = "WebServer" /\ Web!WebServerNext
     \/ part = "App" /\ Web!AppNext
  /\ UNCHANGED <<part, now>>

Timed ==
  /\ \/ part = "TaskScheduler" /\ Sched!Next
     \/ part = "EventLoop" /\ Loop!Next
  /\ UNCHANGED part

Next == Untimed \/ Timed
-----------------------------------------------------------------------------
(* Fairness: a thread that can go on without anybody's help does so some   *)
(* day.  Nothing is assumed of the calls that threads might make, of       *)
(* timeouts, nor of the clock.                                             *)
Still == UNCHANGED <<part, now>>
Wakes(t) == part = "BlockingQueue" /\ Blocking!Resume(t) /\ Still
Produces(p) == part = "ProducerConsumerDemo" /\ Demo!producer(p) /\ Still
Consumes(c) == part = "ProducerConsumerDemo" /\ Demo!consumer(c) /\ Still
ActorRuns == part = "Mailbox" /\ Actor!Actor /\ Still
OwnerRuns == part = "Mailbox" /\ Actor!Owner /\ Still
CallerRuns(c) == part \in QueueParts /\ Queue!Serve(c) /\ Still
WorkerRuns(w) ==
  /\ \/ part = "CommandQueue" /\ Queue!WorkV1(w)
     \/ part = "CommandQueueV2" /\ Queue!WorkV2(w)
     \/ part = "ThreadPoolAdvanced" /\ Queue!WorkAdvanced(w)
  /\ Still
SchedRuns(w) == part = "TaskScheduler" /\ Sched!workerLoop(w) /\ UNCHANGED part
SchedStops == part = "TaskScheduler" /\ pc["stop"].at = "join" /\ Sched!stop /\ UNCHANGED part
LoopRuns == part = "EventLoop" /\ Loop!Loop /\ UNCHANGED part
DispatchRuns(d) == part = "DebouncedDispatcher" /\ (Debounce!Awake(d) \/ Debounce!Handled(d)) /\ Still
EmitRuns(c) ==
  part = "DebouncedDispatcher" /\ (Debounce!ReapJoin(c) \/ Debounce!EmitStart(c) \/ Debounce!EmitRegister(c)) /\ Still
DestructorRuns == part = "DebouncedDispatcher" /\ (Debounce!DestroyTake \/ Debounce!DestroyJoin) /\ Still

WebListens == part = "WebServer" /\ (Web!Listen \/ Web!Spawn) /\ Still
WebStops == part = "WebServer" /\ Web!StopSteps /\ Still
WebServes(c) == part = "WebServer" /\ Web!Serve(c) /\ Still

Fairness ==
  /\ \A t \in Threads : WF_vars(Wakes(t))
  /\ \A p \in Pair : WF_vars(Produces(p)) /\ WF_vars(CallerRuns(p)) /\ WF_vars(SchedRuns(p))
  /\ WF_vars(Consumes("c1")) /\ WF_vars(Consumes("c2"))
  /\ WF_vars(WorkerRuns("w1")) /\ WF_vars(WorkerRuns("w2"))
  /\ WF_vars(ActorRuns) /\ WF_vars(OwnerRuns)
  /\ WF_vars(SchedStops) /\ WF_vars(LoopRuns) /\ WF_vars(DestructorRuns)
  /\ \A d \in 1..3 : WF_vars(DispatchRuns(d)) /\ WF_vars(EmitRuns(Debounce!Handler(d)))
  /\ WF_vars(WebListens) /\ WF_vars(WebStops) /\ \A c \in Pair : WF_vars(WebServes(c))

Spec == Init /\ [][Next]_vars /\ Fairness
-----------------------------------------------------------------------------
\* No notification is lost or spent on a thread that cannot use it: while a
\* thread sleeps, either what it waits for has not happened, or enough others
\* are awake to use up all there is (BlockingQueue, BoundedQueue, RingBuffer,
\* ConnectionPool, Mailbox, the command queues).
NoLostWakeup ==
  CASE part \in BoundedParts -> Blocking!NoLostWakeup
    [] part = "RingBuffer" -> Ring!NoLostWakeup
    [] part = "ProducerConsumerDemo" -> Demo!Ring!NoLostWakeup
    [] part = "ConnectionPool" -> Pool!NoLostWakeup
    [] part = "Mailbox" -> Actor!NoLostWakeup
    [] part \in QueueParts -> Queue!NoLostWakeup
    [] OTHER -> TRUE

\* What goes in comes out once, and is in one place meanwhile: the items of
\* the queues in the order in which they were pushed, connections, tasks,
\* timers, events, and the threads of the debouncer; a server shuts down the
\* sockets it has and leaves no thread behind.
HandedOutOnce ==
  CASE part \in BoundedParts -> Blocking!Fifo
    [] part = "RingBuffer" -> Ring!Fifo
    [] part = "ProducerConsumerDemo" -> Demo!Ring!Fifo
    [] part = "ConnectionPool" -> Pool!HandedOutOnce
    [] part = "Mailbox" -> Actor!Fifo
    [] part \in QueueParts -> Queue!RunOnce /\ (part # "ThreadPoolAdvanced" => Queue!Counted)
    [] part = "BufferedDispatcher" -> Shared!DeliveredOnce
    [] part = "TaskScheduler" -> Sched!InOnePlace
    [] part = "EventLoop" -> Loop!RunOnce
    [] part = "DebouncedDispatcher" -> Debounce!JoinedOnce
    [] part \in {"WebServer", "App"} -> Web!ShutsDownOwn /\ Web!NoThreadLeft
    [] OTHER -> TRUE

\* What a reader has read so far under its lock is of the shared data as they
\* are: ThreadSafeMap::keys() and DoubleBuffer::read() answer with one state.
ReadsOneState ==
  CASE part = "ThreadSafeMap" -> Shared!KeysAreSnapshot
    [] part = "DoubleBuffer" -> Shared!ReadsWholeFrame
    [] OTHER -> TRUE

\* What cancel() promises, and to the letter what it does not.  When the cancel()
\* of a task returns, the task is called once more at most, by a worker that
\* had read its flag before; a timer fires once more at most, if it was due
\* already; and a dispatch that sleeps when the destructor cancels does not
\* reach the handler, unless a handler emits during the destruction.
CancelledStaysQuiet ==
  [][/\ part = "TaskScheduler" => Sched!BeginsOnlyActive
     /\ part = "EventLoop" => Loop!DueNotCancelled
     /\ part = "DebouncedDispatcher" => Debounce!WakesQuietly]_vars

\* Every call that promises to return does: waits on a closed queue, the
\* threads of the demo, stop(), shutdown(), run() after stop(), destructors;
\* the stop() of the scheduler unless a start() has undone it.
CallsReturn ==
  /\ \A t \in Threads : (part = "BlockingQueue" /\ obj.closed_) ~> (part = "BlockingQueue" /\ pc[t] = Blocking!Idle)
  /\ (part = "ProducerConsumerDemo") ~> (part = "ProducerConsumerDemo" /\ Demo!Done)
  /\ (part = "Mailbox" /\ pc.owner # "idle") ~> (part = "Mailbox" /\ pc.owner = "idle")
  /\ (part \in QueueParts /\ pc[Owner].at = "join") ~> (part \in QueueParts /\ pc[Owner].at = "idle")
  /\ (part = "TaskScheduler" /\ pc["stop"].at = "join") ~> (part = "TaskScheduler" /\ (pc["stop"].at = "returned" \/ ~obj.stopped_))
  /\ (part = "EventLoop" /\ obj.stopped_ /\ pc.at # "out") ~> (part = "EventLoop" /\ pc.at = "out")
  /\ (part = "DebouncedDispatcher" /\ pc.owner.at \in {"take", "join"}) ~> (part = "DebouncedDispatcher" /\ pc.owner.at = "gone")
  /\ (part = "WebServer" /\ log.told) ~> (part = "WebServer" /\ pc.stop = "returned" /\ pc.main = "ended")
=============================================================================
