----------------------------- MODULE ThreadPool -----------------------------
(***************************************************************************)
(* thread_pool::ThreadPool (03-advanced/thread-pool): a fixed set of       *)
(* worker threads, one mutex, the queue of tasks, and two condition        *)
(* variables: condition_ (workers wait for work) and finished_ (callers of *)
(* waitForAll wait for idleness).                                          *)
(*                                                                         *)
(* Every access to the shared fields happens under mutex_, so a critical   *)
(* section is one action.  What happens outside of the mutex -- the call   *)
(* of notify_one after enqueue released it, the run of a task, the joins   *)
(* of shutdown -- is a step of its own, and other threads may run between. *)
(* A thread blocked on a condition variable is one whose pc says so;       *)
(* waking up sends it back to the line that takes the lock and evaluates   *)
(* the predicate again.                                                    *)
(***************************************************************************)
EXTENDS Naturals, Sequences, FiniteSets, Functions

CONSTANTS Workers,   \* the threads the constructor starts
          Callers,   \* the threads that use the pool
          Tasks,     \* the tasks, each handed over at most once
          NoTask     \* the empty std::function of a worker without a task

ASSUME WorkersAssumption == IsFiniteSet(Workers) /\ Workers # {}
ASSUME ThreadsAssumption == IsFiniteSet(Callers) /\ Workers \cap Callers = {}

ASSUME NoTaskAssumption == NoTask \notin Tasks

VARIABLES
  tasks,        \* tasks_, oldest first
  activeTasks,  \* activeTasks_: accepted and not finished
  shutdown,     \* shutdown_
  workers,      \* workers_, the threads in the member list
  joining,      \* [Callers -> threads in the local list of shutdown()]
  task,         \* [Workers -> the task taken from the queue]
  completed,    \* tasks whose packaged_task has run: their future is ready
  pc            \* where each thread is

vars == <<tasks, activeTasks, shutdown, workers, joining, task, completed, pc>>

Threads == Workers \cup Callers

WorkerPCs == {"wait", "blocked", "run", "notifyFromTask", "finish", "exited"}
CallerPCs == {"idle", "notify", "notifyAll", "swap", "join",
              "waitForAll", "waitBlocked"}

\* The tasks that enqueue() has accepted so far.
Accepted == Range(tasks) \cup ({task[w] : w \in Workers} \ {NoTask}) \cup completed

At(t, from, to) == pc[t] = from /\ pc' = [pc EXCEPT ![t] = to]

Init ==
  /\ tasks = <<>>
  /\ activeTasks = 0
  /\ shutdown = FALSE
  /\ workers = Workers
  /\ joining = [c \in Callers |-> {}]
  /\ task = [w \in Workers |-> NoTask]
  /\ completed = {}
  /\ pc = [t \in Threads |-> IF t \in Workers THEN "wait" ELSE "idle"]
-----------------------------------------------------------------------------
(***************************************************************************)
(* enqueue().  A caller enqueues from "idle", a task that is running       *)
(* enqueues from its worker.  After shutdown_ is set enqueue throws and    *)
(* changes nothing, so the step is not there.                              *)
(***************************************************************************)
MutPushUncounted(t, k, from, to) ==   \* mutant: activeTasks_++ forgotten
  /\ ~shutdown /\ k \notin Accepted
  /\ At(t, from, to)
  /\ tasks' = Append(tasks, k)
  /\ UNCHANGED <<activeTasks, shutdown, workers, joining, task, completed>>

Push(t, k, from, to) ==
  /\ ~shutdown
  /\ k \notin Accepted
  /\ At(t, from, to)
  /\ tasks' = Append(tasks, k)
  /\ activeTasks' = activeTasks + 1
  /\ UNCHANGED <<shutdown, workers, joining, task, completed>>

Enqueue(c, k) == Push(c, k, "idle", "notify")
EnqueueFromTask(w, k) == Push(w, k, "run", "notifyFromTask")

MutNotifyNobody(t, from, to) ==   \* mutant: notify_one() forgotten
  /\ At(t, from, to)
  /\ UNCHANGED <<tasks, activeTasks, shutdown, workers, joining, task, completed>>

\* notify_one(): one blocked worker, if there is one, leaves the wait.
NotifyOne(t, from, to) ==
  /\ pc[t] = from
  /\ LET blocked == {w \in Workers : pc[w] = "blocked"} IN
       \/ /\ blocked = {}
          /\ pc' = [pc EXCEPT ![t] = to]
       \/ \E w \in blocked : pc' = [pc EXCEPT ![t] = to, ![w] = "wait"]
  /\ UNCHANGED <<tasks, activeTasks, shutdown, workers, joining, task, completed>>

EnqueueNotify(c) == NotifyOne(c, "notify", "idle")
EnqueueFromTaskNotify(w) == NotifyOne(w, "notifyFromTask", "run")
-----------------------------------------------------------------------------
(***************************************************************************)
(* workerLoop()                                                            *)
(***************************************************************************)

\* The predicate is false: the worker blocks on condition_.
WorkerBlock(w) ==
  /\ ~shutdown /\ tasks = <<>>
  /\ At(w, "wait", "blocked")
  /\ UNCHANGED <<tasks, activeTasks, shutdown, workers, joining, task, completed>>

MutWorkerExitEarly(w) ==   \* mutant: tasks_.empty() not asked before the exit
  /\ shutdown
  /\ At(w, "wait", "exited")
  /\ UNCHANGED <<tasks, activeTasks, shutdown, workers, joining, task, completed>>

WorkerExit(w) ==
  /\ shutdown /\ tasks = <<>>
  /\ At(w, "wait", "exited")
  /\ UNCHANGED <<tasks, activeTasks, shutdown, workers, joining, task, completed>>

MutWorkerTakeNewest(w) ==   \* mutant: back() instead of front()
  /\ tasks # <<>>
  /\ At(w, "wait", "run")
  /\ task' = [task EXCEPT ![w] = tasks[Len(tasks)]]
  /\ tasks' = SubSeq(tasks, 1, Len(tasks) - 1)
  /\ UNCHANGED <<activeTasks, shutdown, workers, joining, completed>>

WorkerTake(w) ==
  /\ tasks # <<>>
  /\ At(w, "wait", "run")
  /\ task' = [task EXCEPT ![w] = Head(tasks)]
  /\ tasks' = Tail(tasks)
  /\ UNCHANGED <<activeTasks, shutdown, workers, joining, completed>>

\* task() returns; an exception ends up in the future as well.
WorkerRan(w) ==
  /\ At(w, "run", "finish")
  /\ completed' = completed \cup {task[w]}
  /\ UNCHANGED <<tasks, activeTasks, shutdown, workers, joining, task>>

MutWorkerFinishSilent(w) ==   \* mutant: finished_.notify_all() forgotten
  /\ At(w, "finish", "wait")
  /\ activeTasks' = activeTasks - 1
  /\ task' = [task EXCEPT ![w] = NoTask]
  /\ UNCHANGED <<tasks, shutdown, workers, joining, completed>>

MutWorkerFinishTwice(w) ==   \* mutant: a failed task is counted off twice
  /\ At(w, "finish", "wait")
  /\ \E n \in {1, 2} : activeTasks' = activeTasks - n
  /\ task' = [task EXCEPT ![w] = NoTask]
  /\ UNCHANGED <<tasks, shutdown, workers, joining, completed>>

\* The section after the task: the count goes down, and the last task of
\* all wakes everybody who waits for idleness.
WorkerFinish(w) ==
  /\ pc[w] = "finish"
  /\ activeTasks' = activeTasks - 1
  /\ task' = [task EXCEPT ![w] = NoTask]
  /\ pc' = [t \in Threads |->
              IF t = w THEN "wait"
              ELSE IF pc[t] = "waitBlocked" /\ activeTasks' = 0 /\ tasks = <<>>
                   THEN "waitForAll"
                   ELSE pc[t]]
  /\ UNCHANGED <<tasks, shutdown, workers, joining, completed>>

\* A condition variable may wake without a notification.
SpuriousWakeup(t) ==
  /\ \/ At(t, "blocked", "wait")
     \/ At(t, "waitBlocked", "waitForAll")
  /\ UNCHANGED <<tasks, activeTasks, shutdown, workers, joining, task, completed>>
-----------------------------------------------------------------------------
(***************************************************************************)
(* shutdown(), also called by the destructor: flag, notify_all, swap of    *)
(* the worker list, joins, in that order and in four separate steps.       *)
(***************************************************************************)
ShutdownFlag(c) ==
  /\ At(c, "idle", "notifyAll")
  /\ shutdown' = TRUE
  /\ UNCHANGED <<tasks, activeTasks, workers, joining, task, completed>>

MutShutdownNotifyOne(c) ==   \* mutant: notify_one() instead of notify_all()
  NotifyOne(c, "notifyAll", "swap")

ShutdownNotifyAll(c) ==
  /\ pc[c] = "notifyAll"
  /\ pc' = [t \in Threads |-> IF t = c THEN "swap"
                              ELSE IF pc[t] = "blocked" THEN "wait" ELSE pc[t]]
  /\ UNCHANGED <<tasks, activeTasks, shutdown, workers, joining, task, completed>>

ShutdownSwap(c) ==
  /\ At(c, "swap", "join")
  /\ joining' = [joining EXCEPT ![c] = workers]
  /\ workers' = {}
  /\ UNCHANGED <<tasks, activeTasks, shutdown, task, completed>>

\* The local list dies with the call, once every thread in it has ended.
ShutdownJoined(c) ==
  /\ \A w \in joining[c] : pc[w] = "exited"
  /\ At(c, "join", "idle")
  /\ joining' = [joining EXCEPT ![c] = {}]
  /\ UNCHANGED <<tasks, activeTasks, shutdown, workers, task, completed>>
-----------------------------------------------------------------------------
(***************************************************************************)
(* waitForAll()                                                            *)
(***************************************************************************)
WaitForAllCall(c) ==
  /\ At(c, "idle", "waitForAll")
  /\ UNCHANGED <<tasks, activeTasks, shutdown, workers, joining, task, completed>>

MutIdleQueueOnly == tasks = <<>>   \* mutant: the running tasks forgotten

Idle == activeTasks = 0 /\ tasks = <<>>

WaitForAllBlock(c) ==
  /\ ~Idle
  /\ At(c, "waitForAll", "waitBlocked")
  /\ UNCHANGED <<tasks, activeTasks, shutdown, workers, joining, task, completed>>

WaitForAllReturn(c) ==
  /\ Idle
  /\ At(c, "waitForAll", "idle")
  /\ UNCHANGED <<tasks, activeTasks, shutdown, workers, joining, task, completed>>
-----------------------------------------------------------------------------
\* The steps a worker takes on its own.
WorkerStep(w) ==
  \/ WorkerBlock(w) \/ WorkerExit(w) \/ WorkerTake(w)
  \/ WorkerRan(w) \/ WorkerFinish(w) \/ EnqueueFromTaskNotify(w)

\* The steps that carry a call on once it has been made.
CallerStep(c) ==
  \/ EnqueueNotify(c)
  \/ ShutdownNotifyAll(c) \/ ShutdownSwap(c) \/ ShutdownJoined(c)
  \/ WaitForAllBlock(c) \/ WaitForAllReturn(c)

\* The calls, which nobody is obliged to make.
Call(c) ==
  \/ \E k \in Tasks : Enqueue(c, k)
  \/ ShutdownFlag(c)
  \/ WaitForAllCall(c)

Next ==
  \/ \E w \in Workers : WorkerStep(w) \/ \E k \in Tasks : EnqueueFromTask(w, k)
  \/ \E c \in Callers : CallerStep(c) \/ Call(c)
  \/ \E t \in Threads : SpuriousWakeup(t)

\* The operating system runs every thread that can run, and every task ends.
Fairness ==
  /\ \A w \in Workers : WF_vars(WorkerStep(w))
  /\ \A c \in Callers : WF_vars(CallerStep(c))

Spec == Init /\ [][Next]_vars /\ Fairness
-----------------------------------------------------------------------------
TypeOK ==
  /\ tasks \in Seq(Tasks)
  /\ activeTasks \in Nat
  /\ shutdown \in BOOLEAN
  /\ workers \in SUBSET Workers
  /\ joining \in [Callers -> SUBSET Workers]
  /\ task \in [Workers -> Tasks \cup {NoTask}]
  /\ completed \in SUBSET Tasks
  /\ pc \in [Threads -> WorkerPCs \cup CallerPCs]
  /\ \A w \in Workers : pc[w] \in WorkerPCs
  /\ \A c \in Callers : pc[c] \in CallerPCs

\* Workers between taking a task and counting it off.
Busy == {w \in Workers : pc[w] \in {"run", "notifyFromTask", "finish"}}

\* Threads that will evaluate the predicate of condition_ without a further
\* notification, or that still owe the notify_one of their enqueue().
WakeupsInFlight ==
  {w \in Workers : pc[w] = "wait"}
    \cup {t \in Threads : pc[t] \in {"notify", "notifyFromTask"}}

\* activeTasks_, raised by enqueue() and lowered by the worker in another
\* critical section, counts exactly the tasks queued or in a worker's hands.
CountExact == activeTasks = Len(tasks) + Cardinality(Busy)

\* No lost wake-up: while a worker sleeps on condition_, each queued task has
\* a wake-up under way, although enqueue() notifies after it has released the
\* mutex and a notification may go to a worker that finds nothing to do.
NoStrandedTask ==
  (\E w \in Workers : pc[w] = "blocked") =>
     Len(tasks) <= Cardinality(WakeupsInFlight)

\* Nobody sleeps through shutdown(): once the flag is up, a worker blocked on
\* condition_ still has the notify_all ahead of it.
NoSleeperAfterShutdown ==
  shutdown /\ (\E w \in Workers : pc[w] = "blocked") =>
     \E c \in Callers : pc[c] = "notifyAll"

\* Graceful termination: when the worker list has been taken over and joined,
\* all workers have ended and every task ever accepted has run.
ShutdownComplete ==
  workers = {} /\ (\A c \in Callers : joining[c] = {}) =>
     /\ \A w \in Workers : pc[w] = "exited"
     /\ Accepted = completed

\* A thread blocked in waitForAll() is never overlooked: as long as it is
\* blocked there is a task whose end will wake it.
NoWaiterOverlooked == (\E c \in Callers : pc[c] = "waitBlocked") => ~Idle

\* waitForAll() returns only when every task accepted so far has run.
WaitForAllReturnsDone ==
  [][\A c \in Callers :
       pc[c] = "waitForAll" /\ pc'[c] = "idle" => Accepted = completed]_vars

\* Every call of waitForAll() and of shutdown() comes back, provided the tasks
\* end and their number is finite.
CallsReturn == \A c \in Callers : pc[c] # "idle" ~> pc[c] = "idle"

\* The pool implements the executor: tasks start in the order enqueue()
\* accepted them, at most one per worker, each exactly once, and none waits
\* forever -- not in the window between push and notify_one either.
Executor == INSTANCE TaskExecutor
              WITH MaxParallel <- Cardinality(Workers),
                   pending <- tasks,
                   running <- {task[w] : w \in {v \in Workers :
                                 pc[v] \in {"run", "notifyFromTask"}}},
                   finished <- completed,
                   closed <- shutdown

ImplementsExecutor == Executor!Spec
=============================================================================
