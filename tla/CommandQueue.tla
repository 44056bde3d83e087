---------------------------- MODULE CommandQueue ----------------------------
(***************************************************************************)
(* Three classes with the same worker loop:                                *)
(*   command_queue::CommandQueue (18-stage18/command-queue), first in,     *)
(*     first out;                                                          *)
(*   command_queue_v2::CommandQueue (23-stage23/command-queue-v2), where a *)
(*     task of the highest priority comes first, and which of several such *)
(*     is left open by std::priority_queue;                                *)
(*   thread_pool_advanced::ThreadPool (33-stage33/thread-pool-advanced),   *)
(*     whose submit() returns a future and which counts nothing.           *)
(* Callers enqueue, wait for all tasks, and one of them shuts down.  Tasks *)
(* return: they do not throw, and do not call the queue.                   *)
(***************************************************************************)
EXTENDS Naturals, Sequences, FiniteSets

CONSTANTS Workers, Callers,
          Owner,      \* the caller that shuts down
          Tasks,      \* each is enqueued once at most: a bound
          Urgent      \* the tasks of high priority; the others are normal

VARIABLES
  obj,   \* the fields: tasks_, shutdown_ (stop_), activeTasks_, completedCount_
  pc,    \* where each thread is, and the task a worker runs
  log    \* history: the tasks enqueued, and those that were run

vars == <<obj, pc, log>>

At(place) == [at |-> place]
Exec(k) == [at |-> "exec", task |-> k]
In(S, place) == {t \in S : pc[t].at = place}
Goto(t, place) == pc' = [pc EXCEPT ![t] = At(place)]
Without(s, i) == SubSeq(s, 1, i - 1) \o SubSeq(s, i + 1, Len(s))
Wake(S) == [t \in DOMAIN pc |-> IF t \in S THEN At("loop") ELSE pc[t]]

Init ==
  /\ obj = [tasks_ |-> <<>>, shutdown_ |-> FALSE, activeTasks_ |-> 0, completedCount_ |-> 0]
  /\ pc = [t \in Workers \union Callers |-> At(IF t \in Workers THEN "loop" ELSE "idle")]
  /\ log = [in |-> {}, out |-> <<>>]
-----------------------------------------------------------------------------
(* The callers.                                                            *)
Enqueue(c, k) ==
  /\ pc[c].at = "idle" /\ k \notin log.in
  /\ obj' = [obj EXCEPT !.tasks_ = Append(@, k)]
  /\ log' = [log EXCEPT !.in = @ \union {k}]
  /\ Goto(c, "notify")

\* notify_one(), with the mutex released
EnqueueNotify(c) ==
  /\ pc[c].at = "notify"
  /\ \/ In(Workers, "asleep") = {} /\ Goto(c, "idle")
     \/ \E w \in In(Workers, "asleep") : pc' = [pc EXCEPT ![c] = At("idle"), ![w] = At("loop")]
  /\ UNCHANGED <<obj, log>>

AllDone == obj.tasks_ = <<>> /\ obj.activeTasks_ = 0

WaitForAll(c) ==
  /\ pc[c].at \in {"idle", "awake"}
  /\ Goto(c, IF AllDone THEN "idle" ELSE "waiting")
  /\ UNCHANGED <<obj, log>>

ShutdownFlag(c) ==
  /\ c = Owner /\ pc[c].at = "idle"
  /\ obj' = [obj EXCEPT !.shutdown_ = TRUE]
  /\ Goto(c, "broadcast")
  /\ UNCHANGED log

ShutdownNotify(c) ==
  /\ pc[c].at = "broadcast"
  /\ pc' = [Wake(In(Workers, "asleep")) EXCEPT ![c] = At("join")]
  /\ UNCHANGED <<obj, log>>

ShutdownJoin(c) ==
  /\ pc[c].at = "join" /\ In(Workers, "ended") = Workers
  /\ Goto(c, "idle")
  /\ UNCHANGED <<obj, log>>
-----------------------------------------------------------------------------
(* The workers.                                                            *)
\* From the predicate of the wait on, when there is no task.
NoTask(w) ==
  /\ pc[w].at = "loop" /\ obj.tasks_ = <<>>
  /\ Goto(w, IF obj.shutdown_ THEN "ended" ELSE "asleep")
  /\ UNCHANGED <<obj, log>>

Front == {1}
Top == {i \in DOMAIN obj.tasks_ : obj.tasks_[i] \in Urgent \/ \A j \in DOMAIN obj.tasks_ : obj.tasks_[j] \notin Urgent}

\* ... and when there is one: it leaves the queue and is counted as active.
TakeTask(w, i, active) ==
  /\ pc[w].at = "loop" /\ obj.tasks_ # <<>>
  /\ obj' = [obj EXCEPT !.tasks_ = Without(@, i), !.activeTasks_ = @ + active]
  /\ pc' = [pc EXCEPT ![w] = Exec(obj.tasks_[i])]
  /\ UNCHANGED log

workerLoop(w) == obj.tasks_ # <<>> /\ \E i \in Front : TakeTask(w, i, 1)
workerLoopV2(w) == \E i \in Top : TakeTask(w, i, 1)
workerLoopAdvanced(w) == obj.tasks_ # <<>> /\ TakeTask(w, 1, 0)

\* The task returns and the worker counts it; the last one wakes the waiters.
Finish(w) ==
  /\ pc[w].at = "exec"
  /\ obj' = [obj EXCEPT !.activeTasks_ = @ - 1, !.completedCount_ = @ + 1]
  /\ log' = [log EXCEPT !.out = Append(@, pc[w].task)]
  /\ pc' = [t \in DOMAIN pc |->
              CASE t = w -> At("loop")
                [] pc[t].at = "waiting" /\ obj.activeTasks_ = 1 /\ obj.tasks_ = <<>> -> At("awake")
                [] OTHER -> pc[t]]

\* The packaged task makes its future ready.
FinishAdvanced(w) ==
  /\ pc[w].at = "exec"
  /\ log' = [log EXCEPT !.out = Append(@, pc[w].task)]
  /\ Goto(w, "loop")
  /\ UNCHANGED obj

\* A wait may come back for no reason, of a worker or of a caller of waitForAll().
SpuriousWakeup ==
  /\ \E t \in DOMAIN pc : pc[t].at \in {"asleep", "waiting"} /\ Goto(t, IF t \in Workers THEN "loop" ELSE "awake")
  /\ UNCHANGED <<obj, log>>
-----------------------------------------------------------------------------
Calls(c) == (\E k \in Tasks : Enqueue(c, k)) \/ ShutdownFlag(c)
Serve(c) == EnqueueNotify(c) \/ ShutdownNotify(c) \/ ShutdownJoin(c)

WorkV1(w) == NoTask(w) \/ workerLoop(w) \/ Finish(w)
WorkV2(w) == NoTask(w) \/ workerLoopV2(w) \/ Finish(w)
WorkAdvanced(w) == NoTask(w) \/ workerLoopAdvanced(w) \/ FinishAdvanced(w)

NextV1 == (\E c \in Callers : Calls(c) \/ Serve(c) \/ WaitForAll(c)) \/ (\E w \in Workers : WorkV1(w)) \/ SpuriousWakeup
NextV2 == (\E c \in Callers : Calls(c) \/ Serve(c) \/ WaitForAll(c)) \/ (\E w \in Workers : WorkV2(w)) \/ SpuriousWakeup
NextAdvanced == (\E c \in Callers : Calls(c) \/ Serve(c)) \/ (\E w \in Workers : WorkAdvanced(w)) \/ SpuriousWakeup
-----------------------------------------------------------------------------
Running == {pc[w].task : w \in In(Workers, "exec")}
Queued == {obj.tasks_[i] : i \in DOMAIN obj.tasks_}
Ran == {log.out[i] : i \in DOMAIN log.out}

\* A task is queued, with one worker, or has been run, and is run once.
RunOnce ==
  /\ Len(obj.tasks_) + Cardinality(In(Workers, "exec")) + Len(log.out) = Cardinality(log.in)
  /\ Queued \union Running \union Ran = log.in

\* The counts waitForAll() relies on are exact (of the two command queues).
Counted ==
  /\ obj.activeTasks_ = Cardinality(In(Workers, "exec"))
  /\ obj.completedCount_ = Len(log.out)

\* While tasks are queued a worker is up, or about to be woken, or shut down;
\* a caller sleeps in waitForAll() only while there is something to wait for.
NoLostWakeup ==
  /\ obj.tasks_ # <<>> /\ In(Workers, "asleep") # {} =>
       In(Workers, "asleep") # Workers \/ In(Callers, "notify") # {}
  /\ obj.shutdown_ /\ In(Workers, "asleep") # {} => In(Callers, "broadcast") # {}
  /\ In(Callers, "waiting") # {} => ~AllDone
=============================================================================
