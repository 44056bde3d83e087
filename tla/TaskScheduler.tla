---------------------------- MODULE TaskScheduler ----------------------------
(***************************************************************************)
(* task_scheduler::TaskScheduler (05-stage5/task-scheduler): workers that  *)
(* poll a priority queue of tasks with a due time.  schedule(),            *)
(* scheduleAt(), scheduleRepeating() and cancel() are single critical      *)
(* sections; a worker tests stopped_, looks at the queue under mutex_,     *)
(* releases mutex_ and only then calls the task.  The wait of a worker     *)
(* ends within 10 ms, so that it is no more than a turn of its loop.       *)
(* start() may be called at any time, also while stop() joins; running_ is *)
(* read nowhere.                                                           *)
(***************************************************************************)
EXTENDS Naturals, FiniteSets

CONSTANTS Workers,
          MaxTasks,   \* bound: tasks scheduled
          MaxNow,     \* bound: ticks of the clock
          Intervals   \* of repeating tasks, none of them 0

Priorities == 0..1    \* two of Low, Normal and High

VARIABLES
  obj,   \* the fields: taskQueue_, activeTasks_, nextId_, stopped_, completedCount_
  pc,    \* where each worker is, with its task; and where stop() is
  log,   \* history: the ids of cancelled tasks, the workers that had taken a
         \* task and not called it yet when it was cancelled, the tasks that ran
  now    \* std::chrono::steady_clock

vars == <<obj, pc, log, now>>

At(place) == [at |-> place]
In(place) == {w \in Workers : pc[w].at = place}
Goto(w, loc) == pc' = [pc EXCEPT ![w] = loc]

Init ==
  /\ obj = [taskQueue_ |-> {}, activeTasks_ |-> [i \in {} |-> TRUE], nextId_ |-> 1,
            stopped_ |-> FALSE, completedCount_ |-> 0]
  /\ pc = [w \in Workers \union {"stop"} |-> At(IF w = "stop" THEN "idle" ELSE "loop")]
  /\ log = [cancelled |-> {}, owed |-> {}, ran |-> [i \in 1..MaxTasks |-> 0]]
  /\ now = 0

\* Task::operator>, and the top of a priority queue ordered by it: one of the
\* highest priority, and among these one that is due first.
Later(a, b) == IF a.priority # b.priority THEN a.priority < b.priority ELSE a.executeAt > b.executeAt
Tops == {a \in obj.taskQueue_ : \A b \in obj.taskQueue_ : ~Later(a, b)}

Enter(priority, at, interval) ==
  /\ obj.nextId_ <= MaxTasks
  /\ obj' = [obj EXCEPT
       !.taskQueue_ = @ \union {[id |-> obj.nextId_, priority |-> priority, executeAt |-> at, interval |-> interval]},
       !.activeTasks_ = [i \in DOMAIN @ \union {obj.nextId_} |-> i = obj.nextId_ \/ @[i]],
       !.nextId_ = @ + 1]
  /\ UNCHANGED <<pc, log, now>>

schedule(priority) == Enter(priority, now, 0)
scheduleAt(priority, at) == Enter(priority, at, 0)
scheduleRepeating(priority, interval) == Enter(priority, now + interval, interval)

\* of an id that was given out
cancel(id) ==
  /\ obj' = [obj EXCEPT !.activeTasks_[id] = FALSE]
  /\ log' = [log EXCEPT !.cancelled = @ \union {id},
                        !.owed = @ \union {w \in In("call") : pc[w].task.id = id}]
  /\ UNCHANGED <<pc, now>>

start == obj' = [obj EXCEPT !.stopped_ = FALSE] /\ UNCHANGED <<pc, log, now>>

\* A second call, of the destructor for one, joins what there is to join.
stop ==
  \/ /\ pc["stop"].at \in {"idle", "returned"}
     /\ obj' = [obj EXCEPT !.stopped_ = TRUE]
     /\ Goto("stop", At("join"))
     /\ UNCHANGED <<log, now>>
  \/ /\ pc["stop"].at = "join" /\ In("ended") = Workers
     /\ Goto("stop", At("returned"))
     /\ UNCHANGED <<obj, log, now>>
-----------------------------------------------------------------------------
\* while (!stopped_)
LoopHead(w) ==
  /\ pc[w].at = "loop"
  /\ Goto(w, At(IF obj.stopped_ THEN "ended" ELSE "look"))
  /\ UNCHANGED <<obj, log, now>>

MutLook(w) ==
  /\ pc[w].at = "look"
  /\ \E k \in Tops :
       /\ k.executeAt <= now
       /\ obj' = [obj EXCEPT !.taskQueue_ = @ \ {k}]
       /\ Goto(w, [at |-> "call", task |-> k])
  /\ UNCHANGED <<log, now>>

\* The locked block: nothing to do, or the top is not due, or it is taken, to
\* be run or, when it has been cancelled, to be forgotten.
Look(w) ==
  /\ pc[w].at = "look"
  /\ \/ /\ obj.taskQueue_ = {}
        /\ Goto(w, At(IF obj.stopped_ THEN "ended" ELSE "loop"))
        /\ UNCHANGED obj
     \/ \E k \in Tops :
          \/ k.executeAt > now /\ Goto(w, At("loop")) /\ UNCHANGED obj
          \/ /\ k.executeAt <= now
             /\ obj' = [obj EXCEPT !.taskQueue_ = @ \ {k}]
             /\ Goto(w, IF obj.activeTasks_[k.id] THEN [at |-> "call", task |-> k] ELSE At("loop"))
  /\ UNCHANGED <<log, now>>

\* func() begins, outside of the locked block.
Call(w) ==
  /\ pc[w].at = "call"
  /\ log' = [log EXCEPT !.owed = @ \ {w}]
  /\ Goto(w, [at |-> "run", task |-> pc[w].task])
  /\ UNCHANGED <<obj, now>>

\* The task returns or throws: either way it is counted.
Run(w) ==
  /\ pc[w].at = "run"
  /\ obj' = [obj EXCEPT !.completedCount_ = @ + 1]
  /\ log' = [log EXCEPT !.ran[pc[w].task.id] = @ + 1]
  /\ Goto(w, IF pc[w].task.interval = 0 THEN At("loop") ELSE [pc[w] EXCEPT !.at = "again"])
  /\ UNCHANGED now

Again(w) ==
  /\ pc[w].at = "again"
  /\ obj' = [obj EXCEPT !.taskQueue_ = @ \union {[pc[w].task EXCEPT !.executeAt = now + pc[w].task.interval]}]
  /\ Goto(w, At("loop"))
  /\ UNCHANGED <<log, now>>

workerLoop(w) == LoopHead(w) \/ Look(w) \/ Call(w) \/ Run(w) \/ Again(w)

Tick == now < MaxNow /\ now' = now + 1 /\ UNCHANGED <<obj, pc, log>>

Next ==
  \/ \E p \in Priorities :
       \/ schedule(p)
       \/ \E at \in 0..MaxNow : scheduleAt(p, at)
       \/ \E i \in Intervals : scheduleRepeating(p, i)
  \/ \E id \in 1..obj.nextId_ - 1 : cancel(id)
  \/ start \/ stop \/ Tick
  \/ \E w \in Workers : workerLoop(w)
-----------------------------------------------------------------------------
Taken == In("call") \union In("run")
Held == {pc[w].task : w \in Taken \union In("again")}
Entries(id) == {k \in obj.taskQueue_ : k.id = id}

\* A task is in the queue or with one worker, in one of these at most; unless
\* it was cancelled it gets lost nowhere, and one that does not repeat runs
\* once.
InOnePlace ==
  /\ \A v, w \in Taken \union In("again") : v # w => pc[v].task.id # pc[w].task.id
  /\ \A id \in 1..obj.nextId_ - 1 :
       LET held == {k \in Held : k.id = id}
           run == {k \in held : \E w \in Taken : pc[w].task = k} IN
       /\ Cardinality(Entries(id)) + Cardinality(held) <= 1
       /\ \/ id \in log.cancelled
          \/ Entries(id) \union held # {}
          \/ log.ran[id] = 1
       /\ \A k \in Entries(id) \union run : k.interval = 0 => log.ran[id] = 0

\* Once cancel() has returned the task is not called any more, except by a
\* worker that had taken it, and read its flag, before.
BeginsOnlyActive ==
  \A w \in Workers :
    pc'[w].at = "run" /\ pc[w].at # "run" /\ pc'[w].task.id \in log.cancelled => w \in log.owed
=============================================================================
