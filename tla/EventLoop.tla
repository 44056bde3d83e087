------------------------------ MODULE EventLoop ------------------------------
(***************************************************************************)
(* event_loop::EventLoop (03-advanced/event-loop): one thread in run(),    *)
(* others (and its own callbacks) that post, schedule, cancel and stop.    *)
(* The calls are single critical sections or atomic stores.  A callback    *)
(* runs with mutex_ released, so what it does to the loop is what any      *)
(* other thread may do at that moment, and needs no step of its own.       *)
(***************************************************************************)
EXTENDS Naturals, Sequences, FiniteSets, SequencesExt

CONSTANTS MaxTimers,  \* bound: timers scheduled
          MaxPosts,   \* bound: callbacks posted
          MaxNow,     \* bound: ticks of the clock
          Intervals   \* of repeating timers, none of them 0

VARIABLES
  obj,   \* the fields: taskQueue_, timers_, activeTimers_, nextTimerId_, running_, stopped_
  pc,    \* where run() is, and processTimers()' due
  log,   \* history: callbacks posted and run, timers cancelled, those of them that
         \* were due already and have not fired yet, firings of each timer
  now    \* std::chrono::steady_clock

vars == <<obj, pc, log, now>>

Init ==
  /\ obj = [taskQueue_ |-> <<>>, timers_ |-> {}, activeTimers_ |-> [i \in {} |-> TRUE],
            nextTimerId_ |-> 1, running_ |-> FALSE, stopped_ |-> FALSE]
  /\ pc = [at |-> "out", due |-> <<>>]
  /\ log = [posted |-> 0, run |-> <<>>, dead |-> {}, owed |-> {}, fired |-> [i \in 1..MaxTimers |-> 0]]
  /\ now = 0

Goto(place) == pc' = [pc EXCEPT !.at = place]
-----------------------------------------------------------------------------
post ==
  /\ log.posted < MaxPosts
  /\ obj' = [obj EXCEPT !.taskQueue_ = Append(@, log.posted + 1)]
  /\ log' = [log EXCEPT !.posted = @ + 1]
  /\ UNCHANGED <<pc, now>>

Enter(expiry, interval) ==
  /\ obj.nextTimerId_ <= MaxTimers
  /\ obj' = [obj EXCEPT
       !.timers_ = @ \union {[id |-> obj.nextTimerId_, expiry |-> expiry, interval |-> interval]},
       !.activeTimers_ = [i \in DOMAIN @ \union {obj.nextTimerId_} |-> i = obj.nextTimerId_ \/ @[i]],
       !.nextTimerId_ = @ + 1]
  /\ UNCHANGED <<pc, log, now>>

schedule(delay) == Enter(now + delay, 0)
scheduleRepeating(interval) == Enter(now + interval, interval)

IsDue(id) == \E i \in DOMAIN pc.due : pc.due[i] = id

\* of an id that was given out; one that is not in the map is ignored.
cancelTimer(id) ==
  /\ obj' = IF id \in DOMAIN obj.activeTimers_ THEN [obj EXCEPT !.activeTimers_[id] = FALSE] ELSE obj
  /\ log' = [log EXCEPT !.dead = @ \union {id}, !.owed = IF IsDue(id) THEN @ \union {id} ELSE @]
  /\ UNCHANGED <<pc, now>>

stop == obj' = [obj EXCEPT !.stopped_ = TRUE, !.running_ = FALSE] /\ UNCHANGED <<pc, log, now>>
-----------------------------------------------------------------------------
run ==
  /\ pc.at = "out"
  /\ obj' = [obj EXCEPT !.stopped_ = FALSE, !.running_ = TRUE]
  /\ Goto("head")
  /\ UNCHANGED <<log, now>>

LoopHead ==
  /\ pc.at = "head"
  /\ \/ obj.stopped_ /\ Goto("out") /\ obj' = [obj EXCEPT !.running_ = FALSE]
     \/ ~obj.stopped_ /\ Goto("task") /\ UNCHANGED obj
  /\ UNCHANGED <<log, now>>

TakeTask ==
  /\ pc.at = "task"
  /\ Goto("timers")
  /\ \/ obj.taskQueue_ = <<>> /\ UNCHANGED <<obj, log>>
     \/ /\ obj.taskQueue_ # <<>>
        /\ obj' = [obj EXCEPT !.taskQueue_ = Tail(@)]
        /\ log' = [log EXCEPT !.run = Append(@, Head(obj.taskQueue_))]
  /\ UNCHANGED now

IsActive(id) == id \in DOMAIN obj.activeTimers_ /\ obj.activeTimers_[id]

\* The locked block of processTimers().  Timers that expire at the same time
\* come out of the priority queue in any order.
processTimers ==
  /\ pc.at = "timers"
  /\ LET expired == {e \in obj.timers_ : e.expiry <= now}
         active == {e \in expired : IsActive(e.id)}
         again == {e \in active : e.interval > 0} IN
     /\ \E order \in SetToSeqs(active) :
          /\ \A i, j \in DOMAIN order : i < j => order[i].expiry <= order[j].expiry
          /\ pc' = [at |-> "fire", due |-> [i \in DOMAIN order |-> order[i].id]]
     /\ obj' = [obj EXCEPT
          !.timers_ = (@ \ expired) \union {[e EXCEPT !.expiry = now + e.interval] : e \in again},
          !.activeTimers_ = [i \in DOMAIN @ \ {e.id : e \in expired \ again} |-> @[i]]]
  /\ UNCHANGED <<log, now>>

\* A callback of the due ones, whatever has been cancelled since.
Fire ==
  /\ pc.at = "fire" /\ pc.due # <<>>
  /\ LET id == Head(pc.due) IN
     log' = [log EXCEPT !.fired[id] = @ + 1,
                        !.owed = @ \ {id}]
  /\ pc' = [pc EXCEPT !.due = Tail(@)]
  /\ UNCHANGED <<obj, now>>

\* After the sleep, the test whether there is work: it lowers running_ only,
\* and the loop goes on.
LoopEnd ==
  /\ pc.at = "fire" /\ pc.due = <<>>
  /\ obj' = [obj EXCEPT !.running_ = @ /\ ~(obj.taskQueue_ = <<>> /\ obj.timers_ = {})]
  /\ Goto("head")
  /\ UNCHANGED <<log, now>>

Loop == LoopHead \/ TakeTask \/ processTimers \/ Fire \/ LoopEnd
Tick == now < MaxNow /\ now' = now + 1 /\ UNCHANGED <<obj, pc, log>>

Next ==
  \/ post \/ stop \/ run \/ Loop \/ Tick
  \/ \E d \in 0..1 : schedule(d)
  \/ \E i \in Intervals : scheduleRepeating(i)
  \/ \E id \in 1..obj.nextTimerId_ - 1 : cancelTimer(id)
-----------------------------------------------------------------------------
\* Callbacks run in the order in which they were posted, each once, and a
\* timer that does not repeat fires once at most.  Every timer in the queue
\* has its flag, so the iterator that processTimers() erases is a valid one.
RunOnce ==
  /\ log.run \o obj.taskQueue_ = [i \in 1..log.posted |-> i]
  /\ \A e, f \in obj.timers_ : e.id = f.id => e = f
  /\ \A e \in obj.timers_ : e.id \in DOMAIN obj.activeTimers_ /\ (e.interval = 0 => log.fired[e.id] = 0)

\* Once cancelTimer() has returned the timer does not fire any more, unless it
\* was in the list of those that were due at that moment: then it fires once.
DueNotCancelled ==
  \A id \in 1..MaxTimers : log'.fired[id] # log.fired[id] /\ id \in log.dead => id \in log.owed
=============================================================================
