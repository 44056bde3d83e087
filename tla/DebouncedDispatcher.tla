------------------------- MODULE DebouncedDispatcher -------------------------
(***************************************************************************)
(* observer_debouncer::DebouncedDispatcher (25-stage25/observer-debouncer).*)
(* emit() first joins the dispatches that have run (reap()), then starts a *)
(* thread that sleeps, tests cancelled_ and calls the handler, without the *)
(* lock: the handler may emit and cancel too, also while the destructor    *)
(* waits for it.  The other threads are done with the object when its      *)
(* owner destroys it.  Dispatch d is the one that the d-th emit() started; *)
(* its Timer and its thread go by the same number.  A thread that is       *)
(* forgotten goes on with the object's memory as it was left; the program  *)
(* may end there instead, that is, stop in any state.                      *)
(***************************************************************************)
EXTENDS Naturals, FiniteSets

CONSTANTS Emitters,
          MaxEmits   \* bound: calls of emit()

VARIABLES
  obj,   \* the fields: timers_, cancelled_, emitCount_; finished of each Timer
  pc,    \* where each emit(), each dispatch thread and the owner is
  log    \* history: dispatches started, delivered, joined; those registered
         \* when the destructor had taken the list; whether an emit() has undone
         \* the destructor's cancel()

vars == <<obj, pc, log>>

Dispatches == 1..MaxEmits
Thread(e) == <<e, "thread">>
Handler(d) == <<d, "handler">>
\* Who calls emit(): a thread, or the handler in a dispatch.
Callers == {Thread(e) : e \in Emitters} \union {Handler(d) : d \in Dispatches}
At(place, timers) == [at |-> place, timers |-> timers]
Emitter(c, loc) == pc' = [pc EXCEPT !.emit[c] = loc]
Dispatch(d, place) == pc' = [pc EXCEPT !.disp[d] = place]

Init ==
  /\ obj = [timers_ |-> {}, cancelled_ |-> FALSE, emitCount_ |-> 0, finished |-> {}]
  /\ pc = [emit |-> [c \in Callers |-> At("idle", {})],
           disp |-> [d \in Dispatches |-> "none"],
           owner |-> At("alive", {})]
  /\ log = [started |-> 0, handled |-> {}, joined |-> {}, late |-> {}, undone |-> FALSE]
-----------------------------------------------------------------------------
Calls(c) ==
  \/ \E e \in Emitters : c = Thread(e) /\ pc.owner.at = "alive"
  \/ \E d \in Dispatches : c = Handler(d) /\ pc.disp[d] = "handler"

\* reap(), the locked part: the finished timers leave timers_.
Reap(c) ==
  /\ pc.emit[c].at = "idle" /\ Calls(c)
  /\ log.started + Cardinality({b \in Callers : pc.emit[b].at \in {"reap", "emit"}}) < MaxEmits
  /\ obj' = [obj EXCEPT !.timers_ = @ \ obj.finished]
  /\ Emitter(c, At("reap", obj.timers_ \intersect obj.finished))
  /\ UNCHANGED log

\* reap(), the joins, one after the other
ReapJoin(c) ==
  /\ pc.emit[c].at = "reap"
  /\ \/ /\ pc.emit[c].timers = {}
        /\ Emitter(c, At("emit", {}))
        /\ UNCHANGED log
     \/ \E d \in pc.emit[c].timers :
          /\ pc.disp[d] = "ended"
          /\ Emitter(c, At("reap", pc.emit[c].timers \ {d}))
          /\ log' = [log EXCEPT !.joined = @ \union {d}]
  /\ UNCHANGED obj

\* pending_ and cancelled_ are set; then the thread is started.
EmitStart(c) ==
  /\ pc.emit[c].at = "emit"
  /\ obj' = [obj EXCEPT !.cancelled_ = FALSE]
  /\ log' = [log EXCEPT !.started = @ + 1, !.undone = @ \/ pc.owner.at # "alive"]
  /\ pc' = [pc EXCEPT !.emit[c] = At("register", {log.started + 1}),
                      !.disp[log.started + 1] = "asleep"]

MutEmitRegister(c) ==   \* mutant: the list is replaced
  /\ pc.emit[c].at = "register"
  /\ obj' = [obj EXCEPT !.timers_ = pc.emit[c].timers]
  /\ Emitter(c, At("idle", {}))
  /\ UNCHANGED log

EmitRegister(c) ==
  /\ pc.emit[c].at = "register"
  /\ obj' = [obj EXCEPT !.timers_ = @ \union pc.emit[c].timers]
  /\ Emitter(c, At("idle", {}))
  /\ log' = IF pc.owner.at \in {"join", "gone"}
             THEN [log EXCEPT !.late = @ \union pc.emit[c].timers] ELSE log

\* Called by a thread, or by the handler.
Cancel ==
  /\ pc.owner.at = "alive" \/ \E d \in Dispatches : pc.disp[d] = "handler"
  /\ obj' = [obj EXCEPT !.cancelled_ = TRUE]
  /\ UNCHANGED <<pc, log>>
-----------------------------------------------------------------------------
(* The dispatch thread.                                                    *)
Awake(d) ==
  /\ pc.disp[d] = "asleep"
  /\ \/ obj.cancelled_ /\ Dispatch(d, "ended") /\ obj' = [obj EXCEPT !.finished = @ \union {d}]
     \/ ~obj.cancelled_ /\ Dispatch(d, "handler") /\ UNCHANGED obj
  /\ UNCHANGED log

\* The handler returns.
Handled(d) ==
  /\ pc.disp[d] = "handler" /\ pc.emit[Handler(d)].at = "idle"
  /\ Dispatch(d, "ended")
  /\ log' = [log EXCEPT !.handled = @ \union {d}]
  /\ obj' = [obj EXCEPT !.emitCount_ = @ + 1, !.finished = @ \union {d}]
-----------------------------------------------------------------------------
(* ~DebouncedDispatcher(): cancel(), take the list, join.                  *)
Destroy ==
  /\ pc.owner.at = "alive" /\ \A e \in Emitters : pc.emit[Thread(e)].at = "idle"
  /\ obj' = [obj EXCEPT !.cancelled_ = TRUE]
  /\ pc' = [pc EXCEPT !.owner = At("take", {})]
  /\ UNCHANGED log

DestroyTake ==
  /\ pc.owner.at = "take"
  /\ obj' = [obj EXCEPT !.timers_ = {}]
  /\ pc' = [pc EXCEPT !.owner = At("join", obj.timers_)]
  /\ UNCHANGED log

DestroyJoin ==
  /\ pc.owner.at = "join"
  /\ \/ /\ pc.owner.timers = {}
        /\ pc' = [pc EXCEPT !.owner.at = "gone"]
        /\ UNCHANGED log
     \/ \E d \in pc.owner.timers :
          /\ pc.disp[d] = "ended"
          /\ pc' = [pc EXCEPT !.owner.timers = @ \ {d}]
          /\ log' = [log EXCEPT !.joined = @ \union {d}]
  /\ UNCHANGED obj

Next ==
  \/ Cancel \/ Destroy \/ DestroyTake \/ DestroyJoin
  \/ \E c \in Callers : Reap(c) \/ ReapJoin(c) \/ EmitStart(c) \/ EmitRegister(c)
  \/ \E d \in Dispatches : Awake(d) \/ Handled(d)
-----------------------------------------------------------------------------
\* A thread that was started is in timers_, or with the emit() that will put
\* it there, or with the one that joins it, or joined: in one of these, so
\* that it is joined at most once.  When the object is gone every thread has
\* been joined, except those that a handler's emit() registered after the
\* destructor had taken the list, and those that such a forgotten thread is
\* itself about to register or to join.  The count is that of the handled
\* events.
JoinedOnce ==
  LET places == {<<0, "object">>, <<0, "owner">>, <<0, "joined">>}
      holders == [h \in Callers \union places |->
        CASE h = <<0, "object">> -> obj.timers_
          [] h = <<0, "owner">> -> pc.owner.timers
          [] h = <<0, "joined">> -> log.joined
          [] OTHER -> pc.emit[h].timers]
      forgotten == (1..log.started) \ log.joined IN
  /\ UNION {holders[h] : h \in DOMAIN holders} = 1..log.started
  /\ \A g, h \in DOMAIN holders : g # h => holders[g] \intersect holders[h] = {}
  /\ pc.owner.at = "gone" =>
       \A d \in forgotten :
         d \in log.late \/ \E n \in forgotten : d \in pc.emit[Handler(n)].timers
  /\ obj.emitCount_ = Cardinality(log.handled)

\* Once the destructor has cancelled, only the dispatches that were past the
\* test of cancelled_ reach the handler, unless a handler that was running
\* emits: that undoes the destructor's cancel() for all that still sleep.
WakesQuietly ==
  pc.owner.at # "alive" /\ ~log.undone =>
    \A d \in Dispatches : pc.disp[d] = "asleep" => pc'.disp[d] # "handler"
=============================================================================
