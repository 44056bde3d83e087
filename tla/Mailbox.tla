------------------------------- MODULE Mailbox -------------------------------
(***************************************************************************)
(* actor::Mailbox (33-stage33/actor-mailbox): send() from any thread, one  *)
(* actor thread that start() creates and stop() joins, both called by the  *)
(* owner of the mailbox, again and again.  The handler runs without m_.    *)
(***************************************************************************)
EXTENDS Naturals, Sequences

CONSTANTS Items,   \* each is accepted once at most: a bound on the sends
          Bound    \* bound_

VARIABLES
  obj,   \* the fields: queue_, stopped_, running_, handled_
  pc,    \* where the owner and the actor thread are
  log    \* history: the messages accepted and handled, in order

vars == <<obj, pc, log>>

Init ==
  /\ obj = [queue_ |-> <<>>, stopped_ |-> FALSE, running_ |-> FALSE, handled_ |-> 0]
  /\ pc = [owner |-> "idle", actor |-> "none", msg |-> <<>>]
  /\ log = [in |-> <<>>, out |-> <<>>]

\* The actor sleeps in cv_.wait() and gets up to test the predicate.
Notified == [pc EXCEPT !.actor = IF @ = "asleep" THEN "loop" ELSE @]

SendRefused == (obj.stopped_ \/ Len(obj.queue_) >= Bound) /\ UNCHANGED vars

Send(m) ==
  /\ ~obj.stopped_ /\ Len(obj.queue_) < Bound
  /\ \A i \in DOMAIN log.in : log.in[i] # m
  /\ obj' = [obj EXCEPT !.queue_ = Append(@, m)]
  /\ log' = [log EXCEPT !.in = Append(@, m)]
  /\ pc' = Notified

Start ==
  /\ pc.owner = "idle" /\ ~obj.running_
  /\ obj' = [obj EXCEPT !.stopped_ = FALSE, !.running_ = TRUE]
  /\ pc' = [pc EXCEPT !.actor = "loop"]
  /\ UNCHANGED log

StopFlag ==
  /\ pc.owner = "idle" /\ obj.running_
  /\ obj' = [obj EXCEPT !.stopped_ = TRUE]
  /\ pc' = [pc EXCEPT !.owner = "notify"]
  /\ UNCHANGED log

StopNotify ==
  /\ pc.owner = "notify"
  /\ pc' = [Notified EXCEPT !.owner = "join"]
  /\ UNCHANGED <<obj, log>>

\* Nothing is accepted after the join: stopped_ is still set.
StopJoin ==
  /\ pc.owner = "join" /\ pc.actor = "ended"
  /\ obj' = [obj EXCEPT !.running_ = FALSE, !.queue_ = <<>>]
  /\ pc' = [pc EXCEPT !.owner = "idle", !.actor = "none"]
  /\ UNCHANGED log

\* From the predicate of the wait to the end of the locked block.
Loop ==
  /\ pc.actor = "loop"
  /\ \/ /\ obj.queue_ = <<>>
        /\ pc' = [pc EXCEPT !.actor = IF obj.stopped_ THEN "ended" ELSE "asleep"]
        /\ UNCHANGED obj
     \/ /\ obj.queue_ # <<>>
        /\ pc' = [pc EXCEPT !.actor = "handle", !.msg = <<Head(obj.queue_)>>]
        /\ obj' = [obj EXCEPT !.queue_ = Tail(@)]
  /\ UNCHANGED log

Handle ==
  /\ pc.actor = "handle"
  /\ obj' = [obj EXCEPT !.handled_ = @ + 1]
  /\ log' = [log EXCEPT !.out = @ \o pc.msg]
  /\ pc' = [pc EXCEPT !.actor = "loop", !.msg = <<>>]

\* The wait may come back for no reason.
SpuriousWakeup == pc.actor = "asleep" /\ pc' = Notified /\ UNCHANGED <<obj, log>>

Actor == Loop \/ Handle
Owner == StopNotify \/ StopJoin

Next == Start \/ StopFlag \/ Owner \/ Actor \/ SpuriousWakeup \/ SendRefused \/ \E m \in Items : Send(m)
-----------------------------------------------------------------------------
\* Every message that send() accepted is handled once and in order, or waits.
\* stop() discards none of those accepted while the actor runs, although its
\* comment says so: the actor drains the queue before it ends, and what stop()
\* clears after the join is empty.
Fifo ==
  /\ log.in = log.out \o pc.msg \o obj.queue_
  /\ Len(obj.queue_) <= Bound
  /\ obj.handled_ = Len(log.out)
  /\ obj.stopped_ /\ pc.actor \in {"ended", "none"} => log.out = log.in

\* The actor sleeps on an empty queue only, and when stopped_ is set it is
\* awake, or stop() has still to wake it.
NoLostWakeup == pc.actor = "asleep" => obj.queue_ = <<>> /\ (obj.stopped_ => pc.owner = "notify")
=============================================================================
