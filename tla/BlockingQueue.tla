---------------------------- MODULE BlockingQueue ----------------------------
(***************************************************************************)
(* blocking_queue::BlockingQueue (06-stage6/blocking-queue): a bounded     *)
(* queue whose push() waits on cvNotFull_ and whose pop() waits on         *)
(* cvNotEmpty_, with or without a timeout, until close().                  *)
(* producer_consumer::BoundedQueue (32-stage32/producer-consumer) is the   *)
(* same queue without close() and with a timeout on every wait.            *)
(*                                                                         *)
(* Every operation holds m_ from its first line to its return, but for the *)
(* waits: a call is one step that ends in a return or in a wait, and a     *)
(* thread that was woken, or timed out, takes one more step of that kind.  *)
(* pc says what each thread is waiting for and whether it has been woken.  *)
(***************************************************************************)
EXTENDS Naturals, Sequences, FiniteSets

CONSTANTS Threads,
          Items,       \* each is accepted once at most: a bound on the pushes
          Capacity     \* capacity_

VARIABLES
  obj,   \* the fields: queue_, closed_
  pc,    \* Idle, or the wait a thread is in
  log    \* history: the items accepted and the items given out, in order

vars == <<obj, pc, log>>

Idle == [at |-> "idle"]
WaitToPush(v, timed) == [at |-> "push", item |-> v, timed |-> timed, woken |-> FALSE]
WaitToPop(timed) == [at |-> "pop", timed |-> timed, woken |-> FALSE]
On(kind) == {t \in Threads : pc[t].at = kind}
Asleep(kind) == {t \in On(kind) : ~pc[t].woken}
Awake(kind) == On(kind) \ Asleep(kind)

Init ==
  /\ obj = [queue_ |-> <<>>, closed_ |-> FALSE]
  /\ pc = [t \in Threads |-> Idle]
  /\ log = [in |-> <<>>, out |-> <<>>]

HasSpace == Len(obj.queue_) < Capacity \/ obj.closed_
HasItem == obj.queue_ # <<>> \/ obj.closed_

\* t returns, and notify_one() wakes one of the threads that sleep on a
\* condition variable, if there is one.
ReturnAndNotify(t, kind) ==
  \/ /\ Asleep(kind) \ {t} = {}
     /\ pc' = [pc EXCEPT ![t] = Idle]
  \/ \E w \in Asleep(kind) \ {t} :
       pc' = [pc EXCEPT ![t] = Idle, ![w].woken = TRUE]

Return(t) == pc' = [pc EXCEPT ![t] = Idle] /\ UNCHANGED <<obj, log>>
-----------------------------------------------------------------------------
\* What push() does once hasSpace() holds.
Admit(t, v) ==
  \/ obj.closed_ /\ Return(t)
  \/ /\ ~obj.closed_
     /\ obj' = [obj EXCEPT !.queue_ = Append(@, v)]
     /\ log' = [log EXCEPT !.in = Append(@, v)]
     /\ ReturnAndNotify(t, "pop")

Push(t, v, timed) ==
  /\ pc[t] = Idle
  /\ \A i \in 1..Len(log.in) : log.in[i] # v
  /\ \A u \in On("push") : pc[u].item # v
  /\ \/ HasSpace /\ Admit(t, v)
     \/ /\ ~HasSpace
        /\ pc' = [pc EXCEPT ![t] = WaitToPush(v, timed)]
        /\ UNCHANGED <<obj, log>>

PushResume(t) ==
  /\ t \in Awake("push")
  /\ \/ HasSpace /\ Admit(t, pc[t].item)
     \/ /\ ~HasSpace
        /\ pc' = [pc EXCEPT ![t].woken = FALSE]
        /\ UNCHANGED <<obj, log>>

\* wait_for() looks at the predicate once more when the time is up.
PushTimeout(t) ==
  /\ t \in On("push") /\ pc[t].timed
  /\ \/ HasSpace /\ Admit(t, pc[t].item)
     \/ ~HasSpace /\ Return(t)
-----------------------------------------------------------------------------
\* What pop() does once hasItem() holds.
Take(t) ==
  \/ obj.queue_ = <<>> /\ Return(t)
  \/ /\ obj.queue_ # <<>>
     /\ obj' = [obj EXCEPT !.queue_ = Tail(@)]
     /\ log' = [log EXCEPT !.out = Append(@, Head(obj.queue_))]
     /\ ReturnAndNotify(t, "push")

Pop(t, timed) ==
  /\ pc[t] = Idle
  /\ \/ HasItem /\ Take(t)
     \/ /\ ~HasItem
        /\ pc' = [pc EXCEPT ![t] = WaitToPop(timed)]
        /\ UNCHANGED <<obj, log>>

PopResume(t) ==
  /\ t \in Awake("pop")
  /\ \/ HasItem /\ Take(t)
     \/ /\ ~HasItem
        /\ pc' = [pc EXCEPT ![t].woken = FALSE]
        /\ UNCHANGED <<obj, log>>

PopTimeout(t) ==
  /\ t \in On("pop") /\ pc[t].timed
  /\ \/ HasItem /\ Take(t)
     \/ ~HasItem /\ Return(t)
-----------------------------------------------------------------------------
MutCloseWakesPoppers ==
  /\ obj' = [obj EXCEPT !.closed_ = TRUE]
  /\ pc' = [u \in Threads |-> IF u \in On("pop") THEN [pc[u] EXCEPT !.woken = TRUE] ELSE pc[u]]
  /\ UNCHANGED log

\* close() may come from any thread, one of Threads or another one.
Close ==
  /\ obj' = [obj EXCEPT !.closed_ = TRUE]
  /\ pc' = [u \in Threads |-> IF pc[u] = Idle THEN Idle ELSE [pc[u] EXCEPT !.woken = TRUE]]
  /\ UNCHANGED log

\* wait() may come back for no reason.
SpuriousWakeup(t) == pc[t] # Idle /\ pc' = [pc EXCEPT ![t].woken = TRUE] /\ UNCHANGED <<obj, log>>

Resume(t) == PushResume(t) \/ PopResume(t)

Next ==
  \/ Close
  \/ \E t \in Threads :
    \/ \E v \in Items, timed \in BOOLEAN : Push(t, v, timed)
    \/ \E timed \in BOOLEAN : Pop(t, timed)
    \/ Resume(t) \/ PushTimeout(t) \/ PopTimeout(t) \/ SpuriousWakeup(t)

BoundedPush(t, v) == Push(t, v, TRUE)
BoundedPop(t) == Pop(t, TRUE)
BoundedWait(t) == Resume(t) \/ PushTimeout(t) \/ PopTimeout(t) \/ SpuriousWakeup(t)
BoundedNext == \E t \in Threads : (\E v \in Items : BoundedPush(t, v)) \/ BoundedPop(t) \/ BoundedWait(t)

Spec == Init /\ [][Next]_vars
-----------------------------------------------------------------------------
\* What comes out is what went in, in the same order, and what is between is
\* in the queue, which never exceeds its capacity.
Fifo ==
  /\ log.in = log.out \o obj.queue_
  /\ Len(obj.queue_) <= Capacity

\* push() and pop() wake one thread each.  While one sleeps on, as many are
\* awake as there are items (places) for them, and none sleeps on a closed
\* queue: a notification is never spent on a thread that cannot use it.
NoLostWakeup ==
  /\ Asleep("pop") # {} => ~obj.closed_ /\ Cardinality(Awake("pop")) >= Len(obj.queue_)
  /\ Asleep("push") # {} => ~obj.closed_ /\ Cardinality(Awake("push")) + Len(obj.queue_) >= Capacity
=============================================================================
