----------------------------- MODULE RingBuffer -----------------------------
(***************************************************************************)
(* ring_buffer::RingBuffer (06-stage6/ring-buffer): capacity_ slots used   *)
(* in a circle.  push() and pop() never wait, popWait() does, with a       *)
(* timeout.  Every operation holds mutex_ but for that wait, so it is one  *)
(* step.  The elements are kept in all slots ever written, as in the code: *)
(* pop() and clear() move the indexes only.                                *)
(***************************************************************************)
EXTENDS Naturals, Sequences, FiniteSets

CONSTANTS Threads,
          Items,      \* each is pushed once at most: a bound
          Capacity,   \* capacity_
          Empty       \* a slot that was never written

VARIABLES
  obj,   \* the fields: buffer_, head_, tail_, size_
  pc,    \* Idle, or in the wait of popWait()
  log    \* history: items pushed, and <<thread, item>> popped, in order

vars == <<obj, pc, log>>

Idle == [at |-> "idle"]
Asleep == [at |-> "popWait", woken |-> FALSE]
Woken == [at |-> "popWait", woken |-> TRUE]
In(state) == {t \in Threads : pc[t] = state}

Init ==
  /\ obj = [buffer_ |-> [i \in 0..Capacity-1 |-> Empty], head_ |-> 0, tail_ |-> 0, size_ |-> 0]
  /\ pc = [t \in Threads |-> Idle]
  /\ log = [in |-> <<>>, out |-> <<>>]

Return(t) == pc' = [pc EXCEPT ![t] = Idle] /\ UNCHANGED <<obj, log>>

PushFull(t) == pc[t] = Idle /\ obj.size_ = Capacity /\ UNCHANGED vars

Advance(i) == (i + 1) % Capacity

Push(t, v) ==
  /\ pc[t] = Idle
  /\ obj.size_ < Capacity
  /\ \A i \in DOMAIN log.in : log.in[i] # v
  /\ obj' = [obj EXCEPT !.buffer_[obj.tail_] = v, !.tail_ = Advance(@), !.size_ = @ + 1]
  /\ log' = [log EXCEPT !.in = Append(@, v)]
  /\ \/ In(Asleep) = {} /\ UNCHANGED pc
     \/ \E w \in In(Asleep) : pc' = [pc EXCEPT ![w] = Woken]

\* The part pop() and popWait() share, for a buffer that is not empty.
Take(t) ==
  /\ obj' = [obj EXCEPT !.head_ = Advance(@), !.size_ = @ - 1]
  /\ log' = [log EXCEPT !.out = Append(@, <<t, obj.buffer_[obj.head_]>>)]
  /\ pc' = [pc EXCEPT ![t] = Idle]

Pop(t) ==
  /\ pc[t] = Idle
  /\ \/ obj.size_ = 0 /\ Return(t)
     \/ obj.size_ > 0 /\ Take(t)

PopWait(t) ==
  /\ pc[t] = Idle
  /\ \/ obj.size_ > 0 /\ Take(t)
     \/ obj.size_ = 0 /\ pc' = [pc EXCEPT ![t] = Asleep] /\ UNCHANGED <<obj, log>>

PopWake(t) ==
  /\ pc[t] = Woken
  /\ \/ obj.size_ > 0 /\ Take(t)
     \/ obj.size_ = 0 /\ pc' = [pc EXCEPT ![t] = Asleep] /\ UNCHANGED <<obj, log>>

PopTimeout(t) ==
  /\ pc[t] \in {Asleep, Woken}
  /\ \/ obj.size_ = 0 /\ Return(t)
     \/ obj.size_ > 0 /\ Take(t)

\* clear() forgets what was not popped: the history keeps what was.
Clear ==
  /\ obj' = [obj EXCEPT !.head_ = 0, !.tail_ = 0, !.size_ = 0]
  /\ log' = [log EXCEPT !.in = SubSeq(@, 1, Len(@) - obj.size_)]
  /\ UNCHANGED pc

Next ==
  \/ Clear
  \/ \E t \in Threads :
       \/ PushFull(t) \/ Pop(t) \/ PopWait(t) \/ PopWake(t) \/ PopTimeout(t)
       \/ \E v \in Items : Push(t, v)
-----------------------------------------------------------------------------
Contents == [i \in 1..obj.size_ |-> obj.buffer_[(obj.head_ + i - 1) % Capacity]]

\* The slots between head_ and tail_ hold what was pushed and not popped, in
\* the order of the pushes, also after the indexes have gone round.
Fifo ==
  /\ log.in = [i \in DOMAIN log.out |-> log.out[i][2]] \o Contents
  /\ Capacity > 0 => obj.tail_ = (obj.head_ + obj.size_) % Capacity

\* While a thread sleeps in popWait(), as many are awake as there are items.
NoLostWakeup == In(Asleep) # {} => Cardinality(In(Woken)) >= obj.size_
=============================================================================
