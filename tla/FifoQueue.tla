----------------------------- MODULE FifoQueue -----------------------------
(***************************************************************************)
(* What a concurrent first-in first-out queue promises: each push and each *)
(* pop takes effect in one instant between its call and its return, and a  *)
(* pop that comes back without a value has seen the queue empty during the *)
(* call.                                                                   *)
(***************************************************************************)
EXTENDS Sequences

CONSTANTS Threads, Values

VARIABLES queue,   \* the values, oldest first
          call,    \* [Threads -> the call of each thread and how far it got]
          seen     \* threads in pop() that have seen the queue empty, with
                   \* nothing taken from it since

vars == <<queue, call, seen>>

Idle == <<"idle">>

Init == queue = <<>> /\ call = [t \in Threads |-> Idle] /\ seen = {}

Becomes(t, from, to) == call[t] = from /\ call' = [call EXCEPT ![t] = to]

CallPush(t, v) == Becomes(t, Idle, <<"push", v>>) /\ UNCHANGED <<queue, seen>>

Push(t, v) ==
  /\ Becomes(t, <<"push", v>>, <<"pushed">>)
  /\ queue' = Append(queue, v)
  /\ UNCHANGED seen

ReturnPush(t) == Becomes(t, <<"pushed">>, Idle) /\ UNCHANGED <<queue, seen>>

CallPop(t) == Becomes(t, Idle, <<"pop">>) /\ UNCHANGED <<queue, seen>>

Pop(t) ==
  /\ queue # <<>>
  /\ Becomes(t, <<"pop">>, <<"popped", Head(queue)>>)
  /\ queue' = Tail(queue)
  /\ seen' = {}

SeeEmpty(t) ==
  /\ queue = <<>> /\ call[t] = <<"pop">>
  /\ seen' = seen \cup {t}
  /\ UNCHANGED <<queue, call>>

ReturnPop(t, v) == Becomes(t, <<"popped", v>>, Idle) /\ UNCHANGED <<queue, seen>>

ReturnEmpty(t) ==
  /\ t \in seen
  /\ Becomes(t, <<"pop">>, Idle)
  /\ seen' = seen \ {t}
  /\ UNCHANGED queue

Next ==
  \E t \in Threads :
    \/ ReturnPush(t) \/ CallPop(t) \/ Pop(t) \/ SeeEmpty(t) \/ ReturnEmpty(t)
    \/ \E v \in Values : CallPush(t, v) \/ Push(t, v) \/ ReturnPop(t, v)

Spec == Init /\ [][Next]_vars
============================================================================
