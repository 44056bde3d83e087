--------------------------- MODULE OneShotTimers ---------------------------
(***************************************************************************)
(* What a timer service with a discrete clock promises: a timer fires      *)
(* once, at the tick it was set for and at no other, unless it is          *)
(* cancelled before; callbacks run one at a time.  Wheels, slots and laps  *)
(* are what an implementation adds.                                        *)
(***************************************************************************)
EXTENDS Naturals

CONSTANT Ids          \* names of timers, each used once

VARIABLES now,        \* the clock
          pending,    \* [id, at]: set, not fired, not cancelled
          used,       \* the ids given out so far
          calling     \* the callback of a timer runs

vars == <<now, pending, used, calling>>

Init == now = 0 /\ pending = {} /\ used = {} /\ calling = FALSE

\* A timer is set for a tick that is still to come.
Set(id, t) ==
  /\ id \notin used /\ t > now
  /\ used' = used \cup {id}
  /\ pending' = pending \cup {[id |-> id, at |-> t]}
  /\ UNCHANGED <<now, calling>>

Cancel(e) ==
  /\ e \in pending
  /\ pending' = pending \ {e}
  /\ UNCHANGED <<now, used, calling>>

Fire(e) ==
  /\ ~calling
  /\ e \in pending /\ e.at = now
  /\ pending' = pending \ {e}
  /\ calling' = TRUE
  /\ UNCHANGED <<now, used>>

Return ==
  /\ calling
  /\ calling' = FALSE
  /\ UNCHANGED <<now, pending, used>>

\* The clock moves on when everything due has fired.
Tick ==
  /\ ~calling
  /\ \A e \in pending : e.at > now
  /\ now' = now + 1
  /\ UNCHANGED <<pending, used, calling>>

Firing == Return \/ \E e \in pending : Fire(e)

\* t is bounded by the timers that exist afterwards, so that the choice of a
\* tick is finite where the set of pending timers is.
Next ==
  \/ \E id \in Ids : \E t \in {e.at : e \in pending'} : Set(id, t)
  \/ \E e \in pending : Cancel(e)
  \/ Firing
  \/ Tick

Spec == Init /\ [][Next]_vars /\ WF_vars(Firing)
============================================================================
