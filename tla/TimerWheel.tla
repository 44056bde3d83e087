----------------------------- MODULE TimerWheel -----------------------------
(***************************************************************************)
(* timer_wheel::TimerWheel (05-stage5/timer-wheel): a ring of buckets, one *)
(* per slot; a timer set for tick t waits in the bucket t % slots_, also   *)
(* when t is laps away.  tick() takes the bucket of the new tick out of    *)
(* the ring, fires the entries that are due and puts the others back.      *)
(*                                                                         *)
(* One thread, but callbacks: between the entries of a bucket the code of  *)
(* the user runs and calls scheduleAt() and cancel() on the same wheel.    *)
(* tick(n) is n times tick(1): nothing can come in between.                *)
(***************************************************************************)
EXTENDS Naturals, Sequences, SequencesExt

CONSTANTS Slots,      \* slots_, at least 1
          MaxTick,    \* bound: the clock, and the ticks timers are set for
          MaxTimers   \* bound: calls of scheduleAt()

ASSUME SlotsAssumption == Slots \in Nat \ {0}
ASSUME BoundsAssumption == MaxTick \in Nat /\ MaxTimers \in Nat

VARIABLES
  currentTick,  \* currentTick_
  nextId,       \* nextId_
  buckets,      \* buckets_, [slot -> entries]
  due,          \* the local vector of tick(): entries not looked at yet
  pc,           \* "idle", "firing" (inside tick), "callback" (inside e.cb)
  refused       \* the ids for which cancel() has returned false

vars == <<currentTick, nextId, buckets, due, pc, refused>>

Ids == 1..MaxTimers
Entry == [id : Ids, at : Nat]
SlotFor(t) == t % Slots

Init ==
  /\ currentTick = 0
  /\ nextId = 1
  /\ buckets = [s \in 0..Slots - 1 |-> <<>>]
  /\ due = <<>>
  /\ pc = "idle"
  /\ refused = {}
-----------------------------------------------------------------------------
\* The wheel is called between two ticks or by a callback.
CanCall == pc \in {"idle", "callback"}

MutFireAt(t) == t   \* mutant: a tick in the past is not moved

\* Past-due timers fire on the very next tick.
FireAt(t) == IF t <= currentTick THEN currentTick + 1 ELSE t

ScheduleAt(t) ==
  /\ CanCall
  /\ nextId <= MaxTimers
  /\ LET e == [id |-> nextId, at |-> FireAt(t)] IN
       buckets' = [buckets EXCEPT ![SlotFor(e.at)] = Append(@, e)]
  /\ nextId' = nextId + 1
  /\ UNCHANGED <<currentTick, due, pc, refused>>

InRing(id) == \E s \in DOMAIN buckets : \E e \in Range(buckets[s]) : e.id = id

\* cancel() returns true.
CancelFound(id) ==
  /\ CanCall
  /\ \E s \in DOMAIN buckets : \E i \in DOMAIN buckets[s] :
       /\ buckets[s][i].id = id
       /\ buckets' = [buckets EXCEPT ![s] = RemoveAt(@, i)]
  /\ UNCHANGED <<currentTick, nextId, due, pc, refused>>

\* cancel() looks into the ring only: an entry that tick() has taken out is
\* not found, although it may still fire, in this tick or laps later.
CancelMissed(id) ==
  /\ CanCall
  /\ ~InRing(id)
  /\ refused' = refused \cup {id}
  /\ UNCHANGED <<currentTick, nextId, buckets, due, pc>>
-----------------------------------------------------------------------------
(***************************************************************************)
(* tick()                                                                  *)
(***************************************************************************)
Advance ==
  /\ pc = "idle" /\ currentTick < MaxTick
  /\ currentTick' = currentTick + 1
  /\ due' = buckets[SlotFor(currentTick + 1)]
  /\ buckets' = [buckets EXCEPT ![SlotFor(currentTick + 1)] = <<>>]
  /\ pc' = "firing"
  /\ UNCHANGED <<nextId, refused>>

MutFire ==   \* mutant: everything in the bucket fires
  /\ pc = "firing" /\ due # <<>>
  /\ due' = Tail(due)
  /\ pc' = "callback"
  /\ UNCHANGED <<currentTick, nextId, buckets, refused>>

Fire ==
  /\ pc = "firing" /\ due # <<>>
  /\ Head(due).at <= currentTick
  /\ due' = Tail(due)
  /\ pc' = "callback"
  /\ UNCHANGED <<currentTick, nextId, buckets, refused>>

CallbackReturn ==
  /\ pc = "callback"
  /\ pc' = "firing"
  /\ UNCHANGED <<currentTick, nextId, buckets, due, refused>>

MutPutBack ==   \* mutant: a far-future entry goes to the next slot
  /\ pc = "firing" /\ due # <<>>
  /\ Head(due).at > currentTick
  /\ due' = Tail(due)
  /\ buckets' = [buckets EXCEPT ![SlotFor(Head(due).at + 1)] = Append(@, Head(due))]
  /\ UNCHANGED <<currentTick, nextId, pc, refused>>

\* A far-future entry that only shares the slot.
PutBack ==
  /\ pc = "firing" /\ due # <<>>
  /\ Head(due).at > currentTick
  /\ due' = Tail(due)
  /\ buckets' = [buckets EXCEPT ![SlotFor(Head(due).at)] = Append(@, Head(due))]
  /\ UNCHANGED <<currentTick, nextId, pc, refused>>

MutTickReturn ==   \* mutant: tick() stops at the first entry of a later lap
  /\ pc = "firing"
  /\ due # <<>> => Head(due).at > currentTick
  /\ pc' = "idle"
  /\ UNCHANGED <<currentTick, nextId, buckets, due, refused>>

TickReturn ==
  /\ pc = "firing" /\ due = <<>>
  /\ pc' = "idle"
  /\ UNCHANGED <<currentTick, nextId, buckets, due, refused>>

Firing == Fire \/ CallbackReturn \/ PutBack \/ TickReturn

Next ==
  \/ \E t \in 0..MaxTick : ScheduleAt(t)
  \/ \E id \in 1..nextId - 1 : CancelFound(id) \/ CancelMissed(id)
  \/ Advance
  \/ Firing

\* tick() runs to its end: it is a loop over a vector nobody else changes,
\* and callbacks return.
Spec == Init /\ [][Next]_vars /\ WF_vars(Firing)
-----------------------------------------------------------------------------
TypeOK ==
  /\ currentTick \in Nat
  /\ nextId \in Nat \ {0}
  /\ buckets \in [0..Slots - 1 -> Seq(Entry)]
  /\ due \in Seq(Entry)
  /\ pc \in {"idle", "firing", "callback"}
  /\ pc = "idle" => due = <<>>
  /\ refused \in SUBSET (1..nextId - 1)

\* Every timer waits where tick() will look for it when its time comes, and
\* that time is still ahead, also for a timer set from a callback that falls
\* into the bucket being worked off.
EntriesAhead ==
  \A s \in 0..Slots - 1 : \A i \in DOMAIN buckets[s] :
    /\ SlotFor(buckets[s][i].at) = s
    /\ buckets[s][i].at > currentTick

\* What tick() has taken out is due now or in a later lap, never overdue.
DueNowOrLater ==
  \A i \in DOMAIN due :
    SlotFor(due[i].at) = SlotFor(currentTick) /\ due[i].at >= currentTick

Pending == Range(due) \cup UNION {Range(buckets[s]) : s \in DOMAIN buckets}

\* The wheel implements the timer service: each timer that is not cancelled
\* fires once, at its tick.
Timers == INSTANCE OneShotTimers
            WITH now <- currentTick, pending <- Pending, used <- 1..nextId - 1,
                 calling <- (pc = "callback")

ImplementsTimers == Timers!Spec

\* cancel() returns "true if it was still pending" (timer_wheel.hpp:32): a
\* timer for which it has returned false is not pending and will not fire.
RefusedIsNotPending == \A e \in Pending : e.id \notin refused
=============================================================================
