--------------------------- MODULE ConnectionPool ---------------------------
(***************************************************************************)
(* connection_pool::ConnectionPool (06-stage6/connection-pool).  Every     *)
(* operation holds mutex_ but for the wait of acquire().  Connections are  *)
(* numbered in the order in which creator_() makes them.  A thread holds   *)
(* one connection at a time and releases what it acquired, once.           *)
(***************************************************************************)
EXTENDS Naturals, Sequences, FiniteSets

CONSTANTS Threads,
          MinSize, MaxSize,  \* minSize_, maxSize_
          None

VARIABLES
  obj,   \* the fields: pool_, activeConnections_, closed_
  pc,    \* Idle, or in the wait of acquire()
  log    \* history: connections made, held by each thread, and destroyed

vars == <<obj, pc, log>>

Idle == [at |-> "idle"]
Asleep == [at |-> "acquire", woken |-> FALSE]
Woken == [at |-> "acquire", woken |-> TRUE]
In(state) == {t \in Threads : pc[t] = state}

Init ==
  /\ obj = [pool_ |-> [i \in 1..MinSize |-> i], activeConnections_ |-> 0, closed_ |-> FALSE]
  /\ pc = [t \in Threads |-> Idle]
  /\ log = [made |-> MinSize, held |-> [t \in Threads |-> None], gone |-> {}]

Holders == {t \in Threads : log.held[t] # None}
Return(t) == pc' = [pc EXCEPT ![t] = Idle] /\ UNCHANGED <<obj, log>>

TakeFront(t) ==
  /\ obj' = [obj EXCEPT !.pool_ = Tail(@), !.activeConnections_ = @ + 1]
  /\ log' = [log EXCEPT !.held[t] = Head(obj.pool_)]
  /\ pc' = [pc EXCEPT ![t] = Idle]

Create(t) ==
  /\ obj' = [obj EXCEPT !.activeConnections_ = @ + 1]
  /\ log' = [log EXCEPT !.made = @ + 1, !.held[t] = log.made + 1]
  /\ UNCHANGED pc

\* acquire() of a closed pool throws and changes nothing.
Acquire(t) ==
  /\ pc[t] = Idle /\ t \notin Holders
  /\ ~obj.closed_
  /\ \/ obj.pool_ # <<>> /\ TakeFront(t)
     \/ obj.pool_ = <<>> /\ obj.activeConnections_ < MaxSize /\ Create(t)
     \/ /\ obj.pool_ = <<>> /\ obj.activeConnections_ >= MaxSize
        /\ pc' = [pc EXCEPT ![t] = Asleep]
        /\ UNCHANGED <<obj, log>>

\* After the wait, whether it was notified or timed out: throw if the pool
\* was closed, throw if it is empty, take the front.
AfterWait(t) ==
  \/ (obj.closed_ \/ obj.pool_ = <<>>) /\ Return(t)
  \/ ~obj.closed_ /\ obj.pool_ # <<>> /\ TakeFront(t)

AcquireWake(t) ==
  /\ pc[t] = Woken
  /\ \/ (obj.closed_ \/ obj.pool_ # <<>>) /\ AfterWait(t)
     \/ /\ ~obj.closed_ /\ obj.pool_ = <<>>
        /\ pc' = [pc EXCEPT ![t] = Asleep]
        /\ UNCHANGED <<obj, log>>

AcquireTimeout(t) == pc[t] \in {Asleep, Woken} /\ AfterWait(t)

Drop(t) == log' = [log EXCEPT !.held[t] = None, !.gone = @ \union {log.held[t]}]

MutRelease(t) ==
  /\ t \in Holders
  /\ obj' = [obj EXCEPT !.pool_ = Append(@, log.held[t]), !.activeConnections_ = @ - 1]
  /\ log' = [log EXCEPT !.held[t] = None]
  /\ UNCHANGED pc

\* A connection released to a closed pool dies with the argument of release();
\* activeConnections_ is not lowered then.
Release(t) ==
  /\ t \in Holders
  /\ \/ obj.closed_ /\ Drop(t) /\ UNCHANGED <<obj, pc>>
     \/ /\ ~obj.closed_
        /\ obj' = [obj EXCEPT !.pool_ = Append(@, log.held[t]), !.activeConnections_ = @ - 1]
        /\ log' = [log EXCEPT !.held[t] = None]
        /\ \/ In(Asleep) = {} /\ UNCHANGED pc
           \/ \E w \in In(Asleep) : pc' = [pc EXCEPT ![w] = Woken]

Close ==
  /\ obj' = [obj EXCEPT !.closed_ = TRUE]
  /\ pc' = [t \in Threads |-> IF pc[t] = Asleep THEN Woken ELSE pc[t]]
  /\ UNCHANGED log

Next ==
  \/ Close
  \/ \E t \in Threads : Acquire(t) \/ AcquireWake(t) \/ AcquireTimeout(t) \/ Release(t)
-----------------------------------------------------------------------------
\* A connection is in the pool, with one thread, or destroyed, and nowhere
\* twice.  No more are made than the larger of the two sizes, and an open
\* pool counts those that are out exactly.
HandedOutOnce ==
  LET pooled == {obj.pool_[i] : i \in DOMAIN obj.pool_}
      out == {log.held[t] : t \in Holders} IN
  /\ Len(obj.pool_) + Cardinality(Holders) + Cardinality(log.gone) = log.made
  /\ pooled \union out \union log.gone = 1..log.made
  /\ log.made <= MinSize \/ log.made <= MaxSize
  /\ obj.closed_ \/ obj.activeConnections_ = Cardinality(Holders)

\* While a thread sleeps in acquire(), as many are awake as there are
\* connections in the pool, and none sleeps on a closed pool.
NoLostWakeup == In(Asleep) # {} => ~obj.closed_ /\ Cardinality(In(Woken)) >= Len(obj.pool_)
=============================================================================
