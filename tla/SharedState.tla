----------------------------- MODULE SharedState -----------------------------
(***************************************************************************)
(* Three classes that share plain data between threads:                    *)
(*   read_write_lock::ThreadSafeMap (33-stage33/read-write-lock),          *)
(*   double_buffer::DoubleBuffer (32-stage32/double-buffer),               *)
(*   observer_buffer::BufferedDispatcher (23-stage23/observer-buffer).     *)
(* A critical section that walks over the data is a sequence of steps, one *)
(* per element, so that the locks have something to protect; the others    *)
(* are single steps.                                                       *)
(***************************************************************************)
EXTENDS Naturals, Sequences, FiniteSets

CONSTANTS Threads,
          Keys, Values,   \* Keys: a set of numbers, the order of std::map
          Size,           \* size_ of the double buffer; bufferSize_
          Events          \* each is emitted once at most: a bound

VARIABLES
  obj,   \* the fields
  pc,    \* Idle, or the critical section a thread is in and its locals
  log    \* history: the events emitted and delivered

Idle == [at |-> "idle"]
On(place) == {t \in Threads : pc[t].at = place}
Goto(t, loc) == pc' = [pc EXCEPT ![t] = loc]
Start(fields) ==
  /\ obj = fields
  /\ pc = [t \in Threads |-> Idle]
  /\ log = [in |-> <<>>, out |-> <<>>]
-----------------------------------------------------------------------------
(* ThreadSafeMap.  A reader holds mutex_ shared while it is in keys().     *)
MapInit == Start([data_ |-> [k \in {} |-> 0]])

Exclusive == On("keys") = {}

MapInsert(t, k, v) ==
  /\ pc[t] = Idle /\ Exclusive
  /\ obj' = [obj EXCEPT !.data_ = [j \in DOMAIN @ \union {k} |-> IF j = k THEN v ELSE @[j]]]
  /\ UNCHANGED <<pc, log>>

MapErase(t, k) ==
  /\ pc[t] = Idle /\ Exclusive
  /\ obj' = [obj EXCEPT !.data_ = [j \in DOMAIN @ \ {k} |-> @[j]]]
  /\ UNCHANGED <<pc, log>>

\* keys(): the loop pushes one key back at a time.
MapKeys(t) ==
  /\ pc[t] = Idle
  /\ Goto(t, [at |-> "keys", result |-> {}])
  /\ UNCHANGED <<obj, log>>

MapKeysNext(t) ==
  /\ t \in On("keys")
  /\ LET left == {k \in DOMAIN obj.data_ : \A j \in pc[t].result : j < k} IN
     IF left = {} THEN Goto(t, Idle)
     ELSE \E k \in left :
            /\ \A j \in left : k <= j
            /\ Goto(t, [pc[t] EXCEPT !.result = @ \union {k}])
  /\ UNCHANGED <<obj, log>>

MapNext ==
  \E t \in Threads :
    \/ \E k \in Keys : (\E v \in Values : MapInsert(t, k, v)) \/ MapErase(t, k)
    \/ MapKeys(t) \/ MapKeysNext(t)

\* What keys() has collected is a prefix of the map as it is, so that its
\* answer is the key set of one moment.
KeysAreSnapshot ==
  \A t \in On("keys") :
    /\ pc[t].result \subseteq DOMAIN obj.data_
    /\ \A j \in pc[t].result, k \in DOMAIN obj.data_ : k < j => k \in pc[t].result
-----------------------------------------------------------------------------
(* DoubleBuffer.  writeMutex_ is held while a thread is in write(),        *)
(* readMutex_ while it is in read(); swap() takes the one, then the other. *)
DoubleInit == Start([front_ |-> [i \in 1..Size |-> 0], back_ |-> [i \in 1..Size |-> 0]])

DoubleWrite(t, v) ==
  /\ pc[t] = Idle /\ On("write") = {}
  /\ Goto(t, [at |-> "write", i |-> 1, data |-> v])
  /\ UNCHANGED <<obj, log>>

\* data of Size elements, all of them v
DoubleWriteNext(t) ==
  /\ t \in On("write")
  /\ \/ /\ pc[t].i <= Size
        /\ obj' = [obj EXCEPT !.back_[pc[t].i] = pc[t].data]
        /\ Goto(t, [pc[t] EXCEPT !.i = @ + 1])
     \/ pc[t].i > Size /\ Goto(t, Idle) /\ UNCHANGED obj
  /\ UNCHANGED log

DoubleSetBack(t, i, v) ==
  /\ pc[t] = Idle /\ On("write") = {}
  /\ obj' = [obj EXCEPT !.back_[i] = v]
  /\ UNCHANGED <<pc, log>>

DoubleRead(t) ==
  /\ pc[t] = Idle /\ On("read") = {}
  /\ Goto(t, [at |-> "read", copy |-> <<>>])
  /\ UNCHANGED <<obj, log>>

DoubleReadNext(t) ==
  /\ t \in On("read")
  /\ LET n == Len(pc[t].copy) IN
     IF n < Size THEN Goto(t, [pc[t] EXCEPT !.copy = Append(@, obj.front_[n + 1])])
     ELSE Goto(t, Idle)
  /\ UNCHANGED <<obj, log>>

MutDoubleSwap(t) ==
  /\ pc[t] = Idle /\ On("write") = {}
  /\ obj' = [obj EXCEPT !.front_ = obj.back_, !.back_ = obj.front_]
  /\ UNCHANGED <<pc, log>>

DoubleSwap(t) ==
  /\ pc[t] = Idle /\ On("write") = {} /\ On("read") = {}
  /\ obj' = [obj EXCEPT !.front_ = obj.back_, !.back_ = obj.front_]
  /\ UNCHANGED <<pc, log>>

DoubleNext ==
  \E t \in Threads :
    \/ \E v \in Values : DoubleWrite(t, v) \/ \E i \in 1..Size : DoubleSetBack(t, i, v)
    \/ DoubleWriteNext(t) \/ DoubleRead(t) \/ DoubleReadNext(t) \/ DoubleSwap(t)

\* A copy that read() has under way is of the front buffer as it is.
ReadsWholeFrame == \A t \in On("read") : pc[t].copy = SubSeq(obj.front_, 1, Len(pc[t].copy))
-----------------------------------------------------------------------------
(* BufferedDispatcher.  emit() appends, looks at the size and flushes in   *)
(* three critical sections; flush() calls the handler without the mutex.   *)
EventInit == Start([buffer_ |-> <<>>])

Emit(t, e) ==
  /\ pc[t] = Idle
  /\ \A i \in DOMAIN log.in : log.in[i] # e
  /\ obj' = [obj EXCEPT !.buffer_ = Append(@, e)]
  /\ log' = [log EXCEPT !.in = Append(@, e)]
  /\ Goto(t, [at |-> "size"])

EmitSize(t) ==
  /\ t \in On("size")
  /\ Goto(t, IF Len(obj.buffer_) >= Size THEN [at |-> "flush"] ELSE Idle)
  /\ UNCHANGED <<obj, log>>

Flush(t) ==
  /\ t \in On("flush") \/ pc[t] = Idle
  /\ Goto(t, [at |-> "deliver", events |-> obj.buffer_])
  /\ obj' = [obj EXCEPT !.buffer_ = <<>>]
  /\ UNCHANGED log

FlushDeliver(t) ==
  /\ t \in On("deliver")
  /\ \/ pc[t].events = <<>> /\ Goto(t, Idle) /\ UNCHANGED log
     \/ /\ pc[t].events # <<>>
        /\ log' = [log EXCEPT !.out = Append(@, Head(pc[t].events))]
        /\ Goto(t, [pc[t] EXCEPT !.events = Tail(@)])
  /\ UNCHANGED obj

EventNext ==
  \E t \in Threads : (\E e \in Events : Emit(t, e)) \/ EmitSize(t) \/ Flush(t) \/ FlushDeliver(t)

Elements(s) == {s[i] : i \in DOMAIN s}

\* An event is in the buffer, with one thread that flushes, or delivered, and
\* in one place only; a full buffer is about to be looked at or flushed.
DeliveredOnce ==
  LET Places == Threads \union {"buffer", "handler"}
      At(p) == CASE p = "buffer" -> obj.buffer_
                 [] p = "handler" -> log.out
                 [] OTHER -> IF p \in On("deliver") THEN pc[p].events ELSE <<>> IN
  /\ UNION {Elements(At(p)) : p \in Places} = Elements(log.in)
  /\ \A p, q \in Places : p # q => Elements(At(p)) \intersect Elements(At(q)) = {}
  /\ \A p \in Places : Cardinality(Elements(At(p))) = Len(At(p))
  /\ obj.buffer_ # <<>> /\ Len(obj.buffer_) >= Size => On("size") \union On("flush") # {}
=============================================================================
