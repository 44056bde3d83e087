---------------------------- MODULE HandoutProofs ----------------------------
(***************************************************************************)
(* What the components of Concurrency hand out is handed out once: an item *)
(* of a queue, a connection, a message, a command, an event, a task, a     *)
(* timer, a client's descriptor.                                           *)
(*                                                                         *)
(* HandedOutOnce speaks of what has come out; it is not inductive, for it  *)
(* says nothing of what is still inside.  Where a component keeps an order *)
(* the invariant is that what went in is what came out and what is inside, *)
(* one after the other (Through).  Where things lie in several places, it  *)
(* is that every one of them is at one position of one place (Once).  Some *)
(* of these invariants rest on the ones of ConcurrencyProofs.              *)
(***************************************************************************)
EXTENDS ConcurrencyProofs

(***************************************************************************)
(* What went in is what came out and what is still inside, in order.       *)
(***************************************************************************)
Through(in, out, q) == in = out \o q

\* One goes in at the end.
LEMMA GoesIn ==
  ASSUME NEW S, NEW in \in Seq(S), NEW out \in Seq(S), NEW q \in Seq(S), NEW v \in S, Through(in, out, q)
  PROVE  /\ Append(in, v) \in Seq(S) /\ Append(q, v) \in Seq(S) /\ Len(Append(q, v)) = Len(q) + 1
         /\ Through(Append(in, v), out, Append(q, v))
<1>1. Append(in, v) \in Seq(S) /\ Append(q, v) \in Seq(S) /\ Len(Append(q, v)) = Len(q) + 1
  OBVIOUS
<1>2. Append(out \o q, v) = out \o Append(q, v)
  <2>1. Append(out \o q, v) = (out \o q) \o <<v>> /\ Append(q, v) = q \o <<v>>
    BY AppendIsConcat
  <2>2. (out \o q) \o <<v>> = out \o (q \o <<v>>)
    BY ConcatAssociative
  <2>3. QED
    BY <2>1, <2>2
<1>3. QED
  BY <1>1, <1>2 DEF Through

\* One comes out at the front.
LEMMA ComesOut ==
  ASSUME NEW S, NEW in \in Seq(S), NEW out \in Seq(S), NEW q \in Seq(S), q # <<>>, Through(in, out, q)
  PROVE  /\ Head(q) \in S /\ Tail(q) \in Seq(S) /\ Append(out, Head(q)) \in Seq(S)
         /\ Len(Tail(q)) = Len(q) - 1
         /\ Through(in, Append(out, Head(q)), Tail(q))
<1>1. /\ Head(q) \in S /\ Tail(q) \in Seq(S) /\ Append(out, Head(q)) \in Seq(S)
      /\ Len(Tail(q)) = Len(q) - 1
  OBVIOUS
<1>2. q = <<Head(q)>> \o Tail(q)
  <2>1. Len(q) \in Nat \ {0} /\ 1 \in 1..Len(q) /\ Len(q) \in 1..Len(q)
    OBVIOUS
  <2>2. SubSeq(q, 1, Len(q)) = <<q[1]>> \o SubSeq(q, 1 + 1, Len(q))
    BY <2>1, SubSeqRecursiveFirst
  <2>3. SubSeq(q, 1, Len(q)) = q /\ Tail(q) = SubSeq(q, 2, Len(q)) /\ Head(q) = q[1]
    BY SubSeqFull, TailIsSubSeq
  <2>4. QED
    BY <2>2, <2>3
<1>3. Append(out, Head(q)) = out \o <<Head(q)>>
  BY <1>1, AppendIsConcat
<1>4. (out \o <<Head(q)>>) \o Tail(q) = out \o (<<Head(q)>> \o Tail(q))
  BY <1>1, ConcatAssociative
<1>5. QED
  BY <1>1, <1>2, <1>3, <1>4 DEF Through
-----------------------------------------------------------------------------
(***************************************************************************)
(* BlockingQueue and BoundedQueue                                          *)
(***************************************************************************)
BlockingOrder ==
  /\ log \in [in : Seq(Items), out : Seq(Items)]
  /\ Through(log.in, log.out, obj.queue_)
  /\ Len(obj.queue_) <= Capacity

\* Admitting an item puts it behind the others, and there is room.
LEMMA AdmitInOrder ==
  ASSUME BlockingInv, BlockingOrder, NEW t \in Threads, NEW v \in Items,
         Blocking!HasSpace, Blocking!Admit(t, v)
  PROVE  BlockingOrder'
<1>1. /\ obj \in [queue_ : Seq(Items), closed_ : BOOLEAN] /\ log \in [in : Seq(Items), out : Seq(Items)]
      /\ Through(log.in, log.out, obj.queue_) /\ Len(obj.queue_) <= Capacity
  BY DEF BlockingInv, BlockingOrder
<1>2. CASE Blocking!Return(t)
  BY <1>1, <1>2 DEF Blocking!Return, BlockingOrder
<1>3. CASE ~obj.closed_ /\ obj' = [obj EXCEPT !.queue_ = Append(@, v)] /\ log' = [log EXCEPT !.in = Append(@, v)]
  <2>1. /\ log' \in [in : Seq(Items), out : Seq(Items)] /\ obj'.queue_ = Append(obj.queue_, v)
        /\ log'.in = Append(log.in, v) /\ log'.out = log.out /\ Len(obj.queue_) \in Nat
    <3>1. log' = [in |-> Append(log.in, v), out |-> log.out]
      BY <1>1, <1>3
    <3>2. log.in \in Seq(Items) /\ log.out \in Seq(Items) /\ Append(log.in, v) \in Seq(Items)
      BY <1>1
    <3>3. log' \in [in : Seq(Items), out : Seq(Items)]
      BY <3>1, <3>2
    <3>4. QED
      BY <1>1, <1>3, <3>1, <3>3
  <2>2. Through(log'.in, log'.out, obj'.queue_) /\ Len(obj'.queue_) = Len(obj.queue_) + 1
    <3>1. /\ log.in \in Seq(Items) /\ log.out \in Seq(Items) /\ obj.queue_ \in Seq(Items)
      BY <1>1
    <3>2. QED
      BY <1>1, <2>1, <3>1, GoesIn
  <2>3. Len(obj.queue_) < Capacity
    BY <1>3 DEF Blocking!HasSpace
  <2>4. QED
    BY <2>1, <2>2, <2>3, SizesAssumption DEF BlockingOrder
<1>4. QED
  BY <1>2, <1>3 DEF Blocking!Admit

\* Taking an item takes the one in front.
LEMMA TakeInOrder ==
  ASSUME BlockingInv, BlockingOrder, NEW t \in Threads, Blocking!Take(t)
  PROVE  BlockingOrder'
<1>1. /\ obj \in [queue_ : Seq(Items), closed_ : BOOLEAN] /\ log \in [in : Seq(Items), out : Seq(Items)]
      /\ Through(log.in, log.out, obj.queue_) /\ Len(obj.queue_) <= Capacity
  BY DEF BlockingInv, BlockingOrder
<1>2. CASE Blocking!Return(t)
  BY <1>1, <1>2 DEF Blocking!Return, BlockingOrder
<1>3. CASE /\ obj.queue_ # <<>> /\ obj' = [obj EXCEPT !.queue_ = Tail(@)]
           /\ log' = [log EXCEPT !.out = Append(@, Head(obj.queue_))]
  <2>1. /\ log.in \in Seq(Items) /\ log.out \in Seq(Items) /\ obj.queue_ \in Seq(Items)
    BY <1>1
  <2>2. /\ Append(log.out, Head(obj.queue_)) \in Seq(Items) /\ Len(Tail(obj.queue_)) = Len(obj.queue_) - 1
        /\ Through(log.in, Append(log.out, Head(obj.queue_)), Tail(obj.queue_))
    BY <1>1, <1>3, <2>1, ComesOut
  <2>3. /\ log' \in [in : Seq(Items), out : Seq(Items)] /\ obj'.queue_ = Tail(obj.queue_)
        /\ log'.in = log.in /\ log'.out = Append(log.out, Head(obj.queue_)) /\ Len(obj.queue_) \in Nat
    <3>1. log' = [in |-> log.in, out |-> Append(log.out, Head(obj.queue_))]
      BY <1>1, <1>3
    <3>2. log' \in [in : Seq(Items), out : Seq(Items)]
      BY <2>1, <2>2, <3>1
    <3>3. QED
      BY <1>1, <1>3, <3>1, <3>2
  <2>4. QED
    BY <1>1, <2>2, <2>3, SizesAssumption DEF BlockingOrder
<1>4. QED
  BY <1>2, <1>3 DEF Blocking!Take

\* Every step of either queue keeps the order.
LEMMA BlockingOrderStep ==
  ASSUME BlockingInv, BlockingOrder, Blocking!Next \/ Blocking!BoundedNext
  PROVE  BlockingOrder'
<1>1. /\ pc \in [Threads -> {Blocking!Idle} \cup Waits] /\ obj \in [queue_ : Seq(Items), closed_ : BOOLEAN]
  BY DEF BlockingInv
<1>2. CASE UNCHANGED <<obj, log>>
  BY <1>2 DEF BlockingOrder
<1>3. CASE Blocking!Close
  <2>1. obj'.queue_ = obj.queue_ /\ log' = log
    BY <1>1, <1>3 DEF Blocking!Close
  <2>2. QED
    BY <2>1 DEF BlockingOrder
<1>4. ASSUME NEW t \in Threads, t \in Blocking!On("push")
      PROVE  pc[t].item \in Items
  BY <1>1, <1>4, WaitFacts DEF Blocking!On
<1>5. ASSUME NEW t \in Threads, NEW v \in Items, NEW timed \in BOOLEAN, Blocking!Push(t, v, timed)
      PROVE  BlockingOrder'
  BY <1>2, <1>5, AdmitInOrder DEF Blocking!Push
<1>6. ASSUME NEW t \in Threads, NEW timed \in BOOLEAN, Blocking!Pop(t, timed)
      PROVE  BlockingOrder'
  BY <1>2, <1>6, TakeInOrder DEF Blocking!Pop
<1>7. ASSUME NEW t \in Threads, Blocking!PushResume(t) \/ Blocking!PushTimeout(t)
      PROVE  BlockingOrder'
  <2>1. t \in Blocking!On("push")
    BY <1>7 DEF Blocking!PushResume, Blocking!PushTimeout, Blocking!Awake
  <2>2. pc[t].item \in Items
    BY <1>4, <2>1
  <2>3. QED
    BY <1>2, <1>7, <2>2, AdmitInOrder DEF Blocking!PushResume, Blocking!PushTimeout, Blocking!Return
<1>8. ASSUME NEW t \in Threads, Blocking!PopResume(t) \/ Blocking!PopTimeout(t)
      PROVE  BlockingOrder'
  BY <1>2, <1>8, TakeInOrder DEF Blocking!PopResume, Blocking!PopTimeout, Blocking!Return
<1>9. ASSUME NEW t \in Threads, Blocking!SpuriousWakeup(t)
      PROVE  BlockingOrder'
  BY <1>2, <1>9 DEF Blocking!SpuriousWakeup
<1>10. CASE Blocking!Next
  BY <1>3, <1>5, <1>6, <1>7, <1>8, <1>9, <1>10 DEF Blocking!Next, Blocking!Resume
<1>11. CASE Blocking!BoundedNext
  BY <1>5, <1>6, <1>7, <1>8, <1>9, <1>11
     DEF Blocking!BoundedNext, Blocking!BoundedPush, Blocking!BoundedPop, Blocking!BoundedWait, Blocking!Resume
<1>12. QED
  BY <1>10, <1>11

\* The new queue is in order.
LEMMA BlockingOrderInit ==
  ASSUME Blocking!Init
  PROVE  BlockingOrder
<1>1. obj.queue_ = <<>> /\ log = [in |-> <<>>, out |-> <<>>]
  BY DEF Blocking!Init
<1>2. QED
  BY <1>1, SizesAssumption DEF BlockingOrder, Through
-----------------------------------------------------------------------------
(***************************************************************************)
(* Mailbox                                                                 *)
(***************************************************************************)
MailOrder ==
  /\ log \in [in : Seq(Items), out : Seq(Items)]
  /\ obj.queue_ \in Seq(Items) /\ pc.msg \in Seq(Items)
  /\ Through(log.in, log.out \o pc.msg, obj.queue_)
  /\ Len(obj.queue_) <= Bound
  /\ obj.handled_ = Len(log.out)
  /\ Len(pc.msg) = IF pc.actor = "handle" THEN 1 ELSE 0
  /\ obj.running_ <=> pc.actor # "none"
  /\ pc.actor = "ended" => obj.stopped_
  /\ pc.actor \in {"ended", "none"} /\ obj.stopped_ => obj.queue_ = <<>>

\* Every step keeps what was accepted in order, and stop() discards nothing.
LEMMA MailOrderStep ==
  ASSUME MailInv, MailOrder, Actor!Next
  PROVE  MailOrder'
<1>1. /\ DOMAIN obj = {"queue_", "stopped_", "running_", "handled_"} /\ DOMAIN pc = {"owner", "actor", "msg"}
      /\ log \in [in : Seq(Items), out : Seq(Items)] /\ obj.queue_ \in Seq(Items) /\ pc.msg \in Seq(Items)
      /\ Len(obj.queue_) \in Nat /\ Len(log.out) \in Nat /\ Len(pc.msg) \in Nat
  BY DEF MailInv, MailOrder
<1>2. ASSUME log' = log, obj'.queue_ = obj.queue_, pc'.msg = pc.msg, obj'.handled_ = obj.handled_
      PROVE  /\ log' \in [in : Seq(Items), out : Seq(Items)]
             /\ obj'.queue_ \in Seq(Items) /\ pc'.msg \in Seq(Items)
             /\ Through(log'.in, log'.out \o pc'.msg, obj'.queue_)
             /\ Len(obj'.queue_) <= Bound
             /\ obj'.handled_ = Len(log'.out)
  BY <1>1, <1>2 DEF MailOrder
<1>3. ASSUME Actor!Start
      PROVE  MailOrder'
  <2>1. /\ log' = log /\ obj'.queue_ = obj.queue_ /\ pc'.msg = pc.msg /\ obj'.handled_ = obj.handled_
        /\ pc'.actor = "loop" /\ obj'.running_ = TRUE /\ ~obj.running_ /\ obj'.stopped_ = FALSE
    BY <1>1, <1>3 DEF Actor!Start
  <2>2. Len(pc'.msg) = 0
    BY <2>1 DEF MailOrder
  <2>3. QED
    BY <1>2, <2>1, <2>2 DEF MailOrder
<1>4. ASSUME Actor!StopFlag
      PROVE  MailOrder'
  <2>1. /\ log' = log /\ obj'.queue_ = obj.queue_ /\ pc'.msg = pc.msg /\ obj'.handled_ = obj.handled_
        /\ pc'.actor = pc.actor /\ obj'.running_ = obj.running_ /\ obj'.stopped_ = TRUE
        /\ obj.running_
    BY <1>1, <1>4 DEF Actor!StopFlag
  <2>2. QED
    BY <1>2, <2>1 DEF MailOrder
<1>5. ASSUME Actor!StopNotify \/ Actor!SpuriousWakeup \/ Actor!SendRefused
      PROVE  MailOrder'
  <2>1. /\ log' = log /\ obj' = obj /\ pc'.msg = pc.msg
        /\ pc'.actor = pc.actor \/ (pc.actor = "asleep" /\ pc'.actor = "loop")
    BY <1>1, <1>5 DEF Actor!StopNotify, Actor!SpuriousWakeup, Actor!SendRefused, Actor!Notified, Actor!vars
  <2>2. QED
    BY <1>2, <2>1 DEF MailOrder
<1>6. ASSUME Actor!StopJoin
      PROVE  MailOrder'
  <2>1. /\ log' = log /\ obj'.queue_ = <<>> /\ pc'.msg = pc.msg /\ obj'.handled_ = obj.handled_
        /\ pc.actor = "ended" /\ pc'.actor = "none" /\ obj'.running_ = FALSE
    BY <1>1, <1>6 DEF Actor!StopJoin
  <2>2. obj.queue_ = <<>>
    BY <2>1 DEF MailOrder
  <2>3. QED
    BY <1>2, <2>1, <2>2 DEF MailOrder
<1>7. ASSUME Actor!Loop
      PROVE  MailOrder'
  <2>1. pc.actor = "loop" /\ log' = log /\ pc.msg = <<>>
    BY <1>1, <1>7 DEF Actor!Loop, MailOrder
  <2>2. CASE /\ obj.queue_ = <<>> /\ obj' = obj
             /\ pc' = [pc EXCEPT !.actor = IF obj.stopped_ THEN "ended" ELSE "asleep"]
    <3>1. pc'.actor = (IF obj.stopped_ THEN "ended" ELSE "asleep") /\ pc'.msg = pc.msg
      BY <1>1, <2>2
    <3>2. QED
      BY <1>2, <2>1, <2>2, <3>1 DEF MailOrder
  <2>3. CASE /\ obj.queue_ # <<>> /\ pc' = [pc EXCEPT !.actor = "handle", !.msg = <<Head(obj.queue_)>>]
             /\ obj' = [obj EXCEPT !.queue_ = Tail(@)]
    <3>1. /\ pc'.actor = "handle" /\ pc'.msg = <<Head(obj.queue_)>> /\ obj'.queue_ = Tail(obj.queue_)
          /\ obj'.handled_ = obj.handled_ /\ obj'.running_ = obj.running_
      BY <1>1, <2>3
    <3>2. log.in \in Seq(Items) /\ log.out \in Seq(Items) /\ log.out \o pc.msg = log.out
      BY <1>1, <2>1
    <3>3. Through(log.in, log.out, obj.queue_)
      BY <3>2 DEF MailOrder
    <3>4. /\ Head(obj.queue_) \in Items /\ Tail(obj.queue_) \in Seq(Items)
          /\ Len(Tail(obj.queue_)) = Len(obj.queue_) - 1
          /\ Through(log.in, Append(log.out, Head(obj.queue_)), Tail(obj.queue_))
      BY <1>1, <2>3, <3>2, <3>3, ComesOut
    <3>5. Append(log.out, Head(obj.queue_)) = log.out \o <<Head(obj.queue_)>>
      BY <3>2, <3>4, AppendIsConcat
    <3>6. pc'.msg \in Seq(Items) /\ Len(pc'.msg) = 1
      BY <3>1, <3>4
    <3>7. Len(obj'.queue_) <= Bound
      BY <1>1, <3>1, <3>4, SizesAssumption DEF MailOrder
    <3>8. QED
      BY <1>1, <2>1, <3>1, <3>4, <3>5, <3>6, <3>7 DEF MailOrder
  <2>4. QED
    BY <1>7, <2>2, <2>3 DEF Actor!Loop
<1>8. ASSUME Actor!Handle
      PROVE  MailOrder'
  <2>1. /\ pc.actor = "handle" /\ pc'.actor = "loop" /\ pc'.msg = <<>> /\ obj'.queue_ = obj.queue_
        /\ obj'.handled_ = obj.handled_ + 1 /\ obj'.running_ = obj.running_
    BY <1>1, <1>8 DEF Actor!Handle
  <2>2. log' = [in |-> log.in, out |-> log.out \o pc.msg]
    BY <1>1, <1>8 DEF Actor!Handle
  <2>3. log.in \in Seq(Items) /\ log.out \o pc.msg \in Seq(Items) /\ log'.out \o pc'.msg = log.out \o pc.msg
    BY <1>1, <2>1, <2>2
  <2>4. Len(log'.out) = Len(log.out) + 1
    <3>1. Len(pc.msg) = 1
      BY <2>1 DEF MailOrder
    <3>2. log'.out = log.out \o pc.msg /\ log.out \in Seq(Items)
      BY <1>1, <2>2
    <3>3. Len(log.out \o pc.msg) = Len(log.out) + Len(pc.msg)
      BY <1>1, <3>2, ConcatProperties
    <3>4. QED
      BY <3>1, <3>2, <3>3
  <2>5. log' \in [in : Seq(Items), out : Seq(Items)]
    BY <2>2, <2>3
  <2>6. pc'.msg \in Seq(Items) /\ Len(pc'.msg) = 0
    BY <2>1
  <2>7. obj'.handled_ = Len(log'.out)
    BY <2>1, <2>4 DEF MailOrder
  <2>8. QED
    BY <1>1, <2>1, <2>2, <2>3, <2>5, <2>6, <2>7 DEF MailOrder
<1>9. ASSUME NEW m \in Items, Actor!Send(m)
      PROVE  MailOrder'
  <2>1. /\ ~obj.stopped_ /\ Len(obj.queue_) < Bound /\ obj'.queue_ = Append(obj.queue_, m)
        /\ obj'.handled_ = obj.handled_ /\ obj'.running_ = obj.running_ /\ obj'.stopped_ = obj.stopped_
        /\ pc'.msg = pc.msg /\ (pc'.actor = pc.actor \/ (pc.actor = "asleep" /\ pc'.actor = "loop"))
    BY <1>1, <1>9 DEF Actor!Send, Actor!Notified
  <2>2. log' = [in |-> Append(log.in, m), out |-> log.out]
    BY <1>1, <1>9 DEF Actor!Send
  <2>3. log.in \in Seq(Items) /\ log.out \in Seq(Items) /\ log.out \o pc.msg \in Seq(Items)
    BY <1>1
  <2>4. /\ Append(log.in, m) \in Seq(Items) /\ Append(obj.queue_, m) \in Seq(Items)
        /\ Len(Append(obj.queue_, m)) = Len(obj.queue_) + 1
        /\ Through(Append(log.in, m), log.out \o pc.msg, Append(obj.queue_, m))
    <3>1. Through(log.in, log.out \o pc.msg, obj.queue_)
      BY DEF MailOrder
    <3> DEFINE taken == log.out \o pc.msg
    <3>2. Through(log.in, taken, obj.queue_) /\ taken \in Seq(Items) /\ obj.queue_ \in Seq(Items)
      BY <1>1, <2>3, <3>1
    <3> HIDE DEF taken
    <3>3. /\ Append(log.in, m) \in Seq(Items) /\ Append(obj.queue_, m) \in Seq(Items)
          /\ Len(Append(obj.queue_, m)) = Len(obj.queue_) + 1
          /\ Through(Append(log.in, m), taken, Append(obj.queue_, m))
      BY <2>3, <3>2, GoesIn
    <3>4. QED
      BY <3>3 DEF taken
  <2>5. log' \in [in : Seq(Items), out : Seq(Items)]
    BY <2>2, <2>3, <2>4
  <2>6. pc.actor # "ended"
    BY <2>1 DEF MailOrder
  <2>7. Len(obj'.queue_) <= Bound
    BY <1>1, <2>1, <2>4, SizesAssumption
  <2>8. obj'.running_ <=> pc'.actor # "none"
    BY <2>1 DEF MailOrder
  <2>9. Len(pc'.msg) = IF pc'.actor = "handle" THEN 1 ELSE 0
    BY <2>1 DEF MailOrder
  <2>10. log'.in = Append(log.in, m) /\ log'.out = log.out /\ obj.handled_ = Len(log.out)
    BY <2>2 DEF MailOrder
  <2>11. pc'.actor # "ended"
    BY <2>1, <2>6
  <2>12. QED
    BY <1>1, <2>1, <2>4, <2>5, <2>7, <2>8, <2>9, <2>10, <2>11 DEF MailOrder
<1>10. QED
  BY <1>3, <1>4, <1>5, <1>6, <1>7, <1>8, <1>9 DEF Actor!Next, Actor!Owner, Actor!Actor

\* A new mailbox is in order.
LEMMA MailOrderInit ==
  ASSUME Actor!Init
  PROVE  MailOrder
<1>1. /\ obj = [queue_ |-> <<>>, stopped_ |-> FALSE, running_ |-> FALSE, handled_ |-> 0]
      /\ pc = [owner |-> "idle", actor |-> "none", msg |-> <<>>] /\ log = [in |-> <<>>, out |-> <<>>]
  BY DEF Actor!Init
<1>2. QED
  BY <1>1, SizesAssumption DEF MailOrder, Through

\* ... and the order is the property.
LEMMA MailMeans ==
  ASSUME MailOrder
  PROVE  Actor!Fifo
<1>1. ASSUME obj.stopped_, pc.actor \in {"ended", "none"}
      PROVE  log.out = log.in
  <2>1. obj.queue_ = <<>> /\ log.out \in Seq(Items) /\ Len(pc.msg) = 0 /\ pc.msg \in Seq(Items)
    BY <1>1 DEF MailOrder
  <2>2. pc.msg = <<>>
    BY <2>1, EmptySeq
  <2>3. log.out \o <<>> = log.out
    BY <2>1, ConcatEmptySeq
  <2>4. QED
    BY <2>1, <2>2, <2>3, ConcatEmptySeq DEF MailOrder, Through
<1>2. QED
  BY <1>1 DEF MailOrder, Through, Actor!Fifo
-----------------------------------------------------------------------------
(***************************************************************************)
(* Things of S that lie in a row at each of the places P: every one of all *)
(* is at one position of one place.                                        *)
(***************************************************************************)
Holds(s, e) == \E i \in 1..Len(s) : s[i] = e

Once(at, P, S, all) ==
  /\ at \in [P -> Seq(S)]
  /\ \A p, q \in P : \A i \in 1..Len(at[p]), j \in 1..Len(at[q]) : at[p][i] = at[q][j] => p = q /\ i = j
  /\ all = {e \in S : \E p \in P : Holds(at[p], e)}

\* What a sequence has when it grows at the end, or shrinks at the front.
LEMMA Grown ==
  ASSUME NEW S, NEW s \in Seq(S), NEW e \in S
  PROVE  /\ Append(s, e) \in Seq(S) /\ Len(Append(s, e)) = Len(s) + 1 /\ Len(s) \in Nat
         /\ \A i \in 1..Len(s) : Append(s, e)[i] = s[i]
         /\ Append(s, e)[Len(s) + 1] = e
BY AppendProperties

\* What is left of a sequence without its first element.
LEMMA Shrunk ==
  ASSUME NEW S, NEW s \in Seq(S), s # <<>>
  PROVE  /\ Tail(s) \in Seq(S) /\ Len(Tail(s)) = Len(s) - 1 /\ Len(s) \in Nat \ {0}
         /\ \A i \in 1..Len(s) - 1 : Tail(s)[i] = s[i + 1]
         /\ Head(s) = s[1] /\ Head(s) \in S
<1>1. /\ Tail(s) \in Seq(S) /\ Len(Tail(s)) = Len(s) - 1 /\ \A i \in 1..Len(Tail(s)) : Tail(s)[i] = s[i + 1]
      /\ Head(s) \in S
  BY HeadTailProperties
<1>2. Len(s) \in Nat \ {0} /\ Head(s) = s[1]
  OBVIOUS
<1>3. QED
  BY <1>1, <1>2

\* A new thing arrives at the end of a place.
LEMMA Arrives ==
  ASSUME NEW P, NEW S, NEW all, NEW at, Once(at, P, S, all), NEW p \in P, NEW e \in S, e \notin all,
         NEW new, new = [at EXCEPT ![p] = Append(@, e)]
  PROVE  Once(new, P, S, all \cup {e})
<1>1. /\ at \in [P -> Seq(S)] /\ all = {x \in S : \E q \in P : Holds(at[q], x)}
      /\ \A q, r \in P : \A i \in 1..Len(at[q]), j \in 1..Len(at[r]) : at[q][i] = at[r][j] => q = r /\ i = j
  BY DEF Once
<1>2. /\ Append(at[p], e) \in Seq(S) /\ Len(Append(at[p], e)) = Len(at[p]) + 1 /\ Len(at[p]) \in Nat
      /\ \A i \in 1..Len(at[p]) : Append(at[p], e)[i] = at[p][i]
      /\ Append(at[p], e)[Len(at[p]) + 1] = e
  <2>1. at[p] \in Seq(S)
    BY <1>1
  <2>2. QED
    BY <2>1, Grown
<1>3. /\ new \in [P -> Seq(S)] /\ new[p] = Append(at[p], e)
      /\ \A q \in P \ {p} : new[q] = at[q]
  BY <1>1, <1>2
<1>4. \A q \in P : \A i \in 1..Len(new[q]) :
        \/ i \in 1..Len(at[q]) /\ new[q][i] = at[q][i]
        \/ q = p /\ i = Len(at[p]) + 1 /\ new[q][i] = e
  BY <1>2, <1>3
<1>5. \A q \in P : \A i \in 1..Len(at[q]) : i \in 1..Len(new[q]) /\ new[q][i] = at[q][i] /\ at[q][i] # e
  <2>1. \A q \in P : \A i \in 1..Len(at[q]) : at[q][i] # e
    BY <1>1 DEF Holds
  <2>2. QED
    BY <1>2, <1>3, <2>1
<1>6. \A q, r \in P : \A i \in 1..Len(new[q]), j \in 1..Len(new[r]) : new[q][i] = new[r][j] => q = r /\ i = j
  BY <1>1, <1>4, <1>5
<1>7. all \cup {e} = {x \in S : \E q \in P : Holds(new[q], x)}
  <2>1. ASSUME NEW x \in S, \E q \in P : Holds(new[q], x)
        PROVE  x \in all \cup {e}
    BY <1>1, <1>4, <2>1 DEF Holds
  <2>2. ASSUME NEW x \in all
        PROVE  x \in S /\ \E q \in P : Holds(new[q], x)
    BY <1>1, <1>5, <2>2 DEF Holds
  <2>3. Holds(new[p], e)
    BY <1>2, <1>3 DEF Holds
  <2>4. QED
    BY <2>1, <2>2, <2>3
<1>8. QED
  BY <1>3, <1>6, <1>7 DEF Once

\* Each position of the places new comes from one of the places at.
Origins(new, at, P, from, index) ==
  /\ \A q \in P : \A i \in 1..Len(new[q]) :
       /\ from[q][i] \in P /\ index[q][i] \in 1..Len(at[from[q][i]])
       /\ new[q][i] = at[from[q][i]][index[q][i]]
  /\ \A q \in P : \A r \in P : \A i \in 1..Len(new[q]) : \A j \in 1..Len(new[r]) :
       from[q][i] = from[r][j] /\ index[q][i] = index[r][j] => q = r /\ i = j
  /\ \A r \in P : \A j \in 1..Len(at[r]) :
       \E q \in P : \E i \in 1..Len(new[q]) : from[q][i] = r /\ index[q][i] = j

\* Things change their places: each one comes from a position of its own.
LEMMA Rearranged ==
  ASSUME NEW P, NEW S, NEW all, NEW at, Once(at, P, S, all), NEW new \in [P -> Seq(S)],
         NEW from, NEW index, Origins(new, at, P, from, index)
  PROVE  Once(new, P, S, all)
<1>1. /\ at \in [P -> Seq(S)] /\ all = {x \in S : \E q \in P : Holds(at[q], x)}
      /\ \A q, r \in P : \A i \in 1..Len(at[q]), j \in 1..Len(at[r]) : at[q][i] = at[r][j] => q = r /\ i = j
  BY DEF Once
<1>2. ASSUME NEW q \in P, NEW i \in 1..Len(new[q])
      PROVE  /\ from[q][i] \in P /\ index[q][i] \in 1..Len(at[from[q][i]])
             /\ new[q][i] = at[from[q][i]][index[q][i]]
  BY DEF Origins
<1>3. ASSUME NEW q \in P, NEW r \in P, NEW i \in 1..Len(new[q]), NEW j \in 1..Len(new[r]), new[q][i] = new[r][j]
      PROVE  q = r /\ i = j
  <2>1. at[from[q][i]][index[q][i]] = at[from[r][j]][index[r][j]]
    BY <1>2, <1>3
  <2>2. from[q][i] = from[r][j] /\ index[q][i] = index[r][j]
    <3> DEFINE a == from[q][i]
               b == from[r][j]
               m == index[q][i]
               n == index[r][j]
    <3>1. a \in P /\ b \in P /\ m \in 1..Len(at[a]) /\ n \in 1..Len(at[b]) /\ at[a][m] = at[b][n]
      BY <1>2, <2>1
    <3> HIDE DEF a, b, m, n
    <3>2. a = b /\ m = n
      BY <1>1, <3>1
    <3>3. QED
      BY <3>2 DEF a, b, m, n
  <2>3. QED
    BY <2>2 DEF Origins
<1>4. ASSUME NEW x \in S, NEW q \in P, Holds(new[q], x)
      PROVE  \E r \in P : Holds(at[r], x)
  <2>1. PICK i \in 1..Len(new[q]) : new[q][i] = x
    BY <1>4 DEF Holds
  <2>2. Holds(at[from[q][i]], x) /\ from[q][i] \in P
    BY <1>2, <2>1 DEF Holds
  <2>3. QED
    BY <2>2
<1>5. ASSUME NEW x \in S, NEW r \in P, Holds(at[r], x)
      PROVE  \E q \in P : Holds(new[q], x)
  <2>1. PICK j \in 1..Len(at[r]) : at[r][j] = x
    BY <1>5 DEF Holds
  <2>2. PICK q \in P : \E i \in 1..Len(new[q]) : from[q][i] = r /\ index[q][i] = j
    BY DEF Origins
  <2>3. PICK i \in 1..Len(new[q]) : from[q][i] = r /\ index[q][i] = j
    BY <2>2
  <2>4. new[q][i] = x
    BY <1>2, <2>1, <2>3
  <2>5. QED
    BY <2>4 DEF Holds
<1>6. QED
  <2>1. \A q, r \in P : \A i \in 1..Len(new[q]), j \in 1..Len(new[r]) : new[q][i] = new[r][j] => q = r /\ i = j
    BY <1>3
  <2>2. all = {x \in S : \E q \in P : Holds(new[q], x)}
    BY <1>1, <1>4, <1>5
  <2>3. QED
    BY <2>1, <2>2 DEF Once

\* r is s without its element at k.
Taken(s, r, k) ==
  /\ k \in 1..Len(s) /\ Len(s) \in Nat /\ Len(r) = Len(s) - 1
  /\ \A i \in 1..k - 1 : r[i] = s[i]
  /\ \A i \in k..Len(s) - 1 : r[i] = s[i + 1]

\* One thing is taken from a place, wherever it lies, and put down at another.
LEMMA Travels ==
  ASSUME NEW P, NEW S, NEW all, NEW at, Once(at, P, S, all), NEW p \in P, NEW q \in P, p # q,
         NEW k, NEW rest \in Seq(S), Taken(at[p], rest, k),
         NEW new, new = [at EXCEPT ![p] = rest, ![q] = Append(@, at[p][k])]
  PROVE  Once(new, P, S, all)
<1>1. at \in [P -> Seq(S)] /\ at[p] \in Seq(S) /\ at[q] \in Seq(S)
  BY DEF Once
<1>2. k \in 1..Len(at[p]) /\ Len(at[p]) \in Nat /\ at[p][k] \in S /\ Len(rest) = Len(at[p]) - 1
  BY <1>1 DEF Taken
<1> DEFINE e == at[p][k]
           grown == Append(at[q], e)
<1>3. /\ grown \in Seq(S) /\ Len(grown) = Len(at[q]) + 1 /\ Len(at[q]) \in Nat
      /\ \A i \in 1..Len(at[q]) : grown[i] = at[q][i]
      /\ grown[Len(at[q]) + 1] = e
  BY <1>1, <1>2, Grown
<1> HIDE DEF grown
<1>4. /\ new \in [P -> Seq(S)] /\ new[p] = rest /\ new[q] = grown
      /\ \A r \in P \ {p, q} : new[r] = at[r]
  BY <1>1, <1>3 DEF grown
<1> DEFINE moved(r, i) == r = q /\ i = Len(at[q]) + 1
           from == [r \in P |-> [i \in 1..Len(new[r]) |-> IF moved(r, i) THEN p ELSE r]]
           index == [r \in P |-> [i \in 1..Len(new[r]) |->
                       IF moved(r, i) THEN k ELSE IF r = p /\ i >= k THEN i + 1 ELSE i]]
<1>5. \A r \in P : \A i \in 1..Len(new[r]) :
        /\ from[r][i] = IF moved(r, i) THEN p ELSE r
        /\ index[r][i] = IF moved(r, i) THEN k ELSE IF r = p /\ i >= k THEN i + 1 ELSE i
  OBVIOUS
<1> HIDE DEF from, index
<1>6. ASSUME NEW r \in P, NEW i \in 1..Len(new[r])
      PROVE  /\ from[r][i] \in P /\ index[r][i] \in 1..Len(at[from[r][i]])
             /\ new[r][i] = at[from[r][i]][index[r][i]]
  <2>1. CASE r = q /\ i = Len(at[q]) + 1
    BY <1>2, <1>3, <1>4, <1>5, <2>1
  <2>2. CASE r = q /\ i # Len(at[q]) + 1
    BY <1>2, <1>3, <1>4, <1>5, <2>2
  <2>3. CASE r = p
    <3>1. from[r][i] = p /\ index[r][i] = (IF i >= k THEN i + 1 ELSE i) /\ i \in 1..Len(at[p]) - 1
          /\ new[r][i] = rest[i]
      BY <1>2, <1>4, <1>5, <2>3
    <3>2. rest[i] = IF i >= k THEN at[p][i + 1] ELSE at[p][i]
      BY <1>2, <3>1 DEF Taken
    <3>3. QED
      BY <1>2, <3>1, <3>2
  <2>4. CASE r \notin {p, q}
    BY <1>4, <1>5, <2>4
  <2>5. QED
    BY <2>1, <2>2, <2>3, <2>4
<1>7. ASSUME NEW r \in P, NEW s \in P, NEW i \in 1..Len(new[r]), NEW j \in 1..Len(new[s])
      PROVE  from[r][i] = from[s][j] /\ index[r][i] = index[s][j] => r = s /\ i = j
  <2>0. SUFFICES ASSUME from[r][i] = from[s][j], index[r][i] = index[s][j]
                 PROVE  r = s /\ i = j
    OBVIOUS
  <2>1. i \in Nat /\ j \in Nat /\ k \in Nat
    BY <1>1, <1>2, <1>4
  <2>2. /\ from[r][i] = IF moved(r, i) THEN p ELSE r
        /\ index[r][i] = IF moved(r, i) THEN k ELSE IF r = p /\ i >= k THEN i + 1 ELSE i
    BY <1>5
  <2>3. /\ from[s][j] = IF moved(s, j) THEN p ELSE s
        /\ index[s][j] = IF moved(s, j) THEN k ELSE IF s = p /\ j >= k THEN j + 1 ELSE j
    BY <1>5
  <2> DEFINE mr == moved(r, i)
             ms == moved(s, j)
  <2>4. mr /\ ms => r = s /\ i = j
    OBVIOUS
  <2> HIDE DEF mr, ms
  <2>5. CASE ~mr /\ ~ms
    <3>1. r = s
      BY <2>0, <2>2, <2>3, <2>5 DEF mr, ms
    <3>2. (IF r = p /\ i >= k THEN i + 1 ELSE i) = (IF r = p /\ j >= k THEN j + 1 ELSE j)
      BY <2>0, <2>2, <2>3, <2>5, <3>1 DEF mr, ms
    <3>3. QED
      BY <2>1, <3>1, <3>2
  <2>6. CASE mr /\ ~ms
    <3>1. s = p /\ k = IF j >= k THEN j + 1 ELSE j
      BY <2>0, <2>2, <2>3, <2>6 DEF mr, ms
    <3>2. QED
      BY <2>1, <3>1
  <2>7. CASE ~mr /\ ms
    <3>1. r = p /\ k = IF i >= k THEN i + 1 ELSE i
      BY <2>0, <2>2, <2>3, <2>7 DEF mr, ms
    <3>2. QED
      BY <2>1, <3>1
  <2>8. QED
    BY <2>4, <2>5, <2>6, <2>7
<1>8. ASSUME NEW r \in P, NEW j \in 1..Len(at[r])
      PROVE  \E s \in P : \E i \in 1..Len(new[s]) : from[s][i] = r /\ index[s][i] = j
  <2>1. j \in Nat /\ k \in Nat /\ (j = k \/ j < k \/ j > k)
    BY <1>1, <1>2
  <2>2. CASE r = p /\ j = k
    <3> DEFINE i == Len(at[q]) + 1
    <3>1. i \in 1..Len(new[q]) /\ moved(q, i)
      BY <1>3, <1>4
    <3>2. from[q][i] = p /\ index[q][i] = k
      BY <1>5, <3>1
    <3> HIDE DEF i
    <3>3. QED
      BY <2>2, <3>1, <3>2
  <2>3. CASE r = p /\ j < k
    <3>1. j \in 1..Len(new[p]) /\ ~moved(p, j)
      BY <1>2, <1>4, <2>3
    <3>2. from[p][j] = p /\ index[p][j] = j
      BY <1>5, <2>1, <2>3, <3>1
    <3>3. QED
      BY <2>3, <3>1, <3>2
  <2>4. CASE r = p /\ j > k
    <3> DEFINE i == j - 1
    <3>1. i \in 1..Len(new[p]) /\ ~moved(p, i) /\ i >= k /\ i + 1 = j
      BY <1>2, <1>4, <2>1, <2>4
    <3> HIDE DEF i
    <3>2. from[p][i] = p /\ index[p][i] = j
      BY <1>5, <3>1
    <3>3. QED
      BY <2>4, <3>1, <3>2
  <2>5. CASE r = q
    <3>1. j \in 1..Len(new[q]) /\ ~moved(q, j)
      BY <1>3, <1>4, <2>5
    <3>2. from[q][j] = q /\ index[q][j] = j
      BY <1>5, <3>1
    <3>3. QED
      BY <2>5, <3>1, <3>2
  <2>6. CASE r \notin {p, q}
    <3>1. j \in 1..Len(new[r]) /\ from[r][j] = r /\ index[r][j] = j
      BY <1>4, <1>5, <2>6
    <3>2. QED
      BY <3>1
  <2>7. QED
    BY <2>1, <2>2, <2>3, <2>4, <2>5, <2>6, Zenon
<1>9. Origins(new, at, P, from, index)
  BY <1>6, <1>7, <1>8, Zenon DEF Origins
<1>10. QED
  BY <1>4, <1>9, Rearranged

\* All that is at a place goes to one where there is nothing.
LEMMA AllMove ==
  ASSUME NEW P, NEW S, NEW all, NEW at, Once(at, P, S, all), NEW p \in P, NEW q \in P, p # q,
         at[q] = <<>>, NEW new, new = [at EXCEPT ![p] = <<>>, ![q] = at[p]]
  PROVE  Once(new, P, S, all)
<1>1. at \in [P -> Seq(S)] /\ at[p] \in Seq(S) /\ Len(at[q]) = 0 /\ Len(<<>>) = 0
  BY DEF Once
<1>2. /\ new \in [P -> Seq(S)] /\ new[p] = <<>> /\ new[q] = at[p]
      /\ \A r \in P \ {p, q} : new[r] = at[r]
  BY <1>1
<1> DEFINE from == [r \in P |-> [i \in 1..Len(new[r]) |-> IF r = q THEN p ELSE r]]
           index == [r \in P |-> [i \in 1..Len(new[r]) |-> i]]
<1>3. \A r \in P : \A i \in 1..Len(new[r]) : from[r][i] = (IF r = q THEN p ELSE r) /\ index[r][i] = i
  OBVIOUS
<1> HIDE DEF from, index
<1>4. Origins(new, at, P, from, index)
  <2>1. \A r \in P : \A i \in 1..Len(new[r]) :
          /\ from[r][i] \in P /\ index[r][i] \in 1..Len(at[from[r][i]])
          /\ new[r][i] = at[from[r][i]][index[r][i]]
    BY <1>1, <1>2, <1>3
  <2>2. \A r \in P : \A s \in P : \A i \in 1..Len(new[r]) : \A j \in 1..Len(new[s]) :
          from[r][i] = from[s][j] /\ index[r][i] = index[s][j] => r = s /\ i = j
    <3>1. ASSUME NEW r \in P, NEW i \in 1..Len(new[r])
          PROVE  r # p
      BY <1>1, <1>2
    <3> SUFFICES ASSUME NEW r \in P, NEW s \in P, NEW i \in 1..Len(new[r]), NEW j \in 1..Len(new[s])
                 PROVE  from[r][i] = from[s][j] /\ index[r][i] = index[s][j] => r = s /\ i = j
      OBVIOUS
    <3>2. from[r][i] = (IF r = q THEN p ELSE r) /\ index[r][i] = i /\ r # p
      BY <1>3, <3>1
    <3>3. from[s][j] = (IF s = q THEN p ELSE s) /\ index[s][j] = j /\ s # p
      BY <1>3, <3>1
    <3>4. QED
      BY <3>2, <3>3
  <2>3. ASSUME NEW r \in P, NEW j \in 1..Len(at[r])
        PROVE  \E s \in P : \E i \in 1..Len(new[s]) : from[s][i] = r /\ index[s][i] = j
    <3>1. r # q
      BY <1>1
    <3>2. CASE r = p
      <4>1. j \in 1..Len(new[q]) /\ from[q][j] = r /\ index[q][j] = j
        BY <1>2, <1>3, <3>2
      <4>2. QED
        BY <4>1
    <3>3. CASE r # p
      <4>1. j \in 1..Len(new[r]) /\ from[r][j] = r /\ index[r][j] = j
        BY <1>2, <1>3, <3>1, <3>3
      <4>2. QED
        BY <4>1
    <3>4. QED
      BY <3>2, <3>3
  <2>4. QED
    BY <2>1, <2>2, <2>3 DEF Origins
<1>5. QED
  BY <1>2, <1>4, Rearranged
-----------------------------------------------------------------------------
(***************************************************************************)
(* BufferedDispatcher                                                      *)
(***************************************************************************)
EventPlaces == Threads \cup {"buffer", "handler"}
EventsWith(t) == IF pc[t].at = "deliver" THEN pc[t].events ELSE <<>>
EventsAt ==
  [p \in EventPlaces |-> IF p = "buffer" THEN obj.buffer_
                         ELSE IF p = "handler" THEN log.out
                         ELSE EventsWith(p)]

EventStates == {[at |-> "idle"], [at |-> "size"], [at |-> "flush"]} \cup [at : {"deliver"}, events : Seq(Items)]

EventInv ==
  /\ obj = [buffer_ |-> obj.buffer_] /\ log = [in |-> log.in, out |-> log.out]
  /\ log.in \in Seq(Items)
  /\ pc \in [Threads -> EventStates]
  /\ Once(EventsAt, EventPlaces, Items, {e \in Items : Holds(log.in, e)})
  /\ obj.buffer_ # <<>> /\ Len(obj.buffer_) >= Size => \E t \in Threads : pc[t].at \in {"size", "flush"}

\* What is where, now and after a step.
LEMMA EventFacts ==
  /\ \A t \in Threads : t # "buffer" /\ t # "handler" /\ t \in EventPlaces
  /\ "buffer" \in EventPlaces /\ "handler" \in EventPlaces
  /\ EventsAt["buffer"] = obj.buffer_ /\ EventsAt["handler"] = log.out
  /\ \A t \in Threads : EventsAt[t] = EventsWith(t)
  /\ EventsAt'["buffer"] = obj'.buffer_ /\ EventsAt'["handler"] = log'.out
  /\ \A t \in Threads : EventsAt'[t] = EventsWith(t)'
  /\ DOMAIN EventsAt = EventPlaces /\ DOMAIN EventsAt' = EventPlaces
  /\ \A t \in Threads : EventsWith(t)' = IF pc'[t].at = "deliver" THEN pc'[t].events ELSE <<>>
BY ThreadsAssumption DEF Names, EventPlaces, EventsAt, EventsWith

\* Two assignments of events to places are the same if each place has the same.
LEMMA EventsSame ==
  ASSUME NEW new, new = [p \in EventPlaces |-> new[p]],
         new["buffer"] = obj'.buffer_, new["handler"] = log'.out,
         \A t \in Threads : new[t] = EventsWith(t)'
  PROVE  EventsAt' = new
<1>1. ASSUME NEW p \in EventPlaces
      PROVE  new[p] = EventsAt'[p]
  BY EventFacts DEF EventPlaces
<1>2. EventsAt' = [p \in EventPlaces |-> EventsAt'[p]]
  BY DEF EventsAt
<1>3. QED
  BY <1>1, <1>2

\* A thread that moves on, and what it then carries.
LEMMA EventMoves ==
  ASSUME EventInv, NEW t \in Threads, NEW s, pc' = [pc EXCEPT ![t] = s], s \in EventStates
  PROVE  /\ pc' \in [Threads -> EventStates] /\ pc'[t] = s
         /\ \A u \in Threads \ {t} : pc'[u] = pc[u] /\ EventsWith(u)' = EventsWith(u)
BY DEF EventInv, EventsWith

\* emit() puts a new event behind those in the buffer.
LEMMA EmitKeeps ==
  ASSUME EventInv, NEW t \in Threads, NEW e \in Items, Shared!Emit(t, e)
  PROVE  EventInv'
<1>1. /\ pc[t].at = "idle" /\ obj' = [obj EXCEPT !.buffer_ = Append(@, e)] /\ log' = [log EXCEPT !.in = Append(@, e)]
      /\ pc' = [pc EXCEPT ![t] = [at |-> "size"]] /\ \A i \in DOMAIN log.in : log.in[i] # e
  BY DEF Shared!Emit, Shared!Goto, Shared!Idle
<1>2. /\ pc' \in [Threads -> EventStates] /\ pc'[t] = [at |-> "size"]
      /\ \A u \in Threads \ {t} : EventsWith(u)' = EventsWith(u)
  <2>1. [at |-> "size"] \in EventStates
    BY DEF EventStates
  <2>2. QED
    BY <1>1, <2>1, EventMoves
<1>3. EventsWith(t) = <<>> /\ EventsWith(t)' = <<>>
  BY <1>1, <1>2, EventFacts DEF EventsWith
<1>4. /\ obj' = [buffer_ |-> Append(obj.buffer_, e)]
      /\ log' = [in |-> Append(log.in, e), out |-> log.out]
  BY <1>1 DEF EventInv
<1>5. EventsAt' = [EventsAt EXCEPT !["buffer"] = Append(@, e)]
  <2> DEFINE new == [EventsAt EXCEPT !["buffer"] = Append(@, e)]
  <2>1. new = [p \in EventPlaces |-> new[p]]
    BY EventFacts
  <2>2. /\ new["buffer"] = obj'.buffer_ /\ new["handler"] = log'.out
        /\ \A u \in Threads : new[u] = EventsAt[u]
    BY <1>4, EventFacts
  <2> HIDE DEF new
  <2>3. \A u \in Threads : new[u] = EventsWith(u)'
    BY <1>2, <1>3, <2>2, EventFacts
  <2>4. EventsAt' = new
    BY <2>1, <2>2, <2>3, EventsSame
  <2>5. QED
    BY <2>4 DEF new
<1>6. /\ log.in \in Seq(Items) /\ Append(log.in, e) \in Seq(Items)
      /\ ~Holds(log.in, e)
      /\ {x \in Items : Holds(Append(log.in, e), x)} = {x \in Items : Holds(log.in, x)} \cup {e}
  <2>1. log.in \in Seq(Items)
    BY DEF EventInv
  <2>2. /\ Append(log.in, e) \in Seq(Items) /\ Len(Append(log.in, e)) = Len(log.in) + 1 /\ Len(log.in) \in Nat
        /\ \A i \in 1..Len(log.in) : Append(log.in, e)[i] = log.in[i]
        /\ Append(log.in, e)[Len(log.in) + 1] = e
    BY <2>1, Grown
  <2>3. ~Holds(log.in, e)
    BY <1>1, <2>1 DEF Holds
  <2>4. \A x \in Items : Holds(Append(log.in, e), x) <=> Holds(log.in, x) \/ x = e
    BY <2>2 DEF Holds
  <2>5. QED
    BY <2>1, <2>2, <2>3, <2>4
<1>7. Once(EventsAt', EventPlaces, Items, {x \in Items : Holds(log'.in, x)})
  <2> DEFINE all == {x \in Items : Holds(log.in, x)}
  <2>1. Once(EventsAt, EventPlaces, Items, all) /\ e \notin all
    BY <1>6 DEF EventInv
  <2>2. {x \in Items : Holds(log'.in, x)} = all \cup {e}
    BY <1>4, <1>6
  <2> HIDE DEF all
  <2>3. Once(EventsAt', EventPlaces, Items, all \cup {e})
    BY <1>5, <2>1, EventFacts, Arrives
  <2>4. QED
    BY <2>2, <2>3
<1>8. pc'[t].at = "size"
  BY <1>2
<1>9. QED
  BY <1>2, <1>4, <1>6, <1>7, <1>8 DEF EventInv

\* The events that flush() swaps out are with its thread.
LEMMA FlushKeeps ==
  ASSUME EventInv, NEW t \in Threads, Shared!Flush(t)
  PROVE  EventInv'
<1>1. /\ pc[t].at \in {"idle", "flush"} /\ obj' = [obj EXCEPT !.buffer_ = <<>>] /\ log' = log
      /\ pc' = [pc EXCEPT ![t] = [at |-> "deliver", events |-> obj.buffer_]]
  BY DEF Shared!Flush, Shared!Goto, Shared!Idle, Shared!On
<1>2. obj' = [buffer_ |-> <<>>] /\ obj.buffer_ \in Seq(Items)
  <2>1. EventsAt["buffer"] \in Seq(Items)
    BY EventFacts DEF EventInv, Once
  <2>2. QED
    BY <1>1, <2>1, EventFacts DEF EventInv
<1>3. /\ pc' \in [Threads -> EventStates] /\ pc'[t] = [at |-> "deliver", events |-> obj.buffer_]
      /\ \A u \in Threads \ {t} : EventsWith(u)' = EventsWith(u)
  <2>1. [at |-> "deliver", events |-> obj.buffer_] \in EventStates
    BY <1>2 DEF EventStates
  <2>2. QED
    BY <1>1, <2>1, EventMoves
<1>4. EventsWith(t) = <<>> /\ EventsWith(t)' = obj.buffer_
  BY <1>1, <1>3, EventFacts DEF EventsWith
<1> DEFINE new == [EventsAt EXCEPT !["buffer"] = <<>>, ![t] = EventsAt["buffer"]]
<1>5. EventsAt' = new
  <2>1. new = [p \in EventPlaces |-> new[p]] /\ t # "buffer" /\ t # "handler"
    BY EventFacts
  <2>2. /\ new["buffer"] = obj'.buffer_ /\ new["handler"] = log'.out
        /\ \A u \in Threads : new[u] = IF u = t THEN obj.buffer_ ELSE EventsAt[u]
    BY <1>1, <1>2, <2>1, EventFacts
  <2> HIDE DEF new
  <2>3. \A u \in Threads : new[u] = EventsWith(u)'
    BY <1>3, <1>4, <2>2, EventFacts
  <2>4. QED
    BY <2>1, <2>2, <2>3, EventsSame
<1>6. Once(new, EventPlaces, Items, {e \in Items : Holds(log.in, e)})
  <2> DEFINE all == {e \in Items : Holds(log.in, e)}
  <2>1. Once(EventsAt, EventPlaces, Items, all) /\ EventsAt[t] = <<>>
    BY <1>4, EventFacts DEF EventInv
  <2>2. "buffer" \in EventPlaces /\ t \in EventPlaces /\ "buffer" # t
    BY EventFacts
  <2> HIDE DEF all
  <2>3. Once(new, EventPlaces, Items, all)
    BY <2>1, <2>2, AllMove
  <2>4. QED
    BY <2>3 DEF all
<1>7. Once(EventsAt', EventPlaces, Items, {e \in Items : Holds(log'.in, e)})
  BY <1>1, <1>5, <1>6
<1>8. QED
  BY <1>1, <1>2, <1>3, <1>7 DEF EventInv

\* The front of a sequence is its first element taken.
LEMMA TailTaken ==
  ASSUME NEW S, NEW s \in Seq(S), s # <<>>
  PROVE  Tail(s) \in Seq(S) /\ Taken(s, Tail(s), 1) /\ Head(s) = s[1]
BY Shrunk DEF Taken

\* The handler gets the first event that a flushing thread still has.
LEMMA DeliverKeeps ==
  ASSUME EventInv, NEW t \in Threads, Shared!FlushDeliver(t)
  PROVE  EventInv'
<1>1. pc \in [Threads -> EventStates] /\ pc[t].at = "deliver" /\ obj' = obj
  BY DEF EventInv, Shared!FlushDeliver, Shared!On
<1>2. pc[t] = [at |-> "deliver", events |-> pc[t].events] /\ pc[t].events \in Seq(Items)
  BY <1>1 DEF EventStates
<1>3. EventsWith(t) = pc[t].events
  BY <1>1 DEF EventsWith
<1>4. \A u \in Threads : pc[u].at \in {"size", "flush"} => u # t
  BY <1>1
<1>5. CASE pc[t].events = <<>> /\ pc' = [pc EXCEPT ![t] = [at |-> "idle"]] /\ log' = log
  <2>1. /\ pc' \in [Threads -> EventStates] /\ pc'[t] = [at |-> "idle"]
        /\ \A u \in Threads \ {t} : pc'[u] = pc[u] /\ EventsWith(u)' = EventsWith(u)
    <3>1. [at |-> "idle"] \in EventStates
      BY DEF EventStates
    <3>2. QED
      BY <1>5, <3>1, EventMoves
  <2>2. EventsWith(t)' = <<>>
    BY <2>1, EventFacts
  <2>3. EventsAt' = EventsAt
    <3>1. EventsAt = [p \in EventPlaces |-> EventsAt[p]]
      BY DEF EventsAt
    <3>2. \A u \in Threads : EventsAt[u] = EventsWith(u)'
      BY <1>3, <1>5, <2>1, <2>2, EventFacts
    <3>3. EventsAt["buffer"] = obj'.buffer_ /\ EventsAt["handler"] = log'.out
      BY <1>1, <1>5, EventFacts
    <3>4. QED
      BY <3>1, <3>2, <3>3, EventsSame
  <2>4. QED
    BY <1>1, <1>4, <1>5, <2>1, <2>3 DEF EventInv
<1>6. CASE /\ pc[t].events # <<>> /\ log' = [log EXCEPT !.out = Append(@, Head(pc[t].events))]
           /\ pc' = [pc EXCEPT ![t] = [pc[t] EXCEPT !.events = Tail(@)]]
  <2> DEFINE rest == Tail(pc[t].events)
  <2>1. rest \in Seq(Items) /\ Taken(pc[t].events, rest, 1) /\ Head(pc[t].events) = pc[t].events[1]
    BY <1>2, <1>6, TailTaken
  <2>2. [pc[t] EXCEPT !.events = Tail(@)] = [at |-> "deliver", events |-> rest]
    <3>1. DOMAIN pc[t] = {"at", "events"} /\ pc[t].at = "deliver"
      BY <1>2
    <3> HIDE DEF rest
    <3>2. [pc[t] EXCEPT !.events = rest] = [at |-> "deliver", events |-> rest]
      BY <3>1
    <3>3. QED
      BY <3>2 DEF rest
  <2> HIDE DEF rest
  <2>3. /\ pc' \in [Threads -> EventStates] /\ pc'[t] = [at |-> "deliver", events |-> rest]
        /\ \A u \in Threads \ {t} : pc'[u] = pc[u] /\ EventsWith(u)' = EventsWith(u)
    <3>1. [at |-> "deliver", events |-> rest] \in EventStates
      BY <2>1 DEF EventStates
    <3>2. pc' = [pc EXCEPT ![t] = [at |-> "deliver", events |-> rest]]
      BY <1>6, <2>2
    <3>3. QED
      BY <3>1, <3>2, EventMoves
  <2>4. EventsWith(t)' = rest
    BY <2>3, EventFacts
  <2> DEFINE new == [EventsAt EXCEPT ![t] = rest, !["handler"] = Append(@, EventsAt[t][1])]
  <2>5. log' = [in |-> log.in, out |-> Append(log.out, Head(pc[t].events))]
    BY <1>6 DEF EventInv
  <2>6. EventsAt' = new
    <3>1. new = [p \in EventPlaces |-> new[p]] /\ t # "buffer" /\ t # "handler"
      BY EventFacts
    <3>2. EventsAt[t][1] = Head(pc[t].events)
      BY <1>3, <2>1, EventFacts
    <3>3. new["buffer"] = obj'.buffer_ /\ new["handler"] = log'.out
      BY <1>1, <2>5, <3>1, <3>2, EventFacts
    <3>4. \A u \in Threads : new[u] = IF u = t THEN rest ELSE EventsAt[u]
      BY <3>1, EventFacts
    <3> HIDE DEF new
    <3>5. \A u \in Threads : new[u] = EventsWith(u)'
      BY <2>3, <2>4, <3>4, EventFacts
    <3>6. QED
      BY <3>1, <3>3, <3>5, EventsSame
  <2>7. Once(new, EventPlaces, Items, {e \in Items : Holds(log.in, e)})
    <3> DEFINE all == {e \in Items : Holds(log.in, e)}
    <3>1. Once(EventsAt, EventPlaces, Items, all) /\ Taken(EventsAt[t], rest, 1)
      BY <1>3, <2>1, EventFacts DEF EventInv
    <3>2. "handler" \in EventPlaces /\ t \in EventPlaces /\ t # "handler"
      BY EventFacts
    <3> HIDE DEF all
    <3>3. Once(new, EventPlaces, Items, all)
      BY <2>1, <3>1, <3>2, Travels
    <3>4. QED
      BY <3>3 DEF all
  <2> HIDE DEF new
  <2>8. Once(EventsAt', EventPlaces, Items, {e \in Items : Holds(log'.in, e)})
    BY <2>5, <2>6, <2>7
  <2>9. obj'.buffer_ # <<>> /\ Len(obj'.buffer_) >= Size => \E u \in Threads : pc'[u].at \in {"size", "flush"}
    BY <1>1, <1>4, <2>3 DEF EventInv
  <2>10. QED
    BY <1>1, <2>3, <2>5, <2>8, <2>9 DEF EventInv
<1>7. QED
  BY <1>5, <1>6 DEF Shared!FlushDeliver, Shared!Goto, Shared!Idle

\* emit() looks at the size of the buffer, and flushes if it is full.
LEMMA SizeKeeps ==
  ASSUME EventInv, NEW t \in Threads, Shared!EmitSize(t)
  PROVE  EventInv'
<1>1. /\ pc[t].at = "size" /\ obj' = obj /\ log' = log
      /\ pc' = [pc EXCEPT ![t] = IF Len(obj.buffer_) >= Size THEN [at |-> "flush"] ELSE [at |-> "idle"]]
  BY DEF Shared!EmitSize, Shared!On, Shared!Goto, Shared!Idle
<1>2. /\ pc' \in [Threads -> EventStates]
      /\ pc'[t] = IF Len(obj.buffer_) >= Size THEN [at |-> "flush"] ELSE [at |-> "idle"]
      /\ \A u \in Threads \ {t} : EventsWith(u)' = EventsWith(u)
  <2>1. (IF Len(obj.buffer_) >= Size THEN [at |-> "flush"] ELSE [at |-> "idle"]) \in EventStates
    BY DEF EventStates
  <2>2. QED
    BY <1>1, <2>1, EventMoves
<1>3. EventsWith(t) = <<>> /\ EventsWith(t)' = <<>>
  BY <1>1, <1>2, EventFacts DEF EventsWith
<1>4. EventsAt' = EventsAt
  <2>1. EventsAt = [p \in EventPlaces |-> EventsAt[p]]
    BY DEF EventsAt
  <2>2. \A u \in Threads : EventsAt[u] = EventsWith(u)'
    BY <1>2, <1>3, EventFacts
  <2>3. EventsAt["buffer"] = obj'.buffer_ /\ EventsAt["handler"] = log'.out
    BY <1>1, EventFacts
  <2>4. QED
    BY <2>1, <2>2, <2>3, EventsSame
<1>5. Len(obj'.buffer_) >= Size => pc'[t].at = "flush"
  BY <1>1, <1>2
<1>6. QED
  BY <1>1, <1>2, <1>4, <1>5 DEF EventInv

\* Every step of the buffered dispatcher keeps every event in one place.
LEMMA EventStep ==
  ASSUME EventInv, Shared!EventNext
  PROVE  EventInv'
BY EmitKeeps, SizeKeeps, FlushKeeps, DeliverKeeps DEF Shared!EventNext

\* There is no event to begin with.
LEMMA EventInitInv ==
  ASSUME Shared!EventInit
  PROVE  EventInv
<1>1. /\ obj = [buffer_ |-> <<>>] /\ log = [in |-> <<>>, out |-> <<>>]
      /\ pc = [t \in Threads |-> [at |-> "idle"]]
  BY DEF Shared!EventInit, Shared!Start, Shared!Idle
<1>2. pc \in [Threads -> EventStates]
  BY <1>1 DEF EventStates
<1>3. \A p \in EventPlaces : EventsAt[p] = <<>>
  <2>1. \A t \in Threads : EventsWith(t) = <<>>
    BY <1>1 DEF EventsWith
  <2>2. QED
    BY <1>1, <2>1, EventFacts DEF EventPlaces
<1>4. EventsAt \in [EventPlaces -> Seq(Items)]
  <2>1. EventsAt = [p \in EventPlaces |-> EventsAt[p]]
    BY DEF EventsAt
  <2>2. <<>> \in Seq(Items)
    OBVIOUS
  <2> HIDE DEF EventsAt
  <2>3. QED
    BY <1>3, <2>1, <2>2
<1>5. Once(EventsAt, EventPlaces, Items, {e \in Items : Holds(log.in, e)})
  BY <1>1, <1>3, <1>4 DEF Once, Holds
<1>6. QED
  BY <1>1, <1>2, <1>5 DEF EventInv

\* The first numbers are as many as the last of them says.
LEMMA UpTo == \A n \in Nat : IsFiniteSet(1..n) /\ Cardinality(1..n) = n
<1>1. \A a, b \in Int : IsFiniteSet(a..b) /\ Cardinality(a..b) = IF a > b THEN 0 ELSE b - a + 1
  BY FS_Interval
<1>2. TAKE n \in Nat
<1>3. IsFiniteSet(1..n) /\ Cardinality(1..n) = IF 1 > n THEN 0 ELSE n - 1 + 1
  BY <1>1
<1>4. QED
  BY <1>3

\* A sequence without repetition has as many elements as places.
LEMMA NoneTwice ==
  ASSUME NEW S, NEW s \in Seq(S), \A i \in 1..Len(s) : \A j \in 1..Len(s) : s[i] = s[j] => i = j,
         NEW T, T = {s[i] : i \in 1..Len(s)}
  PROVE  IsFiniteSet(T) /\ Cardinality(T) = Len(s)
<1>1. Len(s) \in Nat /\ s \in [1..Len(s) -> T]
  <2>1. Len(s) \in Nat /\ s = [i \in 1..Len(s) |-> s[i]]
    OBVIOUS
  <2>2. QED
    BY <2>1
<1>2. IsFiniteSet(1..Len(s)) /\ Cardinality(1..Len(s)) = Len(s)
  BY <1>1, UpTo
<1>3. s \in Bijection(1..Len(s), T)
  <2>1. s \in Injection(1..Len(s), T)
    BY <1>1 DEF Injection, IsInjective
  <2>2. s \in Surjection(1..Len(s), T)
    BY <1>1 DEF Surjection
  <2>3. QED
    BY <2>1, <2>2 DEF Bijection
<1>4. ExistsBijection(1..Len(s), T)
  BY <1>3 DEF ExistsBijection
<1>5. QED
  BY <1>2, <1>4, FS_Bijection
-----------------------------------------------------------------------------
\* What a place holds, as the elements of a sequence.
LEMMA HeldElements ==
  ASSUME NEW S, NEW s \in Seq(S)
  PROVE  \A e : e \in Shared!Elements(s) <=> e \in S /\ Holds(s, e)
BY DEF Shared!Elements, Holds

\* The invariant says that every event is in one place.
LEMMA EventMeans ==
  ASSUME EventInv
  PROVE  Shared!DeliveredOnce
<1> DEFINE At(p) == CASE p = "buffer" -> obj.buffer_
                      [] p = "handler" -> log.out
                      [] OTHER -> IF p \in Shared!On("deliver") THEN pc[p].events ELSE <<>>
<1>1. /\ log.in \in Seq(Items) /\ EventsAt \in [EventPlaces -> Seq(Items)]
      /\ \A p, q \in EventPlaces : \A i \in 1..Len(EventsAt[p]), j \in 1..Len(EventsAt[q]) :
           EventsAt[p][i] = EventsAt[q][j] => p = q /\ i = j
      /\ {e \in Items : Holds(log.in, e)} = {e \in Items : \E p \in EventPlaces : Holds(EventsAt[p], e)}
  BY DEF EventInv, Once
<1>2. \A p \in EventPlaces : At(p) = EventsAt[p]
  <2>1. \A t \in Threads : At(t) = EventsWith(t)
    BY EventFacts DEF EventsWith, Shared!On
  <2>2. QED
    BY <2>1, EventFacts DEF EventPlaces
<1>3. \A p \in EventPlaces : EventsAt[p] \in Seq(Items)
  BY <1>1
<1> HIDE DEF At
<1>4. \A p \in EventPlaces : \A e : e \in Shared!Elements(At(p)) <=> e \in Items /\ Holds(EventsAt[p], e)
  BY <1>2, <1>3, HeldElements
<1>5. UNION {Shared!Elements(At(p)) : p \in EventPlaces} = Shared!Elements(log.in)
  <2>1. \A e : e \in Shared!Elements(log.in) <=> e \in Items /\ Holds(log.in, e)
    BY <1>1, HeldElements
  <2>2. \A e \in Items : Holds(log.in, e) <=> \E p \in EventPlaces : Holds(EventsAt[p], e)
    BY <1>1
  <2>3. QED
    BY <1>4, <2>1, <2>2
<1>6. \A p, q \in EventPlaces : p # q => Shared!Elements(At(p)) \cap Shared!Elements(At(q)) = {}
  <2> SUFFICES ASSUME NEW p \in EventPlaces, NEW q \in EventPlaces, p # q,
                      NEW e \in Items, Holds(EventsAt[p], e), Holds(EventsAt[q], e)
               PROVE  FALSE
    BY <1>4
  <2>1. PICK i \in 1..Len(EventsAt[p]) : EventsAt[p][i] = e
    BY DEF Holds
  <2>2. PICK j \in 1..Len(EventsAt[q]) : EventsAt[q][j] = e
    BY DEF Holds
  <2>3. QED
    BY <1>1, <2>1, <2>2
<1>7. \A p \in EventPlaces : Cardinality(Shared!Elements(At(p))) = Len(At(p))
  <2> SUFFICES ASSUME NEW p \in EventPlaces
               PROVE  Cardinality(Shared!Elements(EventsAt[p])) = Len(EventsAt[p])
    BY <1>2
  <2> DEFINE s == EventsAt[p]
  <2>1. s \in Seq(Items) /\ \A i \in 1..Len(s) : \A j \in 1..Len(s) : s[i] = s[j] => i = j
    BY <1>1, <1>3
  <2>2. Shared!Elements(s) = {s[i] : i \in 1..Len(s)}
    BY <2>1 DEF Shared!Elements
  <2> HIDE DEF s
  <2>3. Cardinality(Shared!Elements(s)) = Len(s)
    BY <2>1, <2>2, NoneTwice
  <2>4. QED
    BY <2>3 DEF s
<1>8. obj.buffer_ # <<>> /\ Len(obj.buffer_) >= Size => Shared!On("size") \cup Shared!On("flush") # {}
  BY DEF EventInv, Shared!On
<1>9. \A S : Shared!Cardinality(S) = Cardinality(S)
  BY Zenon DEF Shared!Cardinality, Cardinality
<1>10. QED
  BY <1>5, <1>6, <1>7, <1>8, <1>9 DEF Shared!DeliveredOnce, EventPlaces, At
-----------------------------------------------------------------------------
\* What is at a place is one of all.
LEMMA IsThere ==
  ASSUME NEW P, NEW S, NEW all, NEW at, Once(at, P, S, all), NEW p \in P, NEW e \in S, at[p] = <<e>>
  PROVE  e \in all
<1>1. 1 \in 1..Len(at[p]) /\ at[p][1] = e
  OBVIOUS
<1>2. QED
  BY <1>1 DEF Once, Holds

\* The only thing at a place disappears.
LEMMA Vanishes ==
  ASSUME NEW P, NEW S, NEW all, NEW at, Once(at, P, S, all), NEW p \in P, NEW e \in S, at[p] = <<e>>,
         NEW new, new = [at EXCEPT ![p] = <<>>]
  PROVE  Once(new, P, S, all \ {e})
<1>1. /\ at \in [P -> Seq(S)] /\ all = {x \in S : \E q \in P : Holds(at[q], x)}
      /\ \A q, r \in P : \A i \in 1..Len(at[q]), j \in 1..Len(at[r]) : at[q][i] = at[r][j] => q = r /\ i = j
  BY DEF Once
<1>2. /\ new \in [P -> Seq(S)] /\ Len(new[p]) = 0 /\ Len(at[p]) = 1 /\ at[p][1] = e
      /\ \A q \in P \ {p} : new[q] = at[q]
  BY <1>1
<1>3. \A q \in P : \A i \in 1..Len(new[q]) : q # p /\ new[q] = at[q]
  BY <1>2
<1>4. \A q, r \in P : \A i \in 1..Len(new[q]), j \in 1..Len(new[r]) : new[q][i] = new[r][j] => q = r /\ i = j
  BY <1>1, <1>3
<1>5. ASSUME NEW x \in S, NEW q \in P, Holds(new[q], x)
      PROVE  x # e /\ Holds(at[q], x)
  <2>1. PICK i \in 1..Len(new[q]) : new[q][i] = x
    BY <1>5 DEF Holds
  <2>2. q # p /\ i \in 1..Len(at[q]) /\ at[q][i] = x
    BY <1>3, <2>1
  <2>3. 1 \in 1..Len(at[p])
    BY <1>2
  <2>4. x # e
    BY <1>1, <1>2, <2>2, <2>3
  <2>5. QED
    BY <2>2, <2>4 DEF Holds
<1>6. ASSUME NEW x \in S, NEW q \in P, Holds(at[q], x), x # e
      PROVE  Holds(new[q], x)
  BY <1>2, <1>6 DEF Holds
<1>7. Holds(at[p], e)
  BY <1>2 DEF Holds
<1>8. all \ {e} = {x \in S : \E q \in P : Holds(new[q], x)}
  BY <1>1, <1>5, <1>6
<1>9. QED
  BY <1>1, <1>2, <1>4, <1>7, <1>8 DEF Once
-----------------------------------------------------------------------------
(***************************************************************************)
(* ConnectionPool                                                          *)
(***************************************************************************)
PoolPlaces == Threads \cup {"pool"}
PoolWith(t) == IF log.held[t] = Empty THEN <<>> ELSE <<log.held[t]>>
PoolAt == [p \in PoolPlaces |-> IF p = "pool" THEN obj.pool_ ELSE PoolWith(p)]

PoolOrder ==
  /\ Once(PoolAt, PoolPlaces, Nat, (1..log.made) \ log.gone)
  /\ log.gone \subseteq 1..log.made
  /\ Len(obj.pool_) + Cardinality(Pool!Holders) + Cardinality(log.gone) = log.made
  /\ log.made <= MinSize \/ log.made <= MaxSize
  /\ ~obj.closed_ => log.gone = {} /\ obj.activeConnections_ = Cardinality(Pool!Holders)
  /\ \A t \in Threads : pc[t] # Pool!Idle => log.held[t] = Empty

\* What is where, now and after a step.
LEMMA PoolFacts ==
  /\ \A t \in Threads : t # "pool" /\ t \in PoolPlaces
  /\ "pool" \in PoolPlaces
  /\ PoolAt["pool"] = obj.pool_ /\ PoolAt'["pool"] = obj'.pool_
  /\ \A t \in Threads : PoolAt[t] = PoolWith(t) /\ PoolAt'[t] = PoolWith(t)'
  /\ \A t \in Threads : PoolWith(t)' = IF log'.held[t] = Empty THEN <<>> ELSE <<log'.held[t]>>
  /\ DOMAIN PoolAt = PoolPlaces /\ DOMAIN PoolAt' = PoolPlaces
  /\ IsFiniteSet(Pool!Holders) /\ Cardinality(Pool!Holders) \in Nat
BY ThreadsAssumption, FS_Subset, FS_CardinalityType DEF Names, PoolPlaces, PoolAt, PoolWith, Pool!Holders

\* Two assignments of connections to places are the same if each place has the same.
LEMMA PoolSame ==
  ASSUME NEW new, new = [p \in PoolPlaces |-> new[p]], new["pool"] = obj'.pool_,
         \A t \in Threads : new[t] = PoolWith(t)'
  PROVE  PoolAt' = new
<1>1. ASSUME NEW p \in PoolPlaces
      PROVE  new[p] = PoolAt'[p]
  BY PoolFacts DEF PoolPlaces
<1>2. PoolAt' = [p \in PoolPlaces |-> PoolAt'[p]]
  BY DEF PoolAt
<1>3. QED
  BY <1>1, <1>2

\* Connections that are gone can be counted.
LEMMA GoneFinite ==
  ASSUME PoolTypes, PoolOrder
  PROVE  IsFiniteSet(log.gone) /\ Cardinality(log.gone) \in Nat
<1>1. log.made \in Nat /\ log.gone \in SUBSET (1..log.made)
  BY DEF PoolTypes, PoolOrder
<1>2. IsFiniteSet(1..log.made)
  BY <1>1, UpTo
<1>3. IsFiniteSet(log.gone)
  BY <1>1, <1>2, FS_Subset
<1>4. QED
  BY <1>3, FS_CardinalityType

\* A thread that gets a connection is one more that holds one, and one that
\* gives it back is one less.
LEMMA HoldersChange ==
  ASSUME PoolTypes, NEW t \in Threads
  PROVE  /\ \A c \in Nat : t \notin Pool!Holders /\ log'.held = [log.held EXCEPT ![t] = c] =>
              Pool!Holders' = Pool!Holders \cup {t} /\ Cardinality(Pool!Holders)' = Cardinality(Pool!Holders) + 1
         /\ t \in Pool!Holders /\ log'.held = [log.held EXCEPT ![t] = Empty] =>
              Pool!Holders' = Pool!Holders \ {t} /\ Cardinality(Pool!Holders)' = Cardinality(Pool!Holders) - 1
<1>1. log.held \in [Threads -> Nat \cup {Empty}] /\ Pool!Holders = {u \in Threads : log.held[u] # Empty}
      /\ Pool!Holders' = {u \in Threads : log'.held[u] # Empty} /\ IsFiniteSet(Pool!Holders)
  BY PoolFacts DEF PoolTypes, Pool!Holders
<1>2. ASSUME NEW c \in Nat, t \notin Pool!Holders, log'.held = [log.held EXCEPT ![t] = c]
      PROVE  Pool!Holders' = Pool!Holders \cup {t} /\ Cardinality(Pool!Holders)' = Cardinality(Pool!Holders) + 1
  <2>1. Pool!Holders' = Pool!Holders \cup {t}
    BY <1>1, <1>2, EmptyAssumption
  <2>2. QED
    BY <1>1, <1>2, <2>1, FS_AddElement
<1>3. ASSUME t \in Pool!Holders, log'.held = [log.held EXCEPT ![t] = Empty]
      PROVE  Pool!Holders' = Pool!Holders \ {t} /\ Cardinality(Pool!Holders)' = Cardinality(Pool!Holders) - 1
  <2>1. Pool!Holders' = Pool!Holders \ {t}
    BY <1>1, <1>3
  <2>2. QED
    BY <1>1, <1>3, <2>1, FS_RemoveElement
<1>4. QED
  BY <1>2, <1>3

\* A thread gets the connection at the front.
LEMMA TakeFrontKeeps ==
  ASSUME PoolInv, PoolOrder, NEW t \in Threads, t \notin Pool!Holders, ~obj.closed_, obj.pool_ # <<>>,
         Pool!TakeFront(t)
  PROVE  PoolOrder'
<1>0. PoolTypes /\ pc \in [Threads -> {Pool!Idle, Pool!Asleep, Pool!Woken}]
  BY DEF PoolInv, PoolWaiting, Waiting
<1> DEFINE c == Head(obj.pool_)
<1>1. /\ obj.pool_ \in Seq(Nat) /\ Tail(obj.pool_) \in Seq(Nat) /\ Taken(obj.pool_, Tail(obj.pool_), 1)
      /\ c = obj.pool_[1] /\ c \in Nat
  <2>1. obj.pool_ \in Seq(Nat)
    BY <1>0 DEF PoolTypes
  <2>2. QED
    BY <2>1, TailTaken, Shrunk
<1>2. Len(obj.pool_) \in Nat /\ Len(Tail(obj.pool_)) = Len(obj.pool_) - 1
  BY <1>1 DEF Taken
<1>3. /\ obj'.pool_ = Tail(obj.pool_) /\ obj'.closed_ = obj.closed_
      /\ obj'.activeConnections_ = obj.activeConnections_ + 1
      /\ log'.held = [log.held EXCEPT ![t] = c] /\ log'.made = log.made /\ log'.gone = log.gone
      /\ pc' = [pc EXCEPT ![t] = Pool!Idle]
  BY <1>0 DEF Pool!TakeFront, PoolTypes
<1> HIDE DEF c
<1>4. Cardinality(Pool!Holders)' = Cardinality(Pool!Holders) + 1 /\ Cardinality(Pool!Holders) \in Nat
  BY <1>0, <1>1, <1>3, HoldersChange, PoolFacts
<1>5. Once(PoolAt', PoolPlaces, Nat, (1..log.made) \ log.gone)
  <2> DEFINE new == [PoolAt EXCEPT !["pool"] = Tail(obj.pool_), ![t] = Append(@, PoolAt["pool"][1])]
  <2>1. PoolAt["pool"] = obj.pool_ /\ PoolAt[t] = <<>> /\ "pool" \in PoolPlaces /\ t \in PoolPlaces /\ t # "pool"
    BY PoolFacts DEF PoolWith, Pool!Holders
  <2>2. PoolAt' = new
    <3>1. new = [p \in PoolPlaces |-> new[p]] /\ new["pool"] = obj'.pool_
      BY <1>3, <2>1, PoolFacts
    <3>2. ASSUME NEW u \in Threads
          PROVE  new[u] = PoolWith(u)'
      <4>1. CASE u = t
        <5>1. new[t] = <<c>>
          BY <1>1, <2>1, PoolFacts
        <5>2. log'.held[t] = c /\ c # Empty
          BY <1>0, <1>1, <1>3, EmptyAssumption DEF PoolTypes
        <5>3. QED
          BY <4>1, <5>1, <5>2, PoolFacts
      <4>2. CASE u # t
        <5>1. new[u] = PoolWith(u)
          BY <4>2, PoolFacts
        <5>2. log'.held[u] = log.held[u]
          BY <1>0, <1>3, <4>2 DEF PoolTypes
        <5>3. QED
          BY <5>1, <5>2, PoolFacts DEF PoolWith
      <4>3. QED
        BY <4>1, <4>2
    <3> HIDE DEF new
    <3>3. QED
      BY <3>1, <3>2, PoolSame
  <2>3. Once(new, PoolPlaces, Nat, (1..log.made) \ log.gone)
    <3> HIDE DEF new
    <3>1. Once(PoolAt, PoolPlaces, Nat, (1..log.made) \ log.gone)
      BY DEF PoolOrder
    <3>2. Taken(PoolAt["pool"], Tail(obj.pool_), 1)
      BY <1>1, <2>1
    <3>3. QED
      BY <1>1, <2>1, <3>1, <3>2, Travels DEF new
  <2>4. QED
    BY <2>2, <2>3
<1>6. \A u \in Threads : pc'[u] # Pool!Idle => log'.held[u] = Empty
  <2>1. pc'[t] = Pool!Idle /\ \A u \in Threads \ {t} : pc'[u] = pc[u] /\ log'.held[u] = log.held[u]
    BY <1>0, <1>3 DEF PoolTypes
  <2>2. QED
    BY <2>1 DEF PoolOrder
<1>7. QED
  <2>1. Len(obj'.pool_) + Cardinality(Pool!Holders)' + Cardinality(log'.gone) = log'.made
    <3>1. Len(obj.pool_) + Cardinality(Pool!Holders) + Cardinality(log.gone) = log.made /\ log.gone \subseteq 1..log.made
      BY DEF PoolOrder
    <3>2. log.made \in Nat /\ Cardinality(log.gone) \in Nat
      BY <1>0, GoneFinite DEF PoolTypes
    <3>3. QED
      BY <1>2, <1>3, <1>4, <3>1, <3>2
  <2>2. QED
    BY <1>3, <1>4, <1>5, <1>6, <2>1 DEF PoolOrder, PoolTypes

\* A thread gets a connection made for it: there are fewer than MaxSize then.
LEMMA CreateKeeps ==
  ASSUME PoolInv, PoolOrder, NEW t \in Threads, t \notin Pool!Holders, ~obj.closed_, obj.pool_ = <<>>,
         pc[t] = Pool!Idle, obj.activeConnections_ < MaxSize, Pool!Create(t)
  PROVE  PoolOrder'
<1>0. PoolTypes /\ pc \in [Threads -> {Pool!Idle, Pool!Asleep, Pool!Woken}]
  BY DEF PoolInv, PoolWaiting, Waiting
<1> DEFINE c == log.made + 1
<1>1. log.made \in Nat /\ c \in Nat /\ log.gone = {} /\ Cardinality(log.gone) = 0 /\ Len(obj.pool_) = 0
  <2>1. log.made \in Nat /\ log.gone = {} /\ Cardinality({}) = 0 /\ Len(<<>>) = 0
    BY <1>0, FS_EmptySet DEF PoolTypes, PoolOrder
  <2>2. QED
    BY <2>1
<1>2. log.made < MaxSize /\ MaxSize \in Nat
  BY <1>1, PoolFacts, SizesAssumption DEF PoolOrder
<1>3. /\ obj'.pool_ = obj.pool_ /\ obj'.closed_ = obj.closed_
      /\ obj'.activeConnections_ = obj.activeConnections_ + 1
      /\ log'.held = [log.held EXCEPT ![t] = c] /\ log'.made = c /\ log'.gone = log.gone /\ pc' = pc
  BY <1>0 DEF Pool!Create, PoolTypes
<1>4. Cardinality(Pool!Holders)' = Cardinality(Pool!Holders) + 1 /\ Cardinality(Pool!Holders) \in Nat
  BY <1>0, <1>1, <1>3, HoldersChange, PoolFacts
<1>5. c \notin (1..log.made) \ log.gone /\ (1..c) \ log.gone = ((1..log.made) \ log.gone) \cup {c}
  BY <1>1
<1> HIDE DEF c
<1>6. Once(PoolAt', PoolPlaces, Nat, (1..c) \ log.gone)
  <2> DEFINE new == [PoolAt EXCEPT ![t] = Append(@, c)]
  <2>1. PoolAt[t] = <<>> /\ t \in PoolPlaces /\ t # "pool"
    BY PoolFacts DEF PoolWith, Pool!Holders
  <2>2. PoolAt' = new
    <3>1. new = [p \in PoolPlaces |-> new[p]] /\ new["pool"] = obj'.pool_
      BY <1>3, <2>1, PoolFacts
    <3>2. ASSUME NEW u \in Threads
          PROVE  new[u] = PoolWith(u)'
      <4>1. CASE u = t
        <5>1. new[t] = <<c>>
          BY <1>1, <2>1, PoolFacts
        <5>2. log'.held[t] = c /\ c # Empty
          BY <1>0, <1>1, <1>3, EmptyAssumption DEF PoolTypes
        <5>3. QED
          BY <4>1, <5>1, <5>2, PoolFacts
      <4>2. CASE u # t
        <5>1. new[u] = PoolWith(u)
          BY <4>2, PoolFacts
        <5>2. log'.held[u] = log.held[u]
          BY <1>0, <1>3, <4>2 DEF PoolTypes
        <5>3. QED
          BY <5>1, <5>2, PoolFacts DEF PoolWith
      <4>3. QED
        BY <4>1, <4>2
    <3> HIDE DEF new
    <3>3. QED
      BY <3>1, <3>2, PoolSame
  <2>3. Once(new, PoolPlaces, Nat, ((1..log.made) \ log.gone) \cup {c})
    <3> DEFINE all == (1..log.made) \ log.gone
    <3>1. Once(PoolAt, PoolPlaces, Nat, all) /\ c \notin all
      BY <1>5 DEF PoolOrder
    <3> HIDE DEF new, all
    <3>2. Once(new, PoolPlaces, Nat, all \cup {c})
      BY <1>1, <2>1, <3>1, Arrives DEF new
    <3>3. QED
      BY <3>2 DEF all
  <2>4. QED
    BY <1>5, <2>2, <2>3
<1>7. \A u \in Threads : pc'[u] # Pool!Idle => log'.held[u] = Empty
  <2>1. \A u \in Threads \ {t} : pc'[u] = pc[u] /\ log'.held[u] = log.held[u]
    BY <1>0, <1>3 DEF PoolTypes
  <2>2. QED
    BY <1>3, <2>1 DEF PoolOrder
<1>8. QED
  BY <1>1, <1>2, <1>3, <1>4, <1>5, <1>6, <1>7 DEF PoolOrder, PoolTypes, c

\* A connection given back goes to the end of an open pool, or is destroyed.
LEMMA ReleaseKeeps ==
  ASSUME PoolInv, PoolOrder, NEW t \in Threads, Pool!Release(t)
  PROVE  PoolOrder'
<1>0. PoolTypes /\ pc \in [Threads -> {Pool!Idle, Pool!Asleep, Pool!Woken}]
  BY DEF PoolInv, PoolWaiting, Waiting
<1> DEFINE c == log.held[t]
           all == (1..log.made) \ log.gone
<1>1. /\ obj.pool_ \in Seq(Nat) /\ c \in Nat /\ log.made \in Nat /\ t \in Pool!Holders
      /\ PoolAt[t] = <<c>> /\ Once(PoolAt, PoolPlaces, Nat, all)
  <2>1. /\ obj.pool_ \in Seq(Nat) /\ c \in Nat /\ c # Empty /\ log.made \in Nat /\ t \in Pool!Holders
    BY <1>0 DEF PoolTypes, Pool!Release, Pool!Holders
  <2>2. QED
    BY <2>1, PoolFacts DEF PoolOrder, PoolWith
<1>2. \A w \in Threads : PoolWith(w) = <<>> \/ PoolWith(w) = <<log.held[w]>>
  BY DEF PoolWith
<1>3. ASSUME log'.held = [log.held EXCEPT ![t] = Empty]
      PROVE  /\ PoolWith(t)' = <<>> /\ \A w \in Threads \ {t} : PoolWith(w)' = PoolWith(w)
             /\ Cardinality(Pool!Holders)' = Cardinality(Pool!Holders) - 1 /\ Cardinality(Pool!Holders) \in Nat
             /\ \A w \in Threads : log.held[w] = Empty => log'.held[w] = Empty
  BY <1>0, <1>1, <1>3, HoldersChange, PoolFacts DEF PoolTypes, PoolWith
<1>4. \A w \in Threads : pc'[w] # Pool!Idle => pc[w] # Pool!Idle
  <2>1. \A w \in Pool!In(Pool!Asleep) : w \in Threads /\ pc[w] # Pool!Idle
    BY PoolStates DEF Pool!In, Distinct
  <2>2. QED
    BY <1>0, <2>1 DEF Pool!Release
<1> HIDE DEF c, all
<1>5. CASE obj.closed_ /\ Pool!Drop(t) /\ UNCHANGED <<obj, pc>>
  <2>1. log'.held = [log.held EXCEPT ![t] = Empty] /\ log'.made = log.made /\ log'.gone = log.gone \cup {c}
    BY <1>0, <1>5 DEF Pool!Drop, PoolTypes, c
  <2>2. c \in all /\ Once(PoolAt', PoolPlaces, Nat, all \ {c})
    <3> DEFINE new == [PoolAt EXCEPT ![t] = <<>>]
    <3>1. PoolAt' = new
      <4>1. new = [p \in PoolPlaces |-> new[p]] /\ new["pool"] = obj'.pool_
        BY <1>5, PoolFacts
      <4>2. \A u \in Threads : new[u] = PoolWith(u)'
        BY <1>3, <2>1, PoolFacts
      <4> HIDE DEF new
      <4>3. QED
        BY <4>1, <4>2, PoolSame
    <3>2. t \in PoolPlaces
      BY PoolFacts
    <3>5. new = [PoolAt EXCEPT ![t] = <<>>]
      OBVIOUS
    <3> HIDE DEF new
    <3>3. c \in all /\ Once(new, PoolPlaces, Nat, all \ {c})
      <4>1. Once(PoolAt, PoolPlaces, Nat, all) /\ t \in PoolPlaces /\ c \in Nat /\ PoolAt[t] = <<c>>
        BY <1>1, <3>2
      <4>2. c \in all
        BY <4>1, IsThere
      <4>3. Once(new, PoolPlaces, Nat, all \ {c})
        BY <3>5, <4>1, Vanishes
      <4>4. QED
        BY <4>2, <4>3
    <3>4. QED
      BY <3>1, <3>3
  <2>3. all \ {c} = (1..log'.made) \ log'.gone /\ log'.gone \subseteq 1..log'.made /\ c \notin log.gone
    BY <2>1, <2>2 DEF all, PoolOrder
  <2>4. Cardinality(log'.gone) = Cardinality(log.gone) + 1 /\ Cardinality(log.gone) \in Nat
    BY <1>0, <2>1, <2>3, GoneFinite, FS_AddElement
  <2>5. Len(obj'.pool_) + Cardinality(Pool!Holders)' + Cardinality(log'.gone) = log'.made
    <3>1. Len(obj.pool_) + Cardinality(Pool!Holders) + Cardinality(log.gone) = log.made /\ Len(obj.pool_) \in Nat
      BY <1>1 DEF PoolOrder
    <3>2. QED
      BY <1>3, <1>5, <2>1, <2>4, <3>1
  <2>6. \A w \in Threads : pc'[w] # Pool!Idle => log'.held[w] = Empty
    BY <1>3, <1>4, <2>1 DEF PoolOrder
  <2>7. QED
    BY <1>5, <2>1, <2>2, <2>3, <2>5, <2>6 DEF PoolOrder
<1>6. CASE /\ ~obj.closed_
           /\ obj' = [obj EXCEPT !.pool_ = Append(@, log.held[t]), !.activeConnections_ = @ - 1]
           /\ log' = [log EXCEPT !.held[t] = Empty]
  <2>1. /\ log'.held = [log.held EXCEPT ![t] = Empty] /\ log'.made = log.made /\ log'.gone = log.gone
        /\ obj'.pool_ = Append(obj.pool_, c) /\ obj'.activeConnections_ = obj.activeConnections_ - 1
        /\ obj'.closed_ = obj.closed_ /\ Len(obj'.pool_) = Len(obj.pool_) + 1 /\ Len(obj.pool_) \in Nat
    <3>1. Len(Append(obj.pool_, c)) = Len(obj.pool_) + 1 /\ Len(obj.pool_) \in Nat
      BY <1>1
    <3>2. QED
      BY <1>0, <1>6, <3>1 DEF PoolTypes, c
  <2>2. Once(PoolAt', PoolPlaces, Nat, all)
    <3> DEFINE new == [PoolAt EXCEPT ![t] = <<>>, !["pool"] = Append(@, PoolAt[t][1])]
    <3>1. PoolAt' = new
      <4>1. new = [p \in PoolPlaces |-> new[p]] /\ new["pool"] = obj'.pool_
        <5>1. PoolAt[t][1] = c
          BY <1>1
        <5>2. QED
          BY <2>1, <5>1, PoolFacts
      <4>2. \A u \in Threads : new[u] = PoolWith(u)'
        BY <1>3, <2>1, PoolFacts
      <4> HIDE DEF new
      <4>3. QED
        BY <4>1, <4>2, PoolSame
    <3>2. t \in PoolPlaces /\ "pool" \in PoolPlaces /\ t # "pool"
      BY PoolFacts
    <3>3. Taken(PoolAt[t], <<>>, 1)
      BY <1>1 DEF Taken
    <3> HIDE DEF new
    <3>4. Once(new, PoolPlaces, Nat, all)
      <4>1. <<>> \in Seq(Nat)
        OBVIOUS
      <4>2. QED
        BY <1>1, <3>2, <3>3, <4>1, Travels DEF new
    <3>5. QED
      BY <3>1, <3>4
  <2>3. Len(obj'.pool_) + Cardinality(Pool!Holders)' + Cardinality(log'.gone) = log'.made
    <3>1. /\ Len(obj.pool_) + Cardinality(Pool!Holders) + Cardinality(log.gone) = log.made
          /\ Cardinality(log.gone) \in Nat
      BY <1>0, GoneFinite DEF PoolOrder
    <3>2. QED
      BY <1>3, <2>1, <3>1
  <2>4. \A w \in Threads : pc'[w] # Pool!Idle => log'.held[w] = Empty
    BY <1>3, <1>4, <2>1 DEF PoolOrder
  <2>5. QED
    BY <1>3, <1>6, <2>1, <2>2, <2>3, <2>4 DEF PoolOrder, all
<1>7. QED
  BY <1>5, <1>6 DEF Pool!Release

\* A step that leaves the connections where they are.
LEMMA PoolRests ==
  ASSUME PoolOrder, log' = log, obj'.pool_ = obj.pool_, obj'.activeConnections_ = obj.activeConnections_,
         obj.closed_ => obj'.closed_, \A t \in Threads : pc'[t] # Pool!Idle => log.held[t] = Empty
  PROVE  PoolOrder'
<1>1. PoolAt' = PoolAt /\ Pool!Holders' = Pool!Holders
  BY DEF PoolAt, PoolWith, Pool!Holders
<1>2. QED
  BY <1>1 DEF PoolOrder

\* Every step of the pool keeps the connections apart.
LEMMA PoolOrderStep ==
  ASSUME PoolInv, PoolOrder, Pool!Next
  PROVE  PoolOrder'
<1>0. PoolTypes /\ pc \in [Threads -> {Pool!Idle, Pool!Asleep, Pool!Woken}]
  BY DEF PoolInv, PoolWaiting, Waiting
<1>1. ASSUME NEW t \in Threads, NEW s, log' = log, obj' = obj, pc' = [pc EXCEPT ![t] = s], t \notin Pool!Holders
      PROVE  PoolOrder'
  <2>1. \A u \in Threads : pc'[u] # Pool!Idle => log.held[u] = Empty
    BY <1>0, <1>1 DEF PoolOrder, Pool!Holders
  <2>2. QED
    BY <1>1, <2>1, PoolRests
<1>2. ASSUME NEW t \in Threads, pc[t] # Pool!Idle
      PROVE  t \notin Pool!Holders
  BY <1>2 DEF PoolOrder, Pool!Holders
<1>3. ASSUME NEW t \in Threads, t \notin Pool!Holders, Pool!AfterWait(t)
      PROVE  PoolOrder'
  BY <1>1, <1>3, TakeFrontKeeps DEF Pool!AfterWait, Pool!Return
<1>4. ASSUME NEW t \in Threads, Pool!Acquire(t)
      PROVE  PoolOrder'
  BY <1>1, <1>4, TakeFrontKeeps, CreateKeeps DEF Pool!Acquire
<1>5. ASSUME NEW t \in Threads, Pool!AcquireWake(t) \/ Pool!AcquireTimeout(t)
      PROVE  PoolOrder'
  <2>1. t \notin Pool!Holders
    BY <1>2, <1>5, PoolStates DEF Pool!AcquireWake, Pool!AcquireTimeout, Distinct
  <2>2. QED
    BY <1>1, <1>3, <1>5, <2>1 DEF Pool!AcquireWake, Pool!AcquireTimeout
<1>6. CASE Pool!Close
  <2>1. \A t \in Threads : pc'[t] # Pool!Idle => pc[t] # Pool!Idle
    BY <1>0, <1>6, PoolStates DEF Pool!Close, Distinct
  <2>2. /\ log' = log /\ obj'.pool_ = obj.pool_ /\ obj'.activeConnections_ = obj.activeConnections_
        /\ obj'.closed_
    BY <1>0, <1>6 DEF Pool!Close, PoolTypes
  <2>3. QED
    BY <2>1, <2>2, PoolRests DEF PoolOrder
<1>7. QED
  BY <1>4, <1>5, <1>6, ReleaseKeeps DEF Pool!Next

\* The constructor puts the first connections in the pool.
LEMMA PoolOrderInit ==
  ASSUME Pool!Init
  PROVE  PoolOrder
<1>1. /\ obj = [pool_ |-> [i \in 1..MinSize |-> i], activeConnections_ |-> 0, closed_ |-> FALSE]
      /\ pc = [t \in Threads |-> Pool!Idle]
      /\ log = [made |-> MinSize, held |-> [t \in Threads |-> Empty], gone |-> {}]
  BY DEF Pool!Init
<1>2. MinSize \in Nat
  BY SizesAssumption
<1>3. obj.pool_ \in Seq(Nat) /\ Len(obj.pool_) = MinSize /\ \A i \in 1..MinSize : obj.pool_[i] = i
  BY <1>1, <1>2
<1>4. PoolAt["pool"] = obj.pool_ /\ \A t \in Threads : PoolAt[t] = <<>>
  BY <1>1, PoolFacts DEF PoolWith
<1>5. Pool!Holders = {} /\ Cardinality({}) = 0
  BY <1>1, FS_EmptySet DEF Pool!Holders
<1>6. Once(PoolAt, PoolPlaces, Nat, (1..MinSize) \ {})
  <2>1. \A p \in PoolPlaces : PoolAt[p] \in Seq(Nat) /\ \A i \in 1..Len(PoolAt[p]) : p = "pool" /\ PoolAt[p][i] = i
    <3>1. \A t \in Threads : Len(PoolAt[t]) = 0 /\ PoolAt[t] \in Seq(Nat)
      <4>1. Len(<<>>) = 0 /\ <<>> \in Seq(Nat)
        OBVIOUS
      <4>2. QED
        BY <1>4, <4>1
    <3>2. QED
      BY <1>2, <1>3, <1>4, <3>1 DEF PoolPlaces
  <2>2. PoolAt \in [PoolPlaces -> Seq(Nat)]
    <3>1. PoolAt = [p \in PoolPlaces |-> PoolAt[p]]
      BY DEF PoolAt
    <3>2. QED
      BY <2>1, <3>1
  <2>3. (1..MinSize) \ {} = {e \in Nat : \E p \in PoolPlaces : Holds(PoolAt[p], e)}
    <3>1. \A e \in 1..MinSize : e \in Nat /\ Holds(PoolAt["pool"], e) /\ "pool" \in PoolPlaces
      BY <1>2, <1>3, <1>4, PoolFacts DEF Holds
    <3>2. \A e \in Nat : \A p \in PoolPlaces : Holds(PoolAt[p], e) => e \in 1..MinSize
      BY <1>3, <1>4, <2>1 DEF Holds
    <3>3. QED
      BY <3>1, <3>2
  <2>4. QED
    BY <2>1, <2>2, <2>3 DEF Once
<1>7. QED
  BY <1>1, <1>2, <1>3, <1>5, <1>6 DEF PoolOrder

\* The invariant says where the connections are.
LEMMA PoolMeans ==
  ASSUME PoolTypes, PoolOrder
  PROVE  Pool!HandedOutOnce
<1>1. \A S : Pool!Cardinality(S) = Cardinality(S)
  BY Zenon DEF Pool!Cardinality, Cardinality
<1>2. obj.pool_ \in Seq(Nat) /\ log.held \in [Threads -> Nat \cup {Empty}] /\ DOMAIN obj.pool_ = 1..Len(obj.pool_)
  BY DEF PoolTypes
<1> DEFINE pooled == {obj.pool_[i] : i \in DOMAIN obj.pool_}
           out == {log.held[t] : t \in Pool!Holders}
<1>3. \A e \in Nat : (\E p \in PoolPlaces : Holds(PoolAt[p], e)) <=> e \in pooled \cup out
  <2>1. \A e \in Nat : Holds(PoolAt["pool"], e) <=> e \in pooled
    BY <1>2, PoolFacts DEF Holds
  <2>2. ASSUME NEW e \in Nat, NEW t \in Threads
        PROVE  Holds(PoolAt[t], e) <=> t \in Pool!Holders /\ log.held[t] = e
    <3>1. CASE log.held[t] = Empty
      <4>1. PoolAt[t] = <<>> /\ Len(<<>>) = 0
        BY <3>1, PoolFacts DEF PoolWith
      <4>2. QED
        BY <3>1, <4>1 DEF Holds, Pool!Holders
    <3>2. CASE log.held[t] # Empty
      <4>1. PoolAt[t] = <<log.held[t]>> /\ Len(<<log.held[t]>>) = 1
        BY <3>2, PoolFacts DEF PoolWith
      <4>2. QED
        BY <3>2, <4>1 DEF Holds, Pool!Holders
    <3>3. QED
      BY <3>1, <3>2
  <2>3. Pool!Holders \subseteq Threads
    BY DEF Pool!Holders
  <2>4. QED
    BY <2>1, <2>2, <2>3 DEF PoolPlaces
<1>4. pooled \cup out \subseteq Nat
  BY <1>2 DEF Pool!Holders
<1>5. (1..log.made) \ log.gone = {e \in Nat : \E p \in PoolPlaces : Holds(PoolAt[p], e)} /\ log.gone \subseteq 1..log.made
  BY DEF PoolOrder, Once
<1> HIDE DEF pooled, out
<1>6. pooled \cup out \cup log.gone = 1..log.made
  BY <1>3, <1>4, <1>5
<1>7. QED
  BY <1>1, <1>6 DEF Pool!HandedOutOnce, PoolOrder, pooled, out
-----------------------------------------------------------------------------
(***************************************************************************)
(* RingBuffer, of the program of its own and of the demo                   *)
(***************************************************************************)
\* The slot that an index stands for.
Slot(i, c) == i % c

\* The n slots of c from h on, going round, hold the elements of q, and t is
\* the one behind them.
Circle(b, h, t, n, c, S, q) ==
  /\ DOMAIN b = 0..c - 1 /\ b = [i \in DOMAIN b |-> b[i]]
  /\ n \in 0..c /\ q \in Seq(S) /\ Len(q) = n
  /\ c > 0 => h \in 0..c - 1 /\ t = Slot(h + n, c)
  /\ \A i \in 1..n : b[Slot(h + i - 1, c)] = q[i]

\* An index goes round at most once.
LEMMA Wraps ==
  ASSUME NEW c \in Nat \ {0}
  PROVE  \A h \in 0..c - 1 : \A i \in 0..c :
           Slot(h + i, c) = (IF h + i < c THEN h + i ELSE h + i - c) /\ Slot(h + i, c) \in 0..c - 1
<1> SUFFICES ASSUME NEW h \in 0..c - 1, NEW i \in 0..c
             PROVE  Slot(h + i, c) = (IF h + i < c THEN h + i ELSE h + i - c) /\ Slot(h + i, c) \in 0..c - 1
  OBVIOUS
<1>1. \A a \in 0..c - 1 : Slot(a, c) = a /\ Slot(a + c, c) = a
  BY DEF Slot
<1>2. CASE h + i < c
  BY <1>1, <1>2
<1>3. CASE h + i >= c
  <2>1. PICK a \in 0..c - 1 : h + i = a + c
    BY <1>3
  <2>2. QED
    BY <1>1, <2>1
<1>4. QED
  BY <1>2, <1>3

\* A push fills the slot at the end, which is none of the others.
LEMMA CirclePush ==
  ASSUME NEW c \in Nat, NEW S, NEW b, NEW h, NEW t, NEW n, NEW q, Circle(b, h, t, n, c, S, q),
         n < c, NEW v \in S
  PROVE  Circle([b EXCEPT ![t] = v], h, Slot(t + 1, c), n + 1, c, S, Append(q, v))
<1>1. /\ DOMAIN b = 0..c - 1 /\ b = [i \in DOMAIN b |-> b[i]]
      /\ n \in 0..c /\ q \in Seq(S) /\ Len(q) = n /\ c \in Nat \ {0} /\ 1 \in 0..c /\ 0 \in 0..c
      /\ h \in 0..c - 1 /\ t = Slot(h + n, c)
      /\ \A i \in 1..n : b[Slot(h + i - 1, c)] = q[i]
  BY DEF Circle
<1>2. t = (IF h + n < c THEN h + n ELSE h + n - c) /\ t \in 0..c - 1
  BY <1>1, Wraps
<1>3. Slot(t + 1, c) = Slot(h + (n + 1), c)
  <2>1. Slot(t + 1, c) = IF t + 1 < c THEN t + 1 ELSE t + 1 - c
    BY <1>1, <1>2, Wraps
  <2>2. n + 1 \in 0..c
    BY <1>1
  <2>3. Slot(h + (n + 1), c) = IF h + (n + 1) < c THEN h + (n + 1) ELSE h + (n + 1) - c
    BY <1>1, <2>2, Wraps
  <2>4. QED
    BY <1>1, <1>2, <2>1, <2>3
<1>4. /\ Append(q, v) \in Seq(S) /\ Len(Append(q, v)) = n + 1 /\ Append(q, v)[n + 1] = v
      /\ \A i \in 1..n : Append(q, v)[i] = q[i]
  BY <1>1, Grown
<1> DEFINE new == [b EXCEPT ![t] = v]
<1>5. DOMAIN new = 0..c - 1 /\ new = [i \in DOMAIN new |-> new[i]] /\ new[t] = v /\ \A i \in 0..c - 1 : i # t => new[i] = b[i]
  BY <1>1, <1>2
<1> HIDE DEF new
<1>6. ASSUME NEW i \in 1..n + 1
      PROVE  new[Slot(h + i - 1, c)] = Append(q, v)[i]
  <2>1. i - 1 \in 0..c /\ i - 1 <= n
    BY <1>1
  <2> DEFINE k == Slot(h + (i - 1), c)
  <2>2. k = (IF h + (i - 1) < c THEN h + (i - 1) ELSE h + (i - 1) - c) /\ k \in 0..c - 1
    BY <1>1, <2>1, Wraps
  <2>3. h + i - 1 = h + (i - 1)
    BY <1>1
  <2>4. k = Slot(h + i - 1, c)
    BY <2>3
  <2> HIDE DEF k
  <2>5. CASE i = n + 1
    <3>1. k = t
      BY <1>1, <1>2, <2>2, <2>5
    <3>2. QED
      BY <1>4, <1>5, <2>4, <2>5, <3>1
  <2>6. CASE i # n + 1
    <3>1. i \in 1..n /\ k # t
      BY <1>1, <1>2, <2>2, <2>6
    <3>2. QED
      BY <1>1, <1>4, <1>5, <2>2, <2>4, <3>1
  <2>7. QED
    BY <2>5, <2>6
<1>7. QED
  BY <1>1, <1>3, <1>4, <1>5, <1>6 DEF Circle, new

\* A pop leaves the slot at the head.
LEMMA CirclePop ==
  ASSUME NEW c \in Nat, NEW S, NEW b, NEW h, NEW t, NEW n, NEW q, Circle(b, h, t, n, c, S, q), n > 0
  PROVE  b[h] = Head(q) /\ q # <<>> /\ Circle(b, Slot(h + 1, c), t, n - 1, c, S, Tail(q))
<1>1. /\ DOMAIN b = 0..c - 1 /\ b = [i \in DOMAIN b |-> b[i]]
      /\ n \in 1..c /\ q \in Seq(S) /\ Len(q) = n /\ c \in Nat \ {0} /\ 1 \in 0..c /\ 0 \in 0..c
      /\ h \in 0..c - 1 /\ t = Slot(h + n, c)
      /\ \A i \in 1..n : b[Slot(h + i - 1, c)] = q[i]
  BY DEF Circle
<1>2. q # <<>>
  BY <1>1
<1>3. /\ Tail(q) \in Seq(S) /\ Len(Tail(q)) = n - 1 /\ Head(q) = q[1]
      /\ \A i \in 1..n - 1 : Tail(q)[i] = q[i + 1]
  BY <1>1, <1>2, Shrunk
<1> DEFINE g == Slot(h + 1, c)
<1>4. g = (IF h + 1 < c THEN h + 1 ELSE h + 1 - c) /\ g \in 0..c - 1
  BY <1>1, Wraps
<1> HIDE DEF g
<1>5. t = Slot(g + (n - 1), c)
  <2>1. t = IF h + n < c THEN h + n ELSE h + n - c
    BY <1>1, Wraps
  <2>2. n - 1 \in 0..c
    BY <1>1
  <2>3. Slot(g + (n - 1), c) = IF g + (n - 1) < c THEN g + (n - 1) ELSE g + (n - 1) - c
    BY <1>1, <1>4, <2>2, Wraps
  <2>4. QED
    BY <1>1, <1>4, <2>1, <2>3
<1>6. b[h] = Head(q)
  <2>1. Slot(h + 0, c) = h
    BY <1>1, Wraps
  <2>2. h + 0 = h + 1 - 1 /\ 1 \in 1..n
    BY <1>1
  <2>3. b[Slot(h + 1 - 1, c)] = q[1]
    BY <1>1, <2>2
  <2>4. QED
    BY <1>3, <2>1, <2>2, <2>3
<1>7. ASSUME NEW i \in 1..n - 1
      PROVE  b[Slot(g + i - 1, c)] = Tail(q)[i]
  <2>1. i - 1 \in 0..c /\ i \in 0..c /\ i + 1 \in 1..n
    BY <1>1
  <2>2. Slot(g + (i - 1), c) = IF g + (i - 1) < c THEN g + (i - 1) ELSE g + (i - 1) - c
    BY <1>1, <1>4, <2>1, Wraps
  <2>3. Slot(h + i, c) = IF h + i < c THEN h + i ELSE h + i - c
    BY <1>1, <2>1, Wraps
  <2>4. Slot(g + (i - 1), c) = Slot(h + i, c)
    BY <1>1, <1>4, <2>2, <2>3
  <2>5. g + (i - 1) = g + i - 1 /\ h + i = h + (i + 1) - 1
    BY <1>1, <1>4
  <2>6. b[Slot(h + (i + 1) - 1, c)] = q[i + 1]
    BY <1>1, <2>1
  <2>7. QED
    BY <1>3, <2>4, <2>5, <2>6
<1>8. QED
  BY <1>1, <1>2, <1>3, <1>4, <1>5, <1>6, <1>7 DEF Circle, g

\* What the slots hold, read from the head on.
LEMMA CircleHolds ==
  ASSUME NEW c \in Nat, NEW S, NEW b, NEW h, NEW t, NEW n, NEW q, Circle(b, h, t, n, c, S, q)
  PROVE  [i \in 1..n |-> b[Slot(h + i - 1, c)]] = q
<1>1. n \in Nat /\ q \in Seq(S) /\ Len(q) = n /\ \A i \in 1..n : b[Slot(h + i - 1, c)] = q[i]
  BY DEF Circle
<1>2. q = [i \in 1..n |-> q[i]]
  BY <1>1
<1>3. QED
  BY <1>1, <1>2
-----------------------------------------------------------------------------
Popped(out) == [i \in DOMAIN out |-> out[i][2]]

\* A ring buffer o of c slots, and the history l of what the threads T did
\* with it: what was pushed has been popped or is still there, in order.
RingOf(o, l, c, S, T) ==
  /\ DOMAIN o = {"buffer_", "head_", "tail_", "size_"} /\ DOMAIN l = {"in", "out"}
  /\ l.in \in Seq(S) /\ l.out \in Seq(T \X S)
  /\ \E q : Circle(o.buffer_, o.head_, o.tail_, o.size_, c, S, q) /\ Through(l.in, Popped(l.out), q)

PopsMore(out, e, S, v) == Append(out, e) \in Seq(S) /\ Popped(Append(out, e)) = Append(Popped(out), v)

\* What was popped, without who did.
LEMMA PoppedItems ==
  ASSUME NEW S, NEW T, NEW out \in Seq(T \X S)
  PROVE  /\ Popped(out) \in Seq(S)
         /\ \A t \in T : \A v \in S : PopsMore(out, <<t, v>>, T \X S, v)
<1>1. Len(out) \in Nat /\ DOMAIN out = 1..Len(out) /\ \A i \in 1..Len(out) : out[i] \in T \X S
  OBVIOUS
<1>2. \A i \in 1..Len(out) : out[i][2] \in S
  BY <1>1
<1>3. Popped(out) \in Seq(S) /\ Len(Popped(out)) = Len(out) /\ \A i \in 1..Len(out) : Popped(out)[i] = out[i][2]
  BY <1>1, <1>2 DEF Popped
<1>4. ASSUME NEW t \in T, NEW v \in S
      PROVE  PopsMore(out, <<t, v>>, T \X S, v)
  <2> DEFINE e == <<t, v>>
             more == Append(out, e)
  <2>1. e \in T \X S /\ e[2] = v
    OBVIOUS
  <2> HIDE DEF e
  <2>2. /\ more \in Seq(T \X S) /\ Len(more) = Len(out) + 1 /\ DOMAIN more = 1..Len(more)
        /\ more[Len(out) + 1] = e /\ \A i \in 1..Len(out) : more[i] = out[i]
    BY <2>1, Grown
  <2> HIDE DEF more
  <2>3. /\ Append(Popped(out), v) \in Seq(S) /\ Len(Append(Popped(out), v)) = Len(out) + 1
        /\ Append(Popped(out), v)[Len(out) + 1] = v
        /\ \A i \in 1..Len(out) : Append(Popped(out), v)[i] = out[i][2]
    BY <1>3, Grown
  <2>4. Popped(more) = [i \in 1..Len(out) + 1 |-> more[i][2]]
    BY <2>2 DEF Popped
  <2>5. \A i \in 1..Len(out) + 1 : more[i][2] = Append(Popped(out), v)[i]
    <3>1. \A i \in 1..Len(out) + 1 : i \in 1..Len(out) \/ i = Len(out) + 1
      BY <1>1
    <3>2. QED
      BY <2>1, <2>2, <2>3, <3>1
  <2>6. Append(Popped(out), v) = [i \in 1..Len(out) + 1 |-> Append(Popped(out), v)[i]]
    <3> DEFINE grown == Append(Popped(out), v)
    <3>1. grown \in Seq(S) /\ Len(grown) = Len(out) + 1
      BY <2>3
    <3> HIDE DEF grown
    <3>2. grown = [i \in 1..Len(out) + 1 |-> grown[i]]
      BY <3>1
    <3>3. QED
      BY <3>2 DEF grown
  <2>7. QED
    BY <2>2, <2>4, <2>5, <2>6 DEF more, e, PopsMore
<1>5. QED
  BY <1>3, <1>4

\* push() into a buffer that is not full.
LEMMA RingPushKeeps ==
  ASSUME NEW c \in Nat, NEW S, NEW T, NEW o, NEW l, RingOf(o, l, c, S, T), o.size_ < c, NEW v \in S,
         NEW o2, o2 = [o EXCEPT !.buffer_[o.tail_] = v, !.tail_ = Slot(@ + 1, c), !.size_ = @ + 1],
         NEW l2, l2 = [l EXCEPT !.in = Append(@, v)]
  PROVE  RingOf(o2, l2, c, S, T)
<1>1. PICK q : Circle(o.buffer_, o.head_, o.tail_, o.size_, c, S, q) /\ Through(l.in, Popped(l.out), q)
  BY DEF RingOf
<1>2. /\ DOMAIN o = {"buffer_", "head_", "tail_", "size_"} /\ DOMAIN l = {"in", "out"}
      /\ l.in \in Seq(S) /\ l.out \in Seq(T \X S) /\ Popped(l.out) \in Seq(S) /\ q \in Seq(S)
  BY <1>1, PoppedItems DEF RingOf, Circle
<1>3. /\ DOMAIN o2 = {"buffer_", "head_", "tail_", "size_"} /\ o2.buffer_ = [o.buffer_ EXCEPT ![o.tail_] = v]
      /\ o2.head_ = o.head_ /\ o2.tail_ = Slot(o.tail_ + 1, c) /\ o2.size_ = o.size_ + 1
      /\ DOMAIN l2 = {"in", "out"} /\ l2.in = Append(l.in, v) /\ l2.out = l.out
  BY <1>2
<1>4. Circle(o2.buffer_, o2.head_, o2.tail_, o2.size_, c, S, Append(q, v))
  BY <1>1, <1>3, CirclePush
<1>5. l2.in \in Seq(S) /\ Through(l2.in, Popped(l2.out), Append(q, v))
  BY <1>1, <1>2, <1>3, GoesIn
<1>6. QED
  BY <1>2, <1>3, <1>4, <1>5 DEF RingOf

\* The part that pop() and popWait() share, of a buffer that is not empty.
LEMMA RingTakeKeeps ==
  ASSUME NEW c \in Nat, NEW S, NEW T, NEW o, NEW l, RingOf(o, l, c, S, T), o.size_ > 0, NEW t \in T,
         NEW o2, o2 = [o EXCEPT !.head_ = Slot(@ + 1, c), !.size_ = @ - 1],
         NEW l2, l2 = [l EXCEPT !.out = Append(@, <<t, o.buffer_[o.head_]>>)]
  PROVE  RingOf(o2, l2, c, S, T)
<1>1. PICK q : Circle(o.buffer_, o.head_, o.tail_, o.size_, c, S, q) /\ Through(l.in, Popped(l.out), q)
  BY DEF RingOf
<1>2. /\ DOMAIN o = {"buffer_", "head_", "tail_", "size_"} /\ DOMAIN l = {"in", "out"}
      /\ l.in \in Seq(S) /\ l.out \in Seq(T \X S) /\ Popped(l.out) \in Seq(S) /\ q \in Seq(S)
  BY <1>1, PoppedItems DEF RingOf, Circle
<1> DEFINE v == o.buffer_[o.head_]
<1>3. /\ DOMAIN o2 = {"buffer_", "head_", "tail_", "size_"} /\ o2.buffer_ = o.buffer_
      /\ o2.head_ = Slot(o.head_ + 1, c) /\ o2.tail_ = o.tail_ /\ o2.size_ = o.size_ - 1
      /\ DOMAIN l2 = {"in", "out"} /\ l2.in = l.in /\ l2.out = Append(l.out, <<t, v>>)
  BY <1>2
<1> HIDE DEF v
<1>4. v = Head(q) /\ q # <<>> /\ Circle(o2.buffer_, o2.head_, o2.tail_, o2.size_, c, S, Tail(q))
  BY <1>1, <1>3, CirclePop DEF v
<1>5. v \in S /\ Through(l2.in, Append(Popped(l.out), v), Tail(q))
  BY <1>1, <1>2, <1>3, <1>4, ComesOut
<1>6. l2.out \in Seq(T \X S) /\ Popped(l2.out) = Append(Popped(l.out), v)
  <2>1. v \in S /\ t \in T /\ l.out \in Seq(T \X S)
    BY <1>2, <1>5
  <2>2. Append(l.out, <<t, v>>) \in Seq(T \X S) /\ Popped(Append(l.out, <<t, v>>)) = Append(Popped(l.out), v)
    <3>1. PopsMore(l.out, <<t, v>>, T \X S, v)
      BY <2>1, PoppedItems
    <3>2. QED
      BY <3>1 DEF PopsMore
  <2>3. QED
    BY <1>3, <2>2
<1>7. QED
  BY <1>2, <1>3, <1>4, <1>5, <1>6 DEF RingOf

\* clear() forgets what is there, and with it that it was pushed.
LEMMA RingClearKeeps ==
  ASSUME NEW c \in Nat, NEW S, NEW T, NEW o, NEW l, RingOf(o, l, c, S, T),
         NEW o2, o2 = [o EXCEPT !.head_ = 0, !.tail_ = 0, !.size_ = 0],
         NEW l2, l2 = [l EXCEPT !.in = SubSeq(@, 1, Len(@) - o.size_)]
  PROVE  RingOf(o2, l2, c, S, T)
<1>1. PICK q : Circle(o.buffer_, o.head_, o.tail_, o.size_, c, S, q) /\ Through(l.in, Popped(l.out), q)
  BY DEF RingOf
<1>2. /\ DOMAIN o = {"buffer_", "head_", "tail_", "size_"} /\ DOMAIN l = {"in", "out"}
      /\ l.in \in Seq(S) /\ l.out \in Seq(T \X S) /\ Popped(l.out) \in Seq(S) /\ q \in Seq(S) /\ Len(q) = o.size_
  BY <1>1, PoppedItems DEF RingOf, Circle
<1>3. /\ DOMAIN o2 = {"buffer_", "head_", "tail_", "size_"} /\ o2.buffer_ = o.buffer_
      /\ o2.head_ = 0 /\ o2.tail_ = 0 /\ o2.size_ = 0
      /\ DOMAIN l2 = {"in", "out"} /\ l2.in = SubSeq(l.in, 1, Len(l.in) - o.size_) /\ l2.out = l.out
  BY <1>2
<1>4. Circle(o2.buffer_, o2.head_, o2.tail_, o2.size_, c, S, <<>>)
  <2>1. c > 0 => 0 \in 0..c - 1 /\ 0 = Slot(0 + 0, c)
    BY DEF Slot
  <2>2. /\ <<>> \in Seq(S) /\ Len(<<>>) = 0 /\ 0 \in 0..c /\ DOMAIN o.buffer_ = 0..c - 1
        /\ o.buffer_ = [i \in DOMAIN o.buffer_ |-> o.buffer_[i]]
    BY <1>1 DEF Circle
  <2>3. \A i \in 1..0 : FALSE
    OBVIOUS
  <2>4. QED
    BY <1>3, <2>1, <2>2, <2>3 DEF Circle
<1>5. l2.in = Popped(l.out) /\ Popped(l.out) = Popped(l.out) \o <<>>
  <2> DEFINE p == Popped(l.out)
  <2>1. p \in Seq(S) /\ q \in Seq(S) /\ l.in = p \o q /\ Len(p) \in Nat /\ Len(q) \in Nat /\ Len(q) = o.size_
    BY <1>1, <1>2 DEF Through
  <2> HIDE DEF p
  <2>2. Len(l.in) - o.size_ = Len(p)
    BY <2>1, ConcatProperties
  <2>3. SubSeq(p \o q, 1, Len(p)) = p
    <3>1. /\ Len(SubSeq(p \o q, 1, Len(p))) = Len(p)
          /\ \A i \in 1..Len(p) : SubSeq(p \o q, 1, Len(p))[i] = p[i]
      BY <2>1
    <3>2. SubSeq(p \o q, 1, Len(p)) \in Seq(S)
      BY <2>1
    <3>3. QED
      BY <2>1, <3>1, <3>2, SeqEqual
  <2>4. p = p \o <<>>
    BY <2>1
  <2>5. QED
    BY <1>3, <2>1, <2>2, <2>3, <2>4 DEF p
<1>6. l2.in \in Seq(S) /\ Through(l2.in, Popped(l2.out), <<>>)
  BY <1>2, <1>3, <1>5 DEF Through
<1>7. QED
  BY <1>2, <1>3, <1>4, <1>6 DEF RingOf
-----------------------------------------------------------------------------
\* Every step of the ring buffer keeps the order.
LEMMA RingOrderStep ==
  ASSUME RingOf(obj, log, Slots, Items, Pair), Ring!Next
  PROVE  RingOf(obj', log', Slots, Items, Pair)
<1>0. Slots \in Nat
  BY SizesAssumption
<1>1. ASSUME NEW t \in Pair, Ring!Take(t), obj.size_ > 0
      PROVE  RingOf(obj', log', Slots, Items, Pair)
  BY <1>0, <1>1, RingTakeKeeps DEF Ring!Take, Ring!Advance, Slot
<1>2. ASSUME NEW t \in Pair, NEW v \in Items, Ring!Push(t, v)
      PROVE  RingOf(obj', log', Slots, Items, Pair)
  BY <1>0, <1>2, RingPushKeeps DEF Ring!Push, Ring!Advance, Slot
<1>3. CASE Ring!Clear
  BY <1>0, <1>3, RingClearKeeps DEF Ring!Clear
<1>4. CASE obj' = obj /\ log' = log
  BY <1>4
<1>5. ASSUME NEW t \in Pair,
             \/ Ring!PushFull(t) \/ Ring!Pop(t) \/ Ring!PopWait(t) \/ Ring!PopWake(t) \/ Ring!PopTimeout(t)
      PROVE  RingOf(obj', log', Slots, Items, Pair)
  BY <1>1, <1>4, <1>5
     DEF Ring!PushFull, Ring!Pop, Ring!PopWait, Ring!PopWake, Ring!PopTimeout, Ring!Return, Ring!vars
<1>6. QED
  BY <1>2, <1>3, <1>5 DEF Ring!Next

\* An empty buffer holds nothing.
LEMMA RingEmpty ==
  ASSUME NEW c \in Nat, NEW S, NEW T, NEW o, NEW l, NEW b, DOMAIN b = 0..c - 1, b = [i \in DOMAIN b |-> b[i]],
         o = [buffer_ |-> b, head_ |-> 0, tail_ |-> 0, size_ |-> 0], l = [in |-> <<>>, out |-> <<>>]
  PROVE  RingOf(o, l, c, S, T)
<1>1. Popped(<<>>) = <<>> /\ <<>> \o <<>> = <<>> /\ <<>> \in Seq(S) /\ <<>> \in Seq(T \X S) /\ Len(<<>>) = 0
  BY DEF Popped
<1>2. c > 0 => 0 \in 0..c - 1 /\ 0 = Slot(0 + 0, c)
  BY DEF Slot
<1>3. Circle(b, 0, 0, 0, c, S, <<>>)
  <2>1. \A i \in 1..0 : FALSE
    OBVIOUS
  <2>2. QED
    BY <1>1, <1>2, <2>1 DEF Circle
<1>4. QED
  BY <1>1, <1>3 DEF RingOf, Through

\* The new ring buffer is empty.
LEMMA RingOrderInit ==
  ASSUME Ring!Init
  PROVE  RingOf(obj, log, Slots, Items, Pair)
<1> DEFINE b == [i \in 0..Slots - 1 |-> Empty]
<1>1. DOMAIN b = 0..Slots - 1 /\ b = [i \in DOMAIN b |-> b[i]] /\ Slots \in Nat
  BY SizesAssumption
<1>2. obj = [buffer_ |-> b, head_ |-> 0, tail_ |-> 0, size_ |-> 0] /\ log = [in |-> <<>>, out |-> <<>>]
  BY DEF Ring!Init
<1> HIDE DEF b
<1>3. QED
  BY <1>1, <1>2, RingEmpty

InOrder(o, l, c) ==
  /\ l.in = Popped(l.out) \o [i \in 1..o.size_ |-> o.buffer_[Slot(o.head_ + i - 1, c)]]
  /\ c > 0 => o.tail_ = Slot(o.head_ + o.size_, c)

\* What the order says of the slots and the indexes.
LEMMA RingSays ==
  ASSUME NEW c \in Nat, NEW S, NEW T, NEW o, NEW l, RingOf(o, l, c, S, T)
  PROVE  InOrder(o, l, c)
<1>1. PICK q : Circle(o.buffer_, o.head_, o.tail_, o.size_, c, S, q) /\ Through(l.in, Popped(l.out), q)
  BY DEF RingOf
<1>2. [i \in 1..o.size_ |-> o.buffer_[Slot(o.head_ + i - 1, c)]] = q
  BY <1>1, CircleHolds
<1>3. QED
  BY <1>1, <1>2 DEF Circle, Through, InOrder

\* The invariant says that the buffer is first in, first out.
LEMMA RingMeans ==
  ASSUME RingOf(obj, log, Slots, Items, Pair)
  PROVE  Ring!Fifo
<1>1. Slots \in Nat
  BY SizesAssumption
<1>2. QED
  BY <1>1, RingSays DEF InOrder, Ring!Fifo, Ring!Contents, Popped, Slot
-----------------------------------------------------------------------------
DemoItems == Pair \X (1..2)
DemoOrder == RingOf(obj, log, 1, DemoItems, DemoThreads)

\* Every step of a producer or a consumer keeps the order.
LEMMA DemoOrderStep ==
  ASSUME DemoOrder, Demo!Next
  PROVE  DemoOrder'
<1>1. ASSUME NEW t \in DemoThreads, Demo!Ring!Take(t), obj.size_ > 0
      PROVE  DemoOrder'
  BY <1>1, RingTakeKeeps DEF Demo!Ring!Take, Demo!Ring!Advance, Slot, DemoOrder
<1>2. ASSUME NEW t \in Pair, NEW v \in DemoItems, Demo!Ring!Push(t, v)
      PROVE  DemoOrder'
  BY <1>2, RingPushKeeps DEF Demo!Ring!Push, Demo!Ring!Advance, Slot, DemoOrder
<1>3. ASSUME NEW p \in Pair, Demo!producer(p)
      PROVE  DemoOrder'
  <2> DEFINE n == Demo!produced(p)
             mine == {i \in DOMAIN log.in : log.in[i][1] = p}
  <2>1. IsFiniteSet(mine)
    <3>1. Len(log.in) \in Nat /\ DOMAIN log.in = 1..Len(log.in)
      BY DEF DemoOrder, RingOf
    <3>2. IsFiniteSet(1..Len(log.in)) /\ mine \subseteq 1..Len(log.in)
      BY <3>1, UpTo
    <3>3. QED
      BY <3>2, FS_Subset
  <2>2. n \in Nat
    <3>1. \A S : Demo!Cardinality(S) = Cardinality(S)
      BY Zenon DEF Demo!Cardinality, Cardinality
    <3>2. QED
      BY <2>1, <3>1, FS_CardinalityType DEF Demo!produced
  <2> HIDE DEF n
  <2>3. n < 2 /\ Demo!Ring!Push(p, <<p, n + 1>>)
    BY <1>3 DEF Demo!producer, n
  <2>4. <<p, n + 1>> \in DemoItems
    BY <2>2, <2>3 DEF DemoItems
  <2>5. QED
    BY <1>2, <2>3, <2>4
<1>4. ASSUME NEW c \in {"c1", "c2"}, Demo!consumer(c)
      PROVE  DemoOrder'
  <2>1. c \in DemoThreads
    BY DEF DemoThreads
  <2>2. CASE obj' = obj /\ log' = log
    BY <2>2 DEF DemoOrder
  <2>3. QED
    BY <1>1, <1>4, <2>1, <2>2
       DEF Demo!consumer, Demo!Ring!PopWait, Demo!Ring!PopWake, Demo!Ring!PopTimeout, Demo!Ring!Return
<1>5. QED
  BY <1>3, <1>4 DEF Demo!Next

\* The demo starts with an empty buffer.
LEMMA DemoOrderInit ==
  ASSUME Demo!Init
  PROVE  DemoOrder
<1> DEFINE b == [i \in 0..1 - 1 |-> Empty]
<1>1. DOMAIN b = 0..1 - 1 /\ b = [i \in DOMAIN b |-> b[i]]
  OBVIOUS
<1>2. obj = [buffer_ |-> b, head_ |-> 0, tail_ |-> 0, size_ |-> 0] /\ log = [in |-> <<>>, out |-> <<>>]
  BY DEF Demo!Init, Demo!Ring!Init
<1> HIDE DEF b
<1>3. QED
  BY <1>1, <1>2, RingEmpty DEF DemoOrder

\* The invariant says that the demo's buffer is first in, first out.
LEMMA DemoMeans ==
  ASSUME DemoOrder
  PROVE  Demo!Ring!Fifo
<1>1. InOrder(obj, log, 1)
  BY RingSays DEF DemoOrder
<1>2. QED
  BY <1>1 DEF InOrder, Demo!Ring!Fifo, Demo!Ring!Contents, Popped, Slot
-----------------------------------------------------------------------------
(***************************************************************************)
(* The three classes of CommandQueue                                       *)
(***************************************************************************)
TaskPlaces == Workers \cup {"tasks", "done"}
TaskWith(w) == IF pc[w].at = "exec" THEN <<pc[w].task>> ELSE <<>>
TasksAt ==
  [p \in TaskPlaces |-> IF p = "tasks" THEN obj.tasks_ ELSE IF p = "done" THEN log.out ELSE TaskWith(p)]
Carrying == Queue!In(Workers, "exec")

QueueOrder ==
  /\ DOMAIN log = {"in", "out"}
  /\ IsFiniteSet(log.in)
  /\ Once(TasksAt, TaskPlaces, Items, log.in)
  /\ Len(obj.tasks_) + Cardinality(Carrying) + Len(log.out) = Cardinality(log.in)
  /\ part # "ThreadPoolAdvanced" => obj.completedCount_ = Len(log.out)

\* What is where, now and after a step.
LEMMA TaskFacts ==
  /\ \A w \in Workers : w # "tasks" /\ w # "done" /\ w \in TaskPlaces
  /\ "tasks" \in TaskPlaces /\ "done" \in TaskPlaces
  /\ TasksAt["tasks"] = obj.tasks_ /\ TasksAt'["tasks"] = obj'.tasks_
  /\ TasksAt["done"] = log.out /\ TasksAt'["done"] = log'.out
  /\ \A w \in Workers : TasksAt[w] = TaskWith(w) /\ TasksAt'[w] = TaskWith(w)'
  /\ \A w \in Workers : TaskWith(w)' = IF pc'[w].at = "exec" THEN <<pc'[w].task>> ELSE <<>>
  /\ DOMAIN TasksAt = TaskPlaces /\ DOMAIN TasksAt' = TaskPlaces
BY DEF Workers, TaskPlaces, TasksAt, TaskWith

\* Two assignments of tasks to places are the same if each place has the same.
LEMMA TasksSame ==
  ASSUME NEW new, new = [p \in TaskPlaces |-> new[p]], new["tasks"] = obj'.tasks_, new["done"] = log'.out,
         \A w \in Workers : new[w] = TaskWith(w)'
  PROVE  TasksAt' = new
<1>1. ASSUME NEW p \in TaskPlaces
      PROVE  new[p] = TasksAt'[p]
  BY TaskFacts DEF TaskPlaces
<1>2. TasksAt' = [p \in TaskPlaces |-> TasksAt'[p]]
  BY DEF TasksAt, TaskPlaces, Workers
<1>3. QED
  BY <1>1, <1>2

\* How many workers have a task.
LEMMA CarryingCounts ==
  ASSUME NEW w \in Workers, \A u \in Workers \ {w} : pc'[u].at = "exec" <=> pc[u].at = "exec"
  PROVE  /\ Cardinality(Carrying) \in Nat
         /\ pc'[w].at = "exec" /\ pc[w].at # "exec" => Cardinality(Carrying)' = Cardinality(Carrying) + 1
         /\ pc'[w].at # "exec" /\ pc[w].at = "exec" => Cardinality(Carrying)' = Cardinality(Carrying) - 1
<1>1. /\ IsFiniteSet(Carrying) /\ Carrying = {u \in Workers : pc[u].at = "exec"}
      /\ Carrying' = {u \in Workers : pc'[u].at = "exec"}
  BY QueueSets DEF Carrying, Workers
<1>2. ASSUME pc'[w].at = "exec", pc[w].at # "exec"
      PROVE  Cardinality(Carrying)' = Cardinality(Carrying) + 1
  <2>1. Carrying' = Carrying \cup {w} /\ w \notin Carrying
    BY <1>1, <1>2
  <2>2. QED
    BY <1>1, <2>1, FS_AddElement
<1>3. ASSUME pc'[w].at # "exec", pc[w].at = "exec"
      PROVE  Cardinality(Carrying)' = Cardinality(Carrying) - 1
  <2>1. Carrying' = Carrying \ {w} /\ w \in Carrying
    BY <1>1, <1>3
  <2>2. QED
    BY <1>1, <2>1, FS_RemoveElement
<1>4. QED
  BY <1>1, <1>2, <1>3, FS_CardinalityType

\* Taking out the i-th leaves the others in their order.
LEMMA WithoutTaken ==
  ASSUME NEW s \in Seq(Items), NEW i \in 1..Len(s)
  PROVE  Queue!Without(s, i) \in Seq(Items) /\ Taken(s, Queue!Without(s, i), i)
<1> DEFINE a == SubSeq(s, 1, i - 1)
           b == SubSeq(s, i + 1, Len(s))
<1>1. Len(s) \in Nat /\ i \in Nat /\ i <= Len(s) /\ i >= 1
  OBVIOUS
<1>2. /\ a \in Seq(Items) /\ Len(a) = i - 1 /\ \A j \in 1..i - 1 : a[j] = s[j]
  BY <1>1
<1>3. /\ b \in Seq(Items) /\ Len(b) = Len(s) - i /\ \A j \in 1..Len(s) - i : b[j] = s[j + i]
  BY <1>1
<1>4. Queue!Without(s, i) = a \o b
  BY DEF Queue!Without
<1> HIDE DEF a, b
<1>5. /\ a \o b \in Seq(Items) /\ Len(a \o b) = Len(s) - 1
      /\ \A j \in 1..i - 1 : (a \o b)[j] = s[j]
      /\ \A j \in i..Len(s) - 1 : (a \o b)[j] = s[j + 1]
  <2>1. /\ a \o b \in Seq(Items) /\ Len(a \o b) = Len(a) + Len(b)
        /\ \A j \in 1..Len(a) + Len(b) : (a \o b)[j] = IF j <= Len(a) THEN a[j] ELSE b[j - Len(a)]
    BY <1>2, <1>3, ConcatProperties
  <2>2. ASSUME NEW j \in i..Len(s) - 1
        PROVE  (a \o b)[j] = s[j + 1]
    <3>1. j - (i - 1) \in 1..Len(s) - i /\ ~(j <= i - 1) /\ j \in 1..Len(a) + Len(b)
      BY <1>1, <1>2, <1>3
    <3>2. (a \o b)[j] = b[j - (i - 1)] /\ b[j - (i - 1)] = s[j - (i - 1) + i]
      BY <1>2, <1>3, <2>1, <3>1
    <3>3. j - (i - 1) + i = j + 1
      BY <1>1
    <3>4. QED
      BY <3>2, <3>3
  <2>3. \A j \in 1..i - 1 : (a \o b)[j] = s[j]
    BY <1>1, <1>2, <1>3, <2>1
  <2>4. QED
    BY <1>1, <1>2, <1>3, <2>1, <2>2, <2>3
<1>6. QED
  BY <1>1, <1>4, <1>5 DEF Taken

\* enqueue() puts a new task behind those that are queued.
LEMMA EnqueuePuts ==
  ASSUME QueueTypes, QueueOrder, UNCHANGED part, NEW c \in Pair, NEW k \in Items, Queue!Enqueue(c, k)
  PROVE  QueueOrder'
<1>1. /\ obj.tasks_ \in Seq(Items) /\ obj'.tasks_ = Append(obj.tasks_, k)
      /\ obj'.completedCount_ = obj.completedCount_ /\ k \notin log.in
      /\ DOMAIN log' = {"in", "out"} /\ log'.in = log.in \cup {k} /\ log'.out = log.out
  BY DEF Queue!Enqueue, QueueTypes, QueueOrder
<1>2. \A w \in Workers : pc'[w] = pc[w] /\ TaskWith(w)' = TaskWith(w)
  <2>1. \A w \in Workers : pc'[w] = pc[w]
    BY CallerMoves DEF Queue!Enqueue, CallerPlaces
  <2>2. QED
    BY <2>1 DEF TaskWith
<1>3. Carrying' = Carrying
  BY <1>2, QueueSets DEF Carrying, Workers
<1>4. Once(TasksAt', TaskPlaces, Items, log'.in)
  <2> DEFINE new == [TasksAt EXCEPT !["tasks"] = Append(@, k)]
  <2>1. TasksAt' = new
    <3>1. new = [p \in TaskPlaces |-> new[p]] /\ new["tasks"] = obj'.tasks_ /\ new["done"] = log'.out
      BY <1>1, TaskFacts
    <3>2. \A w \in Workers : new[w] = TaskWith(w)'
      BY <1>2, TaskFacts
    <3> HIDE DEF new
    <3>3. QED
      BY <3>1, <3>2, TasksSame
  <2>2. Once(TasksAt, TaskPlaces, Items, log.in) /\ "tasks" \in TaskPlaces /\ new = [TasksAt EXCEPT !["tasks"] = Append(@, k)]
    BY TaskFacts DEF QueueOrder
  <2> HIDE DEF new
  <2>3. Once(new, TaskPlaces, Items, log.in \cup {k})
    BY <1>1, <2>2, Arrives
  <2>4. QED
    BY <1>1, <2>1, <2>3
<1>5. IsFiniteSet(log'.in) /\ Cardinality(log'.in) = Cardinality(log.in) + 1 /\ Cardinality(log.in) \in Nat
  BY <1>1, FS_AddElement, FS_CardinalityType DEF QueueOrder
<1>6. Len(obj'.tasks_) = Len(obj.tasks_) + 1 /\ Len(obj.tasks_) \in Nat
  BY <1>1
<1>7. Len(obj'.tasks_) + Cardinality(Carrying') + Len(log'.out) = Cardinality(log'.in)
  <2>1. /\ Len(obj.tasks_) + Cardinality(Carrying) + Len(log.out) = Cardinality(log.in)
        /\ Cardinality(Carrying) \in Nat /\ Len(log.out) \in Nat
    <3>1. TasksAt["done"] \in Seq(Items)
      BY TaskFacts DEF QueueOrder, Once
    <3>2. IsFiniteSet(Carrying)
      BY QueueSets DEF Carrying
    <3>3. QED
      BY <3>1, <3>2, TaskFacts, FS_CardinalityType DEF QueueOrder
  <2>2. QED
    <3>1. Cardinality(Carrying)' = Cardinality(Carrying) /\ Len(log'.out) = Len(log.out)
      BY <1>1, <1>3
    <3>2. QED
      BY <1>5, <1>6, <2>1, <3>1
<1>8. QED
  BY <1>1, <1>4, <1>5, <1>7, TaskFacts DEF QueueOrder, TaskPlaces, Workers

\* A worker takes a task out of the queue.
LEMMA TakePuts ==
  ASSUME QueueTypes, QueueOrder, UNCHANGED part, NEW w \in Workers, NEW active, NEW i \in DOMAIN obj.tasks_,
         Queue!TakeTask(w, i, active)
  PROVE  QueueOrder'
<1> DEFINE s == obj.tasks_
           rest == Queue!Without(s, i)
<1>1. /\ s \in Seq(Items) /\ i \in 1..Len(s) /\ rest \in Seq(Items) /\ Taken(s, rest, i)
      /\ s[i] \in Items
  <2>1. s \in Seq(Items) /\ i \in 1..Len(s) /\ s[i] \in Items
    BY DEF QueueTypes
  <2> HIDE DEF s
  <2>2. QED
    BY <2>1, WithoutTaken
<1>2. /\ obj'.tasks_ = rest /\ obj'.completedCount_ = obj.completedCount_ /\ log' = log
      /\ pc' = [pc EXCEPT ![w] = Queue!Exec(s[i])] /\ pc[w].at = "loop"
  BY DEF Queue!TakeTask, QueueTypes
<1>3. /\ pc'[w] = Queue!Exec(s[i]) /\ \A u \in Workers \ {w} : pc'[u] = pc[u]
  BY <1>2, WorkerMoves
<1> HIDE DEF s, rest
<1>4. /\ TaskWith(w) = <<>> /\ TaskWith(w)' = <<s[i]>> /\ \A u \in Workers \ {w} : TaskWith(u)' = TaskWith(u)
      /\ pc'[w].at = "exec"
  <2>1. pc'[w].at = "exec" /\ pc'[w].task = s[i]
    BY <1>3 DEF Queue!Exec
  <2>2. QED
    BY <1>2, <1>3, <2>1 DEF TaskWith
<1>5. Cardinality(Carrying)' = Cardinality(Carrying) + 1 /\ Cardinality(Carrying) \in Nat
  BY <1>2, <1>3, <1>4, CarryingCounts
<1>6. Once(TasksAt', TaskPlaces, Items, log.in)
  <2> DEFINE new == [TasksAt EXCEPT !["tasks"] = rest, ![w] = Append(@, TasksAt["tasks"][i])]
  <2>1. TasksAt["tasks"] = s /\ TasksAt[w] = <<>> /\ "tasks" \in TaskPlaces /\ w \in TaskPlaces /\ w # "tasks" /\ w # "done"
    BY <1>4, TaskFacts DEF s
  <2>2. TasksAt' = new
    <3>1. new = [p \in TaskPlaces |-> new[p]] /\ new["tasks"] = obj'.tasks_ /\ new["done"] = log'.out
      BY <1>2, <2>1, TaskFacts
    <3>2. ASSUME NEW u \in Workers
          PROVE  new[u] = TaskWith(u)'
      <4>1. CASE u = w
        BY <1>4, <2>1, <4>1, TaskFacts
      <4>2. CASE u # w
        BY <1>4, <4>2, TaskFacts
      <4>3. QED
        BY <4>1, <4>2
    <3> HIDE DEF new
    <3>3. QED
      BY <3>1, <3>2, TasksSame
  <2>3. /\ Once(TasksAt, TaskPlaces, Items, log.in) /\ Taken(TasksAt["tasks"], rest, i)
        /\ new = [TasksAt EXCEPT !["tasks"] = rest, ![w] = Append(@, TasksAt["tasks"][i])]
    BY <1>1, <2>1 DEF QueueOrder
  <2> HIDE DEF new
  <2>4. Once(new, TaskPlaces, Items, log.in)
    BY <1>1, <2>1, <2>3, Travels
  <2>5. QED
    BY <2>2, <2>4
<1>7. Len(obj'.tasks_) + Cardinality(Carrying') + Len(log'.out) = Cardinality(log'.in)
  <2>1. Len(rest) = Len(s) - 1 /\ Len(s) \in Nat
    BY <1>1 DEF Taken
  <2>2. Len(s) + Cardinality(Carrying) + Len(log.out) = Cardinality(log.in) /\ Len(log.out) \in Nat
    <3>1. TasksAt["done"] \in Seq(Items)
      BY TaskFacts DEF QueueOrder, Once
    <3>2. QED
      BY <3>1, TaskFacts DEF QueueOrder, s
  <2>3. QED
    BY <1>2, <1>5, <2>1, <2>2
<1>8. QED
  BY <1>2, <1>6, <1>7, TaskFacts DEF QueueOrder, TaskPlaces, Workers

\* A task has been run, by the worker that had it.
LEMMA FinishPuts ==
  ASSUME QueueTypes, QueueOrder, UNCHANGED part, NEW w \in Workers, pc[w].at = "exec", pc'[w].at = "loop",
         \A u \in Workers \ {w} : pc'[u] = pc[u],
         obj'.tasks_ = obj.tasks_, log' = [log EXCEPT !.out = Append(@, pc[w].task)],
         part # "ThreadPoolAdvanced" => obj'.completedCount_ = obj.completedCount_ + 1
  PROVE  QueueOrder'
<1> DEFINE k == pc[w].task
<1>1. /\ TaskWith(w) = <<k>> /\ TaskWith(w)' = <<>> /\ \A u \in Workers \ {w} : TaskWith(u)' = TaskWith(u)
      /\ DOMAIN log' = {"in", "out"} /\ log'.in = log.in /\ log'.out = Append(log.out, k)
  BY DEF TaskWith, QueueOrder
<1>2. TasksAt["done"] \in Seq(Items) /\ TasksAt[w] \in Seq(Items) /\ TasksAt["tasks"] \in Seq(Items)
  BY TaskFacts DEF QueueOrder, Once
<1>3. log.out \in Seq(Items) /\ TasksAt[w] = <<k>> /\ k \in Items /\ obj.tasks_ \in Seq(Items)
  <2>1. log.out \in Seq(Items) /\ TasksAt[w] = <<k>> /\ obj.tasks_ \in Seq(Items)
    BY <1>1, <1>2, TaskFacts
  <2>2. <<k>> \in Seq(Items)
    BY <1>2, <2>1
  <2>3. k \in Items
    <3> HIDE DEF k
    <3>1. QED
      BY <2>2
  <2>4. QED
    BY <2>1, <2>3
<1>4. Cardinality(Carrying)' = Cardinality(Carrying) - 1 /\ Cardinality(Carrying) \in Nat
  BY CarryingCounts
<1> HIDE DEF k
<1>5. Once(TasksAt', TaskPlaces, Items, log.in)
  <2> DEFINE new == [TasksAt EXCEPT ![w] = <<>>, !["done"] = Append(@, TasksAt[w][1])]
  <2>1. TasksAt[w][1] = k /\ "done" \in TaskPlaces /\ w \in TaskPlaces /\ w # "done" /\ w # "tasks"
    BY <1>3, TaskFacts
  <2>2. TasksAt' = new
    <3>1. new = [p \in TaskPlaces |-> new[p]] /\ new["tasks"] = obj'.tasks_ /\ new["done"] = log'.out
      BY <1>1, <2>1, TaskFacts
    <3>2. \A u \in Workers : new[u] = TaskWith(u)'
      BY <1>1, TaskFacts
    <3> HIDE DEF new
    <3>3. QED
      BY <3>1, <3>2, TasksSame
  <2>3. /\ Once(TasksAt, TaskPlaces, Items, log.in) /\ Taken(TasksAt[w], <<>>, 1)
        /\ new = [TasksAt EXCEPT ![w] = <<>>, !["done"] = Append(@, TasksAt[w][1])] /\ <<>> \in Seq(Items)
    BY <1>3 DEF QueueOrder, Taken
  <2> HIDE DEF new
  <2>4. Once(new, TaskPlaces, Items, log.in)
    BY <2>1, <2>3, Travels
  <2>5. QED
    BY <2>2, <2>4
<1>6. Len(log'.out) = Len(log.out) + 1 /\ Len(log.out) \in Nat /\ Len(obj.tasks_) \in Nat
  BY <1>1, <1>3
<1>7. Len(obj'.tasks_) + Cardinality(Carrying') + Len(log'.out) = Cardinality(log'.in)
  <2>1. Len(obj.tasks_) + Cardinality(Carrying) + Len(log.out) = Cardinality(log.in)
    BY DEF QueueOrder
  <2>2. QED
    <3>1. Len(obj'.tasks_) = Len(obj.tasks_) /\ Cardinality(log'.in) = Cardinality(log.in)
      BY <1>1
    <3>2. QED
      <4> DEFINE a == Len(obj.tasks_)
                 n == Cardinality(Carrying)
                 z == Len(log.out)
                 all == Cardinality(log.in)
      <4>1. a \in Nat /\ n \in Nat /\ z \in Nat /\ a + n + z = all
        BY <1>4, <1>6, <2>1
      <4>2. Len(obj'.tasks_) = a /\ Cardinality(Carrying') = n - 1 /\ Len(log'.out) = z + 1 /\ Cardinality(log'.in) = all
        BY <1>4, <1>6, <3>1
      <4> HIDE DEF a, n, z, all
      <4>3. a + (n - 1) + (z + 1) = all
        BY <4>1
      <4>4. QED
        BY <4>2, <4>3
<1>8. QED
  BY <1>1, <1>5, <1>6, <1>7, TaskFacts DEF QueueOrder, TaskPlaces, Workers

\* A step that moves no task.
LEMMA TasksRest ==
  ASSUME QueueOrder, UNCHANGED part, log' = log, obj'.tasks_ = obj.tasks_, obj'.completedCount_ = obj.completedCount_,
         \A w \in Workers : pc'[w] = pc[w] \/ (pc'[w].at # "exec" /\ pc[w].at # "exec")
  PROVE  QueueOrder'
<1>1. TasksAt' = TasksAt
  BY DEF TasksAt, TaskPlaces, TaskWith, Workers
<1>2. Carrying' = Carrying
  BY QueueSets DEF Carrying, Workers
<1>3. QED
  BY <1>1, <1>2 DEF QueueOrder, TaskPlaces, Workers

\* What the callers do, enqueue() apart, moves no task.
LEMMA CallersRest ==
  ASSUME QueueTypes, QueueOrder, UNCHANGED part, NEW c \in Pair,
         Queue!ShutdownFlag(c) \/ Queue!Serve(c) \/ Queue!WaitForAll(c)
  PROVE  QueueOrder'
<1>1. log' = log /\ obj'.tasks_ = obj.tasks_ /\ obj'.completedCount_ = obj.completedCount_
  BY DEF QueueTypes, Queue!ShutdownFlag, Queue!Serve, Queue!EnqueueNotify, Queue!ShutdownNotify, Queue!ShutdownJoin,
         Queue!WaitForAll
<1>2. ASSUME NEW place \in CallerPlaces, Queue!Goto(c, place)
      PROVE  QueueOrder'
  <2>1. \A w \in Workers : pc'[w] = pc[w]
    BY <1>2, CallerMoves
  <2>2. \A w \in Workers : pc'[w] = pc[w] \/ (pc'[w].at # "exec" /\ pc[w].at # "exec")
    BY <2>1
  <2>3. QED
    BY <1>1, <2>2, TasksRest
<1>3. CASE Queue!EnqueueNotify(c)
  <2>1. CASE Queue!Goto(c, "idle")
    BY <1>2, <2>1 DEF CallerPlaces
  <2>2. ASSUME NEW u \in Queue!In(Workers, "asleep"), pc' = [pc EXCEPT ![c] = Queue!At("idle"), ![u] = Queue!At("loop")]
        PROVE  QueueOrder'
    <3>1. u \in Workers /\ pc[u].at = "asleep" /\ c \notin Workers /\ DOMAIN pc = Workers \cup Pair
      BY QueueSets, WorkersApart DEF QueueTypes
    <3>2. pc'[u] = Queue!At("loop") /\ \A w \in Workers \ {u} : pc'[w] = pc[w]
      BY <2>2, <3>1
    <3>3. pc'[u].at # "exec" /\ pc[u].at # "exec"
      BY <3>1, <3>2, QueuePlaces
    <3>4. \A w \in Workers : pc'[w] = pc[w] \/ (pc'[w].at # "exec" /\ pc[w].at # "exec")
      BY <3>2, <3>3
    <3>5. QED
      BY <1>1, <3>4, TasksRest
  <2>3. QED
    BY <1>3, <2>1, <2>2 DEF Queue!EnqueueNotify, Workers
<1>4. CASE Queue!ShutdownNotify(c)
  <2>1. /\ DOMAIN pc = Workers \cup Pair /\ c \notin Workers
        /\ \A t \in DOMAIN pc : Queue!Wake(Queue!In(Workers, "asleep"))[t] =
                                  IF t \in Queue!In(Workers, "asleep") THEN Queue!At("loop") ELSE pc[t]
        /\ DOMAIN Queue!Wake(Queue!In(Workers, "asleep")) = DOMAIN pc
        /\ pc' = [Queue!Wake(Queue!In(Workers, "asleep")) EXCEPT ![c] = Queue!At("join")]
    BY <1>4, WorkersApart DEF QueueTypes, Queue!Wake, Queue!ShutdownNotify, Workers
  <2>2. \A w \in Workers : pc'[w] = IF w \in Queue!In(Workers, "asleep") THEN Queue!At("loop") ELSE pc[w]
    BY <2>1
  <2>3. \A w \in Queue!In(Workers, "asleep") : pc[w].at # "exec"
    BY QueueSets
  <2>4. Queue!At("loop").at # "exec"
    BY QueuePlaces
  <2>5. \A w \in Workers : pc'[w] = pc[w] \/ (pc'[w].at # "exec" /\ pc[w].at # "exec")
    <3> SUFFICES ASSUME NEW w \in Workers
                 PROVE  pc'[w] = pc[w] \/ (pc'[w].at # "exec" /\ pc[w].at # "exec")
      OBVIOUS
    <3>1. CASE w \in Queue!In(Workers, "asleep")
      <4>1. pc'[w] = Queue!At("loop") /\ pc[w].at # "exec"
        BY <2>2, <2>3, <3>1
      <4>2. QED
        BY <2>4, <4>1
    <3>2. CASE w \notin Queue!In(Workers, "asleep")
      BY <2>2, <3>2
    <3>3. QED
      BY <3>1, <3>2
  <2>6. QED
    BY <1>1, <2>5, TasksRest
<1>5. CASE Queue!ShutdownFlag(c) \/ Queue!ShutdownJoin(c) \/ Queue!WaitForAll(c)
  BY <1>2, <1>5 DEF Queue!ShutdownFlag, Queue!ShutdownJoin, Queue!WaitForAll, CallerPlaces
<1>6. QED
  BY <1>3, <1>4, <1>5 DEF Queue!Serve

\* A worker goes to sleep, ends, or wakes up for no reason.
LEMMA WorkersRest ==
  ASSUME QueueTypes, QueueOrder, UNCHANGED part,
         (\E w \in Workers : Queue!NoTask(w)) \/ Queue!SpuriousWakeup
  PROVE  QueueOrder'
<1>1. DOMAIN pc = Workers \cup Pair /\ obj' = obj /\ log' = log
  BY DEF QueueTypes, Queue!NoTask, Queue!SpuriousWakeup
<1>2. PICK t \in DOMAIN pc : \E place : place # "exec" /\ pc[t].at # "exec" /\ Queue!Goto(t, place)
  BY <1>1 DEF Queue!NoTask, Queue!SpuriousWakeup
<1>3. \A w \in Workers : pc'[w] = pc[w] \/ (pc'[w].at # "exec" /\ pc[w].at # "exec")
  <2>1. PICK place : place # "exec" /\ pc[t].at # "exec" /\ pc' = [pc EXCEPT ![t] = Queue!At(place)]
    BY <1>2 DEF Queue!Goto
  <2>2. Queue!At(place).at # "exec"
    BY <2>1, QueuePlaces
  <2>3. pc'[t] = Queue!At(place) /\ \A w \in Workers : w # t => pc'[w] = pc[w]
    BY <1>1, <2>1
  <2>4. pc'[t].at # "exec"
    BY <2>2, <2>3
  <2>5. QED
    BY <2>1, <2>3, <2>4
<1>4. QED
  BY <1>1, <1>3, TasksRest

\* A worker that has run its task, in each of the three classes.
LEMMA WorkersFinish ==
  ASSUME QueueTypes, QueueOrder, UNCHANGED part, NEW w \in Workers,
         Queue!Finish(w) \/ (part = "ThreadPoolAdvanced" /\ Queue!FinishAdvanced(w))
  PROVE  QueueOrder'
<1>1. CASE Queue!Finish(w)
  <2>1. /\ pc[w].at = "exec" /\ obj'.tasks_ = obj.tasks_ /\ obj'.completedCount_ = obj.completedCount_ + 1
        /\ log' = [log EXCEPT !.out = Append(@, pc[w].task)]
    BY <1>1 DEF Queue!Finish, QueueTypes
  <2>2. /\ pc'[w] = Queue!At("loop") /\ \A u \in Workers \ {w} : pc'[u] = pc[u]
    <3>1. \A u \in Workers : u \in DOMAIN pc /\ pc[u].at # "waiting"
      BY DEF QueueTypes, WorkerPlaces
    <3>2. pc' = [t \in DOMAIN pc |->
                   CASE t = w -> Queue!At("loop")
                     [] pc[t].at = "waiting" /\ obj.activeTasks_ = 1 /\ obj.tasks_ = <<>> -> Queue!At("awake")
                     [] OTHER -> pc[t]]
      BY <1>1 DEF Queue!Finish
    <3>3. QED
      BY <3>1, <3>2
  <2>3. QED
    BY <2>1, <2>2, QueuePlaces, FinishPuts
<1>2. CASE part = "ThreadPoolAdvanced" /\ Queue!FinishAdvanced(w)
  <2>1. /\ pc[w].at = "exec" /\ obj'.tasks_ = obj.tasks_ /\ log' = [log EXCEPT !.out = Append(@, pc[w].task)]
        /\ pc' = [pc EXCEPT ![w] = Queue!At("loop")]
    BY <1>2 DEF Queue!FinishAdvanced, Queue!Goto
  <2>2. pc'[w] = Queue!At("loop") /\ \A u \in Workers \ {w} : pc'[u] = pc[u]
    BY <2>1, WorkerMoves
  <2>3. QED
    BY <1>2, <2>1, <2>2, QueuePlaces, FinishPuts
<1>3. QED
  BY <1>1, <1>2

\* Every step of the three queues keeps the tasks apart.
LEMMA QueueOrderStep ==
  ASSUME QueueTypes, QueueOrder, UNCHANGED part,
         \/ part = "CommandQueue" /\ Queue!NextV1
         \/ part = "CommandQueueV2" /\ Queue!NextV2
         \/ part = "ThreadPoolAdvanced" /\ Queue!NextAdvanced
  PROVE  QueueOrder'
<1>1. obj.tasks_ \in Seq(Items) /\ (obj.tasks_ # <<>> => 1 \in DOMAIN obj.tasks_)
  BY DEF QueueTypes
<1>2. ASSUME NEW c \in Pair, Queue!Calls(c) \/ Queue!Serve(c) \/ Queue!WaitForAll(c)
      PROVE  QueueOrder'
  BY <1>2, EnqueuePuts, CallersRest DEF Queue!Calls
<1>3. ASSUME NEW w \in Workers, Queue!NoTask(w) \/ Queue!workerLoop(w) \/ Queue!workerLoopV2(w) \/ Queue!workerLoopAdvanced(w)
      PROVE  QueueOrder'
  <2>1. CASE Queue!NoTask(w)
    BY <2>1, WorkersRest
  <2>2. CASE Queue!workerLoop(w)
    BY <1>1, <2>2, TakePuts DEF Queue!workerLoop, Queue!Front
  <2>3. CASE Queue!workerLoopV2(w)
    BY <2>3, TakePuts DEF Queue!workerLoopV2, Queue!Top
  <2>4. CASE Queue!workerLoopAdvanced(w)
    BY <1>1, <2>4, TakePuts DEF Queue!workerLoopAdvanced
  <2>5. QED
    BY <1>3, <2>1, <2>2, <2>3, <2>4
<1>4. CASE part = "CommandQueue" /\ Queue!NextV1
  <2>1. ASSUME NEW w \in Workers, Queue!WorkV1(w)
        PROVE  QueueOrder'
    BY <1>3, <2>1, WorkersFinish DEF Queue!WorkV1
  <2>2. QED
    BY <1>2, <1>4, <2>1, WorkersRest DEF Queue!NextV1, Workers
<1>5. CASE part = "CommandQueueV2" /\ Queue!NextV2
  <2>1. ASSUME NEW w \in Workers, Queue!WorkV2(w)
        PROVE  QueueOrder'
    BY <1>3, <2>1, WorkersFinish DEF Queue!WorkV2
  <2>2. QED
    BY <1>2, <1>5, <2>1, WorkersRest DEF Queue!NextV2, Workers
<1>6. CASE part = "ThreadPoolAdvanced" /\ Queue!NextAdvanced
  <2>1. ASSUME NEW w \in Workers, Queue!WorkAdvanced(w)
        PROVE  QueueOrder'
    BY <1>3, <1>6, <2>1, WorkersFinish DEF Queue!WorkAdvanced
  <2>2. QED
    BY <1>2, <1>6, <2>1, WorkersRest DEF Queue!NextAdvanced, Workers
<1>7. QED
  BY <1>4, <1>5, <1>6

\* No task is there to begin with.
LEMMA QueueOrderInit ==
  ASSUME Queue!Init
  PROVE  QueueOrder
<1>1. /\ obj = [tasks_ |-> <<>>, shutdown_ |-> FALSE, activeTasks_ |-> 0, completedCount_ |-> 0]
      /\ pc = [t \in Workers \cup Pair |-> Queue!At(IF t \in Workers THEN "loop" ELSE "idle")]
      /\ log = [in |-> {}, out |-> <<>>]
  BY DEF Queue!Init, Workers
<1>2. \A w \in Workers : pc[w] = Queue!At("loop")
  BY <1>1
<1>3. \A w \in Workers : TaskWith(w) = <<>>
  BY <1>2, QueuePlaces DEF TaskWith
<1>4. Carrying = {} /\ Cardinality(Carrying) = 0 /\ IsFiniteSet({}) /\ Cardinality({}) = 0
  <2>1. Carrying = {}
    BY <1>2, QueueSets, QueuePlaces DEF Carrying
  <2>2. QED
    BY <2>1, FS_EmptySet
<1>5. Once(TasksAt, TaskPlaces, Items, {})
  <2>1. \A p \in TaskPlaces : TasksAt[p] = <<>>
    BY <1>1, <1>3, TaskFacts DEF TaskPlaces
  <2>2. \A p \in TaskPlaces : TasksAt[p] \in Seq(Items) /\ Len(TasksAt[p]) = 0
    <3>1. <<>> \in Seq(Items) /\ Len(<<>>) = 0
      OBVIOUS
    <3>2. QED
      BY <2>1, <3>1
  <2>3. TasksAt \in [TaskPlaces -> Seq(Items)]
    <3>1. TasksAt = [p \in TaskPlaces |-> TasksAt[p]]
      BY DEF TasksAt
    <3>2. QED
      BY <2>2, <3>1
  <2>4. \A p \in TaskPlaces : \A i \in 1..Len(TasksAt[p]) : FALSE
    BY <2>2
  <2>5. QED
    BY <2>3, <2>4 DEF Once, Holds
<1>6. QED
  BY <1>1, <1>4, <1>5 DEF QueueOrder

\* The invariant says that a task is run once.
LEMMA QueueMeans ==
  ASSUME QueueInv, QueueOrder
  PROVE  Queue!RunOnce /\ (part # "ThreadPoolAdvanced" => Queue!Counted)
<1>1. \A S : Queue!Cardinality(S) = Cardinality(S)
  BY Zenon DEF Queue!Cardinality, Cardinality
<1>2. TasksAt["tasks"] \in Seq(Items) /\ TasksAt["done"] \in Seq(Items) /\ \A w \in Workers : TasksAt[w] \in Seq(Items)
  BY TaskFacts DEF QueueOrder, Once
<1>3. obj.tasks_ \in Seq(Items) /\ log.out \in Seq(Items)
  BY <1>2, TaskFacts
<1>4. \A e \in Items : e \in Queue!Queued <=> Holds(obj.tasks_, e)
  BY <1>3 DEF Queue!Queued, Holds
<1>5. \A e \in Items : e \in Queue!Ran <=> Holds(log.out, e)
  BY <1>3 DEF Queue!Ran, Holds
<1>6. \A e \in Items : e \in Queue!Running <=> \E w \in Workers : Holds(TaskWith(w), e)
  <2>1. ASSUME NEW w \in Workers, NEW e
        PROVE  Holds(TaskWith(w), e) <=> pc[w].at = "exec" /\ pc[w].task = e
    <3>1. CASE pc[w].at = "exec"
      <4>1. TaskWith(w) = <<pc[w].task>>
        BY <3>1 DEF TaskWith
      <4>2. QED
        BY <3>1, <4>1 DEF Holds
    <3>2. CASE pc[w].at # "exec"
      <4>1. TaskWith(w) = <<>> /\ Len(<<>>) = 0
        BY <3>2 DEF TaskWith
      <4>2. QED
        BY <3>2, <4>1 DEF Holds
    <3>3. QED
      BY <3>1, <3>2
  <2>2. Queue!Running = {pc[w].task : w \in {u \in Workers : pc[u].at = "exec"}}
    BY QueueSets DEF Queue!Running, Workers
  <2>3. QED
    BY <2>1, <2>2
<1>7. Queue!Queued \cup Queue!Running \cup Queue!Ran \subseteq Items
  <2>1. ASSUME NEW w \in Workers, pc[w].at = "exec"
        PROVE  pc[w].task \in Items
    <3>1. <<pc[w].task>> \in Seq(Items)
      BY <1>2, <2>1, TaskFacts DEF TaskWith
    <3>2. QED
      BY <3>1
  <2>2. Queue!Running = {pc[w].task : w \in {u \in Workers : pc[u].at = "exec"}}
    BY QueueSets DEF Queue!Running, Workers
  <2>3. Queue!Queued \subseteq Items /\ Queue!Ran \subseteq Items
    BY <1>3 DEF Queue!Queued, Queue!Ran
  <2>4. QED
    BY <2>1, <2>2, <2>3
<1>8. log.in = {e \in Items : \E p \in TaskPlaces : Holds(TasksAt[p], e)}
  BY DEF QueueOrder, Once
<1>9. \A e \in Items : (\E p \in TaskPlaces : Holds(TasksAt[p], e)) <=>
                         Holds(obj.tasks_, e) \/ Holds(log.out, e) \/ \E w \in Workers : Holds(TaskWith(w), e)
  BY TaskFacts DEF TaskPlaces
<1>10. Queue!Queued \cup Queue!Running \cup Queue!Ran = log.in
  BY <1>4, <1>5, <1>6, <1>7, <1>8, <1>9
<1>11. Queue!RunOnce
  BY <1>1, <1>10 DEF Queue!RunOnce, QueueOrder, Carrying, Workers
<1>12. part # "ThreadPoolAdvanced" => Queue!Counted
  BY <1>1 DEF Queue!Counted, QueueInv, QueueCounts, QueueOrder, Workers
<1>13. QED
  BY <1>11, <1>12
-----------------------------------------------------------------------------
(***************************************************************************)
(* TaskScheduler: a number is given to one task, which is in the queue or  *)
(* with one worker.                                                        *)
(***************************************************************************)
Carries(w) == pc[w].at \in {"call", "run", "again"}
Numbered(k) ==
  DOMAIN k = {"id", "priority", "executeAt", "interval"} /\ k.id \in 1..obj.nextId_ - 1
Unrun(k) == k.interval = 0 => log.ran[k.id] = 0
Kept(id) ==
  /\ obj.activeTasks_[id] \/ id \in log.cancelled
  /\ \/ id \in log.cancelled
     \/ \E k \in obj.taskQueue_ : k.id = id
     \/ \E w \in Pair : Carries(w) /\ pc[w].task.id = id
     \/ log.ran[id] = 1
Carried(w) ==
  /\ DOMAIN pc[w] = {"at", "task"} /\ Numbered(pc[w].task) /\ Unrun(pc[w].task)
  /\ pc[w].at = "again" => pc[w].task.interval # 0
  /\ \A k \in obj.taskQueue_ : k.id # pc[w].task.id
  /\ \A v \in Pair \ {w} : Carries(v) => pc[v].task.id # pc[w].task.id

SchedOrder ==
  /\ obj.nextId_ <= 3 /\ log.ran \in [1..2 -> Nat]
  /\ \A k \in obj.taskQueue_ : Numbered(k) /\ Unrun(k)
  /\ \A a, b \in obj.taskQueue_ : a.id = b.id => a = b
  /\ \A w \in Pair : Carries(w) => Carried(w)
  /\ \A id \in 1..obj.nextId_ - 1 : Kept(id)
  /\ \A id \in obj.nextId_..2 : log.ran[id] = 0

\* What one finds in the fields.
LEMMA SchedFields ==
  ASSUME SchedInv, SchedOrder
  PROVE  /\ DOMAIN obj = {"taskQueue_", "activeTasks_", "nextId_", "stopped_", "completedCount_"}
         /\ DOMAIN log = {"cancelled", "owed", "ran"} /\ DOMAIN pc = Pair \cup {"stop"}
         /\ obj.nextId_ \in 1..3 /\ DOMAIN obj.activeTasks_ = 1..obj.nextId_ - 1
         /\ log.ran \in [1..2 -> Nat] /\ Pair' = Pair
BY DEF SchedInv, SchedOrder, Pair, Owner

\* A step that moves no task keeps the order: a worker begins at most the one
\* that it carries.
LEMMA SchedRests ==
  ASSUME SchedInv, SchedOrder,
         UNCHANGED <<obj.taskQueue_, obj.activeTasks_, obj.nextId_, log.cancelled, log.ran>>,
         \A w \in Pair :
           /\ Carries(w)' = Carries(w)
           /\ Carries(w) => pc'[w] \in {pc[w], [at |-> "run", task |-> pc[w].task]}
  PROVE  SchedOrder'
<1>1. Pair' = Pair /\ \A k : (Numbered(k)' <=> Numbered(k)) /\ (Unrun(k)' <=> Unrun(k))
  BY DEF Pair, Owner, Numbered, Unrun
<1>2. ASSUME NEW w \in Pair, Carries(w)
      PROVE  /\ pc'[w].task = pc[w].task /\ DOMAIN pc'[w] = {"at", "task"}
             /\ pc'[w].at = "again" => pc[w].at = "again"
  <2>1. DOMAIN pc[w] = {"at", "task"}
    BY <1>2 DEF SchedOrder, Carried
  <2>2. QED
    BY <1>2, <2>1
<1>3. ASSUME NEW w \in Pair, Carries(w)'
      PROVE  Carried(w)'
  <2>1. Carries(w) /\ Carried(w)
    BY <1>3 DEF SchedOrder
  <2>2. \A v \in Pair \ {w} : Carries(v)' => pc'[v].task.id # pc'[w].task.id
    BY <1>2, <2>1 DEF Carried
  <2>3. QED
    BY <1>1, <1>2, <2>1, <2>2 DEF Carried
<1>4. ASSUME NEW id \in 1..obj.nextId_ - 1
      PROVE  Kept(id)'
  <2>1. Kept(id)
    BY DEF SchedOrder
  <2>2. (\E v \in Pair : Carries(v) /\ pc[v].task.id = id) =>
           \E v \in Pair : Carries(v)' /\ pc'[v].task.id = id
    BY <1>2
  <2>3. QED
    BY <1>1, <2>1, <2>2 DEF Kept
<1>5. QED
  BY <1>1, <1>3, <1>4 DEF SchedOrder

\* schedule() and its like put a task of a new number into the queue.
LEMMA SchedEnters ==
  ASSUME SchedInv, SchedOrder, NEW priority, NEW at, NEW interval, Sched!Enter(priority, at, interval)
  PROVE  SchedOrder'
<1> DEFINE n == obj.nextId_
<1> PICK new : new = [id |-> n, priority |-> priority, executeAt |-> at, interval |-> interval]
  OBVIOUS
<1>1. n \in 1..2 /\ obj'.nextId_ = n + 1 /\ pc' = pc /\ log' = log /\ Pair' = Pair
  BY SchedFields DEF Sched!Enter
<1>2. obj'.taskQueue_ = obj.taskQueue_ \cup {new}
  BY SchedFields DEF Sched!Enter
<1>3. obj'.activeTasks_ = [i \in DOMAIN obj.activeTasks_ \cup {n} |-> i = n \/ obj.activeTasks_[i]]
  BY SchedFields DEF Sched!Enter
<1>4. new.id = n /\ DOMAIN new = {"id", "priority", "executeAt", "interval"}
  OBVIOUS
<1>5. log.ran[n] = 0 /\ DOMAIN obj.activeTasks_ = 1..n - 1
  BY <1>1, SchedFields DEF SchedOrder
<1>6. \A k : (Unrun(k)' <=> Unrun(k)) /\ (Numbered(k) => Numbered(k)' /\ k.id # n)
  BY <1>1 DEF Unrun, Numbered
<1>7. Unrun(new) /\ Numbered(new)'
  BY <1>1, <1>4, <1>5 DEF Unrun, Numbered
<1>8. \A k \in obj.taskQueue_ : k.id # n
  BY <1>6 DEF SchedOrder
<1>9. ASSUME NEW w \in Pair, Carries(w)'
      PROVE  Carried(w)'
  <2>1. Carries(w) /\ Carried(w)
    BY <1>1, <1>9 DEF SchedOrder, Carries, Carried
  <2>2. pc[w].task.id # n
    BY <2>1, <1>6 DEF Carried
  <2>3. \A k \in obj'.taskQueue_ : k.id # pc[w].task.id
    BY <1>2, <1>4, <2>1, <2>2 DEF Carried
  <2>4. QED
    BY <1>1, <1>6, <2>1, <2>3 DEF Carried, Carries
<1>10. ASSUME NEW id \in 1..n
       PROVE  Kept(id)'
  <2>1. CASE id = n
    BY <1>2, <1>3, <1>4, <2>1 DEF Kept
  <2>2. CASE id # n
    <3>1. id \in 1..n - 1 /\ Kept(id)
      BY <1>1, <1>10, <2>2 DEF SchedOrder
    <3>2. obj'.activeTasks_[id] = obj.activeTasks_[id] \/ ~obj.activeTasks_[id]
      BY <1>3, <1>5, <3>1
    <3>3. obj.activeTasks_[id] => obj'.activeTasks_[id]
      BY <1>3, <1>5, <3>1
    <3>4. QED
      BY <1>1, <1>2, <3>1, <3>3 DEF Kept, Carries
  <2>3. QED
    BY <2>1, <2>2
<1>11. \A a, b \in obj'.taskQueue_ : a.id = b.id => a = b
  BY <1>2, <1>4, <1>8 DEF SchedOrder
<1>12. QED
  BY <1>1, <1>2, <1>5, <1>6, <1>7, <1>9, <1>10, <1>11 DEF SchedOrder

\* cancel() takes the flag down.
LEMMA SchedCancels ==
  ASSUME SchedInv, SchedOrder, NEW c \in 1..obj.nextId_ - 1, Sched!cancel(c)
  PROVE  SchedOrder'
<1>1. /\ obj'.taskQueue_ = obj.taskQueue_ /\ obj'.nextId_ = obj.nextId_ /\ pc' = pc /\ Pair' = Pair
      /\ obj'.activeTasks_ = [obj.activeTasks_ EXCEPT ![c] = FALSE]
      /\ log'.ran = log.ran /\ log'.cancelled = log.cancelled \cup {c}
  BY SchedFields DEF Sched!cancel
<1>2. \A k : (Numbered(k)' <=> Numbered(k)) /\ (Unrun(k)' <=> Unrun(k))
  BY <1>1 DEF Numbered, Unrun
<1>3. ASSUME NEW w \in Pair, Carries(w)'
      PROVE  Carried(w)'
  BY <1>1, <1>2, <1>3 DEF Carried, Carries, SchedOrder
<1>4. ASSUME NEW id \in 1..obj.nextId_ - 1
      PROVE  Kept(id)'
  <2>1. id # c => (obj.activeTasks_[id] => obj'.activeTasks_[id])
    BY <1>1, SchedFields
  <2>2. QED
    BY <1>1, <2>1 DEF Kept, Carries, SchedOrder
<1>5. QED
  BY <1>1, <1>2, <1>3, <1>4 DEF SchedOrder

\* A worker takes a task out of the queue to call it.
LEMMA SchedTakes ==
  ASSUME SchedInv, SchedOrder, NEW w \in Pair, pc[w].at = "look", NEW k \in obj.taskQueue_,
         obj'.taskQueue_ = obj.taskQueue_ \ {k}, Sched!Goto(w, [at |-> "call", task |-> k]),
         UNCHANGED <<obj.activeTasks_, obj.nextId_, log>>
  PROVE  SchedOrder'
<1>1. Pair' = Pair /\ pc' = [pc EXCEPT ![w] = [at |-> "call", task |-> k]] /\ w \in DOMAIN pc
  BY SchedFields DEF Sched!Goto
<1>2. pc'[w] = [at |-> "call", task |-> k] /\ \A v \in Pair \ {w} : pc'[v] = pc[v]
  BY <1>1, SchedFields
<1>3. pc'[w].at = "call" /\ pc'[w].task = k /\ DOMAIN pc'[w] = {"at", "task"}
  BY <1>2
<1>4. \A v \in Pair \ {w} : Carries(v)' = Carries(v)
  BY <1>2 DEF Carries
<1>5. Carries(w)' /\ ~Carries(w)
  BY <1>3 DEF Carries
<1>6. \A e : (Numbered(e)' <=> Numbered(e)) /\ (Unrun(e)' <=> Unrun(e))
  BY DEF Numbered, Unrun
<1>7. \A a \in obj.taskQueue_ : a # k => a.id # k.id
  BY DEF SchedOrder
<1>8. \A v \in Pair : Carries(v) => Carried(v) /\ pc[v].task.id # k.id
  BY DEF SchedOrder, Carried
<1>9. ASSUME NEW v \in Pair, Carries(v)'
      PROVE  Carried(v)'
  <2>1. CASE v = w
    <3>1. \A a \in obj'.taskQueue_ : a.id # pc'[w].task.id
      BY <1>3, <1>7
    <3>2. \A u \in Pair \ {w} : Carries(u)' => pc'[u].task.id # pc'[w].task.id
      BY <1>2, <1>3, <1>4, <1>8
    <3>3. Numbered(pc[w].task)' /\ Unrun(pc[w].task)'
      BY <1>3, <1>6 DEF SchedOrder
    <3>4. QED
      BY <1>1, <1>3, <2>1, <3>1, <3>2, <3>3 DEF Carried
  <2>2. CASE v # w
    <3>1. pc'[v] = pc[v] /\ Carried(v) /\ pc[v].task.id # k.id
      BY <1>2, <1>4, <1>8, <1>9, <2>2
    <3>2. \A u \in Pair \ {v} : Carries(u)' => pc'[u].task.id # pc'[v].task.id
      BY <1>2, <1>3, <1>4, <3>1 DEF Carried
    <3>3. QED
      BY <1>1, <1>6, <3>1, <3>2 DEF Carried
  <2>3. QED
    BY <2>1, <2>2
<1>10. ASSUME NEW id \in 1..obj.nextId_ - 1
       PROVE  Kept(id)'
  <2>1. Kept(id)
    BY DEF SchedOrder
  <2>2. (\E a \in obj.taskQueue_ : a.id = id) =>
          (\E a \in obj'.taskQueue_ : a.id = id) \/ pc'[w].task.id = id
    BY <1>3
  <2>3. (\E v \in Pair : Carries(v) /\ pc[v].task.id = id) =>
           \E v \in Pair : Carries(v)' /\ pc'[v].task.id = id
    BY <1>2, <1>4, <1>5
  <2>4. QED
    BY <1>1, <1>5, <2>1, <2>2, <2>3 DEF Kept
<1>11. QED
  BY <1>1, <1>6, <1>9, <1>10 DEF SchedOrder

\* A worker forgets a task that was cancelled.
LEMMA SchedForgets ==
  ASSUME SchedInv, SchedOrder, NEW w \in Pair, pc[w].at = "look", NEW k \in obj.taskQueue_,
         ~obj.activeTasks_[k.id],
         obj'.taskQueue_ = obj.taskQueue_ \ {k}, Sched!Goto(w, Sched!At("loop")),
         UNCHANGED <<obj.activeTasks_, obj.nextId_, log>>
  PROVE  SchedOrder'
<1>1. Pair' = Pair /\ pc'[w] = [at |-> "loop"] /\ \A v \in Pair \ {w} : pc'[v] = pc[v]
  BY SchedFields DEF Sched!Goto, Sched!At
<1>2. \A v \in Pair : Carries(v)' = Carries(v) /\ (Carries(v) => pc'[v] = pc[v])
  BY <1>1 DEF Carries
<1>3. \A e : (Numbered(e)' <=> Numbered(e)) /\ (Unrun(e)' <=> Unrun(e))
  BY DEF Numbered, Unrun
<1>4. ASSUME NEW v \in Pair, Carries(v)'
      PROVE  Carried(v)'
  BY <1>1, <1>2, <1>3, <1>4 DEF Carried, SchedOrder
<1>5. k.id \in log.cancelled
  BY DEF SchedOrder, Numbered, Kept
<1>6. ASSUME NEW id \in 1..obj.nextId_ - 1
      PROVE  Kept(id)'
  <2>1. Kept(id)
    BY DEF SchedOrder
  <2>2. (\E a \in obj.taskQueue_ : a.id = id) =>
          (\E a \in obj'.taskQueue_ : a.id = id) \/ id \in log.cancelled
    BY <1>5
  <2>3. (\E v \in Pair : Carries(v) /\ pc[v].task.id = id) =>
           \E v \in Pair : Carries(v)' /\ pc'[v].task.id = id
    BY <1>2
  <2>4. QED
    BY <1>1, <2>1, <2>2, <2>3 DEF Kept
<1>7. QED
  BY <1>1, <1>3, <1>4, <1>6 DEF SchedOrder

\* A repeating task that has run is put back, with a later time.
LEMMA SchedReturns ==
  ASSUME SchedInv, SchedOrder, NEW w \in Pair, Sched!Again(w)
  PROVE  SchedOrder'
<1> DEFINE old == pc[w].task
<1> PICK k : k = [old EXCEPT !.executeAt = now + old.interval]
  OBVIOUS
<1>1. /\ pc[w].at = "again" /\ log' = log /\ Pair' = Pair
      /\ obj'.taskQueue_ = obj.taskQueue_ \cup {k}
      /\ obj'.activeTasks_ = obj.activeTasks_ /\ obj'.nextId_ = obj.nextId_
  BY SchedFields DEF Sched!Again
<1>2. pc'[w] = [at |-> "loop"] /\ \A v \in Pair \ {w} : pc'[v] = pc[v]
  BY SchedFields DEF Sched!Again, Sched!Goto, Sched!At
<1>3. /\ Carries(w) /\ ~Carries(w)' /\ \A v \in Pair \ {w} : Carries(v)' = Carries(v)
  BY <1>1, <1>2 DEF Carries
<1>4. Carried(w)
  BY <1>3 DEF SchedOrder
<1>5. DOMAIN k = DOMAIN old /\ k.id = old.id /\ k.interval = old.interval
  BY <1>4 DEF Carried, Numbered
<1>6. \A e : (Numbered(e)' <=> Numbered(e)) /\ (Unrun(e)' <=> Unrun(e))
  BY <1>1 DEF Numbered, Unrun
<1>7. Numbered(k) /\ Unrun(k) /\ \A a \in obj.taskQueue_ : a.id # k.id
  BY <1>4, <1>5 DEF Carried, Numbered, Unrun
<1>8. ASSUME NEW v \in Pair, Carries(v)'
      PROVE  Carried(v)'
  <2>1. v # w /\ pc'[v] = pc[v] /\ Carried(v)
    BY <1>2, <1>3, <1>8 DEF SchedOrder
  <2>2. pc[v].task.id # k.id
    BY <1>3, <1>5, <2>1 DEF Carried
  <2>3. QED
    BY <1>1, <1>2, <1>3, <1>6, <2>1, <2>2 DEF Carried
<1>9. ASSUME NEW id \in 1..obj.nextId_ - 1
      PROVE  Kept(id)'
  <2>1. Kept(id)
    BY DEF SchedOrder
  <2>2. (\E v \in Pair : Carries(v) /\ pc[v].task.id = id) =>
           (\E v \in Pair : Carries(v)' /\ pc'[v].task.id = id) \/ k.id = id
    BY <1>2, <1>3, <1>5
  <2>3. (\E a \in obj.taskQueue_ : a.id = id) \/ k.id = id => \E a \in obj'.taskQueue_ : a.id = id
    BY <1>1
  <2>4. QED
    BY <1>1, <2>1, <2>2, <2>3 DEF Kept
<1>10. \A a, b \in obj'.taskQueue_ : a.id = b.id => a = b
  BY <1>1, <1>7 DEF SchedOrder
<1>11. \A a \in obj'.taskQueue_ : Numbered(a)' /\ Unrun(a)'
  BY <1>1, <1>6, <1>7 DEF SchedOrder
<1>12. QED
  BY <1>1, <1>8, <1>9, <1>10, <1>11 DEF SchedOrder

\* The task that runs is counted as run, and laid aside if it does not repeat.
LEMMA SchedRan ==
  ASSUME SchedInv, SchedOrder, NEW w \in Pair, Sched!Run(w)
  PROVE  SchedOrder'
<1> DEFINE n == pc[w].task.id
           v == IF pc[w].task.interval = 0 THEN Sched!At("loop") ELSE [pc[w] EXCEPT !.at = "again"]
<1>1. /\ pc[w].at = "run" /\ Pair' = Pair /\ obj'.taskQueue_ = obj.taskQueue_
      /\ obj'.activeTasks_ = obj.activeTasks_ /\ obj'.nextId_ = obj.nextId_
      /\ log'.cancelled = log.cancelled /\ log'.ran = [log.ran EXCEPT ![n] = @ + 1]
  BY SchedFields DEF Sched!Run
<1>2. pc'[w] = v /\ \A u \in Pair \ {w} : pc'[u] = pc[u]
  BY SchedFields DEF Sched!Run, Sched!Goto
<1>3. Carries(w) /\ Carried(w)
  BY <1>1 DEF SchedOrder, Carries
<1>4. n \in 1..obj.nextId_ - 1 /\ n \in 1..2 /\ DOMAIN pc[w] = {"at", "task"}
  BY <1>3, SchedFields DEF Carried, Numbered
<1>5. /\ pc[w].task.interval = 0 => pc'[w] = [at |-> "loop"]
      /\ pc[w].task.interval # 0 => pc'[w].at = "again" /\ pc'[w].task = pc[w].task /\ DOMAIN pc'[w] = {"at", "task"}
  BY <1>2, <1>4 DEF Sched!At
<1>6. \A u \in Pair \ {w} : Carries(u)' = Carries(u)
  BY <1>2 DEF Carries
<1>7. Carries(w)' <=> pc[w].task.interval # 0
  BY <1>5 DEF Carries
<1> HIDE DEF v
<1>8. log'.ran \in [1..2 -> Nat] /\ log'.ran[n] = log.ran[n] + 1
      /\ \A id \in 1..2 : id # n => log'.ran[id] = log.ran[id]
  BY <1>1, <1>4, SchedFields
<1>9. \A e : Numbered(e)' <=> Numbered(e)
  BY <1>1 DEF Numbered
<1>10. \A e : Numbered(e) /\ e.id # n => (Unrun(e)' <=> Unrun(e))
  BY <1>8, SchedFields DEF Numbered, Unrun
<1>11. \A a \in obj.taskQueue_ : a.id # n
  BY <1>3 DEF Carried
<1>12. \A a \in obj.taskQueue_ : Numbered(a)' /\ Unrun(a)'
  BY <1>9, <1>10, <1>11 DEF SchedOrder
<1>13. ASSUME NEW u \in Pair, Carries(u)'
       PROVE  Carried(u)'
  <2>1. CASE u = w
    <3>1. pc[w].task.interval # 0 /\ pc'[w].at = "again" /\ pc'[w].task = pc[w].task /\ DOMAIN pc'[w] = {"at", "task"}
      BY <1>5, <1>7, <1>13, <2>1
    <3>2. \A x \in Pair \ {w} : Carries(x)' => pc'[x].task.id # pc'[w].task.id
      BY <1>2, <1>3, <1>6, <3>1 DEF Carried
    <3>3. Numbered(pc[w].task)' /\ Unrun(pc[w].task)'
      BY <1>3, <1>9, <3>1 DEF Carried, Unrun
    <3>4. QED
      BY <1>1, <1>11, <2>1, <3>1, <3>2, <3>3 DEF Carried
  <2>2. CASE u # w
    <3>1. pc'[u] = pc[u] /\ Carried(u) /\ pc[u].task.id # n
      BY <1>2, <1>3, <1>6, <1>13, <2>2 DEF SchedOrder, Carried
    <3>2. \A x \in Pair \ {u} : Carries(x)' => pc'[x].task.id # pc'[u].task.id
      BY <1>2, <1>3, <1>5, <1>6, <1>7, <3>1 DEF Carried
    <3>3. Numbered(pc[u].task)' /\ Unrun(pc[u].task)'
      BY <1>9, <1>10, <3>1 DEF Carried
    <3>4. QED
      BY <1>1, <3>1, <3>2, <3>3 DEF Carried
  <2>3. QED
    BY <2>1, <2>2
<1>14. pc[w].task.interval = 0 => log'.ran[n] = 1
  BY <1>3, <1>8 DEF Carried, Unrun
<1>15. ASSUME NEW id \in 1..obj.nextId_ - 1
       PROVE  Kept(id)'
  <2>1. Kept(id) /\ id \in 1..2
    BY SchedFields DEF SchedOrder
  <2>2. CASE id = n
    BY <1>1, <1>5, <1>7, <1>14, <2>1, <2>2 DEF Kept
  <2>3. CASE id # n
    <3>1. log'.ran[id] = log.ran[id]
      BY <1>8, <2>1, <2>3
    <3>2. (\E u \in Pair : Carries(u) /\ pc[u].task.id = id) =>
             \E u \in Pair : Carries(u)' /\ pc'[u].task.id = id
      BY <1>2, <1>6, <2>3
    <3>3. QED
      BY <1>1, <2>1, <3>1, <3>2 DEF Kept
  <2>4. QED
    BY <2>2, <2>3
<1>16. \A id \in obj.nextId_..2 : log'.ran[id] = 0
  BY <1>4, <1>8, SchedFields DEF SchedOrder
<1>17. log'.ran \in [1..2 -> Nat]
  BY <1>8
<1>18. obj'.nextId_ <= 3 /\ \A id \in obj'.nextId_..2 : log'.ran[id] = 0
  BY <1>1, <1>16 DEF SchedOrder
<1>19. /\ \A k \in obj'.taskQueue_ : Numbered(k)' /\ Unrun(k)'
       /\ \A a, b \in obj'.taskQueue_ : a.id = b.id => a = b
  BY <1>1, <1>12 DEF SchedOrder
<1>20. /\ \A u \in Pair' : Carries(u)' => Carried(u)'
       /\ \A id \in 1..obj'.nextId_ - 1 : Kept(id)'
  BY <1>1, <1>13, <1>15
<1>21. QED
  BY <1>17, <1>18, <1>19, <1>20 DEF SchedOrder

\* Every step of a worker keeps the order.
LEMMA SchedWorks ==
  ASSUME SchedInv, SchedOrder, NEW w \in Pair, Sched!workerLoop(w)
  PROVE  SchedOrder'
<1>1. ASSUME NEW place, place \notin {"call", "run", "again"}, Sched!Goto(w, Sched!At(place)),
             ~Carries(w), obj' = obj, log' = log
      PROVE  SchedOrder'
  <2>1. pc'[w] = [at |-> place] /\ \A v \in Pair \ {w} : pc'[v] = pc[v]
    BY <1>1, SchedFields DEF Sched!Goto, Sched!At
  <2>2. \A v \in Pair : Carries(v)' = Carries(v) /\ (Carries(v) => pc'[v] = pc[v])
    BY <1>1, <2>1 DEF Carries
  <2>3. QED
    BY <1>1, <2>2, SchedRests
<1>2. CASE Sched!LoopHead(w)
  <2>1. ~Carries(w) /\ obj' = obj /\ log' = log
    BY <1>2 DEF Sched!LoopHead, Carries
  <2>2. \E place \in {"ended", "look"} : Sched!Goto(w, Sched!At(place))
    BY <1>2 DEF Sched!LoopHead
  <2>3. QED
    BY <1>1, <2>1, <2>2
<1>3. CASE Sched!Look(w)
  <2>1. pc[w].at = "look" /\ ~Carries(w) /\ log' = log
    BY <1>3 DEF Sched!Look, Carries
  <2>2. CASE obj.taskQueue_ = {} /\ Sched!Goto(w, Sched!At(IF obj.stopped_ THEN "ended" ELSE "loop")) /\ obj' = obj
    <3>1. \E place \in {"ended", "loop"} : Sched!Goto(w, Sched!At(place))
      BY <2>2
    <3>2. QED
      BY <1>1, <2>1, <2>2, <3>1
  <2>3. ASSUME NEW k \in Sched!Tops, k.executeAt > now, Sched!Goto(w, Sched!At("loop")), obj' = obj
        PROVE  SchedOrder'
    BY <1>1, <2>1, <2>3
  <2>4. ASSUME NEW k \in Sched!Tops, obj' = [obj EXCEPT !.taskQueue_ = @ \ {k}],
               Sched!Goto(w, IF obj.activeTasks_[k.id] THEN [at |-> "call", task |-> k] ELSE Sched!At("loop"))
        PROVE  SchedOrder'
    <3>1. k \in obj.taskQueue_
      BY DEF Sched!Tops
    <3>2. /\ obj'.taskQueue_ = obj.taskQueue_ \ {k} /\ obj'.activeTasks_ = obj.activeTasks_
          /\ obj'.nextId_ = obj.nextId_
      BY <2>4, SchedFields
    <3>3. CASE obj.activeTasks_[k.id]
      BY <2>1, <2>4, <3>1, <3>2, <3>3, SchedTakes
    <3>4. CASE ~obj.activeTasks_[k.id]
      BY <2>1, <2>4, <3>1, <3>2, <3>4, SchedForgets
    <3>5. QED
      BY <3>3, <3>4
  <2>5. QED
    BY <1>3, <2>2, <2>3, <2>4 DEF Sched!Look
<1>4. CASE Sched!Call(w)
  <2>1. /\ pc[w].at = "call" /\ obj' = obj
        /\ log'.cancelled = log.cancelled /\ log'.ran = log.ran
    BY <1>4, SchedFields DEF Sched!Call
  <2>2. /\ pc'[w] = [at |-> "run", task |-> pc[w].task]
        /\ \A v \in Pair \ {w} : pc'[v] = pc[v]
    BY <1>4, SchedFields DEF Sched!Call, Sched!Goto
  <2>3. \A v \in Pair : Carries(v)' = Carries(v)
    BY <2>1, <2>2 DEF Carries
  <2>4. \A v \in Pair : Carries(v) => pc'[v] \in {pc[v], [at |-> "run", task |-> pc[v].task]}
    BY <2>2
  <2>5. UNCHANGED <<obj.taskQueue_, obj.activeTasks_, obj.nextId_, log.cancelled, log.ran>>
    BY <2>1
  <2>6. QED
    BY <2>3, <2>4, <2>5, SchedRests
<1>5. QED
  BY <1>2, <1>3, <1>4, SchedRan, SchedReturns DEF Sched!workerLoop

\* Every step of the scheduler keeps a task in one place.
LEMMA SchedOrderStep ==
  ASSUME SchedInv, SchedOrder, Sched!Next
  PROVE  SchedOrder'
<1>1. ASSUME NEW p \in Sched!Priorities,
             \/ Sched!schedule(p) \/ \E at \in 0..1 : Sched!scheduleAt(p, at)
             \/ \E i \in {1} : Sched!scheduleRepeating(p, i)
      PROVE  SchedOrder'
  BY <1>1, SchedEnters DEF Sched!schedule, Sched!scheduleAt, Sched!scheduleRepeating
<1>2. CASE Sched!stop
  <2>1. PICK v : Sched!Goto("stop", v)
    BY <1>2 DEF Sched!stop
  <2>2. \A w \in Pair : pc'[w] = pc[w] /\ Carries(w)' = Carries(w)
    BY <2>1, StopApart, SchedFields DEF Sched!Goto, Carries
  <2>3. UNCHANGED <<obj.taskQueue_, obj.activeTasks_, obj.nextId_, log>>
    BY <1>2, SchedFields DEF Sched!stop
  <2>4. QED
    BY <2>2, <2>3, SchedRests
<1>3. CASE Sched!Tick
  <2>1. obj' = obj /\ log' = log /\ pc' = pc
    BY <1>3 DEF Sched!Tick
  <2>2. \A w \in Pair : pc'[w] = pc[w] /\ Carries(w)' = Carries(w)
    BY <2>1 DEF Carries
  <2>3. QED
    BY <2>1, <2>2, SchedRests
<1>4. CASE Sched!start
  <2>1. /\ log' = log /\ pc' = pc
        /\ UNCHANGED <<obj.taskQueue_, obj.activeTasks_, obj.nextId_>>
    BY <1>4, SchedFields DEF Sched!start
  <2>2. \A w \in Pair : pc'[w] = pc[w] /\ Carries(w)' = Carries(w)
    BY <2>1 DEF Carries
  <2>3. QED
    BY <2>1, <2>2, SchedRests
<1>5. QED
  BY <1>1, <1>2, <1>3, <1>4, SchedCancels, SchedWorks DEF Sched!Next

\* A new scheduler has no task.
LEMMA SchedOrderInit ==
  ASSUME Sched!Init
  PROVE  SchedOrder
<1>1. /\ obj = [taskQueue_ |-> {}, activeTasks_ |-> [i \in {} |-> TRUE], nextId_ |-> 1,
                stopped_ |-> FALSE, completedCount_ |-> 0]
      /\ log = [cancelled |-> {}, owed |-> {}, ran |-> [i \in 1..2 |-> 0]]
  BY DEF Sched!Init
<1>2. obj.taskQueue_ = {} /\ obj.nextId_ = 1 /\ log.ran = [i \in 1..2 |-> 0]
  BY <1>1
<1>3. \A w \in Pair : ~Carries(w)
  BY StopApart DEF Sched!Init, Sched!At, Carries
<1>4. 1..1 - 1 = {}
  OBVIOUS
<1>5. QED
  BY <1>2, <1>3, <1>4 DEF SchedOrder

\* The order makes a task be in one place.
LEMMA SchedMeans ==
  ASSUME SchedInv, SchedOrder
  PROVE  Sched!InOnePlace
<1>1. /\ Sched!Taken \cup Sched!In("again") = {w \in Pair : Carries(w)}
      /\ Sched!Taken \subseteq {w \in Pair : Carries(w)}
  BY DEF Sched!Taken, Sched!In, Carries
<1>2. Sched!Held = {pc[w].task : w \in {w \in Pair : Carries(w)}}
  BY <1>1 DEF Sched!Held
<1>3. \A v, w \in {w \in Pair : Carries(w)} : v # w => pc[v].task.id # pc[w].task.id
  BY DEF SchedOrder, Carried
<1>4. ASSUME NEW id \in 1..obj.nextId_ - 1
      PROVE  LET held == {k \in Sched!Held : k.id = id}
                 run == {k \in held : \E w \in Sched!Taken : pc[w].task = k} IN
             /\ Sched!Cardinality(Sched!Entries(id)) + Sched!Cardinality(held) <= 1
             /\ \/ id \in log.cancelled
                \/ Sched!Entries(id) \cup held # {}
                \/ log.ran[id] = 1
             /\ \A k \in Sched!Entries(id) \cup run : k.interval = 0 => log.ran[id] = 0
  <2> DEFINE held == {k \in Sched!Held : k.id = id}
             run == {k \in held : \E w \in Sched!Taken : pc[w].task = k}
             queued == Sched!Entries(id)
  <2>1. \A k \in held : \E w \in Pair : Carries(w) /\ pc[w].task = k /\ k.id = id
    BY <1>2
  <2>2. \A k \in queued : k \in obj.taskQueue_ /\ k.id = id
    BY DEF Sched!Entries
  <2>3. \A w \in Pair : Carries(w) /\ pc[w].task.id = id => pc[w].task \in held
    BY <1>2
  <2>4. \A k \in obj.taskQueue_ : k.id = id => k \in queued
    BY DEF Sched!Entries
  <2> HIDE DEF held, queued
  <2>5. \A a, b \in queued : a = b
    BY <2>2 DEF SchedOrder
  <2>6. \A a, b \in held : a = b
    BY <1>3, <2>1
  <2>7. \A a \in queued, b \in held : FALSE
    BY <2>1, <2>2 DEF SchedOrder, Carried
  <2>8. Cardinality(queued) + Cardinality(held) <= 1
    <3>1. \A S : (\A a, b \in S : a = b) => S = {} \/ \E a : S = {a}
      OBVIOUS
    <3>2. (held = {} \/ \E a : held = {a}) /\ (queued = {} \/ \E a : queued = {a})
      BY <2>5, <2>6, <3>1
    <3>3. held = {} \/ queued = {}
      BY <2>7
    <3>4. \A a : Cardinality({a}) = 1
      BY FS_Singleton
    <3>5. Cardinality({}) = 0
      BY FS_EmptySet
    <3>6. Cardinality(held) \in {0, 1} /\ Cardinality(queued) \in {0, 1}
      BY <3>2, <3>4, <3>5
    <3>7. Cardinality(held) = 0 \/ Cardinality(queued) = 0
      BY <3>3, <3>5
    <3>8. QED
      BY <3>6, <3>7
  <2>9. Sched!Cardinality(queued) = Cardinality(queued) /\ Sched!Cardinality(held) = Cardinality(held)
    BY Zenon DEF Sched!Cardinality, Cardinality
  <2>10. \/ id \in log.cancelled \/ queued \cup held # {} \/ log.ran[id] = 1
    <3>1. Kept(id)
      BY DEF SchedOrder
    <3>2. QED
      BY <2>3, <2>4, <3>1 DEF Kept
  <2>11. \A k \in queued \cup run : k.interval = 0 => log.ran[id] = 0
    <3>1. ASSUME NEW k \in queued
          PROVE  k.interval = 0 => log.ran[id] = 0
      BY <2>2 DEF SchedOrder, Unrun
    <3>2. ASSUME NEW k \in held
          PROVE  k.interval = 0 => log.ran[id] = 0
      BY <2>1 DEF SchedOrder, Carried, Unrun
    <3>3. QED
      BY <3>1, <3>2
  <2>12. QED
    BY <2>8, <2>9, <2>10, <2>11 DEF held, queued
<1>5. QED
  BY <1>1, <1>3, <1>4 DEF Sched!InOnePlace
-----------------------------------------------------------------------------
(***************************************************************************)
(* EventLoop: callbacks in order, timers that fire once.                   *)
(***************************************************************************)
Posts(n) == [i \in 1..n |-> i]

PostsInOrder ==
  /\ log.posted \in Nat /\ log.run \in Seq(Nat) /\ obj.taskQueue_ \in Seq(Nat)
  /\ Through(Posts(log.posted), log.run, obj.taskQueue_)

FiresOnce ==
  /\ obj.nextTimerId_ <= 3 /\ log.fired \in [1..2 -> Nat]
  /\ \A e \in obj.timers_ : e.id \in DOMAIN obj.activeTimers_
  /\ \A e \in obj.timers_ : e.interval = 0 =>
       log.fired[e.id] = 0 /\ \A i \in 1..Len(pc.due) : pc.due[i] # e.id
  /\ \A id \in obj.nextTimerId_..2 : log.fired[id] = 0

\* The callbacks posted so far, and one more.
LEMMA PostsGrow ==
  ASSUME NEW n \in Nat
  PROVE  Posts(n) \in Seq(Nat) /\ Append(Posts(n), n + 1) = Posts(n + 1)
<1> DEFINE p == Posts(n)
           q == Append(p, n + 1)
<1>1. p \in Seq(Nat) /\ Len(p) = n /\ \A i \in 1..n : p[i] = i
  BY DEF Posts
<1> HIDE DEF p
<1>2. q \in Seq(Nat) /\ Len(q) = n + 1 /\ \A i \in 1..n + 1 : q[i] = i
  BY <1>1
<1> HIDE DEF q
<1>3. q = [i \in 1..Len(q) |-> q[i]]
  BY <1>2
<1>4. q = [i \in 1..n + 1 |-> i]
  BY <1>2, <1>3
<1>5. QED
  BY <1>1, <1>4 DEF p, q, Posts

\* What touches no callback leaves their order as it is.
LEMMA PostsRest ==
  ASSUME PostsInOrder, obj'.taskQueue_ = obj.taskQueue_, log'.posted = log.posted, log'.run = log.run
  PROVE  PostsInOrder'
BY DEF PostsInOrder, Posts, Through

\* What touches no timer leaves them as they are.
LEMMA FiresRest ==
  ASSUME FiresOnce, obj'.timers_ = obj.timers_, obj'.activeTimers_ = obj.activeTimers_,
         obj'.nextTimerId_ = obj.nextTimerId_, pc'.due = pc.due, log'.fired = log.fired
  PROVE  FiresOnce'
BY DEF FiresOnce

\* post() appends the next callback.
LEMMA PostKeeps ==
  ASSUME LoopInv, PostsInOrder, FiresOnce, Loop!post
  PROVE  PostsInOrder' /\ FiresOnce'
<1> DEFINE n == log.posted
           p == Posts(n)
<1>1. /\ n \in Nat /\ log.run \in Seq(Nat) /\ obj.taskQueue_ \in Seq(Nat)
      /\ Through(p, log.run, obj.taskQueue_)
  BY DEF PostsInOrder
<1>2. /\ obj'.taskQueue_ = Append(obj.taskQueue_, n + 1) /\ log'.posted = n + 1 /\ log'.run = log.run
      /\ obj'.timers_ = obj.timers_ /\ obj'.activeTimers_ = obj.activeTimers_
      /\ obj'.nextTimerId_ = obj.nextTimerId_ /\ pc'.due = pc.due /\ log'.fired = log.fired
  BY DEF Loop!post, LoopInv
<1> HIDE DEF n
<1>3. p \in Seq(Nat) /\ Append(p, n + 1) = Posts(n + 1) /\ n + 1 \in Nat
  <2>1. n \in Nat
    BY <1>1
  <2>2. p \in Seq(Nat) /\ Append(p, n + 1) = Posts(n + 1)
    BY <2>1, PostsGrow
  <2>3. QED
    BY <2>1, <2>2
<1> HIDE DEF p
<1>4. Append(obj.taskQueue_, n + 1) \in Seq(Nat)
  BY <1>1, <1>3
<1>5. Through(Append(p, n + 1), log.run, Append(obj.taskQueue_, n + 1))
  BY <1>1, <1>3, GoesIn
<1>6. PostsInOrder'
  <2>1. Through(Posts(n + 1), log.run, Append(obj.taskQueue_, n + 1))
    BY <1>3, <1>5
  <2>2. Through(Posts(log'.posted), log'.run, obj'.taskQueue_)
    BY <1>2, <2>1
  <2>3. log'.posted \in Nat /\ log'.run \in Seq(Nat) /\ obj'.taskQueue_ \in Seq(Nat)
    BY <1>1, <1>2, <1>3, <1>4
  <2>4. QED
    BY <2>2, <2>3 DEF PostsInOrder, Posts, Through
<1>7. QED
  BY <1>2, <1>6, FiresRest

\* The loop runs the callback at the front.
LEMMA TaskKeeps ==
  ASSUME LoopInv, PostsInOrder, FiresOnce, Loop!TakeTask
  PROVE  PostsInOrder' /\ FiresOnce'
<1> DEFINE p == Posts(log.posted)
           q == obj.taskQueue_
<1>1. /\ log.posted \in Nat /\ log.run \in Seq(Nat) /\ q \in Seq(Nat)
      /\ Through(p, log.run, q) /\ p \in Seq(Nat)
  BY PostsGrow DEF PostsInOrder
<1>2. pc'.due = pc.due
  BY DEF Loop!TakeTask, Loop!Goto, LoopInv
<1>3. CASE q = <<>>
  BY <1>2, <1>3, PostsRest, FiresRest DEF Loop!TakeTask
<1>4. CASE q # <<>>
  <2>1. /\ obj'.taskQueue_ = Tail(q) /\ log'.run = Append(log.run, Head(q)) /\ log'.posted = log.posted
        /\ obj'.timers_ = obj.timers_ /\ obj'.activeTimers_ = obj.activeTimers_
        /\ obj'.nextTimerId_ = obj.nextTimerId_ /\ log'.fired = log.fired
    BY <1>4 DEF Loop!TakeTask, LoopInv
  <2> HIDE DEF p, q
  <2>2. Tail(q) \in Seq(Nat) /\ Append(log.run, Head(q)) \in Seq(Nat)
    BY <1>1, <1>4
  <2>3. Through(p, Append(log.run, Head(q)), Tail(q))
    BY <1>1, <1>4, ComesOut
  <2>4. PostsInOrder'
    BY <1>1, <2>1, <2>2, <2>3 DEF p, PostsInOrder, Posts, Through
  <2>5. QED
    BY <1>2, <2>1, <2>4, FiresRest
<1>5. QED
  BY <1>3, <1>4

\* A timer of a new number has not fired, nor is it due.
LEMMA TimerEnters ==
  ASSUME LoopInv, PostsInOrder, FiresOnce, NEW expiry, NEW interval, Loop!Enter(expiry, interval)
  PROVE  PostsInOrder' /\ FiresOnce'
<1> DEFINE n == obj.nextTimerId_
<1> PICK new : new = [id |-> n, expiry |-> expiry, interval |-> interval]
  OBVIOUS
<1>1. /\ obj'.timers_ = obj.timers_ \cup {new} /\ obj'.nextTimerId_ = n + 1 /\ log' = log /\ pc' = pc
      /\ DOMAIN obj'.activeTimers_ = DOMAIN obj.activeTimers_ \cup {n}
      /\ obj'.taskQueue_ = obj.taskQueue_
  BY DEF Loop!Enter, LoopInv
<1>2. n \in 1..2 /\ log.fired[n] = 0 /\ new.id = n
  BY DEF Loop!Enter, LoopInv, FiresOnce
<1>3. \A i \in 1..Len(pc.due) : pc.due[i] # n
  <2>1. pc.due \in Seq(Below) /\ n \notin Below
    BY DEF LoopInv, DueOnce, Below
  <2>2. QED
    BY <2>1
<1>4. \A e \in obj'.timers_ : e.id \in DOMAIN obj'.activeTimers_
  BY <1>1, <1>2 DEF FiresOnce
<1>5. \A e \in obj'.timers_ : e.interval = 0 =>
        log.fired[e.id] = 0 /\ \A i \in 1..Len(pc.due) : pc.due[i] # e.id
  BY <1>1, <1>2, <1>3 DEF FiresOnce
<1>6. \A id \in n + 1..2 : log.fired[id] = 0
  BY <1>2 DEF FiresOnce
<1>7. FiresOnce'
  BY <1>1, <1>2, <1>4, <1>5, <1>6 DEF FiresOnce
<1>8. QED
  BY <1>1, <1>7, PostsRest

\* A cancelled timer keeps its flag, lowered.
LEMMA TimerCancelled ==
  ASSUME LoopInv, PostsInOrder, FiresOnce, NEW id \in Below, Loop!cancelTimer(id)
  PROVE  PostsInOrder' /\ FiresOnce'
<1>1. /\ obj'.timers_ = obj.timers_ /\ obj'.nextTimerId_ = obj.nextTimerId_ /\ pc' = pc
      /\ DOMAIN obj'.activeTimers_ = DOMAIN obj.activeTimers_
      /\ obj'.taskQueue_ = obj.taskQueue_
  BY DEF Loop!cancelTimer, LoopInv
<1>2. log'.posted = log.posted /\ log'.run = log.run /\ log'.fired = log.fired
  BY DEF Loop!cancelTimer, LoopInv
<1>3. FiresOnce'
  BY <1>1, <1>2 DEF FiresOnce
<1>4. QED
  BY <1>1, <1>2, <1>3, PostsRest

\* The timers that become due leave the queue, those that repeat for a later
\* time.
LEMMA TimersProcessed ==
  ASSUME LoopInv, PostsInOrder, FiresOnce, Loop!processTimers
  PROVE  PostsInOrder' /\ FiresOnce'
<1> DEFINE expired == {e \in obj.timers_ : e.expiry <= now}
           active == {e \in expired : Loop!IsActive(e.id)}
           again == {e \in active : e.interval > 0}
           renewed == {[e EXCEPT !.expiry = now + e.interval] : e \in again}
<1>1. TimersUnique
  BY DEF LoopInv
<1>2. /\ log' = log /\ obj'.nextTimerId_ = obj.nextTimerId_ /\ obj'.taskQueue_ = obj.taskQueue_
      /\ obj'.timers_ = (obj.timers_ \ expired) \cup renewed
      /\ DOMAIN obj'.activeTimers_ = DOMAIN obj.activeTimers_ \ {e.id : e \in expired \ again}
  BY DEF Loop!processTimers, LoopInv
<1>3. PICK order \in Loop!SetToSeqs(active) :
        pc' = [at |-> "fire", due |-> [i \in DOMAIN order |-> order[i].id]]
  BY DEF Loop!processTimers
<1>4. PICK m : order \in [1..m -> active]
  <2> HIDE DEF active
  <2>1. QED
    BY DEF Loop!SetToSeqs
<1>5. \A i \in DOMAIN order : order[i] \in expired
  BY <1>4
<1>6. pc'.due \in Seq(Below')
  BY LoopProcess DEF LoopInv, DueOnce
<1>7. \A i \in 1..Len(pc'.due) : \E d \in expired : pc'.due[i] = d.id
  <2>1. DOMAIN pc'.due = DOMAIN order /\ \A i \in DOMAIN order : pc'.due[i] = order[i].id
    BY <1>3
  <2>2. DOMAIN pc'.due = 1..Len(pc'.due)
    BY <1>6
  <2>3. QED
    BY <1>5, <2>1, <2>2
<1>8. \A d \in renewed : \E e \in again : d.id = e.id /\ d.interval = e.interval
  <2>1. \A e \in again : DOMAIN e = {"id", "expiry", "interval"}
    BY <1>1 DEF TimersUnique
  <2>2. QED
    BY <2>1
<1>9. again \subseteq expired /\ expired \subseteq obj.timers_ /\ \A e \in again : e.interval > 0
  OBVIOUS
<1> HIDE DEF again, renewed, expired
<1>10. \A e \in obj'.timers_ : e.id \in DOMAIN obj'.activeTimers_
  <2>1. ASSUME NEW e \in obj.timers_, e \notin expired \/ e \in again
        PROVE  e.id \in DOMAIN obj'.activeTimers_
    <3>1. \A d \in expired \ again : d.id # e.id
      BY <1>1, <1>9, <2>1 DEF TimersUnique
    <3>2. QED
      BY <1>2, <2>1, <3>1 DEF FiresOnce
  <2>2. QED
    BY <1>2, <1>8, <1>9, <2>1
<1>11. ASSUME NEW e \in obj'.timers_, e.interval = 0
       PROVE  log.fired[e.id] = 0 /\ \A i \in 1..Len(pc'.due) : pc'.due[i] # e.id
  <2>1. e \in obj.timers_ /\ e \notin expired
    BY <1>2, <1>8, <1>9, <1>11
  <2>2. \A d \in expired : d.id # e.id
    BY <1>1, <1>9, <2>1 DEF TimersUnique
  <2>3. QED
    BY <1>7, <1>11, <2>1, <2>2 DEF FiresOnce
<1>12. FiresOnce'
  BY <1>2, <1>10, <1>11 DEF FiresOnce
<1>13. QED
  BY <1>2, <1>12, PostsRest

\* The one that fires is not in the queue, unless it repeats.
LEMMA TimerFires ==
  ASSUME LoopInv, PostsInOrder, FiresOnce, Loop!Fire
  PROVE  PostsInOrder' /\ FiresOnce'
<1> DEFINE id == Head(pc.due)
<1>1. pc.due # <<>> /\ pc.due \in Seq(Below) /\ obj' = obj /\ pc'.due = Tail(pc.due)
  BY DEF Loop!Fire, LoopInv, DueOnce
<1>2. log'.fired = [log.fired EXCEPT ![id] = @ + 1] /\ log'.posted = log.posted /\ log'.run = log.run
  BY DEF Loop!Fire, LoopInv
<1>3. /\ 1 \in 1..Len(pc.due) /\ id = pc.due[1] /\ id \in Below
      /\ Len(pc.due) \in Nat /\ Len(pc'.due) = Len(pc.due) - 1
      /\ \A i \in 1..Len(pc'.due) : pc'.due[i] = pc.due[i + 1] /\ i + 1 \in 1..Len(pc.due)
  BY <1>1
<1> HIDE DEF id
<1>4. obj.nextTimerId_ \in 1..3 /\ id \in 1..2 /\ id < obj.nextTimerId_ /\ log.fired \in [1..2 -> Nat]
  BY <1>3 DEF LoopInv, FiresOnce, Below
<1>5. log'.fired \in [1..2 -> Nat] /\ \A d \in 1..2 : d # id => log'.fired[d] = log.fired[d]
  BY <1>2, <1>4
<1>6. ASSUME NEW e \in obj.timers_, e.interval = 0
      PROVE  log'.fired[e.id] = 0 /\ \A i \in 1..Len(pc'.due) : pc'.due[i] # e.id
  <2>1. log.fired[e.id] = 0 /\ \A i \in 1..Len(pc.due) : pc.due[i] # e.id
    BY <1>6 DEF FiresOnce
  <2>2. e.id # id /\ e.id \in 1..2
    BY <1>3, <1>4, <2>1 DEF LoopInv, TimersUnique, Below
  <2>3. QED
    BY <1>3, <1>5, <2>1, <2>2
<1>7. \A d \in obj.nextTimerId_..2 : log'.fired[d] = 0
  BY <1>4, <1>5 DEF FiresOnce
<1>8. FiresOnce'
  BY <1>1, <1>4, <1>5, <1>6, <1>7 DEF FiresOnce
<1>9. QED
  BY <1>1, <1>2, <1>8, PostsRest

LoopOrder == PostsInOrder /\ FiresOnce

\* Every step of the loop keeps the order.
LEMMA LoopOrderStep ==
  ASSUME LoopInv, LoopOrder, Loop!Next
  PROVE  LoopOrder'
<1> USE DEF LoopOrder
<1>1. CASE Loop!stop \/ Loop!run \/ Loop!LoopHead \/ Loop!LoopEnd \/ Loop!Tick
  <2>1. log' = log /\ pc'.due = pc.due
    BY <1>1 DEF Loop!stop, Loop!run, Loop!LoopHead, Loop!LoopEnd, Loop!Tick, Loop!Goto, LoopInv
  <2>2. /\ obj'.timers_ = obj.timers_ /\ obj'.activeTimers_ = obj.activeTimers_
        /\ obj'.nextTimerId_ = obj.nextTimerId_ /\ obj'.taskQueue_ = obj.taskQueue_
    BY <1>1 DEF Loop!stop, Loop!run, Loop!LoopHead, Loop!LoopEnd, Loop!Tick, LoopInv
  <2>3. QED
    BY <2>1, <2>2, PostsRest, FiresRest
<1>2. ASSUME NEW d \in 0..1, Loop!schedule(d)
      PROVE  LoopOrder'
  BY <1>2, TimerEnters DEF Loop!schedule
<1>3. ASSUME NEW i \in {1}, Loop!scheduleRepeating(i)
      PROVE  LoopOrder'
  BY <1>3, TimerEnters DEF Loop!scheduleRepeating
<1>4. ASSUME NEW id \in 1..obj.nextTimerId_ - 1, Loop!cancelTimer(id)
      PROVE  LoopOrder'
  BY <1>4, TimerCancelled DEF Below
<1>5. QED
  BY <1>1, <1>2, <1>3, <1>4, PostKeeps, TaskKeeps, TimersProcessed, TimerFires DEF Loop!Next, Loop!Loop

\* Nothing is posted to a new loop.
LEMMA LoopOrderInit ==
  ASSUME Loop!Init
  PROVE  LoopOrder
<1>1. obj.taskQueue_ = <<>> /\ obj.timers_ = {} /\ obj.nextTimerId_ = 1
  BY DEF Loop!Init
<1>2. log.posted = 0 /\ log.run = <<>> /\ log.fired = [i \in 1..2 |-> 0]
  BY DEF Loop!Init
<1>3. Posts(0) = <<>> /\ <<>> \o <<>> = <<>> /\ <<>> \in Seq(Nat)
  BY DEF Posts
<1>4. PostsInOrder
  BY <1>1, <1>2, <1>3 DEF PostsInOrder, Through
<1>5. FiresOnce
  BY <1>1, <1>2 DEF FiresOnce
<1>6. QED
  BY <1>4, <1>5 DEF LoopOrder

\* The order makes callbacks and timers run once.
LEMMA LoopMeans ==
  ASSUME LoopInv, LoopOrder
  PROVE  Loop!RunOnce
BY DEF LoopInv, LoopOrder, PostsInOrder, FiresOnce, TimersUnique, Posts, Through, Loop!RunOnce
-----------------------------------------------------------------------------
(***************************************************************************)
(* DebouncedDispatcher: a dispatch that was started is with one holder.    *)
(***************************************************************************)
\* f gives each member of S a part of N: the parts make up N and are apart.
Apart(f, S, N) ==
  /\ \A x \in S : f[x] \subseteq N
  /\ \A d \in N : \E x \in S : d \in f[x]
  /\ \A x, y \in S : x # y => f[x] \cap f[y] = {}

\* What one hands to another is with that other one afterwards.
LEMMA HandsOver ==
  ASSUME NEW S, NEW N, NEW f, NEW new, NEW g \in S, NEW h \in S, g # h, NEW D, D \subseteq f[g],
         Apart(f, S, N), new[g] = f[g] \ D, new[h] = f[h] \cup D,
         \A x \in S : x # g /\ x # h => new[x] = f[x]
  PROVE  Apart(new, S, N)
<1>1. \A x \in S : new[x] \subseteq N
  BY DEF Apart
<1>2. ASSUME NEW d \in N
      PROVE  \E x \in S : d \in new[x]
  <2>1. PICK x \in S : d \in f[x]
    BY DEF Apart
  <2>2. d \in new[x] \/ d \in new[h]
    BY <2>1
  <2>3. QED
    BY <2>2
<1>3. ASSUME NEW x \in S, NEW y \in S, x # y
      PROVE  new[x] \cap new[y] = {}
  <2>1. f[x] \cap f[y] = {} /\ (x # g => D \cap f[x] = {}) /\ (y # g => D \cap f[y] = {})
    BY <1>3 DEF Apart
  <2>2. QED
    BY <1>3, <2>1
<1>4. QED
  BY <1>1, <1>2, <1>3 DEF Apart

\* A new dispatch is with the one that started it.
LEMMA StartsWith ==
  ASSUME NEW S, NEW n \in Nat, NEW f, NEW new, NEW h \in S,
         Apart(f, S, 1..n), f[h] = {}, new[h] = {n + 1}, \A x \in S : x # h => new[x] = f[x]
  PROVE  Apart(new, S, 1..n + 1)
<1>1. \A d : d \in 1..n + 1 <=> d \in 1..n \/ d = n + 1
  OBVIOUS
<1>2. n + 1 \notin 1..n
  OBVIOUS
<1>3. \A x \in S : new[x] \subseteq 1..n + 1
  BY <1>1 DEF Apart
<1>4. ASSUME NEW d \in 1..n + 1
      PROVE  \E x \in S : d \in new[x]
  <2>1. CASE d = n + 1
    BY <2>1
  <2>2. CASE d \in 1..n
    <3>1. PICK x \in S : d \in f[x]
      BY <2>2 DEF Apart
    <3>2. QED
      BY <3>1
  <2>3. QED
    BY <1>1, <2>1, <2>2
<1>5. ASSUME NEW x \in S, NEW y \in S, x # y
      PROVE  new[x] \cap new[y] = {}
  <2>1. f[x] \subseteq 1..n /\ f[y] \subseteq 1..n /\ f[x] \cap f[y] = {}
    BY <1>5 DEF Apart
  <2>2. QED
    BY <1>2, <1>5, <2>1
<1>6. QED
  BY <1>3, <1>4, <1>5 DEF Apart

OfObject == <<0, "object">>
OfOwner == <<0, "owner">>
OfJoined == <<0, "joined">>
DispatchHolders == Debounce!Callers \cup {OfObject, OfOwner, OfJoined}
DispatchesAt ==
  [h \in DispatchHolders |-> IF h = OfObject THEN obj.timers_ ELSE IF h = OfOwner THEN pc.owner.timers
                             ELSE IF h = OfJoined THEN log.joined ELSE pc.emit[h].timers]

DispatchCounts ==
  /\ \A d \in log.handled : d \in 1..3 /\ d <= log.started /\ pc.disp[d] = "ended"
  /\ \A d \in 1..3 : pc.disp[d] # "none" => d <= log.started
  /\ obj.emitCount_ = Cardinality(log.handled)

DispatchOrder ==
  /\ log.started \in Nat
  /\ Apart(DispatchesAt, DispatchHolders, 1..log.started)
  /\ \A c \in Debounce!Callers : pc.emit[c].at \in {"idle", "emit"} => pc.emit[c].timers = {}
  /\ pc.owner.at # "join" => pc.owner.timers = {}
  /\ pc.owner.at \in {"join", "gone"} => obj.timers_ \subseteq log.late

\* Who still emits, and who has been joined.
DispatchPlaces ==
  /\ pc.owner.at # "alive" => \A e \in Pair : pc.emit[Debounce!Thread(e)].at = "idle"
  /\ \A d \in 1..3 : pc.emit[Debounce!Handler(d)].at # "idle" => pc.disp[d] = "handler"
  /\ \A d \in log.joined : pc.disp[d] = "ended"

\* What one finds in the fields.
LEMMA DispatchFields ==
  ASSUME DebounceInv
  PROVE  /\ DOMAIN obj = {"timers_", "cancelled_", "emitCount_", "finished"}
         /\ DOMAIN pc = {"emit", "disp", "owner"} /\ DOMAIN pc.emit = Debounce!Callers
         /\ DOMAIN pc.disp = 1..3 /\ DOMAIN pc.owner = {"at", "timers"}
         /\ DOMAIN log = {"started", "handled", "joined", "late", "undone"}
         /\ Pair' = Pair /\ Debounce!Callers' = Debounce!Callers
BY DEF DebounceInv, Pair, Owner, Debounce!Callers, Debounce!Thread, Debounce!Handler, Debounce!Dispatches

\* Who calls emit(): a thread or a handler, and these are not one.
LEMMA CallersAre ==
  /\ \A e \in Pair : Debounce!Thread(e) \in Debounce!Callers
  /\ \A d \in 1..3 : Debounce!Handler(d) \in Debounce!Callers
  /\ \A c \in Debounce!Callers :
       (\E e \in Pair : c = Debounce!Thread(e)) \/ \E d \in 1..3 : c = Debounce!Handler(d)
  /\ \A e \in Pair, d \in 1..3 : Debounce!Thread(e) # Debounce!Handler(d)
  /\ \A c, d \in 1..3 : Debounce!Handler(c) = Debounce!Handler(d) => c = d
BY DEF Debounce!Callers, Debounce!Thread, Debounce!Handler, Debounce!Dispatches

\* The places of a dispatch are apart, and no caller is one of them.
LEMMA HoldersApart ==
  /\ OfObject # OfOwner /\ OfObject # OfJoined /\ OfOwner # OfJoined
  /\ OfObject \notin Debounce!Callers /\ OfOwner \notin Debounce!Callers /\ OfJoined \notin Debounce!Callers
<1>1. \A c \in Debounce!Callers : c[2] \in {"thread", "handler"}
  BY DEF Debounce!Callers, Debounce!Thread, Debounce!Handler
<1>2. OfObject[2] = "object" /\ OfOwner[2] = "owner" /\ OfJoined[2] = "joined"
  BY DEF OfObject, OfOwner, OfJoined
<1>3. QED
  BY <1>1, <1>2

\* What each holder has, before and after a step.
LEMMA DispatchFacts ==
  /\ OfObject \in DispatchHolders /\ OfOwner \in DispatchHolders /\ OfJoined \in DispatchHolders
  /\ \A c \in Debounce!Callers : c \in DispatchHolders /\ c # OfObject /\ c # OfOwner /\ c # OfJoined
  /\ DispatchesAt[OfObject] = obj.timers_ /\ DispatchesAt'[OfObject] = obj'.timers_
  /\ DispatchesAt[OfOwner] = pc.owner.timers /\ DispatchesAt'[OfOwner] = pc'.owner.timers
  /\ DispatchesAt[OfJoined] = log.joined /\ DispatchesAt'[OfJoined] = log'.joined
  /\ \A c \in Debounce!Callers :
       DispatchesAt[c] = pc.emit[c].timers /\ DispatchesAt'[c] = pc'.emit[c].timers
  /\ DispatchHolders' = DispatchHolders
<1>1. Debounce!Callers' = Debounce!Callers
  BY DEF Pair, Owner, Debounce!Callers, Debounce!Thread, Debounce!Handler, Debounce!Dispatches
<1>2. /\ DispatchHolders' = DispatchHolders
      /\ OfObject' = OfObject /\ OfOwner' = OfOwner /\ OfJoined' = OfJoined
  BY <1>1 DEF DispatchHolders, OfObject, OfOwner, OfJoined
<1>3. \A c \in Debounce!Callers : c \in DispatchHolders /\ c # OfObject /\ c # OfOwner /\ c # OfJoined
  BY HoldersApart DEF DispatchHolders
<1>4. OfObject \in DispatchHolders /\ OfOwner \in DispatchHolders /\ OfJoined \in DispatchHolders
  BY DEF DispatchHolders
<1>5. DispatchesAt[OfObject] = obj.timers_ /\ DispatchesAt'[OfObject] = obj'.timers_
  BY <1>2, <1>4 DEF DispatchesAt
<1>6. DispatchesAt[OfOwner] = pc.owner.timers /\ DispatchesAt'[OfOwner] = pc'.owner.timers
  BY <1>2, <1>4, HoldersApart DEF DispatchesAt
<1>7. DispatchesAt[OfJoined] = log.joined /\ DispatchesAt'[OfJoined] = log'.joined
  BY <1>2, <1>4, HoldersApart DEF DispatchesAt
<1>8. ASSUME NEW c \in Debounce!Callers
      PROVE  DispatchesAt[c] = pc.emit[c].timers /\ DispatchesAt'[c] = pc'.emit[c].timers
  BY <1>2, <1>3 DEF DispatchesAt
<1>9. QED
  BY <1>2, <1>3, <1>4, <1>5, <1>6, <1>7, <1>8

\* A step of an emit(), and what it leaves alone.
LEMMA EmitterMoves ==
  ASSUME DebounceInv, NEW c \in Debounce!Callers, NEW v, Debounce!Emitter(c, v)
  PROVE  /\ pc'.owner = pc.owner /\ pc'.disp = pc.disp /\ pc'.emit[c] = v
         /\ \A b \in Debounce!Callers : b # c => pc'.emit[b] = pc.emit[b]
BY DispatchFields DEF Debounce!Emitter

\* reap() takes the finished ones off the list, to join them.
LEMMA ReapKeeps ==
  ASSUME DebounceInv, DispatchOrder, NEW c \in Debounce!Callers, Debounce!Reap(c)
  PROVE  DispatchOrder'
<1> DEFINE D == obj.timers_ \cap obj.finished
           v == Debounce!At("reap", D)
<1>1. /\ pc.emit[c].at = "idle" /\ log' = log
      /\ obj'.timers_ = obj.timers_ \ obj.finished /\ Debounce!Emitter(c, v)
  BY DispatchFields DEF Debounce!Reap
<1>2. v.at = "reap" /\ v.timers = D
  BY DEF Debounce!At
<1>3. pc.emit[c].timers = {}
  BY <1>1 DEF DispatchOrder
<1> HIDE DEF v
<1>4. /\ pc'.owner = pc.owner /\ pc'.emit[c] = v
      /\ \A b \in Debounce!Callers : b # c => pc'.emit[b] = pc.emit[b]
  BY <1>1, EmitterMoves
<1>5. \A b \in Debounce!Callers : pc'.emit[b].at \in {"idle", "emit"} => pc'.emit[b].timers = {}
  BY <1>2, <1>4 DEF DispatchOrder
<1>6. Apart(DispatchesAt', DispatchHolders, 1..log.started)
  <2>1. /\ DispatchesAt'[OfObject] = DispatchesAt[OfObject] \ D
        /\ DispatchesAt'[c] = DispatchesAt[c] \cup D /\ D \subseteq DispatchesAt[OfObject]
    BY <1>1, <1>2, <1>3, <1>4, DispatchFacts
  <2>2. \A h \in DispatchHolders : h # OfObject /\ h # c => DispatchesAt'[h] = DispatchesAt[h]
    BY <1>1, <1>4, DispatchFacts DEF DispatchHolders
  <2>3. Apart(DispatchesAt, DispatchHolders, 1..log.started) /\ c # OfObject
        /\ OfObject \in DispatchHolders /\ c \in DispatchHolders
    BY DispatchFacts DEF DispatchOrder
  <2>4. QED
    BY <2>1, <2>2, <2>3, HandsOver
<1>7. QED
  BY <1>1, <1>4, <1>5, <1>6, DispatchFields, DispatchFacts DEF DispatchOrder

\* emit() joins what it reaped, one after the other.
LEMMA ReapJoinKeeps ==
  ASSUME DebounceInv, DispatchOrder, NEW c \in Debounce!Callers, Debounce!ReapJoin(c)
  PROVE  DispatchOrder'
<1>1. pc.emit[c].at = "reap" /\ obj' = obj
  BY DEF Debounce!ReapJoin
<1>2. CASE pc.emit[c].timers = {} /\ Debounce!Emitter(c, Debounce!At("emit", {})) /\ log' = log
  <2>1. /\ pc'.owner = pc.owner /\ pc'.emit[c] = Debounce!At("emit", {})
        /\ \A b \in Debounce!Callers : b # c => pc'.emit[b] = pc.emit[b]
    BY <1>2, EmitterMoves
  <2>2. pc'.emit[c].timers = {}
    BY <2>1 DEF Debounce!At
  <2>3. \A b \in Debounce!Callers : pc'.emit[b].at \in {"idle", "emit"} => pc'.emit[b].timers = {}
    BY <2>1, <2>2 DEF DispatchOrder
  <2>4. \A h \in DispatchHolders : DispatchesAt'[h] = DispatchesAt[h]
    BY <1>1, <1>2, <2>1, <2>2, DispatchFacts DEF DispatchHolders
  <2>5. Apart(DispatchesAt', DispatchHolders, 1..log.started)
    BY <2>4 DEF DispatchOrder, Apart
  <2>6. QED
    BY <1>1, <1>2, <2>1, <2>3, <2>5, DispatchFields, DispatchFacts DEF DispatchOrder
<1>3. ASSUME NEW d \in pc.emit[c].timers, log' = [log EXCEPT !.joined = @ \cup {d}],
             Debounce!Emitter(c, Debounce!At("reap", pc.emit[c].timers \ {d}))
      PROVE  DispatchOrder'
  <2> DEFINE v == Debounce!At("reap", pc.emit[c].timers \ {d})
  <2>1. v.at = "reap" /\ v.timers = pc.emit[c].timers \ {d} /\ Debounce!Emitter(c, v)
    BY <1>3 DEF Debounce!At
  <2> HIDE DEF v
  <2>2. /\ pc'.owner = pc.owner /\ pc'.emit[c] = v
        /\ \A b \in Debounce!Callers : b # c => pc'.emit[b] = pc.emit[b]
    BY <2>1, EmitterMoves
  <2>3. log'.started = log.started /\ log'.joined = log.joined \cup {d} /\ log'.late = log.late
    BY <1>3, DispatchFields
  <2>4. \A b \in Debounce!Callers : pc'.emit[b].at \in {"idle", "emit"} => pc'.emit[b].timers = {}
    BY <2>1, <2>2 DEF DispatchOrder
  <2>5. Apart(DispatchesAt', DispatchHolders, 1..log.started)
    <3>1. /\ DispatchesAt'[c] = DispatchesAt[c] \ {d} /\ {d} \subseteq DispatchesAt[c]
          /\ DispatchesAt'[OfJoined] = DispatchesAt[OfJoined] \cup {d}
      BY <1>3, <2>1, <2>2, <2>3, DispatchFacts
    <3>2. \A h \in DispatchHolders : h # c /\ h # OfJoined => DispatchesAt'[h] = DispatchesAt[h]
      BY <1>1, <2>2, DispatchFacts DEF DispatchHolders
    <3>3. Apart(DispatchesAt, DispatchHolders, 1..log.started) /\ c # OfJoined
          /\ OfJoined \in DispatchHolders /\ c \in DispatchHolders
      BY DispatchFacts DEF DispatchOrder
    <3>4. QED
      BY <3>1, <3>2, <3>3, HandsOver
  <2>6. QED
    BY <1>1, <2>2, <2>3, <2>4, <2>5, DispatchFields, DispatchFacts DEF DispatchOrder
<1>4. QED
  BY <1>2, <1>3 DEF Debounce!ReapJoin

\* The thread of a new dispatch is with the emit() that started it.
LEMMA EmitStartKeeps ==
  ASSUME DebounceInv, DispatchOrder, NEW c \in Debounce!Callers, Debounce!EmitStart(c)
  PROVE  DispatchOrder'
<1> DEFINE n == log.started
<1>1. /\ pc.emit[c].at = "emit" /\ obj'.timers_ = obj.timers_ /\ pc'.owner = pc.owner
      /\ pc'.emit = [pc.emit EXCEPT ![c] = Debounce!At("register", {n + 1})]
      /\ log'.started = n + 1 /\ log'.joined = log.joined /\ log'.late = log.late
  BY DispatchFields DEF Debounce!EmitStart
<1>2. /\ pc'.emit[c].at = "register" /\ pc'.emit[c].timers = {n + 1}
      /\ \A b \in Debounce!Callers : b # c => pc'.emit[b] = pc.emit[b]
  BY <1>1, DispatchFields DEF Debounce!At
<1>3. \A b \in Debounce!Callers : pc'.emit[b].at \in {"idle", "emit"} => pc'.emit[b].timers = {}
  BY <1>2 DEF DispatchOrder
<1>4. n \in Nat /\ n + 1 \in Nat /\ pc.emit[c].timers = {}
  BY <1>1 DEF DispatchOrder
<1> HIDE DEF n
<1>5. Apart(DispatchesAt', DispatchHolders, 1..n + 1)
  <2>1. DispatchesAt[c] = {} /\ DispatchesAt'[c] = {n + 1}
    BY <1>2, <1>4, DispatchFacts
  <2>2. \A h \in DispatchHolders : h # c => DispatchesAt'[h] = DispatchesAt[h]
    BY <1>1, <1>2, DispatchFacts DEF DispatchHolders
  <2>3. Apart(DispatchesAt, DispatchHolders, 1..n) /\ c \in DispatchHolders
    BY DispatchFacts DEF DispatchOrder, n
  <2>4. QED
    BY <1>4, <2>1, <2>2, <2>3, StartsWith
<1>6. QED
  BY <1>1, <1>3, <1>4, <1>5, DispatchFields, DispatchFacts DEF DispatchOrder

\* The emit() puts it on the list, too late for a destructor that has taken it.
LEMMA EmitRegisterKeeps ==
  ASSUME DebounceInv, DispatchOrder, NEW c \in Debounce!Callers, Debounce!EmitRegister(c)
  PROVE  DispatchOrder'
<1> DEFINE D == pc.emit[c].timers
           v == Debounce!At("idle", {})
<1>1. /\ pc.emit[c].at = "register" /\ obj'.timers_ = obj.timers_ \cup D /\ Debounce!Emitter(c, v)
  BY DispatchFields DEF Debounce!EmitRegister
<1>2. /\ log'.started = log.started /\ log'.joined = log.joined /\ log.late \subseteq log'.late
      /\ pc.owner.at \in {"join", "gone"} => D \subseteq log'.late
  BY DispatchFields DEF Debounce!EmitRegister
<1>3. v.at = "idle" /\ v.timers = {}
  BY DEF Debounce!At
<1> HIDE DEF v
<1>4. /\ pc'.owner = pc.owner /\ pc'.emit[c] = v
      /\ \A b \in Debounce!Callers : b # c => pc'.emit[b] = pc.emit[b]
  BY <1>1, EmitterMoves
<1>5. \A b \in Debounce!Callers : pc'.emit[b].at \in {"idle", "emit"} => pc'.emit[b].timers = {}
  BY <1>3, <1>4 DEF DispatchOrder
<1>6. Apart(DispatchesAt', DispatchHolders, 1..log.started)
  <2>1. /\ DispatchesAt'[c] = DispatchesAt[c] \ D /\ D \subseteq DispatchesAt[c]
        /\ DispatchesAt'[OfObject] = DispatchesAt[OfObject] \cup D
    BY <1>1, <1>3, <1>4, DispatchFacts
  <2>2. \A h \in DispatchHolders : h # c /\ h # OfObject => DispatchesAt'[h] = DispatchesAt[h]
    BY <1>2, <1>4, DispatchFacts DEF DispatchHolders
  <2>3. Apart(DispatchesAt, DispatchHolders, 1..log.started) /\ c # OfObject
        /\ OfObject \in DispatchHolders /\ c \in DispatchHolders
    BY DispatchFacts DEF DispatchOrder
  <2>4. QED
    BY <2>1, <2>2, <2>3, HandsOver
<1>7. pc'.owner.at \in {"join", "gone"} => obj'.timers_ \subseteq log'.late
  BY <1>1, <1>2, <1>4 DEF DispatchOrder
<1>8. QED
  BY <1>2, <1>4, <1>5, <1>6, <1>7, DispatchFields, DispatchFacts DEF DispatchOrder

\* The destructor takes the list,
LEMMA DestroyTakeKeeps ==
  ASSUME DebounceInv, DispatchOrder, Debounce!DestroyTake
  PROVE  DispatchOrder'
<1> DEFINE D == obj.timers_
<1>1. /\ pc.owner.at = "take" /\ log' = log /\ obj'.timers_ = {} /\ pc'.emit = pc.emit
      /\ pc'.owner.at = "join" /\ pc'.owner.timers = D
  BY DispatchFields DEF Debounce!DestroyTake, Debounce!At
<1>2. pc.owner.timers = {}
  BY <1>1 DEF DispatchOrder
<1>3. Apart(DispatchesAt', DispatchHolders, 1..log.started)
  <2>1. /\ DispatchesAt'[OfObject] = DispatchesAt[OfObject] \ D /\ D \subseteq DispatchesAt[OfObject]
        /\ DispatchesAt'[OfOwner] = DispatchesAt[OfOwner] \cup D
    BY <1>1, <1>2, DispatchFacts
  <2>2. \A h \in DispatchHolders : h # OfObject /\ h # OfOwner => DispatchesAt'[h] = DispatchesAt[h]
    BY <1>1, DispatchFacts DEF DispatchHolders
  <2>3. Apart(DispatchesAt, DispatchHolders, 1..log.started)
        /\ OfObject \in DispatchHolders /\ OfOwner \in DispatchHolders
    BY DispatchFacts DEF DispatchOrder
  <2>4. QED
    BY <2>1, <2>2, <2>3, HoldersApart, HandsOver
<1>4. QED
  BY <1>1, <1>3, DispatchFields, DispatchFacts DEF DispatchOrder

\* and joins what is on it.
LEMMA DestroyJoinKeeps ==
  ASSUME DebounceInv, DispatchOrder, Debounce!DestroyJoin
  PROVE  DispatchOrder'
<1>1. pc.owner.at = "join" /\ obj' = obj /\ pc'.emit = pc.emit
  BY DispatchFields DEF Debounce!DestroyJoin
<1>2. CASE pc.owner.timers = {} /\ pc' = [pc EXCEPT !.owner.at = "gone"] /\ log' = log
  <2>1. pc'.owner.at = "gone" /\ pc'.owner.timers = {}
    BY <1>2, DispatchFields
  <2>2. \A h \in DispatchHolders : DispatchesAt'[h] = DispatchesAt[h]
    BY <1>1, <1>2, <2>1, DispatchFacts DEF DispatchHolders
  <2>3. Apart(DispatchesAt', DispatchHolders, 1..log.started)
    BY <2>2 DEF DispatchOrder, Apart
  <2>4. QED
    BY <1>1, <1>2, <2>1, <2>3, DispatchFields, DispatchFacts DEF DispatchOrder
<1>3. ASSUME NEW d \in pc.owner.timers, pc' = [pc EXCEPT !.owner.timers = @ \ {d}],
             log' = [log EXCEPT !.joined = @ \cup {d}]
      PROVE  DispatchOrder'
  <2>1. pc'.owner.at = "join" /\ pc'.owner.timers = pc.owner.timers \ {d}
    BY <1>1, <1>3, DispatchFields
  <2>2. log'.started = log.started /\ log'.joined = log.joined \cup {d} /\ log'.late = log.late
    BY <1>3, DispatchFields
  <2>3. Apart(DispatchesAt', DispatchHolders, 1..log.started)
    <3>1. /\ DispatchesAt'[OfOwner] = DispatchesAt[OfOwner] \ {d} /\ {d} \subseteq DispatchesAt[OfOwner]
          /\ DispatchesAt'[OfJoined] = DispatchesAt[OfJoined] \cup {d}
      BY <1>3, <2>1, <2>2, DispatchFacts
    <3>2. \A h \in DispatchHolders : h # OfOwner /\ h # OfJoined => DispatchesAt'[h] = DispatchesAt[h]
      BY <1>1, DispatchFacts DEF DispatchHolders
    <3>3. Apart(DispatchesAt, DispatchHolders, 1..log.started)
          /\ OfJoined \in DispatchHolders /\ OfOwner \in DispatchHolders
      BY DispatchFacts DEF DispatchOrder
    <3>4. QED
      BY <3>1, <3>2, <3>3, HoldersApart, HandsOver
  <2>4. QED
    BY <1>1, <2>1, <2>2, <2>3, DispatchFields, DispatchFacts DEF DispatchOrder
<1>4. QED
  BY <1>2, <1>3 DEF Debounce!DestroyJoin

\* The threads of the dispatches, cancel(), and the destructor's cancel(), hand
\* nothing over.
LEMMA DispatchesRest ==
  ASSUME DebounceInv, DispatchOrder, obj'.timers_ = obj.timers_, pc'.emit = pc.emit,
         \/ pc'.owner = pc.owner
         \/ pc.owner.at = "alive" /\ pc'.owner.at = "take" /\ pc'.owner.timers = {},
         log'.started = log.started, log'.joined = log.joined, log'.late = log.late
  PROVE  DispatchOrder'
<1>1. pc'.owner.timers = pc.owner.timers
  BY DEF DispatchOrder
<1>2. \A h \in DispatchHolders : DispatchesAt'[h] = DispatchesAt[h]
  BY <1>1, DispatchFacts DEF DispatchHolders
<1>3. Apart(DispatchesAt', DispatchHolders, 1..log.started)
  BY <1>2 DEF DispatchOrder, Apart
<1>4. QED
  BY <1>1, <1>3, DispatchFields, DispatchFacts DEF DispatchOrder

\* Every step of the dispatcher keeps the holders apart.
LEMMA DispatchOrderStep ==
  ASSUME DebounceInv, DispatchOrder, Debounce!Next
  PROVE  DispatchOrder'
<1>1. CASE Debounce!Cancel
  <2>1. obj'.timers_ = obj.timers_ /\ pc' = pc /\ log' = log
    BY <1>1, DispatchFields DEF Debounce!Cancel
  <2>2. QED
    BY <2>1, DispatchesRest
<1>2. CASE Debounce!Destroy
  <2>1. obj'.timers_ = obj.timers_ /\ log' = log /\ pc'.emit = pc.emit
        /\ pc.owner.at = "alive" /\ pc'.owner.at = "take" /\ pc'.owner.timers = {}
    BY <1>2, DispatchFields DEF Debounce!Destroy, Debounce!At
  <2>2. QED
    BY <2>1, DispatchesRest
<1>3. ASSUME NEW d \in 1..3, Debounce!Awake(d) \/ Debounce!Handled(d)
      PROVE  DispatchOrder'
  <2>1. pc'.emit = pc.emit /\ pc'.owner = pc.owner
    BY <1>3, DispatchFields DEF Debounce!Awake, Debounce!Handled, Debounce!Dispatch
  <2>2. obj'.timers_ = obj.timers_
    BY <1>3, DispatchFields DEF Debounce!Awake, Debounce!Handled
  <2>3. log'.started = log.started /\ log'.joined = log.joined /\ log'.late = log.late
    BY <1>3, DispatchFields DEF Debounce!Awake, Debounce!Handled
  <2>4. QED
    BY <2>1, <2>2, <2>3, DispatchesRest
<1>4. QED
  BY <1>1, <1>2, <1>3, ReapKeeps, ReapJoinKeeps, EmitStartKeeps, EmitRegisterKeeps, DestroyTakeKeeps,
     DestroyJoinKeeps DEF Debounce!Next, Debounce!Dispatches

\* What does not touch the dispatches leaves the counts.
LEMMA CountsRest ==
  ASSUME DispatchCounts, pc'.disp = pc.disp, log'.handled = log.handled, log'.started = log.started,
         obj'.emitCount_ = obj.emitCount_
  PROVE  DispatchCounts'
BY DEF DispatchCounts

\* A dispatch is counted when it has been handled, and then it has ended.
LEMMA DispatchCountsStep ==
  ASSUME DebounceInv, DispatchOrder, DispatchCounts, Debounce!Next
  PROVE  DispatchCounts'
<1>1. CASE Debounce!Cancel \/ Debounce!Destroy \/ Debounce!DestroyTake \/ Debounce!DestroyJoin
  <2> USE DispatchFields
      DEF Debounce!Cancel, Debounce!Destroy, Debounce!DestroyTake, Debounce!DestroyJoin
  <2>1. pc'.disp = pc.disp /\ obj'.emitCount_ = obj.emitCount_
    BY <1>1
  <2>2. log'.handled = log.handled /\ log'.started = log.started
    BY <1>1
  <2>3. QED
    BY <2>1, <2>2, CountsRest
<1>2. ASSUME NEW c \in Debounce!Callers, Debounce!Reap(c) \/ Debounce!ReapJoin(c) \/ Debounce!EmitRegister(c)
      PROVE  DispatchCounts'
  <2>1. \E v : Debounce!Emitter(c, v)
    BY <1>2 DEF Debounce!Reap, Debounce!ReapJoin, Debounce!EmitRegister
  <2>2. pc'.disp = pc.disp
    BY <2>1, EmitterMoves
  <2>3. /\ log'.handled = log.handled /\ log'.started = log.started
        /\ obj'.emitCount_ = obj.emitCount_
    BY <1>2, DispatchFields DEF Debounce!Reap, Debounce!ReapJoin, Debounce!EmitRegister
  <2>4. QED
    BY <2>2, <2>3, CountsRest
<1>3. ASSUME NEW c \in Debounce!Callers, Debounce!EmitStart(c)
      PROVE  DispatchCounts'
  <2> DEFINE n == log.started
  <2>1. /\ pc'.disp = [pc.disp EXCEPT ![n + 1] = "asleep"] /\ log'.started = n + 1
        /\ log'.handled = log.handled /\ obj'.emitCount_ = obj.emitCount_
    BY <1>3, DispatchFields DEF Debounce!EmitStart
  <2>2. n \in Nat /\ DOMAIN pc.disp = 1..3
    BY DispatchFields DEF DispatchOrder
  <2> HIDE DEF n
  <2>3. \A d \in log.handled : d \in 1..3 /\ d <= n /\ pc.disp[d] = "ended"
    BY DEF DispatchCounts, n
  <2>4. \A d \in log.handled : d \in 1..3 /\ d <= n + 1 /\ d # n + 1
    BY <2>2, <2>3
  <2>5. \A d \in log.handled : pc'.disp[d] = "ended"
    BY <2>1, <2>2, <2>3, <2>4
  <2>6. ASSUME NEW d \in 1..3, pc'.disp[d] # "none"
        PROVE  d <= n + 1
    <3>1. d = n + 1 \/ d <= n
      BY <2>1, <2>2, <2>6 DEF DispatchCounts, n
    <3>2. QED
      BY <2>2, <3>1
  <2>7. QED
    BY <2>1, <2>4, <2>5, <2>6 DEF DispatchCounts
<1>4. ASSUME NEW d \in 1..3, Debounce!Awake(d)
      PROVE  DispatchCounts'
  <2>1. pc.disp[d] = "asleep" /\ \E place : pc'.disp = [pc.disp EXCEPT ![d] = place]
    BY <1>4, DispatchFields DEF Debounce!Awake, Debounce!Dispatch
  <2>2. log' = log /\ obj'.emitCount_ = obj.emitCount_
    BY <1>4, DispatchFields DEF Debounce!Awake
  <2>3. \A c \in 1..3 : c # d => pc'.disp[c] = pc.disp[c]
    BY <2>1, DispatchFields
  <2>4. d \notin log.handled /\ d <= log.started
    BY <2>1 DEF DispatchCounts
  <2>5. QED
    BY <2>2, <2>3, <2>4 DEF DispatchCounts
<1>5. ASSUME NEW d \in 1..3, Debounce!Handled(d)
      PROVE  DispatchCounts'
  <2>1. pc.disp[d] = "handler" /\ pc'.disp = [pc.disp EXCEPT ![d] = "ended"]
    BY <1>5, DispatchFields DEF Debounce!Handled, Debounce!Dispatch
  <2>2. /\ log'.started = log.started /\ log'.handled = log.handled \cup {d}
        /\ obj'.emitCount_ = obj.emitCount_ + 1
    BY <1>5, DispatchFields DEF Debounce!Handled
  <2>3. pc'.disp[d] = "ended" /\ \A c \in 1..3 : c # d => pc'.disp[c] = pc.disp[c]
    BY <2>1, DispatchFields
  <2>4. d \notin log.handled /\ d <= log.started
    BY <2>1 DEF DispatchCounts
  <2>5. IsFiniteSet(log.handled)
    <3>1. IsFiniteSet(1..3)
      BY UpTo
    <3>2. log.handled \subseteq 1..3
      BY DEF DispatchCounts
    <3>3. QED
      BY <3>1, <3>2, FS_Subset
  <2>6. Cardinality(log'.handled) = Cardinality(log.handled) + 1
    BY <2>2, <2>4, <2>5, FS_AddElement
  <2>7. QED
    BY <2>2, <2>3, <2>4, <2>6 DEF DispatchCounts
<1>6. QED
  BY <1>1, <1>2, <1>3, <1>4, <1>5 DEF Debounce!Next, Debounce!Dispatches


\* Only an emit() moves a caller, and a dispatch is joined when it has ended.
LEMMA DispatchPlacesStep ==
  ASSUME DebounceInv, DispatchOrder, DispatchCounts, DispatchPlaces, Debounce!Next
  PROVE  DispatchPlaces'
<1>1. /\ pc.owner.at # "alive" => \A e \in Pair : pc.emit[Debounce!Thread(e)].at = "idle"
      /\ \A d \in 1..3 : pc.emit[Debounce!Handler(d)].at # "idle" => pc.disp[d] = "handler"
      /\ \A d \in log.joined : pc.disp[d] = "ended"
      /\ Pair' = Pair
  BY DispatchFields DEF DispatchPlaces
<1>2. \A x : Debounce!Thread(x)' = Debounce!Thread(x) /\ Debounce!Handler(x)' = Debounce!Handler(x)
  BY DEF Debounce!Thread, Debounce!Handler
<1>3. ASSUME pc'.emit = pc.emit, pc'.disp = pc.disp, log'.joined = log.joined,
             pc'.owner.at # "alive" => \A e \in Pair : pc.emit[Debounce!Thread(e)].at = "idle"
      PROVE  DispatchPlaces'
  BY <1>1, <1>2, <1>3 DEF DispatchPlaces
<1>4. CASE Debounce!Cancel
  <2>1. pc' = pc /\ log' = log
    BY <1>4 DEF Debounce!Cancel
  <2>2. QED
    BY <1>1, <1>3, <2>1
<1>5. CASE Debounce!Destroy
  <2>1. pc'.emit = pc.emit /\ pc'.disp = pc.disp /\ log' = log
        /\ \A e \in Pair : pc.emit[Debounce!Thread(e)].at = "idle"
    BY <1>5, DispatchFields DEF Debounce!Destroy
  <2>2. QED
    BY <1>3, <2>1
<1>6. CASE Debounce!DestroyTake
  <2>1. pc'.emit = pc.emit /\ pc'.disp = pc.disp /\ log' = log /\ pc.owner.at # "alive"
    BY <1>6, DispatchFields DEF Debounce!DestroyTake
  <2>2. QED
    BY <1>1, <1>3, <2>1
<1>7. CASE Debounce!DestroyJoin
  <2>1. pc'.emit = pc.emit /\ pc'.disp = pc.disp /\ pc.owner.at # "alive"
    BY <1>7, DispatchFields DEF Debounce!DestroyJoin
  <2>2. \/ log' = log
        \/ \E d : pc.disp[d] = "ended" /\ log'.joined = log.joined \cup {d}
    BY <1>7, DispatchFields DEF Debounce!DestroyJoin
  <2>3. \A d \in log'.joined : pc'.disp[d] = "ended"
    BY <1>1, <2>1, <2>2
  <2>4. QED
    BY <1>1, <1>2, <2>1, <2>3 DEF DispatchPlaces
<1>8. ASSUME NEW c \in Debounce!Callers, pc'.owner = pc.owner,
             \A b \in Debounce!Callers : b # c => pc'.emit[b] = pc.emit[b],
             pc.emit[c].at # "idle" \/ Debounce!Calls(c)
      PROVE  /\ pc'.owner.at # "alive" => \A e \in Pair : pc'.emit[Debounce!Thread(e)].at = "idle"
             /\ \A d \in 1..3 : pc'.emit[Debounce!Handler(d)].at # "idle" => pc.disp[d] = "handler"
  <2>1. ASSUME pc.owner.at # "alive", NEW e \in Pair
        PROVE  pc'.emit[Debounce!Thread(e)].at = "idle"
    <3>1. pc.emit[Debounce!Thread(e)].at = "idle" /\ Debounce!Thread(e) \in Debounce!Callers
      BY <1>1, <2>1, CallersAre
    <3>2. Debounce!Thread(e) # c
      <4>1. SUFFICES ASSUME Debounce!Thread(e) = c PROVE FALSE
        OBVIOUS
      <4>2. Debounce!Calls(c)
        BY <1>8, <3>1, <4>1
      <4>3. PICK d \in 1..3 : c = Debounce!Handler(d)
        BY <2>1, <4>2 DEF Debounce!Calls, Debounce!Dispatches
      <4>4. QED
        BY <4>1, <4>3, CallersAre
    <3>3. QED
      BY <1>8, <3>1, <3>2
  <2>2. ASSUME NEW d \in 1..3, pc'.emit[Debounce!Handler(d)].at # "idle", pc.disp[d] # "handler"
        PROVE  FALSE
    <3>1. pc.emit[Debounce!Handler(d)].at = "idle" /\ Debounce!Handler(d) \in Debounce!Callers
      BY <1>1, <2>2, CallersAre
    <3>2. Debounce!Handler(d) = c
      BY <1>8, <2>2, <3>1
    <3>3. Debounce!Calls(c)
      BY <1>8, <3>1, <3>2
    <3>4. \/ \E e \in Pair : c = Debounce!Thread(e)
          \/ \E n \in 1..3 : c = Debounce!Handler(n) /\ pc.disp[n] = "handler"
      BY <3>3 DEF Debounce!Calls, Debounce!Dispatches
    <3>5. QED
      BY <2>2, <3>2, <3>4, CallersAre
  <2>3. QED
    BY <1>8, <2>1, <2>2
<1>9. ASSUME NEW c \in Debounce!Callers, Debounce!Reap(c) \/ Debounce!ReapJoin(c) \/ Debounce!EmitRegister(c)
      PROVE  DispatchPlaces'
  <2>1. PICK v : Debounce!Emitter(c, v)
    BY <1>9 DEF Debounce!Reap, Debounce!ReapJoin, Debounce!EmitRegister
  <2>2. /\ pc'.disp = pc.disp /\ pc'.owner = pc.owner
        /\ \A b \in Debounce!Callers : b # c => pc'.emit[b] = pc.emit[b]
    BY <2>1, EmitterMoves
  <2>3. pc.emit[c].at # "idle" \/ Debounce!Calls(c)
    BY <1>9 DEF Debounce!Reap, Debounce!ReapJoin, Debounce!EmitRegister
  <2>4. \/ log'.joined = log.joined
        \/ \E d : pc.disp[d] = "ended" /\ log'.joined = log.joined \cup {d}
    BY <1>9, DispatchFields DEF Debounce!Reap, Debounce!ReapJoin, Debounce!EmitRegister
  <2>5. \A d \in log'.joined : pc'.disp[d] = "ended"
    BY <1>1, <2>2, <2>4
  <2>6. QED
    BY <1>1, <1>2, <1>8, <2>2, <2>3, <2>5 DEF DispatchPlaces
<1>10. ASSUME NEW c \in Debounce!Callers, Debounce!EmitStart(c)
       PROVE  DispatchPlaces'
  <2> DEFINE n == log.started + 1
  <2>1. /\ pc.emit[c].at = "emit" /\ pc'.owner = pc.owner /\ log'.joined = log.joined
        /\ pc'.emit = [pc.emit EXCEPT ![c] = Debounce!At("register", {n})]
        /\ pc'.disp = [pc.disp EXCEPT ![n] = "asleep"]
    BY <1>10, DispatchFields DEF Debounce!EmitStart
  <2>2. n \notin 1..log.started /\ \A d \in 1..3 : pc.disp[d] # "none" => d <= log.started
    BY DEF DispatchOrder, DispatchCounts
  <2>3. \A d \in 1..3 : pc.disp[d] # "none" => d # n
    BY <2>2 DEF DispatchOrder
  <2> HIDE DEF n
  <2>4. log.joined \subseteq 1..log.started
    BY DispatchFacts DEF DispatchOrder, Apart
  <2>5. ASSUME NEW d \in log.joined
        PROVE  pc'.disp[d] = "ended"
    <3>1. pc.disp[d] = "ended" /\ d # n
      BY <1>1, <2>2, <2>4
    <3>2. pc'.disp[d] = pc.disp[d]
      <4>1. CASE d \in 1..3
        BY <2>1, <3>1, <4>1, DispatchFields
      <4>2. CASE d \notin 1..3
        BY <2>1, <3>1, <4>2, DispatchFields
      <4>3. QED
        BY <4>1, <4>2
    <3>3. QED
      BY <3>1, <3>2
  <2>6. \A d \in 1..3 : pc.disp[d] = "handler" => pc'.disp[d] = "handler"
    BY <2>1, <2>3, DispatchFields
  <2>7. \A b \in Debounce!Callers : b # c => pc'.emit[b] = pc.emit[b]
    BY <2>1, DispatchFields
  <2>8. QED
    BY <1>1, <1>2, <1>8, <2>1, <2>5, <2>6, <2>7 DEF DispatchPlaces
<1>11. ASSUME NEW d \in 1..3, Debounce!Awake(d) \/ Debounce!Handled(d)
       PROVE  DispatchPlaces'
  <2>1. /\ pc.disp[d] \in {"asleep", "handler"} /\ (pc.disp[d] = "handler" => pc.emit[Debounce!Handler(d)].at = "idle")
        /\ \E place : Debounce!Dispatch(d, place)
        /\ log'.joined = log.joined
    BY <1>11, DispatchFields DEF Debounce!Awake, Debounce!Handled
  <2>2. /\ pc'.emit = pc.emit /\ pc'.owner = pc.owner
        /\ \E place : pc'.disp = [pc.disp EXCEPT ![d] = place]
    BY <2>1, DispatchFields DEF Debounce!Dispatch
  <2>3. \A c : c # d /\ (pc.disp[c] = "ended" \/ c \in 1..3) => pc'.disp[c] = pc.disp[c]
    <3>1. PICK place : pc'.disp = [pc.disp EXCEPT ![d] = place]
      BY <2>2
    <3>2. ASSUME NEW c, c # d
          PROVE  pc'.disp[c] = pc.disp[c]
      <4>1. CASE c \in 1..3
        BY <3>1, <3>2, <4>1, DispatchFields
      <4>2. CASE c \notin 1..3
        BY <3>1, <3>2, <4>2, DispatchFields
      <4>3. QED
        BY <4>1, <4>2
    <3>3. QED
      BY <3>2
  <2>4. \A c \in log.joined : c # d /\ pc'.disp[c] = "ended"
    BY <1>1, <2>1, <2>3
  <2>5. \A c \in 1..3 : pc.emit[Debounce!Handler(c)].at # "idle" => c # d
    BY <1>1, <2>1
  <2>6. QED
    BY <1>1, <1>2, <2>1, <2>2, <2>3, <2>4, <2>5 DEF DispatchPlaces
<1>12. QED
  BY <1>4, <1>5, <1>6, <1>7, <1>9, <1>10, <1>11 DEF Debounce!Next, Debounce!Dispatches

\* A new dispatcher holds nothing.
LEMMA DispatchOrderInit ==
  ASSUME Debounce!Init
  PROVE  DispatchOrder /\ DispatchCounts /\ DispatchPlaces
<1>1. /\ obj.timers_ = {} /\ obj.emitCount_ = 0 /\ pc.owner.at = "alive" /\ pc.owner.timers = {}
      /\ \A c \in Debounce!Callers : pc.emit[c].timers = {} /\ pc.emit[c].at = "idle"
      /\ log.started = 0 /\ log.handled = {} /\ log.joined = {}
      /\ \A d \in 1..3 : pc.disp[d] = "none"
  BY DEF Debounce!Init, Debounce!At, Debounce!Dispatches
<1>2. Cardinality({}) = 0
  BY FS_EmptySet
<1>3. \A h \in DispatchHolders : DispatchesAt[h] = {}
  BY <1>1, DispatchFacts DEF DispatchHolders
<1>4. Apart(DispatchesAt, DispatchHolders, 1..0)
  BY <1>3 DEF Apart
<1>5. DispatchPlaces
  BY <1>1, CallersAre DEF DispatchPlaces
<1>6. QED
  BY <1>1, <1>2, <1>4, <1>5 DEF DispatchOrder, DispatchCounts

\* The order makes a thread be joined once, and says which may be forgotten.
LEMMA DispatchMeans ==
  ASSUME DebounceInv, DispatchOrder, DispatchCounts, DispatchPlaces
  PROVE  Debounce!JoinedOnce
<1> DEFINE places == {<<0, "object">>, <<0, "owner">>, <<0, "joined">>}
           holders == [h \in Debounce!Callers \cup places |->
             CASE h = <<0, "object">> -> obj.timers_
               [] h = <<0, "owner">> -> pc.owner.timers
               [] h = <<0, "joined">> -> log.joined
               [] OTHER -> pc.emit[h].timers]
           forgotten == (1..log.started) \ log.joined
<1>1. \A h \in DispatchHolders : holders[h] = DispatchesAt[h]
  BY HoldersApart DEF DispatchHolders, DispatchesAt, OfObject, OfOwner, OfJoined
<1>2. DOMAIN holders = DispatchHolders
  BY DEF DispatchHolders, OfObject, OfOwner, OfJoined
<1> HIDE DEF holders, forgotten
<1>3. Apart(DispatchesAt, DispatchHolders, 1..log.started)
  BY DEF DispatchOrder
<1>4. UNION {holders[h] : h \in DOMAIN holders} = 1..log.started
  BY <1>1, <1>2, <1>3 DEF Apart
<1>5. \A g, h \in DOMAIN holders : g # h => holders[g] \cap holders[h] = {}
  BY <1>1, <1>2, <1>3 DEF Apart
<1>6. ASSUME pc.owner.at = "gone", NEW d \in forgotten, d \notin log.late
      PROVE  \E n \in forgotten : d \in pc.emit[Debounce!Handler(n)].timers
  <2>1. d \in 1..log.started /\ d \notin log.joined
    BY DEF forgotten
  <2>2. PICK h \in DispatchHolders : d \in DispatchesAt[h]
    BY <1>3, <2>1 DEF Apart
  <2>3. h # OfJoined
    BY <2>1, <2>2, DispatchFacts
  <2>4. h # OfOwner /\ h # OfObject
    BY <1>6, <2>2, DispatchFacts DEF DispatchOrder
  <2>5. h \in Debounce!Callers /\ d \in pc.emit[h].timers
    BY <2>2, <2>3, <2>4, DispatchFacts DEF DispatchHolders
  <2>6. pc.emit[h].at # "idle"
    BY <2>5 DEF DispatchOrder
  <2>7. \A e \in Pair : h # Debounce!Thread(e)
    BY <1>6, <2>6 DEF DispatchPlaces
  <2>8. PICK n \in 1..3 : h = Debounce!Handler(n)
    BY <2>5, <2>7, CallersAre
  <2>9. pc.disp[n] = "handler"
    BY <2>6, <2>8 DEF DispatchPlaces
  <2>10. n \notin log.joined /\ n <= log.started
    BY <2>9 DEF DispatchPlaces, DispatchCounts
  <2>11. n \in forgotten
    BY <2>10 DEF forgotten, DispatchOrder
  <2>12. QED
    BY <2>5, <2>8, <2>11
<1>7. obj.emitCount_ = Debounce!Cardinality(log.handled)
  <2>1. Debounce!Cardinality(log.handled) = Cardinality(log.handled)
    BY Zenon DEF Debounce!Cardinality, Cardinality
  <2>2. QED
    BY <2>1 DEF DispatchCounts
<1>8. QED
  BY <1>4, <1>5, <1>6, <1>7 DEF holders, forgotten, Debounce!JoinedOnce
-----------------------------------------------------------------------------
(***************************************************************************)
(* WebServer and App: the numbers on the list are those of clients that    *)
(* are being served, and a thread is on the list or about to be joined.    *)
(***************************************************************************)
WebTypes ==
  /\ DOMAIN obj = {"running_", "server_fd_", "clientFds_", "clientThreads_"}
  /\ DOMAIN pc = {"main", "client", "stop", "joining", "thread"} /\ DOMAIN pc.thread = Pair
  /\ DOMAIN log = {"fd", "shut", "listenShut", "came", "spoke", "told"} /\ DOMAIN log.fd = Pair

Serving == {"recv", "erase"}
Running == {"register", "close"} \cup Serving

FdsOwned ==
  /\ \A c \in Pair : pc.thread[c] \in Running => log.fd[c] # 0
  /\ \A c, d \in Pair : log.fd[c] = log.fd[d] /\ log.fd[c] # 0 => c = d
  /\ \A c \in Pair : pc.thread[c] # "none" => c \in log.came
  /\ \A n \in obj.clientFds_ : \E c \in Pair : log.fd[c] = n /\ pc.thread[c] \in Serving
  /\ \A c \in Pair : pc.thread[c] \in Serving => log.fd[c] \in obj.clientFds_
  /\ pc.main = "accepted" =>
       /\ pc.client \in Pair /\ pc.client \in log.came
       /\ pc.thread[pc.client] = "none" /\ log.fd[pc.client] # 0

ThreadsOwned ==
  /\ \A c \in Pair : pc.thread[c] \in {"none", "ended"} \cup Running
  /\ \A c \in Pair : pc.thread[c] \in Running => c \in obj.clientThreads_ \cup pc.joining
  /\ pc.joining # {} => pc.stop = "join"
  /\ log.told => ~obj.running_ /\ pc.main # "raise"
  /\ log.told /\ pc.stop = "returned" => obj.clientThreads_ = {}

AppOwned ==
  /\ \A c \in Pair : pc.thread[c] = "none"
  /\ pc.main \in Serving \cup {"accepted"} => pc.client \in Pair
  /\ \A n \in obj.clientFds_ : log.fd[pc.client] = n /\ pc.main \in Serving

\* A step that moves no thread of a client, and accepts nobody.
LEMMA FdsRest ==
  ASSUME WebTypes, FdsOwned, obj'.clientFds_ = obj.clientFds_, pc'.thread = pc.thread, log'.fd = log.fd,
         log'.came = log.came, pc'.main = "accepted" => pc.main = "accepted" /\ pc'.client = pc.client
  PROVE  FdsOwned'
<1>1. Pair' = Pair
  BY DEF Pair, Owner
<1>2. QED
  BY <1>1 DEF FdsOwned

\* A step that leaves the list, the threads and the one that joins them alone.
LEMMA ThreadsRest ==
  ASSUME WebTypes, ThreadsOwned, obj'.clientThreads_ = obj.clientThreads_, pc'.thread = pc.thread,
         pc'.joining = pc.joining, pc'.stop = pc.stop, log'.told = log.told,
         log.told => ~obj'.running_ /\ pc'.main # "raise"
  PROVE  ThreadsOwned'
<1>1. Pair' = Pair
  BY DEF Pair, Owner
<1>2. QED
  BY <1>1 DEF ThreadsOwned

\* The steps of the loop that both servers have.
LEMMA WebGoesOn ==
  ASSUME WebTypes, Web!Listen \/ Web!AcceptFails
  PROVE  /\ WebTypes' /\ log' = log /\ obj'.clientFds_ = obj.clientFds_
         /\ obj'.clientThreads_ = obj.clientThreads_ /\ pc'.thread = pc.thread
         /\ pc'.joining = pc.joining /\ pc'.stop = pc.stop /\ pc'.client = pc.client
         /\ pc'.main \notin {"accepted", "raise"} \cup Serving /\ pc.main \notin {"accepted"} \cup Serving
         /\ pc.main # "raise" => (obj'.running_ = obj.running_)
<1> USE DEF WebTypes
<1>1. Pair' = Pair
  BY DEF Pair, Owner
<1>2. ASSUME NEW place, Web!Main(place)
      PROVE  /\ DOMAIN pc' = DOMAIN pc /\ pc'.main = place /\ pc'.thread = pc.thread
             /\ pc'.joining = pc.joining /\ pc'.stop = pc.stop /\ pc'.client = pc.client
  BY <1>2 DEF Web!Main
<1>3. PICK place \in {"publish", "loop", "accept", "forget", "ended"} : Web!Main(place)
  BY DEF Web!Listen, Web!AcceptFails, Web!Raise, Web!Publish, Web!LoopHead, Web!Forget
<1>4. log' = log /\ pc.main \in {"raise", "publish", "loop", "accept", "forget"}
  BY DEF Web!Listen, Web!AcceptFails, Web!Raise, Web!Publish, Web!LoopHead, Web!Forget
<1>5. /\ DOMAIN obj' = DOMAIN obj /\ obj'.clientFds_ = obj.clientFds_
      /\ obj'.clientThreads_ = obj.clientThreads_
      /\ pc.main # "raise" => (obj'.running_ = obj.running_)
  BY DEF Web!Listen, Web!AcceptFails, Web!Raise, Web!Publish, Web!LoopHead, Web!Forget
<1>6. WebTypes'
  BY <1>1, <1>2, <1>3, <1>4, <1>5
<1>7. pc'.main \notin {"accepted", "raise"} \cup Serving /\ pc.main \notin {"accepted"} \cup Serving
  BY <1>2, <1>3, <1>4 DEF Serving
<1>8. QED
  BY <1>2, <1>3, <1>4, <1>5, <1>6, <1>7

\* A client gets a number that nobody has.
LEMMA WebAccepts ==
  ASSUME WebTypes, NEW c \in Pair, Web!Accept(c)
  PROVE  /\ WebTypes' /\ obj' = obj /\ pc.main = "accept" /\ c \notin log.came
         /\ pc'.main = "accepted" /\ pc'.client = c /\ pc'.thread = pc.thread
         /\ pc'.joining = pc.joining /\ pc'.stop = pc.stop
         /\ log'.told = log.told /\ log'.came = log.came \cup {c}
         /\ log'.fd[c] # 0 /\ \A d \in Pair : log.fd[d] # log'.fd[c] /\ (d # c => log'.fd[d] = log.fd[d])
<1>1. Pair' = Pair
  BY DEF Pair, Owner
<1>2. PICK n \in {1, 2} \ {log.fd[d] : d \in Pair} : log' = [log EXCEPT !.fd[c] = n, !.came = @ \cup {c}]
  BY DEF Web!Accept
<1>3. /\ DOMAIN log' = DOMAIN log /\ log'.fd = [log.fd EXCEPT ![c] = n] /\ log'.told = log.told
      /\ log'.came = log.came \cup {c}
  BY <1>2 DEF WebTypes
<1>4. DOMAIN log'.fd = Pair /\ log'.fd[c] = n /\ \A d \in Pair : d # c => log'.fd[d] = log.fd[d]
  BY <1>3 DEF WebTypes
<1>5. n # 0 /\ \A d \in Pair : log.fd[d] # n
  BY <1>2
<1>6. /\ obj' = obj /\ pc.main = "accept" /\ c \notin log.came
      /\ DOMAIN pc' = DOMAIN pc /\ pc'.main = "accepted" /\ pc'.client = c /\ pc'.thread = pc.thread
      /\ pc'.joining = pc.joining /\ pc'.stop = pc.stop
  BY DEF Web!Accept, WebTypes
<1>7. WebTypes'
  BY <1>1, <1>3, <1>4, <1>6 DEF WebTypes
<1>8. QED
  BY <1>3, <1>4, <1>5, <1>6, <1>7

\* close() gives a number back.
LEMMA WebLowers ==
  ASSUME WebTypes, NEW c \in Pair, log' = Web!Lowered(c)
  PROVE  /\ DOMAIN log' = DOMAIN log /\ DOMAIN log'.fd = Pair /\ log'.fd[c] = 0
         /\ \A d \in Pair : d # c => log'.fd[d] = log.fd[d]
         /\ log'.came = log.came /\ log'.told = log.told
<1>1. /\ DOMAIN log' = DOMAIN log /\ log'.fd = [log.fd EXCEPT ![c] = 0]
      /\ log'.came = log.came /\ log'.told = log.told
  BY DEF Web!Lowered, Web!None, WebTypes
<1>2. QED
  BY <1>1 DEF WebTypes

\* stop() and a client that sends touch neither numbers nor the loop.
LEMMA WebHalts ==
  ASSUME WebTypes, \/ Web!StopFlag \/ Web!StopShut("take") \/ Web!StopShut("returned")
                   \/ Web!StopTake \/ Web!StopJoin \/ \E c \in Pair : Web!Speak(c)
  PROVE  /\ WebTypes' /\ obj'.clientFds_ = obj.clientFds_ /\ pc'.thread = pc.thread
         /\ pc'.main = pc.main /\ pc'.client = pc.client
         /\ log'.fd = log.fd /\ log'.came = log.came
         /\ obj'.running_ = obj.running_ \/ ~obj'.running_
<1> USE DEF WebTypes
<1>1. Pair' = Pair
  BY DEF Pair, Owner
<1>2. /\ DOMAIN pc' = DOMAIN pc /\ pc'.thread = pc.thread /\ pc'.main = pc.main /\ pc'.client = pc.client
  BY DEF Web!StopFlag, Web!StopShut, Web!StopTake, Web!StopJoin, Web!Speak
<1>3. DOMAIN log' = DOMAIN log /\ log'.fd = log.fd /\ log'.came = log.came
  BY DEF Web!StopFlag, Web!StopShut, Web!StopTake, Web!StopJoin, Web!Speak
<1>4. /\ DOMAIN obj' = DOMAIN obj /\ obj'.clientFds_ = obj.clientFds_
      /\ obj'.running_ = obj.running_ \/ ~obj'.running_
  BY DEF Web!StopFlag, Web!StopShut, Web!StopTake, Web!StopJoin, Web!Speak
<1>5. WebTypes'
  BY <1>1, <1>2, <1>3, <1>4
<1>6. QED
  BY <1>2, <1>3, <1>4, <1>5

\* Numbers stay with their clients when the loop has accepted one.
LEMMA AcceptKeepsFds ==
  ASSUME WebTypes, FdsOwned, ThreadsOwned, NEW c \in Pair, Web!Accept(c)
  PROVE  FdsOwned'
<1>1. Pair' = Pair /\ pc.thread[c] = "none"
  BY WebAccepts DEF Pair, Owner, FdsOwned
<1>2. pc'.thread = pc.thread /\ obj'.clientFds_ = obj.clientFds_ /\ log'.came = log.came \cup {c}
      /\ pc'.client = c
  BY WebAccepts
<1>3. log'.fd[c] # 0
  BY WebAccepts
<1>4. \A d \in Pair : log.fd[d] # log'.fd[c] /\ (d # c => log'.fd[d] = log.fd[d])
  BY WebAccepts
<1>5. "none" \notin Running /\ "none" \notin Serving
  BY DEF Running, Serving
<1>6. \A d \in Pair : pc.thread[d] \in Running \cup Serving => d # c /\ log'.fd[d] = log.fd[d]
  BY <1>1, <1>4, <1>5
<1>7. \A d \in Pair : pc'.thread[d] \in Running => log'.fd[d] # 0
  BY <1>2, <1>6 DEF FdsOwned
<1>8. \A d, e \in Pair : log'.fd[d] = log'.fd[e] /\ log'.fd[d] # 0 => d = e
  BY <1>4 DEF FdsOwned
<1>9. \A n \in obj'.clientFds_ : \E d \in Pair : log'.fd[d] = n /\ pc'.thread[d] \in Serving
  BY <1>2, <1>6 DEF FdsOwned
<1>10. \A d \in Pair : pc'.thread[d] \in Serving => log'.fd[d] \in obj'.clientFds_
  BY <1>2, <1>6 DEF FdsOwned
<1>11. \A d \in Pair : pc'.thread[d] # "none" => d \in log'.came
  BY <1>2 DEF FdsOwned
<1>12. pc'.client \in Pair /\ pc'.client \in log'.came
       /\ pc'.thread[pc'.client] = "none" /\ log'.fd[pc'.client] # 0
  BY <1>1, <1>2, <1>3
<1>13. QED
  BY <1>1, <1>7, <1>8, <1>9, <1>10, <1>11, <1>12 DEF FdsOwned

\* A thread is started for the client, or its socket is closed at once.
LEMMA SpawnKeeps ==
  ASSUME WebTypes, FdsOwned, ThreadsOwned, Web!Spawn
  PROVE  WebTypes' /\ FdsOwned' /\ ThreadsOwned'
<1> DEFINE c == pc.client
<1>1. Pair' = Pair /\ pc.main = "accepted"
  BY DEF Pair, Owner, Web!Spawn
<1>2. c \in Pair /\ c \in log.came /\ pc.thread[c] = "none" /\ log.fd[c] # 0
  BY <1>1 DEF FdsOwned
<1>3. CASE /\ obj.running_ /\ log' = log
           /\ obj' = [obj EXCEPT !.clientThreads_ = @ \cup {pc.client}]
           /\ pc' = [pc EXCEPT !.main = "loop", !.thread[pc.client] = "register"]
  <2>1. /\ DOMAIN obj' = DOMAIN obj /\ obj'.clientThreads_ = obj.clientThreads_ \cup {c}
        /\ obj'.clientFds_ = obj.clientFds_ /\ obj'.running_ = obj.running_
    BY <1>3 DEF WebTypes
  <2>2. /\ DOMAIN pc' = DOMAIN pc /\ pc'.main = "loop" /\ pc'.joining = pc.joining /\ pc'.stop = pc.stop
        /\ pc'.thread = [pc.thread EXCEPT ![c] = "register"]
    BY <1>3 DEF WebTypes
  <2>3. DOMAIN pc'.thread = Pair /\ pc'.thread[c] = "register" /\ \A d \in Pair : d # c => pc'.thread[d] = pc.thread[d]
    BY <1>2, <2>2 DEF WebTypes
  <2>4. WebTypes'
    BY <1>1, <1>3, <2>1, <2>2, <2>3 DEF WebTypes
  <2> HIDE DEF c
  <2>5. "register" \in Running /\ "register" \notin Serving /\ "none" \notin Serving
    BY DEF Running, Serving
  <2>6. FdsOwned'
    BY <1>1, <1>2, <1>3, <2>1, <2>2, <2>3, <2>5 DEF FdsOwned
  <2>7. ThreadsOwned'
    <3>1. ~log.told
      BY <1>3 DEF ThreadsOwned
    <3>2. \A d \in Pair : pc'.thread[d] \in {"none", "ended"} \cup Running
      BY <2>3, <2>5 DEF ThreadsOwned
    <3>3. \A d \in Pair : pc'.thread[d] \in Running => d \in obj'.clientThreads_ \cup pc'.joining
      BY <2>1, <2>2, <2>3 DEF ThreadsOwned
    <3>4. QED
      BY <1>1, <1>3, <2>2, <3>1, <3>2, <3>3 DEF ThreadsOwned
  <2>8. QED
    BY <2>4, <2>6, <2>7
<1>4. CASE ~obj.running_ /\ log' = Web!Lowered(c) /\ Web!Main("forget") /\ obj' = obj
  <2>1. /\ DOMAIN pc' = DOMAIN pc /\ pc'.main = "forget" /\ pc'.joining = pc.joining
        /\ pc'.stop = pc.stop /\ pc'.thread = pc.thread
    BY <1>4 DEF Web!Main, WebTypes
  <2>2. /\ DOMAIN log' = DOMAIN log /\ DOMAIN log'.fd = Pair /\ log'.fd[c] = 0
        /\ \A d \in Pair : d # c => log'.fd[d] = log.fd[d]
        /\ log'.came = log.came /\ log'.told = log.told
    BY <1>2, <1>4, WebLowers
  <2> HIDE DEF c
  <2>3. WebTypes'
    BY <1>1, <1>4, <2>1, <2>2 DEF WebTypes
  <2>4. "none" \notin Running \cup Serving
    BY DEF Running, Serving
  <2>5. \A d \in Pair : pc.thread[d] \in Running \cup Serving => d # c /\ log'.fd[d] = log.fd[d]
    BY <1>2, <2>2, <2>4
  <2>6. \A d, e \in Pair : log'.fd[d] = log'.fd[e] /\ log'.fd[d] # 0 => d = e
    BY <2>2 DEF FdsOwned
  <2>7. FdsOwned'
    BY <1>1, <1>4, <2>1, <2>2, <2>5, <2>6 DEF FdsOwned
  <2>8. ThreadsOwned'
    BY <1>4, <2>1, <2>2, ThreadsRest DEF ThreadsOwned
  <2>9. QED
    BY <2>3, <2>7, <2>8
<1>5. QED
  BY <1>3, <1>4 DEF Web!Spawn

\* A thread of a client goes on: what of the numbers and the lists changes.
LEMMA ThreadGoes ==
  ASSUME WebTypes, NEW c \in Pair, NEW place, Web!Thread(c, place)
  PROVE  /\ DOMAIN pc' = DOMAIN pc /\ pc'.main = pc.main /\ pc'.client = pc.client
         /\ pc'.joining = pc.joining /\ pc'.stop = pc.stop
         /\ DOMAIN pc'.thread = Pair /\ pc'.thread[c] = place
         /\ \A d \in Pair : d # c => pc'.thread[d] = pc.thread[d]
<1>1. /\ DOMAIN pc' = DOMAIN pc /\ pc'.main = pc.main /\ pc'.client = pc.client
      /\ pc'.joining = pc.joining /\ pc'.stop = pc.stop
      /\ pc'.thread = [pc.thread EXCEPT ![c] = place]
  BY DEF Web!Thread, WebTypes
<1>2. QED
  BY <1>1 DEF WebTypes

\* A thread that serves goes on, or ends, and stays where the list has it.
LEMMA ServeKeepsThreads ==
  ASSUME WebTypes, ThreadsOwned, NEW c \in Pair, NEW place \in Running \cup {"ended"}, Web!Thread(c, place),
         pc.thread[c] \in Running, UNCHANGED <<obj.running_, obj.clientThreads_, log.told>>
  PROVE  ThreadsOwned'
<1>1. Pair' = Pair
  BY DEF Pair, Owner
<1>2. pc'.main = pc.main /\ pc'.joining = pc.joining /\ pc'.stop = pc.stop
      /\ pc'.thread[c] = place /\ \A d \in Pair : d # c => pc'.thread[d] = pc.thread[d]
  BY ThreadGoes
<1>3. "ended" \notin Running
  BY DEF Running, Serving
<1>4. \A d \in Pair : pc'.thread[d] \in {"none", "ended"} \cup Running
  BY <1>2 DEF ThreadsOwned
<1>5. \A d \in Pair : pc'.thread[d] \in Running => d \in obj'.clientThreads_ \cup pc'.joining
  BY <1>2 DEF ThreadsOwned
<1>6. QED
  BY <1>1, <1>2, <1>4, <1>5 DEF ThreadsOwned

\* The thread of a client puts its number on the list, takes it off, and
\* closes the socket.
LEMMA ServeKeeps ==
  ASSUME WebTypes, FdsOwned, ThreadsOwned, NEW c \in Pair, Web!Serve(c)
  PROVE  WebTypes' /\ FdsOwned' /\ ThreadsOwned'
<1>1. Pair' = Pair
  BY DEF Pair, Owner
<1>2. PICK place \in {"recv", "close", "erase", "ended"} : Web!Thread(c, place)
  BY DEF Web!Serve, Web!Register, Web!Receive, Web!Erase, Web!CloseClient
<1>3. /\ DOMAIN pc' = DOMAIN pc /\ pc'.main = pc.main /\ pc'.client = pc.client
      /\ DOMAIN pc'.thread = Pair /\ pc'.thread[c] = place
      /\ \A d \in Pair : d # c => pc'.thread[d] = pc.thread[d]
  BY <1>2, ThreadGoes
<1>4. DOMAIN obj' = DOMAIN obj /\ obj'.running_ = obj.running_ /\ obj'.clientThreads_ = obj.clientThreads_
  BY DEF Web!Serve, Web!Register, Web!Receive, Web!Erase, Web!CloseClient, WebTypes
<1>5. /\ DOMAIN log' = DOMAIN log /\ DOMAIN log'.fd = Pair
      /\ log'.came = log.came /\ log'.told = log.told
      /\ \A d \in Pair : d # c => log'.fd[d] = log.fd[d]
  <2>1. CASE log' = log
    BY <2>1 DEF WebTypes
  <2>2. CASE log' = Web!Lowered(c)
    BY <2>2, WebLowers
  <2>3. QED
    BY <2>1, <2>2 DEF Web!Serve, Web!Register, Web!Receive, Web!Erase, Web!CloseClient
<1>6. WebTypes'
  BY <1>1, <1>3, <1>4, <1>5 DEF WebTypes
<1>7. pc.thread[c] \in Running /\ pc.thread[c] # "none"
  BY DEF Web!Serve, Web!Register, Web!Receive, Web!Erase, Web!CloseClient, Running, Serving
<1>8. ThreadsOwned'
  <2>1. place \in Running \cup {"ended"}
    BY DEF Running, Serving
  <2>2. QED
    BY <1>2, <1>4, <1>5, <1>7, <2>1, ServeKeepsThreads
<1>9. pc'.main = "accepted" =>
        /\ pc'.client \in Pair /\ pc'.client \in log'.came
        /\ pc'.thread[pc'.client] = "none" /\ log'.fd[pc'.client] # 0
  <2>1. ASSUME pc.main = "accepted"
        PROVE  pc.client \in Pair /\ pc.client # c /\ pc.client \in log.came
               /\ pc.thread[pc.client] = "none" /\ log.fd[pc.client] # 0
    BY <1>7, <2>1 DEF FdsOwned
  <2>2. QED
    BY <1>3, <1>5, <2>1
<1>10. \A d \in Pair : pc'.thread[d] # "none" => d \in log'.came
  BY <1>3, <1>5, <1>7 DEF FdsOwned
<1>11. /\ log.fd[c] # 0 /\ \A d \in Pair : d # c => log.fd[d] # log.fd[c]
  BY <1>7 DEF FdsOwned
<1>12. \A n \in obj.clientFds_ : \E d \in Pair : log.fd[d] = n /\ pc.thread[d] \in Serving
  BY DEF FdsOwned
<1>13. \A d \in Pair : pc.thread[d] \in Serving => log.fd[d] \in obj.clientFds_
  BY DEF FdsOwned
<1>14. /\ \A d \in Pair : pc'.thread[d] \in Running => log'.fd[d] # 0
       /\ \A d, e \in Pair : log'.fd[d] = log'.fd[e] /\ log'.fd[d] # 0 => d = e
  <2>1. CASE log' = log
    BY <1>3, <1>7, <1>11, <2>1 DEF FdsOwned
  <2>2. CASE log' = Web!Lowered(c) /\ place = "ended"
    <3>1. log'.fd[c] = 0 /\ "ended" \notin Running
      BY <2>2, WebLowers DEF Running, Serving
    <3>2. QED
      BY <1>3, <1>5, <2>2, <3>1 DEF FdsOwned
  <2>3. CASE Web!CloseClient(c)
    <3>1. place = "ended"
      BY <1>3, <2>3, ThreadGoes DEF Web!CloseClient
    <3>2. QED
      BY <2>2, <2>3, <3>1 DEF Web!CloseClient
  <2>4. QED
    BY <2>1, <2>3 DEF Web!Serve, Web!Register, Web!Receive, Web!Erase
<1>15. /\ \A n \in obj'.clientFds_ : \E d \in Pair : log'.fd[d] = n /\ pc'.thread[d] \in Serving
       /\ \A d \in Pair : pc'.thread[d] \in Serving => log'.fd[d] \in obj'.clientFds_
  <2> USE DEF Serving
  <2>1. CASE log' = log /\ obj'.clientFds_ = obj.clientFds_ \cup {log.fd[c]} /\ Web!Thread(c, "recv")
    <3>1. pc'.thread[c] = "recv"
      BY <2>1, ThreadGoes
    <3>2. QED
      BY <1>3, <1>12, <1>13, <2>1, <3>1
  <2>2. CASE /\ log' = log /\ obj'.clientFds_ = obj.clientFds_ /\ Web!Thread(c, "close")
             /\ pc.thread[c] = "register"
    <3>1. pc'.thread[c] = "close"
      BY <2>2, ThreadGoes
    <3>2. QED
      BY <1>3, <1>12, <1>13, <2>2, <3>1
  <2>3. CASE log' = log /\ obj'.clientFds_ = obj.clientFds_ /\ Web!Thread(c, "erase") /\ pc.thread[c] = "recv"
    <3>1. pc'.thread[c] = "erase"
      BY <2>3, ThreadGoes
    <3>2. QED
      BY <1>3, <1>12, <1>13, <2>3, <3>1
  <2>4. CASE log' = log /\ obj'.clientFds_ = obj.clientFds_ \ {log.fd[c]} /\ Web!Thread(c, "close")
    <3>1. pc'.thread[c] = "close"
      BY <2>4, ThreadGoes
    <3>2. QED
      BY <1>3, <1>11, <1>12, <1>13, <2>4, <3>1
  <2>5. CASE Web!CloseClient(c)
    <3>1. pc'.thread[c] = "ended" /\ pc.thread[c] = "close" /\ obj'.clientFds_ = obj.clientFds_
      BY <2>5, ThreadGoes DEF Web!CloseClient
    <3>2. QED
      BY <1>3, <1>5, <1>12, <1>13, <3>1
  <2>6. CASE Web!Register(c)
    BY <2>1, <2>2, <2>6 DEF Web!Register, WebTypes
  <2>7. CASE Web!Receive(c)
    BY <2>3, <2>7 DEF Web!Receive
  <2>8. CASE Web!Erase(c)
    BY <2>4, <2>8 DEF Web!Erase, WebTypes
  <2>9. QED
    BY <2>5, <2>6, <2>7, <2>8 DEF Web!Serve
<1>16. FdsOwned'
  BY <1>1, <1>9, <1>10, <1>14, <1>15 DEF FdsOwned
<1>17. QED
  BY <1>6, <1>8, <1>16

\* stop() takes the list of threads and waits for those on it.
LEMMA StopKeepsThreads ==
  ASSUME WebTypes, ThreadsOwned,
         \/ Web!StopFlag \/ Web!StopSteps
         \/ \E c \in Pair : Web!Speak(c)
  PROVE  ThreadsOwned'
<1>1. Pair' = Pair
  BY DEF Pair, Owner
<1>2. ASSUME NEW c \in Pair, pc.thread[c] = "ended"
      PROVE  pc.thread[c] \notin Running
  BY <1>2 DEF Running, Serving
<1>3. CASE Web!StopFlag
  <2>1. /\ pc'.stop = "shut" /\ pc'.main = pc.main /\ pc'.thread = pc.thread /\ pc'.joining = pc.joining
        /\ pc.stop = "idle" /\ ~obj'.running_ /\ obj'.clientThreads_ = obj.clientThreads_
        /\ log'.told = (pc.main # "raise")
    BY <1>3 DEF Web!StopFlag, WebTypes
  <2>2. QED
    BY <1>1, <2>1 DEF ThreadsOwned
<1>4. CASE Web!StopShut("take")
  <2>1. /\ pc'.stop = "take" /\ pc'.main = pc.main /\ pc'.thread = pc.thread /\ pc'.joining = pc.joining
        /\ pc.stop = "shut" /\ obj' = obj /\ log'.told = log.told
    BY <1>4 DEF Web!StopShut, WebTypes
  <2>2. QED
    BY <1>1, <1>4, <2>1 DEF ThreadsOwned
<1>5. CASE Web!StopTake
  <2>1. /\ pc'.stop = IF obj.clientThreads_ = {} THEN "returned" ELSE "join"
        /\ pc'.main = pc.main /\ pc'.thread = pc.thread /\ pc'.joining = obj.clientThreads_
        /\ pc.stop = "take" /\ obj'.running_ = obj.running_ /\ obj'.clientThreads_ = {} /\ log' = log
    BY <1>5 DEF Web!StopTake, WebTypes
  <2>2. pc.joining = {}
    BY <2>1 DEF ThreadsOwned
  <2>3. \A c \in Pair : pc'.thread[c] \in Running => c \in obj'.clientThreads_ \cup pc'.joining
    BY <2>1, <2>2 DEF ThreadsOwned
  <2>4. pc'.joining # {} => pc'.stop = "join"
    BY <2>1
  <2>5. QED
    BY <1>1, <2>1, <2>3, <2>4 DEF ThreadsOwned
<1>6. CASE Web!StopJoin
  <2>1. /\ pc'.stop = "take" /\ pc'.main = pc.main /\ pc'.thread = pc.thread /\ pc'.joining = {}
        /\ obj' = obj /\ log' = log /\ \A c \in pc.joining : pc.thread[c] = "ended"
    BY <1>6 DEF Web!StopJoin, WebTypes
  <2>2. \A c \in Pair : pc'.thread[c] \in Running => c \in obj'.clientThreads_ \cup pc'.joining
    BY <1>2, <2>1 DEF ThreadsOwned
  <2>3. QED
    BY <1>1, <2>1, <2>2 DEF ThreadsOwned
<1>7. ASSUME NEW c \in Pair, Web!Speak(c)
      PROVE  ThreadsOwned'
  <2>1. obj' = obj /\ pc' = pc /\ log'.told = log.told
    BY <1>7 DEF Web!Speak, WebTypes
  <2>2. QED
    BY <1>1, <2>1 DEF ThreadsOwned
<1>8. QED
  BY <1>3, <1>4, <1>5, <1>6, <1>7 DEF Web!StopSteps

\* Every step of WebServer keeps numbers and threads where they belong.
LEMMA ServerStep ==
  ASSUME WebTypes, FdsOwned, ThreadsOwned, Web!WebServerNext
  PROVE  WebTypes' /\ FdsOwned' /\ ThreadsOwned'
<1>1. CASE Web!Listen \/ Web!AcceptFails
  <2>1. FdsOwned'
    BY <1>1, WebGoesOn, FdsRest
  <2>2. ThreadsOwned'
    BY <1>1, WebGoesOn, ThreadsRest DEF ThreadsOwned
  <2>3. QED
    BY <1>1, <2>1, <2>2, WebGoesOn
<1>2. ASSUME NEW c \in Pair, Web!Accept(c)
      PROVE  WebTypes' /\ FdsOwned' /\ ThreadsOwned'
  <2>1. FdsOwned'
    BY <1>2, AcceptKeepsFds
  <2>2. obj' = obj /\ pc'.thread = pc.thread /\ pc'.joining = pc.joining /\ pc'.stop = pc.stop
        /\ log'.told = log.told /\ pc'.main = "accepted"
    BY <1>2, WebAccepts
  <2>3. ThreadsOwned'
    BY <2>2, ThreadsRest DEF ThreadsOwned
  <2>4. QED
    BY <1>2, <2>1, <2>3, WebAccepts
<1>3. CASE Web!StopFlag \/ Web!StopSteps \/ \E c \in Pair : Web!Speak(c)
  <2>1. ThreadsOwned'
    BY <1>3, StopKeepsThreads
  <2>2. /\ WebTypes' /\ obj'.clientFds_ = obj.clientFds_ /\ pc'.thread = pc.thread
        /\ pc'.main = pc.main /\ pc'.client = pc.client
        /\ log'.fd = log.fd /\ log'.came = log.came
    BY <1>3, WebHalts DEF Web!StopSteps
  <2>3. FdsOwned'
    BY <2>2, FdsRest
  <2>4. QED
    BY <2>1, <2>2, <2>3
<1>4. QED
  BY <1>1, <1>2, <1>3, SpawnKeeps, ServeKeeps DEF Web!WebServerNext

\* App starts no thread, and lists the number of the client it serves.
LEMMA AppStep ==
  ASSUME WebTypes, AppOwned, Web!AppNext
  PROVE  WebTypes' /\ AppOwned'
<1>1. Pair' = Pair
  BY DEF Pair, Owner
<1>2. CASE Web!Listen \/ Web!AcceptFails
  <2>1. /\ WebTypes' /\ log' = log /\ obj'.clientFds_ = obj.clientFds_ /\ pc'.thread = pc.thread
        /\ pc'.main \notin {"accepted"} \cup Serving /\ pc.main \notin {"accepted"} \cup Serving
    BY <1>2, WebGoesOn
  <2>2. QED
    BY <1>1, <2>1 DEF AppOwned
<1>3. ASSUME NEW c \in Pair, Web!Accept(c)
      PROVE  WebTypes' /\ AppOwned'
  <2>1. /\ WebTypes' /\ obj' = obj /\ pc.main = "accept" /\ pc'.main = "accepted" /\ pc'.client = c
        /\ pc'.thread = pc.thread
    BY <1>3, WebAccepts
  <2>2. QED
    BY <1>1, <2>1 DEF AppOwned, Serving
<1>4. CASE Web!AppStop \/ \E c \in Pair : Web!Speak(c)
  <2>1. /\ WebTypes' /\ obj'.clientFds_ = obj.clientFds_ /\ pc'.thread = pc.thread
        /\ pc'.main = pc.main /\ pc'.client = pc.client /\ log'.fd = log.fd
    BY <1>4, WebHalts DEF Web!AppStop
  <2>2. QED
    BY <1>1, <2>1 DEF AppOwned
<1>5. ASSUME NEW place, Web!Main(place)
      PROVE  DOMAIN pc' = DOMAIN pc /\ pc'.main = place /\ pc'.thread = pc.thread /\ pc'.client = pc.client
  BY <1>5 DEF Web!Main, WebTypes
<1>6. CASE Web!AppPublish
  <2>1. /\ pc.main = "accepted" /\ DOMAIN obj' = DOMAIN obj /\ obj'.clientFds_ = {log.fd[pc.client]}
        /\ log' = log /\ Web!Main("recv")
    BY <1>6 DEF Web!AppPublish, WebTypes
  <2>2. DOMAIN pc' = DOMAIN pc /\ pc'.main = "recv" /\ pc'.thread = pc.thread /\ pc'.client = pc.client
    BY <1>5, <2>1
  <2>3. QED
    BY <1>1, <2>1, <2>2 DEF AppOwned, WebTypes, Serving
<1>7. CASE Web!AppReceive
  <2>1. pc.main = "recv" /\ obj' = obj /\ log' = log /\ Web!Main("erase")
    BY <1>7 DEF Web!AppReceive
  <2>2. DOMAIN pc' = DOMAIN pc /\ pc'.main = "erase" /\ pc'.thread = pc.thread /\ pc'.client = pc.client
    BY <1>5, <2>1
  <2>3. QED
    BY <1>1, <2>1, <2>2 DEF AppOwned, WebTypes, Serving
<1>8. CASE Web!AppErase
  <2>1. DOMAIN obj' = DOMAIN obj /\ obj'.clientFds_ = {} /\ log' = log /\ Web!Main("close")
    BY <1>8 DEF Web!AppErase, WebTypes
  <2>2. DOMAIN pc' = DOMAIN pc /\ pc'.main = "close" /\ pc'.thread = pc.thread /\ pc'.client = pc.client
    BY <1>5, <2>1
  <2>3. QED
    BY <1>1, <2>1, <2>2 DEF AppOwned, WebTypes, Serving
<1>9. CASE Web!AppClose
  <2>1. pc.main = "close" /\ obj' = obj /\ log' = Web!Lowered(pc.client) /\ Web!Main("loop")
    BY <1>9 DEF Web!AppClose
  <2>2. DOMAIN pc' = DOMAIN pc /\ pc'.main = "loop" /\ pc'.thread = pc.thread /\ pc'.client = pc.client
    BY <1>5, <2>1
  <2>3. DOMAIN log' = DOMAIN log /\ DOMAIN log'.fd = DOMAIN log.fd
    BY <2>1 DEF Web!Lowered, WebTypes
  <2>4. QED
    BY <1>1, <2>1, <2>2, <2>3 DEF AppOwned, WebTypes, Serving
<1>10. QED
  BY <1>2, <1>3, <1>4, <1>6, <1>7, <1>8, <1>9 DEF Web!AppNext, Web!AppLoop

\* A new server has no client.
LEMMA WebInit ==
  ASSUME Web!Init
  PROVE  WebTypes /\ FdsOwned /\ ThreadsOwned /\ AppOwned
<1>1. WebTypes
  BY DEF Web!Init, WebTypes
<1>2. /\ obj.clientFds_ = {} /\ pc.main = "raise" /\ pc.joining = {} /\ log.told = FALSE
      /\ \A c \in Pair : pc.thread[c] = "none" /\ log.fd[c] = 0
  BY DEF Web!Init, Web!None
<1>3. FdsOwned /\ ThreadsOwned /\ AppOwned
  BY <1>2 DEF FdsOwned, ThreadsOwned, AppOwned, Running, Serving
<1>4. QED
  BY <1>1, <1>3

\* So stop() shuts down sockets of its own and leaves no thread,
LEMMA ServerMeans ==
  ASSUME FdsOwned, ThreadsOwned
  PROVE  Web!ShutsDownOwn /\ Web!NoThreadLeft
<1>1. Web!ShutsDownOwn
  BY DEF FdsOwned, Serving, Web!ShutsDownOwn
<1>2. Web!NoThreadLeft
  <2>1. SUFFICES ASSUME pc.stop = "returned", log.told, NEW c \in Pair
                 PROVE  pc.thread[c] \in {"none", "ended"}
    BY DEF Web!NoThreadLeft
  <2>2. obj.clientThreads_ = {} /\ pc.joining = {}
    BY <2>1 DEF ThreadsOwned
  <2>3. QED
    BY <2>2 DEF ThreadsOwned
<1>3. QED
  BY <1>1, <1>2

\* in both servers.
LEMMA AppMeans ==
  ASSUME AppOwned
  PROVE  Web!ShutsDownOwn /\ Web!NoThreadLeft
<1>1. ASSUME NEW n \in obj.clientFds_
      PROVE  pc.client \in Pair /\ log.fd[pc.client] = n
  BY DEF AppOwned
<1>2. QED
  BY <1>1 DEF AppOwned, Web!ShutsDownOwn, Web!NoThreadLeft
-----------------------------------------------------------------------------
(***************************************************************************)
(* All of them together: what is handed out is handed out once.            *)
(***************************************************************************)
HandoutInv ==
  /\ part \in BoundedParts => BlockingOrder
  /\ part = "RingBuffer" => RingOf(obj, log, Slots, Items, Pair)
  /\ part = "ProducerConsumerDemo" => DemoOrder
  /\ part = "ConnectionPool" => PoolOrder
  /\ part = "Mailbox" => MailOrder
  /\ part \in QueueParts => QueueOrder
  /\ part = "BufferedDispatcher" => EventInv
  /\ part = "TaskScheduler" => SchedOrder
  /\ part = "EventLoop" => LoopOrder
  /\ part = "DebouncedDispatcher" => DispatchOrder /\ DispatchCounts /\ DispatchPlaces
  /\ part = "WebServer" => WebTypes /\ FdsOwned /\ ThreadsOwned
  /\ part = "App" => WebTypes /\ AppOwned

\* Each part starts in its own order.
LEMMA HandoutInit == Init => HandoutInv
<1> SUFFICES ASSUME Init PROVE HandoutInv
  OBVIOUS
<1> USE DEF Init, BoundedParts, QueueParts
<1>1. part \in BoundedParts => BlockingOrder
  BY BlockingOrderInit
<1>2. part = "RingBuffer" => RingOf(obj, log, Slots, Items, Pair)
  BY RingOrderInit
<1>3. part = "ProducerConsumerDemo" => DemoOrder
  BY DemoOrderInit
<1>4. part = "ConnectionPool" => PoolOrder
  BY PoolOrderInit
<1>5. part = "Mailbox" => MailOrder
  BY MailOrderInit
<1>6. part \in QueueParts => QueueOrder
  BY QueueOrderInit
<1>7. part = "BufferedDispatcher" => EventInv
  BY EventInitInv
<1>8. part = "TaskScheduler" => SchedOrder
  BY SchedOrderInit
<1>9. part = "EventLoop" => LoopOrder
  BY LoopOrderInit
<1>10. part = "DebouncedDispatcher" => DispatchOrder /\ DispatchCounts /\ DispatchPlaces
  BY DispatchOrderInit
<1>11. part \in {"WebServer", "App"} => WebTypes /\ FdsOwned /\ ThreadsOwned /\ AppOwned
  BY WebInit
<1>12. QED
  BY <1>1, <1>2, <1>3, <1>4, <1>5, <1>6, <1>7, <1>8, <1>9, <1>10, <1>11 DEF HandoutInv

\* A step that changes nothing keeps all of them.
LEMMA HandoutSame ==
  ASSUME HandoutInv, UNCHANGED vars
  PROVE  HandoutInv'
<1>1. /\ obj' = obj /\ pc' = pc /\ log' = log /\ part' = part
      /\ Pair' = Pair
  BY DEF vars, Pair, Owner
<1>2. BlockingOrder => BlockingOrder'
  BY <1>1 DEF BlockingOrder
<1>3. RingOf(obj, log, Slots, Items, Pair)' = RingOf(obj, log, Slots, Items, Pair)
  BY <1>1 DEF RingOf, Circle, Popped
<1>4. DemoOrder => DemoOrder'
  BY <1>1 DEF DemoOrder, DemoItems, DemoThreads, RingOf, Circle, Popped
<1>5. PoolOrder => PoolOrder'
  BY <1>1 DEF PoolOrder, PoolAt, PoolWith, PoolPlaces, Pool!Holders
<1>6. MailOrder => MailOrder'
  BY <1>1 DEF MailOrder
<1>7. QueueOrder => QueueOrder'
  BY <1>1 DEF QueueOrder, TasksAt, TaskWith, TaskPlaces, Carrying, Queue!In, Workers
<1>8. EventInv => EventInv'
  BY <1>1 DEF EventInv, EventsAt, EventPlaces, EventsWith
<1>9. SchedOrder => SchedOrder'
  BY <1>1 DEF SchedOrder, Carries, Carried, Numbered, Unrun, Kept
<1>10. LoopOrder => LoopOrder'
  BY <1>1, PostsRest, FiresRest DEF LoopOrder
<1>11. DispatchOrder /\ DispatchCounts /\ DispatchPlaces => DispatchOrder' /\ DispatchCounts' /\ DispatchPlaces'
  <2>1. Debounce!Callers' = Debounce!Callers
    BY DEF Pair, Owner, Debounce!Callers, Debounce!Thread, Debounce!Handler, Debounce!Dispatches
  <2>2. DispatchOrder => DispatchOrder'
    BY <1>1, <2>1 DEF DispatchOrder, DispatchesAt, DispatchHolders, OfObject, OfOwner, OfJoined
  <2>3. DispatchPlaces => DispatchPlaces'
    BY <1>1 DEF DispatchPlaces, Debounce!Thread, Debounce!Handler
  <2>4. QED
    BY <1>1, <2>2, <2>3, CountsRest
<1>12. WebTypes /\ FdsOwned /\ ThreadsOwned => WebTypes' /\ FdsOwned' /\ ThreadsOwned'
  BY <1>1 DEF WebTypes, FdsOwned, ThreadsOwned
<1>13. WebTypes /\ AppOwned => WebTypes' /\ AppOwned'
  BY <1>1 DEF WebTypes, AppOwned
<1>14. QED
  BY <1>1, <1>2, <1>3, <1>4, <1>5, <1>6, <1>7, <1>8, <1>9, <1>10, <1>11, <1>12, <1>13
     DEF HandoutInv

\* A step of a part keeps the order of that part.
LEMMA HandoutStep == WakeupInv /\ CancelInv /\ HandoutInv /\ [Next]_vars => HandoutInv'
<1> SUFFICES ASSUME WakeupInv, CancelInv, HandoutInv, Next PROVE HandoutInv'
  BY HandoutSame DEF vars
<1>1. part' = part
  BY DEF Next, Untimed, Timed
<1>2. part \in BoundedParts => BlockingOrder'
  <2>1. part \in BoundedParts => Blocking!Next \/ Blocking!BoundedNext
    BY DEF Next, Untimed, Timed, BoundedParts
  <2>2. QED
    BY <2>1, BlockingOrderStep DEF WakeupInv, HandoutInv
<1>3. part = "RingBuffer" => RingOf(obj', log', Slots, Items, Pair)
  BY RingOrderStep DEF Next, Untimed, Timed, HandoutInv
<1>4. part = "ProducerConsumerDemo" => DemoOrder'
  BY DemoOrderStep DEF Next, Untimed, Timed, HandoutInv
<1>5. part = "ConnectionPool" => PoolOrder'
  BY PoolOrderStep DEF Next, Untimed, Timed, WakeupInv, HandoutInv
<1>6. part = "Mailbox" => MailOrder'
  BY MailOrderStep DEF Next, Untimed, Timed, WakeupInv, HandoutInv
<1>7. part \in QueueParts => QueueOrder'
  <2>1. part \in QueueParts =>
          \/ (part = "CommandQueue" /\ Queue!NextV1)
          \/ (part = "CommandQueueV2" /\ Queue!NextV2)
          \/ (part = "ThreadPoolAdvanced" /\ Queue!NextAdvanced)
    BY DEF Next, Untimed, Timed, QueueParts
  <2>2. QED
    BY <1>1, <2>1, QueueOrderStep DEF WakeupInv, HandoutInv, QueueInv
<1>8. part = "BufferedDispatcher" => EventInv'
  BY EventStep DEF Next, Untimed, Timed, HandoutInv
<1>9. part = "TaskScheduler" => SchedOrder'
  BY SchedOrderStep DEF Next, Untimed, Timed, CancelInv, HandoutInv
<1>10. part = "EventLoop" => LoopOrder'
  BY LoopOrderStep DEF Next, Untimed, Timed, CancelInv, HandoutInv
<1>11. part = "DebouncedDispatcher" => DispatchOrder' /\ DispatchCounts' /\ DispatchPlaces'
  <2>1. part = "DebouncedDispatcher" => Debounce!Next
    BY DEF Next, Untimed, Timed
  <2>2. QED
    BY <2>1, DispatchOrderStep, DispatchCountsStep, DispatchPlacesStep DEF CancelInv, HandoutInv
<1>12. part = "WebServer" => WebTypes' /\ FdsOwned' /\ ThreadsOwned'
  <2>1. part = "WebServer" => Web!WebServerNext
    BY DEF Next, Untimed, Timed
  <2>2. QED
    BY <2>1, ServerStep DEF HandoutInv
<1>13. part = "App" => WebTypes' /\ AppOwned'
  <2>1. part = "App" => Web!AppNext
    BY DEF Next, Untimed, Timed
  <2>2. QED
    BY <2>1, AppStep DEF HandoutInv
<1>14. Pair' = Pair
  BY DEF Pair, Owner
<1>15. QED
  BY <1>1, <1>2, <1>3, <1>4, <1>5, <1>6, <1>7, <1>8, <1>9, <1>10, <1>11, <1>12, <1>13, <1>14
     DEF HandoutInv, BoundedParts, QueueParts

\* The orders of the parts make up the property.
LEMMA HandoutMeans == WakeupInv /\ CancelInv /\ HandoutInv => HandedOutOnce
<1> SUFFICES ASSUME WakeupInv, CancelInv, HandoutInv PROVE HandedOutOnce
  OBVIOUS
<1>1. part \in BoundedParts => Blocking!Fifo
  BY DEF HandoutInv, BlockingOrder, Through, Blocking!Fifo
<1>2. part = "RingBuffer" => Ring!Fifo
  BY RingMeans DEF HandoutInv
<1>3. part = "ProducerConsumerDemo" => Demo!Ring!Fifo
  BY DemoMeans DEF HandoutInv
<1>4. part = "ConnectionPool" => Pool!HandedOutOnce
  BY PoolMeans DEF HandoutInv, WakeupInv, PoolInv
<1>5. part = "Mailbox" => Actor!Fifo
  BY MailMeans DEF HandoutInv
<1>6. part \in QueueParts => Queue!RunOnce /\ (part # "ThreadPoolAdvanced" => Queue!Counted)
  BY QueueMeans DEF HandoutInv, WakeupInv
<1>7. part = "BufferedDispatcher" => Shared!DeliveredOnce
  BY EventMeans DEF HandoutInv
<1>8. part = "TaskScheduler" => Sched!InOnePlace
  BY SchedMeans DEF HandoutInv, CancelInv
<1>9. part = "EventLoop" => Loop!RunOnce
  BY LoopMeans DEF HandoutInv, CancelInv
<1>10. part = "DebouncedDispatcher" => Debounce!JoinedOnce
  BY DispatchMeans DEF HandoutInv, CancelInv
<1>11. part \in {"WebServer", "App"} => Web!ShutsDownOwn /\ Web!NoThreadLeft
  BY ServerMeans, AppMeans DEF HandoutInv
<1>12. QED
  BY <1>1, <1>2, <1>3, <1>4, <1>5, <1>6, <1>7, <1>8, <1>9, <1>10, <1>11, Zenon
     DEF HandedOutOnce, BoundedParts, QueueParts

\* What goes in comes out once and is in one place meanwhile: the items of the
\* queues in order, connections, tasks, timers, events and dispatches; a
\* server shuts down the sockets it has and leaves no thread behind, nor does a
\* dispatcher, but for the threads that a handler's emit() starts too late.
THEOREM HandoutsCorrect == Spec => []HandedOutOnce
<1>1. Spec => []WakeupInv
  BY WakeupInitInv, WakeupStep, PTL DEF Spec
<1>2. Spec => []CancelInv
  <2>1. CancelInv /\ [Next]_vars => CancelInv'
    BY CancelStep
  <2>2. QED
    BY <2>1, CancelInitInv, PTL DEF Spec
<1>3. Spec => []HandoutInv
  BY <1>1, <1>2, HandoutInit, HandoutStep, PTL DEF Spec
<1>4. QED
  BY <1>1, <1>2, <1>3, HandoutMeans, PTL
=============================================================================
