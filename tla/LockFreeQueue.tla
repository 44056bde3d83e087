--------------------------- MODULE LockFreeQueue ---------------------------
(***************************************************************************)
(* lock_free_queue::LockFreeQueue (33-stage33/lock-free-queue), the queue  *)
(* of Michael and Scott: a chain of nodes from head_, whose first node is  *)
(* a dummy, to tail_, which may lag behind the end.  Popped nodes go to a  *)
(* second chain, retired_, that only the destructor walks.                 *)
(*                                                                         *)
(* Each load and each exchange of an atomic is a step of its own.  Nodes   *)
(* are never freed while the queue is alive, so an address is never used   *)
(* twice: nodes are numbered in the order of their allocation, node 0 is   *)
(* the dummy of the constructor.  A node stands for its payload too: what  *)
(* matters of the payload is which push() it came from.                    *)
(***************************************************************************)
EXTENDS Naturals, Sequences, FiniteSets

CONSTANTS Threads,
          MaxPushes,   \* bound: calls of push()
          Null         \* nullptr; also the payload of a moved-from node

ASSUME BoundAssumption == MaxPushes \in Nat
ASSUME NullAssumption == Null \notin Nat

Nodes == 0..MaxPushes

VARIABLES
  head, tail,   \* head_, tail_
  next,         \* [Nodes -> Node::next]
  retired,      \* retired_
  retiredNext,  \* [Nodes -> Node::retired_next]
  allocated,    \* how many nodes push() has allocated
  moved,        \* nodes whose payload has been moved out
  pc,           \* where each thread is
  myHead, myTail, myNext,  \* the locals of push() and pop()
  mine          \* push(): newNode; pop(): the payload, then the retired_ seen

shared == <<head, tail, next, retired, retiredNext, allocated, moved>>
local == <<myHead, myTail, myNext, mine>>
vars == <<shared, pc, local>>

Init ==
  /\ head = 0 /\ tail = 0
  /\ next = [n \in Nodes |-> Null]
  /\ retired = Null
  /\ retiredNext = [n \in Nodes |-> Null]
  /\ allocated = 0
  /\ moved = {}
  /\ pc = [t \in Threads |-> "idle"]
  /\ myHead = [t \in Threads |-> Null]
  /\ myTail = [t \in Threads |-> Null]
  /\ myNext = [t \in Threads |-> Null]
  /\ mine = [t \in Threads |-> Null]

At(t, from, to) == pc[t] = from /\ pc' = [pc EXCEPT ![t] = to]
Jump(t, to) == pc' = [pc EXCEPT ![t] = to]
Load(var, t, val) == [var EXCEPT ![t] = val]

\* The locals die with the call.
Forget(t) ==
  /\ myHead' = Load(myHead, t, Null)
  /\ myTail' = Load(myTail, t, Null)
  /\ myNext' = Load(myNext, t, Null)
  /\ mine' = Load(mine, t, Null)

\* tail_.compare_exchange_strong(tail, to)
SwingTail(t, to) == tail' = IF tail = myTail[t] THEN to ELSE tail
-----------------------------------------------------------------------------
(***************************************************************************)
(* push()                                                                  *)
(***************************************************************************)
CallPush(t) ==
  /\ allocated < MaxPushes
  /\ At(t, "idle", "pushTail")
  /\ allocated' = allocated + 1
  /\ mine' = Load(mine, t, allocated + 1)
  /\ UNCHANGED <<head, tail, next, retired, retiredNext, moved, myHead, myTail, myNext>>

PushTail(t) ==
  /\ At(t, "pushTail", "pushNext")
  /\ myTail' = Load(myTail, t, tail)
  /\ UNCHANGED <<shared, myHead, myNext, mine>>

PushNext(t) ==
  /\ At(t, "pushNext", "pushCheck")
  /\ myNext' = Load(myNext, t, next[myTail[t]])
  /\ UNCHANGED <<shared, myHead, myTail, mine>>

PushCheck(t) ==
  /\ pc[t] = "pushCheck"
  /\ Jump(t, IF tail # myTail[t] THEN "pushTail"
             ELSE IF myNext[t] = Null THEN "pushLink" ELSE "pushHelp")
  /\ UNCHANGED <<shared, local>>

\* The exchange is weak: it may fail although the comparison holds.
PushLinkFails(t) ==
  /\ At(t, "pushLink", "pushTail")
  /\ UNCHANGED <<shared, local>>

\* The push takes effect here: the node is linked to the last of the chain.
PushLink(t) ==
  /\ At(t, "pushLink", "pushSwing")
  /\ next[myTail[t]] = Null
  /\ next' = [next EXCEPT ![myTail[t]] = mine[t]]
  /\ UNCHANGED <<head, tail, retired, retiredNext, allocated, moved, local>>

PushSwing(t) ==
  /\ At(t, "pushSwing", "idle")
  /\ SwingTail(t, mine[t])
  /\ Forget(t)
  /\ UNCHANGED <<head, next, retired, retiredNext, allocated, moved>>

PushHelp(t) ==
  /\ At(t, "pushHelp", "pushTail")
  /\ SwingTail(t, myNext[t])
  /\ UNCHANGED <<head, next, retired, retiredNext, allocated, moved, local>>
-----------------------------------------------------------------------------
(***************************************************************************)
(* pop()                                                                   *)
(***************************************************************************)
CallPop(t) ==
  /\ At(t, "idle", "popHead")
  /\ UNCHANGED <<shared, local>>

PopHead(t) ==
  /\ At(t, "popHead", "popTail")
  /\ myHead' = Load(myHead, t, head)
  /\ UNCHANGED <<shared, myTail, myNext, mine>>

PopTail(t) ==
  /\ At(t, "popTail", "popNext")
  /\ myTail' = Load(myTail, t, tail)
  /\ UNCHANGED <<shared, myHead, myNext, mine>>

PopNext(t) ==
  /\ At(t, "popNext", "popCheck")
  /\ myNext' = Load(myNext, t, next[myHead[t]])
  /\ UNCHANGED <<shared, myHead, myTail, mine>>

PopAgain(t) ==
  /\ head # myHead[t]
  /\ At(t, "popCheck", "popHead")
  /\ UNCHANGED <<shared, local>>

MutPopEmpty(t) ==   \* mutant: head_ is not read again before the answer
  /\ myHead[t] = myTail[t] /\ myNext[t] = Null
  /\ At(t, "popCheck", "idle")
  /\ Forget(t)
  /\ UNCHANGED shared

\* nullopt
PopEmpty(t) ==
  /\ head = myHead[t] /\ myHead[t] = myTail[t] /\ myNext[t] = Null
  /\ At(t, "popCheck", "idle")
  /\ Forget(t)
  /\ UNCHANGED shared

MutPopLagging(t) ==   \* mutant: head == tail is not asked
  /\ head = myHead[t]
  /\ At(t, "popCheck", "popExchange")
  /\ UNCHANGED <<shared, local>>

PopLagging(t) ==
  /\ head = myHead[t]
  /\ \/ myHead[t] = myTail[t] /\ myNext[t] # Null /\ At(t, "popCheck", "popHelp")
     \/ myHead[t] # myTail[t] /\ At(t, "popCheck", "popExchange")
  /\ UNCHANGED <<shared, local>>

PopHelp(t) ==
  /\ At(t, "popHelp", "popHead")
  /\ SwingTail(t, myNext[t])
  /\ UNCHANGED <<head, next, retired, retiredNext, allocated, moved, local>>

PopExchangeFails(t) ==
  /\ At(t, "popExchange", "popHead")
  /\ UNCHANGED <<shared, local>>

\* The pop takes effect here: the payload of the new dummy is this thread's.
PopExchange(t) ==
  /\ head = myHead[t]
  /\ At(t, "popExchange", "popMove")
  /\ head' = myNext[t]
  /\ UNCHANGED <<tail, next, retired, retiredNext, allocated, moved, local>>

PopMove(t) ==
  /\ At(t, "popMove", "retireLoad")
  /\ mine' = Load(mine, t, IF myNext[t] \in moved THEN Null ELSE myNext[t])
  /\ moved' = moved \cup {myNext[t]}
  /\ UNCHANGED <<head, tail, next, retired, retiredNext, allocated, myHead, myTail, myNext>>

\* retire(): the value is on its way to the caller; myTail is free for the
\* local head of retire(), and a failed exchange loads it again.
RetireLoad(t) ==
  /\ At(t, "retireLoad", "retireLink")
  /\ myTail' = Load(myTail, t, retired)
  /\ UNCHANGED <<shared, myHead, myNext, mine>>

RetireLink(t) ==
  /\ At(t, "retireLink", "retireExchange")
  /\ retiredNext' = [retiredNext EXCEPT ![myHead[t]] = myTail[t]]
  /\ UNCHANGED <<head, tail, next, retired, allocated, moved, local>>

RetireExchangeFails(t) ==
  /\ At(t, "retireExchange", "retireLink")
  /\ myTail' = Load(myTail, t, retired)
  /\ UNCHANGED <<shared, myHead, myNext, mine>>

MutRetireExchange(t) ==   \* mutant: retired_ is stored and not exchanged
  /\ At(t, "retireExchange", "idle")
  /\ retired' = myHead[t]
  /\ Forget(t)
  /\ UNCHANGED <<head, tail, next, retiredNext, allocated, moved>>

RetireExchange(t) ==
  /\ retired = myTail[t]
  /\ At(t, "retireExchange", "idle")
  /\ retired' = myHead[t]
  /\ Forget(t)
  /\ UNCHANGED <<head, tail, next, retiredNext, allocated, moved>>
-----------------------------------------------------------------------------
Call(t) == CallPush(t) \/ CallPop(t)

Step(t) ==
  \/ PushTail(t) \/ PushNext(t) \/ PushCheck(t) \/ PushHelp(t)
  \/ PushLink(t) \/ PushLinkFails(t) \/ PushSwing(t)
  \/ PopHead(t) \/ PopTail(t) \/ PopNext(t) \/ PopAgain(t) \/ PopEmpty(t)
  \/ PopLagging(t) \/ PopHelp(t) \/ PopExchange(t) \/ PopExchangeFails(t)
  \/ PopMove(t)
  \/ RetireLoad(t) \/ RetireLink(t) \/ RetireExchange(t) \/ RetireExchangeFails(t)

Next == \E t \in Threads : Call(t) \/ Step(t)

Spec == Init /\ [][Next]_vars
-----------------------------------------------------------------------------
\* The nodes a walk from n along succ passes, in order.
Walk(succ, n) ==
  LET at[k \in Nat] == IF k = 0 THEN n
                       ELSE IF at[k - 1] = Null THEN Null ELSE succ[at[k - 1]]
      inside == {k \in 0..MaxPushes + 1 : at[k] # Null}
  IN  [k \in 1..Cardinality(inside) |-> at[k - 1]]

Chain == Walk(next, head)
RetiredChain == Walk(retiredNext, retired)

PushPCs == {"pushTail", "pushNext", "pushCheck", "pushLink", "pushSwing", "pushHelp"}
PopPCs == {"popHead", "popTail", "popNext", "popCheck", "popHelp", "popExchange"}
PoppedPCs == {"popMove", "retireLoad", "retireLink", "retireExchange"}

Local == Nodes \cup {Null}

TypeOK ==
  /\ head \in Nodes /\ tail \in Nodes
  /\ next \in [Nodes -> Local] /\ retiredNext \in [Nodes -> Local]
  /\ retired \in Local
  /\ allocated \in Nodes
  /\ moved \in SUBSET Nodes
  /\ pc \in [Threads -> {"idle"} \cup PushPCs \cup PopPCs \cup PoppedPCs]
  /\ myHead \in [Threads -> Local] /\ myTail \in [Threads -> Local]
  /\ myNext \in [Threads -> Local] /\ mine \in [Threads -> Local]

\* The two walks of the destructor free every node once: "The two sets do
\* not overlap", nothing is lost from either chain and neither has a cycle.
FreedOnce ==
  (\A t \in Threads : pc[t] = "idle") =>
     LET freed == Chain \o RetiredChain IN
       /\ Len(freed) = allocated + 1
       /\ {freed[i] : i \in DOMAIN freed} = 0..allocated

\* tail_ may lag, but the dummy never overtakes it: a node that has been
\* retired is not reachable through tail_ any more.
TailInChain == \E i \in DOMAIN Chain : Chain[i] = tail

\* The queue is linearizable: it implements the atomic first-in first-out
\* queue.  A push takes effect when its node is linked, a pop when head_
\* moves; an empty pop has read a null next pointer of the current head.
CallOf(t) ==
  CASE pc[t] = "idle" -> <<"idle">>
    [] pc[t] = "pushSwing" -> <<"pushed">>
    [] pc[t] \in PushPCs \ {"pushSwing"} -> <<"push", mine[t]>>
    [] pc[t] \in PopPCs -> <<"pop">>
    [] pc[t] = "popMove" -> <<"popped", myNext[t]>>
    [] pc[t] \in PoppedPCs \ {"popMove"} -> <<"popped", mine[t]>>

SawEmpty(t) ==
  /\ pc[t] = "popCheck"
  /\ head = myHead[t] /\ myHead[t] = myTail[t] /\ myNext[t] = Null

Fifo == INSTANCE FifoQueue
          WITH Values <- 1..MaxPushes,
               queue <- Tail(Chain),
               call <- [t \in Threads |-> CallOf(t)],
               seen <- {t \in Threads : SawEmpty(t)}

ImplementsFifo == Fifo!Spec
============================================================================
