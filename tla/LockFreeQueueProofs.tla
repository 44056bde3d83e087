------------------------ MODULE LockFreeQueueProofs ------------------------
(***************************************************************************)
(* Theorems about LockFreeQueue, for every set of threads, finite or not,  *)
(* and every number of pushes: the queue implements the atomic first-in    *)
(* first-out queue, step by step, and its destructor frees each node once. *)
(*                                                                         *)
(* The argument numbers the nodes: pos in the order in which they were     *)
(* linked (0 if they have not been), rank in the order in which they were  *)
(* retired.  head_ and tail_ only ever move to higher positions, so a      *)
(* thread whose exchange succeeds knows that what it read is still so.     *)
(***************************************************************************)
EXTENDS LockFreeQueue, FiniteSetTheorems, SequenceTheorems, WellFoundedInduction, TLAPS

Pushing == {t \in Threads : pc[t] \in PushPCs \ {"pushSwing"}}
Popped == {t \in Threads : pc[t] \in PoppedPCs}

Follows(pos, m, n) == n \in Nodes /\ pos[n] = pos[m] + 1

\* The nodes at positions 1 to len form one chain along succ.
Linked(succ, pos, len) ==
  /\ \A n \in Nodes : pos[n] <= len
  /\ \A m, n \in Nodes : pos[m] = pos[n] /\ pos[m] > 0 => m = n
  /\ \A i \in 1..len : \E n \in Nodes : pos[n] = i
  /\ \A n \in Nodes : pos[n] \in 1..(len - 1) => Follows(pos, n, succ[n])
  /\ \A n \in Nodes : pos[n] \notin 1..(len - 1) => succ[n] = Null

ChainOrder(pos, len) ==
  /\ pos[0] = 1
  /\ \A n \in Nodes : pos[n] > 0 => n <= allocated
  /\ Linked(next, pos, len)

Ends(pos) == 1 <= pos[head] /\ pos[head] <= pos[tail]

\* What a thread in push() has read was the tail, and its successor still is.
PushLocals(pos, t) ==
  /\ pc[t] \in {"pushNext", "pushCheck", "pushLink", "pushHelp", "pushSwing"} =>
       myTail[t] \in Nodes /\ 1 <= pos[myTail[t]] /\ pos[myTail[t]] <= pos[tail]
  /\ pc[t] = "pushCheck" => myNext[t] = Null \/ Follows(pos, myTail[t], myNext[t])
  /\ pc[t] = "pushHelp" => Follows(pos, myTail[t], myNext[t])
  /\ pc[t] = "pushSwing" => Follows(pos, myTail[t], mine[t])

\* What a thread in pop() has read was the head; the tail it read after it was
\* not behind, and was ahead when there is something to pop.
PopLocals(pos, t) ==
  /\ pc[t] \in {"popTail", "popNext", "popCheck", "popHelp", "popExchange"} =>
       myHead[t] \in Nodes /\ 1 <= pos[myHead[t]] /\ pos[myHead[t]] <= pos[head]
  /\ pc[t] \in {"popNext", "popCheck", "popHelp", "popExchange"} =>
       /\ myTail[t] \in Nodes
       /\ pos[myHead[t]] <= pos[myTail[t]] /\ pos[myTail[t]] <= pos[tail]
  /\ pc[t] = "popCheck" =>
       IF myNext[t] = Null THEN myHead[t] = myTail[t]
       ELSE Follows(pos, myHead[t], myNext[t])
  /\ pc[t] = "popHelp" => myHead[t] = myTail[t]
  /\ pc[t] = "popExchange" => pos[myHead[t]] < pos[myTail[t]]
  /\ pc[t] \in {"popHelp", "popExchange"} => Follows(pos, myHead[t], myNext[t])

Locals(pos) == \A t \in Threads : PushLocals(pos, t) /\ PopLocals(pos, t)

\* A node that is not linked yet is the new node of one push().
Owners(pos) ==
  /\ \A t \in Pushing : mine[t] \in 1..allocated /\ pos[mine[t]] = 0
  /\ \A t, u \in Pushing : mine[t] = mine[u] => t = u
  /\ \A n \in 0..allocated : pos[n] = 0 => \E t \in Pushing : mine[t] = n

\* A node that head_ has left is the old head of one pop(), or retired; the
\* retired ones, of ranks count to 1, form one chain from retired_.
RetiredOrder(pos, rank, count) ==
  /\ \A n \in Nodes : rank[n] <= count
  /\ \A m, n \in Nodes : rank[m] = rank[n] /\ rank[m] > 0 => m = n
  /\ \A i \in 1..count : \E n \in Nodes : rank[n] = i
  /\ \A n \in Nodes : rank[n] = 1 => retiredNext[n] = Null
  /\ \A n \in Nodes : rank[n] > 1 =>
       retiredNext[n] \in Nodes /\ rank[retiredNext[n]] = rank[n] - 1
  /\ IF count = 0 THEN retired = Null ELSE retired \in Nodes /\ rank[retired] = count
  /\ \A n \in Nodes : rank[n] > 0 => 1 <= pos[n] /\ pos[n] < pos[head]
  /\ \A n \in Nodes : 1 <= pos[n] /\ pos[n] < pos[head] /\ rank[n] = 0 =>
       \E t \in Popped : myHead[t] = n
  /\ \A t \in Popped :
       /\ myHead[t] \in Nodes /\ 1 <= pos[myHead[t]] /\ pos[myHead[t]] < pos[head]
       /\ rank[myHead[t]] = 0
       /\ pc[t] = "retireExchange" => retiredNext[myHead[t]] = myTail[t]
  /\ \A t, u \in Popped : myHead[t] = myHead[u] => t = u

\* The payload of the new head is moved out once, by the pop() that made it the
\* head.
Payloads(pos) ==
  /\ \A n \in moved : 1 <= pos[n] /\ pos[n] <= pos[head]
  /\ \A t \in Threads : pc[t] = "popMove" =>
       Follows(pos, myHead[t], myNext[t]) /\ myNext[t] \notin moved
  /\ \A t \in Threads : pc[t] \in PoppedPCs \ {"popMove"} => mine[t] \in 1..MaxPushes

Numbered(pos, len, rank, count) ==
  /\ TypeOK
  /\ ChainOrder(pos, len) /\ Ends(pos) /\ Locals(pos) /\ Owners(pos)
  /\ RetiredOrder(pos, rank, count) /\ Payloads(pos)

QueueInv ==
  \E pos, rank \in [Nodes -> Nat], len, count \in Nat : Numbered(pos, len, rank, count)
-----------------------------------------------------------------------------
(***************************************************************************)
(* Steps of one thread                                                     *)
(***************************************************************************)
OthersStay(t) ==
  \A u \in Threads \ {t} :
    /\ pc'[u] = pc[u] /\ mine'[u] = mine[u]
    /\ myHead'[u] = myHead[u] /\ myTail'[u] = myTail[u] /\ myNext'[u] = myNext[u]

\* What a thread knows outlives the steps of the others: positions stay, and
\* head_ and tail_ only move on.
LEMMA LocalsOutlive ==
  ASSUME NEW pos \in [Nodes -> Nat], NEW new \in [Nodes -> Nat], NEW u \in Threads,
         \A n \in Nodes : pos[n] > 0 => new[n] = pos[n],
         TypeOK, head' \in Nodes, tail' \in Nodes,
         pos[head] <= new[head'], pos[tail] <= new[tail'],
         pc'[u] = pc[u], mine'[u] = mine[u], myHead'[u] = myHead[u],
         myTail'[u] = myTail[u], myNext'[u] = myNext[u],
         PushLocals(pos, u), PopLocals(pos, u)
  PROVE  PushLocals(new, u)' /\ PopLocals(new, u)'
<1>1. head \in Nodes /\ tail \in Nodes
  BY DEF TypeOK
<1>2. \A m, n : m \in Nodes /\ 1 <= pos[m] /\ Follows(pos, m, n) => Follows(new, m, n)
  BY DEF Follows
<1>3. \A m \in Nodes : pos[m] >= 1 => new[m] = pos[m]
  OBVIOUS
<1>4. PushLocals(new, u)'
  <2>1. pc[u] \in {"pushNext", "pushCheck", "pushLink", "pushHelp", "pushSwing"} =>
          /\ myTail[u] \in Nodes /\ 1 <= pos[myTail[u]]
          /\ new[myTail[u]] = pos[myTail[u]] /\ new[myTail[u]] <= new[tail']
    BY <1>1, <1>3 DEF PushLocals
  <2>2. QED
    BY <1>2, <2>1 DEF PushLocals, Follows
<1>5. PopLocals(new, u)'
  <2>1. pc[u] \in {"popTail", "popNext", "popCheck", "popHelp", "popExchange"} =>
          /\ myHead[u] \in Nodes /\ 1 <= pos[myHead[u]]
          /\ new[myHead[u]] = pos[myHead[u]] /\ new[myHead[u]] <= new[head']
    BY <1>1, <1>3 DEF PopLocals
  <2>2. pc[u] \in {"popNext", "popCheck", "popHelp", "popExchange"} =>
          /\ myTail[u] \in Nodes /\ 1 <= pos[myTail[u]]
          /\ new[myTail[u]] = pos[myTail[u]] /\ new[myTail[u]] <= new[tail']
    BY <1>1, <1>3, <2>1 DEF PopLocals
  <2>3. QED
    BY <1>2, <2>1, <2>2 DEF PopLocals, Follows
<1>6. QED
  BY <1>4, <1>5

\* A step that moves tail_ on, or nothing that is shared, of a thread that is
\* not between its exchange of head_ and the end of its pop().
LEMMA LocalStep ==
  ASSUME NEW pos \in [Nodes -> Nat], NEW rank \in [Nodes -> Nat],
         NEW len \in Nat, NEW count \in Nat, Numbered(pos, len, rank, count),
         NEW t \in Threads, OthersStay(t), TypeOK',
         UNCHANGED <<head, next, retired, retiredNext, allocated, moved>>,
         pos[tail] <= pos[tail'],
         PushLocals(pos, t)', PopLocals(pos, t)',
         t \in Pushing' <=> t \in Pushing, t \in Pushing => mine'[t] = mine[t],
         t \notin Popped, t \notin Popped'
  PROVE  Numbered(pos, len, rank, count)'
<1> USE DEF Numbered
<1>1. ChainOrder(pos, len)'
  BY DEF ChainOrder, Linked, Follows
<1>2. Ends(pos)'
  BY DEF Ends, TypeOK
<1>3. Locals(pos)'
  <2>1. ASSUME NEW u \in Threads, u # t PROVE PushLocals(pos, u)' /\ PopLocals(pos, u)'
    BY <2>1, LocalsOutlive DEF Locals, OthersStay, TypeOK
  <2>2. QED
    BY <2>1 DEF Locals
<1>4. Pushing' = Pushing /\ Popped' = Popped
  BY DEF Pushing, Popped, OthersStay
<1>5. \A u \in Pushing : mine'[u] = mine[u]
  BY DEF OthersStay, Pushing
<1>6. Owners(pos)'
  BY <1>4, <1>5 DEF Owners
<1>7. \A u \in Popped :
        pc'[u] = pc[u] /\ mine'[u] = mine[u] /\ myHead'[u] = myHead[u]
          /\ myTail'[u] = myTail[u] /\ myNext'[u] = myNext[u]
  BY DEF OthersStay, Popped
<1>8. RetiredOrder(pos, rank, count)'
  BY <1>4, <1>7 DEF RetiredOrder
<1>9. Payloads(pos)'
  <2>1. \A u \in Threads : pc'[u] \in PoppedPCs => u \in Popped
    BY <1>4 DEF Popped
  <2>2. QED
    BY <1>7, <2>1 DEF Payloads, Follows, PoppedPCs
<1>10. QED
  BY <1>1, <1>2, <1>3, <1>6, <1>8, <1>9
-----------------------------------------------------------------------------
(***************************************************************************)
(* push()                                                                  *)
(***************************************************************************)
LEMMA PushReads ==
  ASSUME NEW pos \in [Nodes -> Nat], NEW rank \in [Nodes -> Nat],
         NEW len \in Nat, NEW count \in Nat, Numbered(pos, len, rank, count),
         NEW t \in Threads,
         PushTail(t) \/ PushNext(t) \/ PushCheck(t) \/ PushLinkFails(t)
  PROVE  Numbered(pos, len, rank, count)'
<1> USE DEF At, Jump, Load, shared, local, TypeOK, PushPCs, PopPCs, PoppedPCs
<1>1. OthersStay(t)
  BY DEF OthersStay, PushTail, PushNext, PushCheck, PushLinkFails, Numbered
<1>2. /\ t \in Pushing /\ t \in Pushing' /\ mine'[t] = mine[t]
      /\ t \notin Popped /\ t \notin Popped' /\ UNCHANGED shared
  BY DEF Pushing, Popped, PushTail, PushNext, PushCheck, PushLinkFails, Numbered
<1>3. PushLocals(pos, t) /\ Ends(pos) /\ ChainOrder(pos, len)
  BY DEF Numbered, Locals
<1>4. TypeOK' /\ PushLocals(pos, t)' /\ PopLocals(pos, t)'
  <2>1. CASE PushTail(t)
    <3>1. 1 <= pos[tail] /\ pos[tail] <= pos[tail]
      BY <1>3 DEF Numbered, Ends
    <3>2. QED
      BY <2>1, <3>1 DEF PushTail, Numbered, PushLocals, PopLocals, Local
  <2>2. CASE PushNext(t)
    <3>1. myTail[t] \in Nodes /\ pos[myTail[t]] >= 1
      BY <1>3, <2>2 DEF PushNext, PushLocals
    <3>2. next[myTail[t]] = Null \/ Follows(pos, myTail[t], next[myTail[t]])
      BY <1>3, <3>1 DEF ChainOrder, Linked
    <3>3. QED
      BY <1>3, <2>2, <3>1, <3>2 DEF PushNext, Numbered, PushLocals, PopLocals, Follows
  <2>3. CASE PushCheck(t)
    BY <1>3, <2>3 DEF PushCheck, Numbered, PushLocals, PopLocals, Follows
  <2>4. CASE PushLinkFails(t)
    BY <1>3, <2>4 DEF PushLinkFails, Numbered, PushLocals, PopLocals
  <2>5. QED
    BY <2>1, <2>2, <2>3, <2>4
<1>5. pos[tail] <= pos[tail']
  BY <1>2 DEF Numbered
<1>6. QED
  BY <1>1, <1>2, <1>4, <1>5, LocalStep

\* tail_ moves from a node to its successor, or stays.
LEMMA TailSwings ==
  ASSUME NEW pos \in [Nodes -> Nat], NEW t \in Threads, NEW to, TypeOK,
         Follows(pos, myTail[t], to), SwingTail(t, to)
  PROVE  tail' \in Nodes /\ pos[tail] <= pos[tail']
BY DEF SwingTail, Follows, TypeOK

\* push() swings tail_ to the next node of the chain, or finds that it has
\* moved.
LEMMA PushSwings ==
  ASSUME NEW pos \in [Nodes -> Nat], NEW rank \in [Nodes -> Nat],
         NEW len \in Nat, NEW count \in Nat, Numbered(pos, len, rank, count),
         NEW t \in Threads, PushHelp(t) \/ PushSwing(t)
  PROVE  Numbered(pos, len, rank, count)'
<1> USE DEF At, Load, Forget, local, PushPCs, PopPCs, PoppedPCs
<1>1. OthersStay(t)
  BY DEF OthersStay, PushHelp, PushSwing, Numbered, TypeOK
<1>2. /\ UNCHANGED <<head, next, retired, retiredNext, allocated, moved>>
      /\ t \notin Popped /\ t \notin Popped'
      /\ t \in Pushing' <=> t \in Pushing
      /\ t \in Pushing => mine'[t] = mine[t]
  BY DEF PushHelp, PushSwing, Pushing, Popped, Numbered, TypeOK
<1>3. tail' \in Nodes /\ pos[tail] <= pos[tail']
  <2>1. CASE PushHelp(t)
    BY <2>1, TailSwings DEF PushHelp, Numbered, Locals, PushLocals
  <2>2. CASE PushSwing(t)
    BY <2>2, TailSwings DEF PushSwing, Numbered, Locals, PushLocals
  <2>3. QED
    BY <2>1, <2>2
<1>4. TypeOK'
  BY <1>3 DEF PushHelp, PushSwing, Numbered, TypeOK, Local
<1>5. PushLocals(pos, t)' /\ PopLocals(pos, t)'
  BY DEF PushHelp, PushSwing, Numbered, TypeOK, PushLocals, PopLocals
<1>6. QED
  BY <1>1, <1>2, <1>3, <1>4, <1>5, LocalStep

\* A new node is not in the chain yet; the push() that made it has it alone.
LEMMA CallPushNumbered ==
  ASSUME NEW pos \in [Nodes -> Nat], NEW rank \in [Nodes -> Nat],
         NEW len \in Nat, NEW count \in Nat, Numbered(pos, len, rank, count),
         NEW t \in Threads, CallPush(t)
  PROVE  Numbered(pos, len, rank, count)'
<1> USE DEF At, Load, PushPCs, PopPCs, PoppedPCs, CallPush
<1>1. OthersStay(t) /\ UNCHANGED <<head, tail, next, retired, retiredNext, moved>>
  BY DEF OthersStay, Numbered, TypeOK
<1>2. /\ allocated \in Nat /\ allocated' = allocated + 1
      /\ allocated' \in Nodes
  BY BoundAssumption DEF Numbered, TypeOK, Nodes
<1>3. TypeOK'
  BY <1>1, <1>2 DEF Numbered, TypeOK, Local
<1>4. ChainOrder(pos, len)'
  <2>1. \A n \in Nodes : n <= allocated => n <= allocated'
    BY <1>2 DEF Nodes
  <2>2. QED
    BY <1>1, <2>1 DEF Numbered, ChainOrder, Linked, Follows
<1>5. Ends(pos)'
  BY <1>1 DEF Numbered, Ends
<1>6. Locals(pos)'
  <2>1. ASSUME NEW u \in Threads, u # t PROVE PushLocals(pos, u)' /\ PopLocals(pos, u)'
    BY <1>1, <2>1, LocalsOutlive DEF Numbered, Locals, OthersStay, TypeOK
  <2>2. PushLocals(pos, t)' /\ PopLocals(pos, t)'
    BY DEF Numbered, TypeOK, PushLocals, PopLocals
  <2>3. QED
    BY <2>1, <2>2 DEF Locals
<1>7. Owners(pos)'
  <2>1. Pushing' = Pushing \cup {t} /\ t \notin Pushing
    BY <1>1 DEF Pushing, OthersStay, Numbered, TypeOK
  <2>2. mine'[t] = allocated + 1 /\ \A u \in Pushing : mine'[u] = mine[u]
    BY <1>1, <2>1 DEF OthersStay, Pushing, Numbered, TypeOK
  <2>3. pos[allocated + 1] = 0
    BY <1>2 DEF Numbered, ChainOrder, Linked, Nodes
  <2>4. 0..allocated' = 0..allocated \cup {allocated + 1}
    BY <1>2
  <2>5. \A u \in Pushing : mine[u] \in 1..allocated
    BY DEF Numbered, Owners
  <2>6. QED
    BY <1>2, <2>1, <2>2, <2>3, <2>4, <2>5 DEF Numbered, Owners
<1>8. /\ Popped' = Popped
      /\ \A u \in Popped :
           pc'[u] = pc[u] /\ mine'[u] = mine[u] /\ myHead'[u] = myHead[u]
             /\ myTail'[u] = myTail[u] /\ myNext'[u] = myNext[u]
  BY <1>1 DEF Popped, OthersStay, Numbered, TypeOK
<1>9. RetiredOrder(pos, rank, count)'
  BY <1>1, <1>8 DEF Numbered, RetiredOrder
<1>10. Payloads(pos)'
  <2>1. \A u \in Threads : pc'[u] \in PoppedPCs => u \in Popped
    BY <1>8 DEF Popped
  <2>2. QED
    BY <1>1, <1>8, <2>1 DEF Numbered, Payloads, Follows
<1>11. QED
  BY <1>3, <1>4, <1>5, <1>6, <1>7, <1>9, <1>10 DEF Numbered

\* The new node gets the next position, at the end of the chain.
LEMMA LinkNumbered ==
  ASSUME NEW pos \in [Nodes -> Nat], NEW rank \in [Nodes -> Nat],
         NEW len \in Nat, NEW count \in Nat, Numbered(pos, len, rank, count),
         NEW t \in Threads, PushLink(t), NEW m, m = mine[t]
  PROVE  /\ pos[myTail[t]] = len /\ len >= 1 /\ m \in 1..MaxPushes
         /\ pos[m] = 0 /\ myTail[t] \in Nodes
         /\ Numbered([pos EXCEPT ![m] = len + 1], len + 1, rank, count)'
<1> DEFINE new == [pos EXCEPT ![m] = len + 1]
<1> USE DEF At, PushPCs, PopPCs, PoppedPCs, PushLink, local
<1>1. OthersStay(t) /\ UNCHANGED <<head, tail, retired, retiredNext, allocated, moved>>
  BY DEF OthersStay, Numbered, TypeOK
<1>2. t \in Pushing /\ Pushing' = Pushing \ {t} /\ Popped' = Popped
  BY DEF Pushing, Popped, Numbered, TypeOK
<1>3. /\ mine[t] \in 1..allocated /\ pos[mine[t]] = 0 /\ allocated \in Nodes
      /\ mine[t] \in Nodes /\ mine[t] \in 1..MaxPushes
  BY <1>2, BoundAssumption DEF Numbered, Owners, TypeOK, Nodes
<1>4. myTail[t] \in Nodes /\ 1 <= pos[myTail[t]]
  BY DEF Numbered, Locals, PushLocals
<1>5. pos[myTail[t]] = len /\ len >= 1
  <2>1. pos[myTail[t]] <= len
    BY <1>4 DEF Numbered, ChainOrder, Linked
  <2>2. pos[myTail[t]] \notin 1..(len - 1)
    BY <1>4, NullAssumption DEF Numbered, ChainOrder, Linked, Follows, Nodes
  <2>3. QED
    BY <1>4, <2>1, <2>2
<1>6. /\ new \in [Nodes -> Nat] /\ new[mine[t]] = len + 1
      /\ \A n \in Nodes : n # mine[t] => new[n] = pos[n]
      /\ \A n \in Nodes : pos[n] > 0 => new[n] = pos[n]
      /\ mine[t] # myTail[t]
  BY <1>3, <1>4
<1>7. /\ next'[myTail[t]] = mine[t]
      /\ \A n \in Nodes : n # myTail[t] => next'[n] = next[n]
      /\ next[mine[t]] = Null
  BY <1>3, <1>4 DEF Numbered, TypeOK, ChainOrder, Linked
<1> HIDE DEF new
<1>8. TypeOK'
  BY <1>1, <1>3 DEF Numbered, TypeOK, Local
<1>9. ChainOrder(new, len + 1)'
  <2> USE DEF Numbered, ChainOrder, Linked
  <2>1. new[0] = 1
    <3>1. 0 \in Nodes /\ pos[0] = 1
      BY BoundAssumption DEF Nodes
    <3>2. QED
      BY <1>6, <3>1
  <2>2. \A n \in Nodes : new[n] <= len + 1 /\ (new[n] > 0 => n <= allocated')
    BY <1>1, <1>3, <1>6
  <2>3. \A k, n \in Nodes : new[k] = new[n] /\ new[k] > 0 => k = n
    BY <1>6
  <2>4. \A i \in 1..(len + 1) : \E n \in Nodes : new[n] = i
    <3>1. ASSUME NEW i \in 1..len PROVE \E n \in Nodes : new[n] = i
      <4>1. PICK n \in Nodes : pos[n] = i
        OBVIOUS
      <4>2. QED
        BY <1>6, <4>1
    <3>2. QED
      BY <1>3, <1>6, <3>1
  <2>5. \A n \in Nodes : new[n] \in 1..len => Follows(new, n, next'[n])
    <3>1. ASSUME NEW n \in Nodes, new[n] \in 1..len, n # myTail[t]
          PROVE  Follows(new, n, next'[n])
      <4>1. new[n] = pos[n] /\ pos[n] \in 1..(len - 1)
        BY <1>3, <1>4, <1>5, <1>6, <3>1
      <4>2. next[n] \in Nodes /\ pos[next[n]] = pos[n] + 1
        BY <4>1 DEF Follows
      <4>3. QED
        BY <1>6, <1>7, <3>1, <4>1, <4>2 DEF Follows
    <3>2. Follows(new, myTail[t], next'[myTail[t]])
      BY <1>3, <1>4, <1>5, <1>6, <1>7 DEF Follows
    <3>3. QED
      BY <3>1, <3>2
  <2>6. \A n \in Nodes : new[n] \notin 1..len => next'[n] = Null
    <3> SUFFICES ASSUME NEW n \in Nodes, new[n] \notin 1..len PROVE next'[n] = Null
      OBVIOUS
    <3>1. n # myTail[t]
      BY <1>4, <1>5, <1>6
    <3>2. pos[n] \notin 1..(len - 1)
      BY <1>6
    <3>3. QED
      BY <1>7, <3>1, <3>2
  <2>7. (len + 1) - 1 = len
    OBVIOUS
  <2>8. QED
    BY <2>1, <2>2, <2>3, <2>4, <2>5, <2>6, <2>7 DEF ChainOrder, Linked, Follows
<1>10. /\ head \in Nodes /\ tail \in Nodes /\ 1 <= pos[head] /\ pos[head] <= pos[tail]
       /\ new[head] = pos[head] /\ new[tail] = pos[tail]
  BY <1>6 DEF Numbered, Ends, TypeOK
<1>11. Ends(new)'
  BY <1>1, <1>10 DEF Ends
<1>12. Locals(new)'
  <2>1. ASSUME NEW u \in Threads, u # t PROVE PushLocals(new, u)' /\ PopLocals(new, u)'
    BY <1>1, <1>6, <1>10, <2>1, LocalsOutlive DEF Numbered, Locals, OthersStay
  <2>2. PopLocals(new, t)'
    BY DEF Numbered, TypeOK, PopLocals
  <2>3. PushLocals(new, t)'
    <3>1. pc'[t] = "pushSwing" /\ myTail'[t] = myTail[t] /\ mine'[t] = mine[t]
      BY DEF Numbered, TypeOK
    <3>2. new[myTail[t]] = len /\ len <= new[tail]
      BY <1>4, <1>5, <1>6, <1>10 DEF Numbered, Locals, PushLocals
    <3>3. QED
      BY <1>1, <1>3, <1>4, <1>5, <1>6, <3>1, <3>2 DEF PushLocals, Follows
  <2>4. QED
    BY <2>1, <2>2, <2>3 DEF Locals
<1>13. Owners(new)'
  <2>1. \A u \in Pushing \ {t} : mine[u] # mine[t] /\ mine[u] \in Nodes
    <3>1. \A u \in Pushing \ {t} : mine[u] # mine[t] /\ mine[u] \in 1..allocated
      BY <1>2 DEF Numbered, Owners
    <3>2. 1..allocated \subseteq Nodes
      BY <1>3, BoundAssumption DEF Nodes
    <3>3. QED
      BY <3>1, <3>2
  <2>2. \A u \in Pushing \ {t} : new[mine[u]] = 0
    BY <1>6, <2>1 DEF Numbered, Owners
  <2>3. \A n \in 0..allocated : new[n] = 0 => \E u \in Pushing \ {t} : mine[u] = n
    <3> SUFFICES ASSUME NEW n \in 0..allocated, new[n] = 0
                 PROVE  \E u \in Pushing \ {t} : mine[u] = n
      OBVIOUS
    <3>1. n \in Nodes
      BY <1>3, BoundAssumption DEF Nodes
    <3>2. n # mine[t] /\ pos[n] = 0
      BY <1>6, <3>1
    <3>3. QED
      BY <3>2 DEF Numbered, Owners
  <2>4. QED
    BY <1>1, <1>2, <2>2, <2>3 DEF Numbered, Owners
<1>14. \A n \in Nodes :
         1 <= new[n] /\ new[n] < new[head'] <=> 1 <= pos[n] /\ pos[n] < pos[head]
  <2>1. pos[head] <= len
    BY <1>10 DEF Numbered, ChainOrder, Linked
  <2>2. QED
    BY <1>1, <1>3, <1>6, <1>10, <2>1
<1>15. RetiredOrder(new, rank, count)'
  <2>1. pc'[t] = "pushSwing" /\ \A u \in Popped : pc'[u] = pc[u] /\ u # t
    BY DEF Numbered, TypeOK, Popped
  <2>2. QED
    BY <1>1, <1>2, <1>14, <2>1 DEF Numbered, RetiredOrder
<1>16. Payloads(new)'
  <2> USE DEF Numbered, Payloads
  <2>1. \A n \in moved' : 1 <= new[n] /\ new[n] <= new[head']
    BY <1>1, <1>6, <1>10 DEF TypeOK
  <2>2. ASSUME NEW u \in Threads, pc'[u] = "popMove"
        PROVE  Follows(new, myHead[u], myNext[u]) /\ myNext[u] \notin moved
    <3>1. pc[u] = "popMove" /\ u \in Popped
      BY <2>2 DEF TypeOK, Popped
    <3>2. myHead[u] \in Nodes /\ 1 <= pos[myHead[u]]
      BY <3>1 DEF RetiredOrder
    <3>3. QED
      BY <1>6, <3>1, <3>2 DEF Follows
  <2>3. \A u \in Threads : pc'[u] \in PoppedPCs \ {"popMove"} => mine[u] \in 1..MaxPushes
    BY DEF TypeOK
  <2>4. QED
    BY <1>1, <2>1, <2>2, <2>3 DEF Follows
<1>17. QED
  BY <1>3, <1>4, <1>5, <1>8, <1>9, <1>11, <1>12, <1>13, <1>15, <1>16 DEF Numbered, new
-----------------------------------------------------------------------------
(***************************************************************************)
(* pop()                                                                   *)
(***************************************************************************)
LEMMA PopReads ==
  ASSUME NEW pos \in [Nodes -> Nat], NEW rank \in [Nodes -> Nat],
         NEW len \in Nat, NEW count \in Nat, Numbered(pos, len, rank, count),
         NEW t \in Threads,
         \/ CallPop(t) \/ PopHead(t) \/ PopTail(t) \/ PopNext(t) \/ PopAgain(t)
         \/ PopEmpty(t) \/ PopLagging(t) \/ PopExchangeFails(t)
  PROVE  Numbered(pos, len, rank, count)'
<1> USE DEF At, Load, Forget, shared, local, TypeOK, PushPCs, PopPCs, PoppedPCs
<1>1. OthersStay(t)
  BY DEF OthersStay, CallPop, PopHead, PopTail, PopNext, PopAgain, PopEmpty,
         PopLagging, PopExchangeFails, Numbered
<1>2. /\ t \notin Pushing /\ t \notin Pushing'
      /\ t \notin Popped /\ t \notin Popped' /\ UNCHANGED shared
  BY DEF Pushing, Popped, CallPop, PopHead, PopTail, PopNext, PopAgain, PopEmpty,
         PopLagging, PopExchangeFails, Numbered
<1>3. /\ head \in Nodes /\ tail \in Nodes
      /\ 1 <= pos[head] /\ pos[head] <= pos[tail]
      /\ head \in Local /\ tail \in Local
  BY DEF Numbered, Ends, Local
<1>4. PopLocals(pos, t)
  BY DEF Numbered, Locals
<1>5. TypeOK' /\ PushLocals(pos, t)' /\ PopLocals(pos, t)'
  <2>1. CASE CallPop(t) \/ PopAgain(t) \/ PopExchangeFails(t)
    BY <2>1 DEF CallPop, PopAgain, PopExchangeFails, Numbered, PushLocals, PopLocals
  <2>2. CASE PopHead(t)
    BY <1>3, <2>2 DEF PopHead, Numbered, PushLocals, PopLocals
  <2>3. CASE PopTail(t)
    <3>1. myHead[t] \in Nodes /\ 1 <= pos[myHead[t]] /\ pos[myHead[t]] <= pos[head]
      BY <1>4, <2>3 DEF PopTail, PopLocals
    <3>2. pos[myHead[t]] <= pos[tail]
      BY <1>3, <3>1
    <3>3. QED
      BY <1>3, <2>3, <3>1, <3>2 DEF PopTail, Numbered, PushLocals, PopLocals
  <2>4. CASE PopNext(t)
    <3>1. /\ myHead[t] \in Nodes /\ 1 <= pos[myHead[t]] /\ pos[myHead[t]] <= pos[head]
          /\ myTail[t] \in Nodes
          /\ pos[myHead[t]] <= pos[myTail[t]] /\ pos[myTail[t]] <= pos[tail]
      BY <1>4, <2>4 DEF PopNext, PopLocals
    <3>2. /\ next[myHead[t]] # Null => Follows(pos, myHead[t], next[myHead[t]])
          /\ next[myHead[t]] = Null => pos[myHead[t]] = len
      <4>1. pos[myHead[t]] \in 1..(len - 1) => Follows(pos, myHead[t], next[myHead[t]])
        BY <3>1 DEF Numbered, ChainOrder, Linked
      <4>2. pos[myHead[t]] \notin 1..(len - 1) => next[myHead[t]] = Null
        BY <3>1 DEF Numbered, ChainOrder, Linked
      <4>3. pos[myHead[t]] <= len
        BY <3>1 DEF Numbered, ChainOrder, Linked
      <4>4. \A n : Follows(pos, myHead[t], n) => n # Null
        BY NullAssumption DEF Follows, Nodes
      <4>5. QED
        BY <3>1, <4>1, <4>2, <4>3, <4>4
    <3>3. next[myHead[t]] = Null => myHead[t] = myTail[t]
      <4>1. pos[myTail[t]] <= len
        BY <3>1 DEF Numbered, ChainOrder, Linked
      <4>2. pos[myHead[t]] = len => pos[myHead[t]] = pos[myTail[t]]
        BY <3>1, <4>1
      <4>3. QED
        BY <3>1, <3>2, <4>2 DEF Numbered, ChainOrder, Linked
    <3>4. QED
      BY <2>4, <3>1, <3>2, <3>3 DEF PopNext, Numbered, PushLocals, PopLocals, Follows
  <2>5. CASE PopEmpty(t)
    BY <2>5 DEF PopEmpty, Numbered, PushLocals, PopLocals, Local
  <2>6. CASE PopLagging(t)
    <3>1. /\ myHead[t] \in Nodes /\ 1 <= pos[myHead[t]] /\ pos[myHead[t]] <= pos[head]
          /\ myTail[t] \in Nodes
          /\ pos[myHead[t]] <= pos[myTail[t]] /\ pos[myTail[t]] <= pos[tail]
          /\ IF myNext[t] = Null THEN myHead[t] = myTail[t]
             ELSE Follows(pos, myHead[t], myNext[t])
      BY <1>4, <2>6 DEF PopLagging, PopLocals
    <3>2. myHead[t] # myTail[t] => pos[myHead[t]] < pos[myTail[t]]
      BY <3>1 DEF Numbered, ChainOrder, Linked
    <3>3. CASE myHead[t] = myTail[t]
      BY <2>6, <3>1, <3>3 DEF PopLagging, Numbered, PushLocals, PopLocals, Follows
    <3>4. CASE myHead[t] # myTail[t]
      BY <2>6, <3>1, <3>2, <3>4 DEF PopLagging, Numbered, PushLocals, PopLocals, Follows
    <3>5. QED
      BY <3>3, <3>4
  <2>7. QED
    BY <2>1, <2>2, <2>3, <2>4, <2>5, <2>6
<1>6. pos[tail] <= pos[tail']
  BY <1>2, <1>3
<1>7. QED
  BY <1>1, <1>2, <1>5, <1>6, LocalStep

\* pop() swings a tail that lags behind and starts over.
LEMMA PopHelps ==
  ASSUME NEW pos \in [Nodes -> Nat], NEW rank \in [Nodes -> Nat],
         NEW len \in Nat, NEW count \in Nat, Numbered(pos, len, rank, count),
         NEW t \in Threads, PopHelp(t)
  PROVE  Numbered(pos, len, rank, count)'
<1> USE DEF At, local, PushPCs, PopPCs, PoppedPCs, PopHelp
<1>1. OthersStay(t)
  BY DEF OthersStay, Numbered, TypeOK
<1>2. /\ UNCHANGED <<head, next, retired, retiredNext, allocated, moved>>
      /\ t \notin Popped /\ t \notin Popped' /\ t \notin Pushing /\ t \notin Pushing'
  BY DEF Pushing, Popped, Numbered, TypeOK
<1>3. tail' \in Nodes /\ pos[tail] <= pos[tail']
  <2>1. Follows(pos, myTail[t], myNext[t])
    BY DEF Numbered, Locals, PopLocals
  <2>2. QED
    BY <2>1, TailSwings DEF Numbered
<1>4. TypeOK' /\ PushLocals(pos, t)' /\ PopLocals(pos, t)'
  BY <1>3 DEF Numbered, TypeOK, PushLocals, PopLocals
<1>5. QED
  BY <1>1, <1>2, <1>3, <1>4, LocalStep

\* head_ has not moved since it was read, so the tail that was read after it
\* is ahead of it, and the head moves to the next position.
LEMMA ExchangeNumbered ==
  ASSUME NEW pos \in [Nodes -> Nat], NEW rank \in [Nodes -> Nat],
         NEW len \in Nat, NEW count \in Nat, Numbered(pos, len, rank, count),
         NEW t \in Threads, PopExchange(t)
  PROVE  /\ head \in Nodes /\ 1 <= pos[head] /\ pos[head] < pos[tail]
         /\ head' = myNext[t] /\ Follows(pos, head, head')
         /\ Numbered(pos, len, rank, count)'
<1> USE DEF At, local, PushPCs, PopPCs, PoppedPCs, PopExchange
<1>1. /\ OthersStay(t)
      /\ UNCHANGED <<tail, next, retired, retiredNext, allocated, moved, local>>
  BY DEF OthersStay, Numbered, TypeOK
<1>2. /\ head \in Nodes /\ tail \in Nodes /\ 1 <= pos[head]
      /\ head = myHead[t] /\ head' = myNext[t]
  BY DEF Numbered, Ends, TypeOK
<1>3. /\ Follows(pos, head, head')
      /\ myTail[t] \in Nodes
      /\ pos[head] < pos[myTail[t]] /\ pos[myTail[t]] <= pos[tail]
  BY <1>2 DEF Numbered, Locals, PopLocals
<1>4. /\ head' \in Nodes /\ pos[head'] = pos[head] + 1 /\ pos[head'] <= pos[tail]
      /\ pos[head] < pos[tail]
  BY <1>2, <1>3 DEF Follows
<1>5. TypeOK'
  BY <1>1, <1>4 DEF Numbered, TypeOK
<1>6. ChainOrder(pos, len)' /\ Ends(pos)'
  BY <1>1, <1>2, <1>4 DEF Numbered, ChainOrder, Linked, Ends, Follows
<1>7. Locals(pos)'
  <2>1. ASSUME NEW u \in Threads, u # t PROVE PushLocals(pos, u)' /\ PopLocals(pos, u)'
    BY <1>1, <1>2, <1>4, <2>1, LocalsOutlive DEF Numbered, Locals, OthersStay
  <2>2. PushLocals(pos, t)' /\ PopLocals(pos, t)'
    BY DEF Numbered, TypeOK, PushLocals, PopLocals
  <2>3. QED
    BY <2>1, <2>2 DEF Locals
<1>8. Pushing' = Pushing /\ Popped' = Popped \cup {t} /\ t \notin Popped
  BY DEF Pushing, Popped, Numbered, TypeOK
<1>9. Owners(pos)'
  BY <1>1, <1>8 DEF Numbered, Owners
<1>10. /\ \A u \in Popped : pc'[u] = pc[u]
       /\ pc'[t] = "popMove" /\ \A u \in Threads : pc'[u] = "popMove" => u = t \/ pc[u] = "popMove"
  BY DEF Numbered, TypeOK, Popped
<1>11. /\ \A n \in Nodes : pos[n] < pos[head] => n # head /\ pos[n] < pos[head']
       /\ \A n \in Nodes : 1 <= pos[n] /\ pos[n] < pos[head'] => n = head \/ pos[n] < pos[head]
  <2>1. \A n \in Nodes : pos[n] < pos[head'] => pos[n] = pos[head] \/ pos[n] < pos[head]
    BY <1>2, <1>4
  <2>2. \A n \in Nodes : pos[n] = pos[head] => n = head
    BY <1>2 DEF Numbered, ChainOrder, Linked
  <2>3. QED
    BY <1>2, <1>4, <2>1, <2>2
<1>12. RetiredOrder(pos, rank, count)'
  <2> USE DEF Numbered, RetiredOrder
  <2>1. \A n \in Nodes : rank[n] > 0 => 1 <= pos[n] /\ pos[n] < pos[head']
    BY <1>11
  <2>2. rank[head] = 0
    BY <1>2, <1>11
  <2>3. \A n \in Nodes : 1 <= pos[n] /\ pos[n] < pos[head'] /\ rank[n] = 0 =>
          \E u \in Popped \cup {t} : myHead[u] = n
    BY <1>2, <1>11
  <2>4. \A u \in Popped \cup {t} :
          /\ myHead[u] \in Nodes /\ 1 <= pos[myHead[u]] /\ pos[myHead[u]] < pos[head']
          /\ rank[myHead[u]] = 0
    BY <1>2, <1>4, <1>11, <2>2
  <2>5. \A u \in Popped \cup {t} :
          pc'[u] = "retireExchange" => retiredNext[myHead[u]] = myTail[u]
    BY <1>10
  <2>6. \A u, v \in Popped \cup {t} : myHead[u] = myHead[v] => u = v
    BY <1>2
  <2>7. QED
    BY <1>1, <1>8, <2>1, <2>3, <2>4, <2>5, <2>6
<1>13. Payloads(pos)'
  <2> USE DEF Numbered, Payloads
  <2>1. \A n \in moved : n \in Nodes /\ 1 <= pos[n] /\ pos[n] <= pos[head'] /\ n # head'
    BY <1>2, <1>4 DEF TypeOK
  <2>2. \A u \in Threads : pc'[u] = "popMove" =>
          Follows(pos, myHead[u], myNext[u]) /\ myNext[u] \notin moved
    BY <1>2, <1>3, <1>10, <2>1
  <2>3. \A u \in Threads : pc'[u] \in PoppedPCs \ {"popMove"} => mine[u] \in 1..MaxPushes
    BY DEF TypeOK
  <2>4. QED
    BY <1>1, <2>1, <2>2, <2>3 DEF Follows
<1>14. QED
  BY <1>2, <1>3, <1>4, <1>5, <1>6, <1>7, <1>9, <1>12, <1>13 DEF Numbered
-----------------------------------------------------------------------------
(***************************************************************************)
(* pop(), after its exchange, and retire()                                 *)
(***************************************************************************)
LEMMA PoppedStep ==
  ASSUME NEW pos \in [Nodes -> Nat], NEW rank \in [Nodes -> Nat],
         NEW len \in Nat, NEW count \in Nat, Numbered(pos, len, rank, count),
         NEW t \in Popped, OthersStay(t), UNCHANGED <<head, tail, next, allocated>>,
         TypeOK', pc'[t] \in PoppedPCs \cup {"idle"}
  PROVE  ChainOrder(pos, len)' /\ Ends(pos)' /\ Locals(pos)' /\ Owners(pos)'
<1> USE DEF PushPCs, PopPCs, PoppedPCs
<1>1. ChainOrder(pos, len)' /\ Ends(pos)'
  BY DEF Numbered, ChainOrder, Linked, Ends, Follows
<1>2. Locals(pos)'
  <2>1. ASSUME NEW u \in Threads, u # t PROVE PushLocals(pos, u)' /\ PopLocals(pos, u)'
    <3>1. /\ head' \in Nodes /\ tail' \in Nodes
          /\ pos[head] <= pos[head'] /\ pos[tail] <= pos[tail']
      BY DEF TypeOK, Numbered
    <3>2. QED
      BY <2>1, <3>1, LocalsOutlive DEF Numbered, Locals, OthersStay, Popped
  <2>2. PushLocals(pos, t)' /\ PopLocals(pos, t)'
    BY DEF PushLocals, PopLocals
  <2>3. QED
    BY <2>1, <2>2 DEF Locals
<1>3. /\ Pushing' = Pushing /\ t \notin Pushing
      /\ \A u \in Pushing : mine'[u] = mine[u]
  BY DEF Pushing, Popped, OthersStay
<1>4. Owners(pos)'
  BY <1>3 DEF Numbered, Owners
<1>5. QED
  BY <1>1, <1>2, <1>4

\* pop() moves the payload out of a node it was not moved out of before.
LEMMA MoveNumbered ==
  ASSUME NEW pos \in [Nodes -> Nat], NEW rank \in [Nodes -> Nat],
         NEW len \in Nat, NEW count \in Nat, Numbered(pos, len, rank, count),
         NEW t \in Threads, PopMove(t)
  PROVE  /\ myNext[t] \notin moved
         /\ Numbered(pos, len, rank, count)'
<1> USE DEF At, Load, PushPCs, PopPCs, PoppedPCs, PopMove
<1>1. /\ OthersStay(t)
      /\ UNCHANGED <<head, tail, next, retired, retiredNext, allocated,
                     myHead, myTail, myNext>>
  BY DEF OthersStay, Numbered, TypeOK
<1>2. t \in Popped /\ Popped' = Popped /\ pc[t] = "popMove" /\ pc'[t] = "retireLoad"
  BY DEF Popped, Numbered, TypeOK
<1>3. /\ Follows(pos, myHead[t], myNext[t]) /\ myNext[t] \notin moved
      /\ myHead[t] \in Nodes /\ 1 <= pos[myHead[t]] /\ pos[myHead[t]] < pos[head]
  BY <1>2 DEF Numbered, Payloads, RetiredOrder
<1>4. /\ myNext[t] \in Nodes /\ 2 <= pos[myNext[t]] /\ pos[myNext[t]] <= pos[head]
      /\ myNext[t] \in 1..MaxPushes
  <2>1. /\ myNext[t] \in Nodes /\ 2 <= pos[myNext[t]] /\ pos[myNext[t]] <= pos[head]
    BY <1>3 DEF Follows, Numbered, TypeOK
  <2>2. myNext[t] # 0
    BY <2>1 DEF Numbered, ChainOrder, Linked
  <2>3. QED
    BY <2>1, <2>2, BoundAssumption DEF Nodes
<1>5. /\ mine' = [mine EXCEPT ![t] = myNext[t]] /\ moved' = moved \cup {myNext[t]}
  BY <1>3
<1>6. TypeOK'
  BY <1>1, <1>4, <1>5 DEF Numbered, TypeOK, Local
<1>7. ChainOrder(pos, len)' /\ Ends(pos)' /\ Locals(pos)' /\ Owners(pos)'
  BY <1>1, <1>2, <1>6, PoppedStep
<1>8. RetiredOrder(pos, rank, count)'
  <2>1. \A u \in Popped : pc'[u] = "retireExchange" => pc[u] = "retireExchange"
    BY <1>2 DEF Numbered, TypeOK
  <2>2. QED
    BY <1>1, <1>2, <2>1 DEF Numbered, RetiredOrder
<1>9. Payloads(pos)'
  <2>1. \A n \in moved' : 1 <= pos[n] /\ pos[n] <= pos[head']
    BY <1>1, <1>4, <1>5 DEF Numbered, Payloads
  <2>2. ASSUME NEW u \in Threads, pc'[u] = "popMove"
        PROVE  Follows(pos, myHead[u], myNext[u]) /\ myNext[u] \notin moved'
    <3>1. u # t /\ pc[u] = "popMove" /\ u \in Popped
      BY <2>2 DEF Numbered, TypeOK, Popped
    <3>2. Follows(pos, myHead[u], myNext[u]) /\ myNext[u] \notin moved
      BY <3>1 DEF Numbered, Payloads
    <3>3. myHead[u] # myHead[t] /\ myHead[u] \in Nodes /\ 1 <= pos[myHead[u]]
      BY <1>2, <3>1 DEF Numbered, RetiredOrder
    <3>4. pos[myHead[u]] # pos[myHead[t]]
      BY <1>3, <3>3 DEF Numbered, ChainOrder, Linked
    <3>5. myNext[u] # myNext[t]
      BY <1>3, <3>2, <3>3, <3>4 DEF Follows
    <3>6. QED
      BY <1>5, <3>2, <3>5
  <2>3. \A u \in Threads : pc'[u] \in PoppedPCs \ {"popMove"} => mine'[u] \in 1..MaxPushes
    BY <1>4, <1>5 DEF Numbered, Payloads, TypeOK
  <2>4. QED
    BY <1>1, <2>1, <2>2, <2>3 DEF Payloads, Follows
<1>10. QED
  BY <1>3, <1>6, <1>7, <1>8, <1>9 DEF Numbered

\* What is moved stays, and so does what is being returned.
LEMMA PayloadsKept ==
  ASSUME NEW pos \in [Nodes -> Nat], TypeOK, Payloads(pos), NEW t \in Threads,
         OthersStay(t), UNCHANGED <<moved, head>>,
         pc'[t] # "popMove",
         pc'[t] \in PoppedPCs => pc[t] \in PoppedPCs \ {"popMove"} /\ mine'[t] = mine[t]
  PROVE  Payloads(pos)'
<1>1. \A u \in Threads : pc'[u] = "popMove" =>
        pc[u] = "popMove" /\ myHead'[u] = myHead[u] /\ myNext'[u] = myNext[u]
  BY DEF OthersStay
<1>2. \A u \in Threads : pc'[u] \in PoppedPCs \ {"popMove"} =>
        pc[u] \in PoppedPCs \ {"popMove"} /\ mine'[u] = mine[u]
  BY DEF OthersStay
<1>3. QED
  BY <1>1, <1>2 DEF Payloads, Follows

\* The steps of retire() before its exchange change no link of the list.
LEMMA RetireReads ==
  ASSUME NEW pos \in [Nodes -> Nat], NEW rank \in [Nodes -> Nat],
         NEW len \in Nat, NEW count \in Nat, Numbered(pos, len, rank, count),
         NEW t \in Threads, RetireLoad(t) \/ RetireExchangeFails(t) \/ RetireLink(t)
  PROVE  Numbered(pos, len, rank, count)'
<1> USE DEF At, Load, shared, local, PushPCs, PopPCs, PoppedPCs
<1>1. /\ OthersStay(t)
      /\ UNCHANGED <<head, tail, next, retired, allocated, moved, myHead, myNext, mine>>
  BY DEF OthersStay, Numbered, TypeOK, RetireLoad, RetireExchangeFails, RetireLink
<1>2. t \in Popped /\ Popped' = Popped
  BY DEF Popped, Numbered, TypeOK, RetireLoad, RetireExchangeFails, RetireLink
<1>3. TypeOK'
  BY DEF RetireLoad, RetireExchangeFails, RetireLink, Numbered, TypeOK
<1>4. pc'[t] \in PoppedPCs \ {"popMove"} /\ pc[t] \in PoppedPCs \ {"popMove"}
  BY DEF RetireLoad, RetireExchangeFails, RetireLink, Numbered, TypeOK
<1>5. ChainOrder(pos, len)' /\ Ends(pos)' /\ Locals(pos)' /\ Owners(pos)'
  BY <1>1, <1>2, <1>3, <1>4, PoppedStep
<1>6. Payloads(pos)'
  BY <1>1, <1>4, PayloadsKept DEF Numbered
<1>7. RetiredOrder(pos, rank, count)'
  <2>1. CASE RetireLoad(t) \/ RetireExchangeFails(t)
    <3>1. /\ UNCHANGED retiredNext
          /\ \A u \in Popped : pc'[u] = "retireExchange" =>
               pc[u] = "retireExchange" /\ myTail'[u] = myTail[u]
      BY <2>1 DEF RetireLoad, RetireExchangeFails, Numbered, TypeOK, Popped
    <3>2. QED
      BY <1>1, <1>2, <3>1 DEF Numbered, RetiredOrder
  <2>2. CASE RetireLink(t)
    <3>1. /\ myHead[t] \in Nodes /\ rank[myHead[t]] = 0
          /\ \A u \in Popped : myHead[u] = myHead[t] => u = t
      BY <1>2 DEF Numbered, RetiredOrder
    <3>2. /\ retiredNext'[myHead[t]] = myTail[t] /\ myTail' = myTail
          /\ \A n \in Nodes : n # myHead[t] => retiredNext'[n] = retiredNext[n]
      BY <2>2, <3>1 DEF RetireLink, Numbered, TypeOK
    <3>3. \A n \in Nodes : rank[n] > 0 => retiredNext'[n] = retiredNext[n]
      BY <3>1, <3>2
    <3>4. \A u \in Popped :
            pc'[u] = "retireExchange" => retiredNext'[myHead[u]] = myTail[u]
      BY <1>1, <3>1, <3>2 DEF Numbered, RetiredOrder, OthersStay, Popped
    <3>5. QED
      BY <1>1, <1>2, <3>2, <3>3, <3>4 DEF Numbered, RetiredOrder
  <2>3. QED
    BY <2>1, <2>2
<1>8. QED
  BY <1>3, <1>5, <1>6, <1>7 DEF Numbered

\* The old head gets the next rank, on top of the retired chain.
LEMMA RetireNumbered ==
  ASSUME NEW pos \in [Nodes -> Nat], NEW rank \in [Nodes -> Nat],
         NEW len \in Nat, NEW count \in Nat, Numbered(pos, len, rank, count),
         NEW t \in Threads, RetireExchange(t), NEW m, m = myHead[t]
  PROVE  /\ m \in Nodes
         /\ Numbered(pos, len, [rank EXCEPT ![m] = count + 1], count + 1)'
<1> DEFINE new == [rank EXCEPT ![m] = count + 1]
<1> USE DEF At, Load, Forget, PushPCs, PopPCs, PoppedPCs, RetireExchange
<1>1. /\ OthersStay(t)
      /\ UNCHANGED <<head, tail, next, retiredNext, allocated, moved>>
      /\ retired = myTail[t] /\ retired' = m /\ pc'[t] = "idle"
  BY DEF OthersStay, Numbered, TypeOK
<1>2. t \in Popped /\ Popped' = Popped \ {t} /\ pc[t] = "retireExchange"
  BY DEF Popped, Numbered, TypeOK
<1>3. /\ m \in Nodes /\ 1 <= pos[m] /\ pos[m] < pos[head] /\ rank[m] = 0
      /\ retiredNext[m] = retired
      /\ \A u \in Popped : myHead[u] = m => u = t
  BY <1>1, <1>2 DEF Numbered, RetiredOrder
<1>4. /\ new \in [Nodes -> Nat] /\ new[m] = count + 1
      /\ \A n \in Nodes : n # m => new[n] = rank[n]
  BY <1>3
<1> HIDE DEF new
<1>5. TypeOK'
  BY <1>1, <1>3 DEF Numbered, TypeOK, Local
<1>6. ChainOrder(pos, len)' /\ Ends(pos)' /\ Locals(pos)' /\ Owners(pos)'
  BY <1>1, <1>2, <1>5, PoppedStep
<1>7. Payloads(pos)'
  BY <1>1, PayloadsKept DEF Numbered
<1>8. RetiredOrder(pos, new, count + 1)'
  <2> USE DEF Numbered, RetiredOrder
  <2>1. \A n \in Nodes : rank[n] <= count /\ new[n] <= count + 1
    BY <1>4
  <2>2. \A k, n \in Nodes : new[k] = new[n] /\ new[k] > 0 => k = n
    BY <1>4, <2>1
  <2>3. \A i \in 1..(count + 1) : \E n \in Nodes : new[n] = i
    <3>1. ASSUME NEW i \in 1..count PROVE \E n \in Nodes : new[n] = i
      <4>1. PICK n \in Nodes : rank[n] = i
        OBVIOUS
      <4>2. QED
        BY <1>3, <1>4, <4>1
    <3>2. QED
      BY <1>3, <1>4, <3>1
  <2>4. \A n \in Nodes : new[n] = 1 => retiredNext[n] = Null
    BY <1>3, <1>4
  <2>5. \A n \in Nodes : new[n] > 1 =>
          retiredNext[n] \in Nodes /\ new[retiredNext[n]] = new[n] - 1
    <3>1. ASSUME NEW n \in Nodes, n # m, new[n] > 1
          PROVE  retiredNext[n] \in Nodes /\ new[retiredNext[n]] = new[n] - 1
      <4>1. retiredNext[n] \in Nodes /\ rank[retiredNext[n]] = rank[n] - 1 /\ rank[n] > 1
        BY <1>4, <3>1
      <4>2. retiredNext[n] # m
        BY <1>3, <4>1
      <4>3. QED
        BY <1>4, <3>1, <4>1, <4>2
    <3>2. count > 0 => retired \in Nodes /\ rank[retired] = count /\ retired # m
      BY <1>3
    <3>3. QED
      BY <1>3, <1>4, <3>1, <3>2
  <2>6. retired' \in Nodes /\ new[retired'] = count + 1
    BY <1>1, <1>3, <1>4
  <2>7. \A n \in Nodes : new[n] > 0 => 1 <= pos[n] /\ pos[n] < pos[head]
    BY <1>3, <1>4
  <2>8. \A n \in Nodes : 1 <= pos[n] /\ pos[n] < pos[head] /\ new[n] = 0 =>
          \E u \in Popped \ {t} : myHead[u] = n
    <3> SUFFICES ASSUME NEW n \in Nodes, 1 <= pos[n], pos[n] < pos[head], new[n] = 0
                 PROVE  \E u \in Popped \ {t} : myHead[u] = n
      OBVIOUS
    <3>1. n # m /\ rank[n] = 0
      BY <1>4
    <3>2. PICK u \in Popped : myHead[u] = n
      BY <3>1
    <3>3. QED
      BY <3>1, <3>2
  <2>9. \A u \in Popped \ {t} :
          /\ pc'[u] = pc[u] /\ myHead'[u] = myHead[u] /\ myTail'[u] = myTail[u]
          /\ myHead[u] \in Nodes /\ 1 <= pos[myHead[u]] /\ pos[myHead[u]] < pos[head]
          /\ new[myHead[u]] = 0
          /\ pc[u] = "retireExchange" => retiredNext[myHead[u]] = myTail[u]
    BY <1>1, <1>3, <1>4 DEF OthersStay, Popped
  <2>10. \A u, v \in Popped \ {t} : myHead[u] = myHead[v] => u = v
    OBVIOUS
  <2> HIDE DEF Numbered, RetiredOrder
  <2>11. /\ \A n \in Nodes : 1 <= pos[n] /\ pos[n] < pos[head'] /\ new[n] = 0 =>
             \E u \in Popped' : myHead'[u] = n
         /\ \A u \in Popped' :
             /\ myHead'[u] \in Nodes /\ 1 <= pos[myHead'[u]] /\ pos[myHead'[u]] < pos[head']
             /\ new[myHead'[u]] = 0
             /\ pc'[u] = "retireExchange" => retiredNext'[myHead'[u]] = myTail'[u]
         /\ \A u, v \in Popped' : myHead'[u] = myHead'[v] => u = v
    BY <1>1, <1>2, <2>8, <2>9, <2>10
  <2>12. QED
    BY <1>1, <2>1, <2>2, <2>3, <2>4, <2>5, <2>6, <2>7, <2>11 DEF RetiredOrder
<1>9. QED
  BY <1>3, <1>5, <1>6, <1>7, <1>8 DEF Numbered, new
-----------------------------------------------------------------------------
(***************************************************************************)
(* The numbering holds in every state                                      *)
(***************************************************************************)
LEMMA InitQueueInv == Init => QueueInv
<1> SUFFICES ASSUME Init PROVE QueueInv
  OBVIOUS
<1> DEFINE pos == [n \in Nodes |-> IF n = 0 THEN 1 ELSE 0]
           rank == [n \in Nodes |-> 0]
<1>1. pos \in [Nodes -> Nat] /\ rank \in [Nodes -> Nat] /\ 0 \in Nodes
  BY BoundAssumption DEF Nodes
<1>2. TypeOK
  BY <1>1 DEF Init, TypeOK, Local
<1>3. Linked(next, pos, 1) /\ ChainOrder(pos, 1)
  BY <1>1 DEF Init, ChainOrder, Linked, Nodes
<1>4. Ends(pos)
  BY <1>1 DEF Init, Ends
<1>5. Pushing = {} /\ Popped = {}
  BY DEF Init, Pushing, Popped, PushPCs, PoppedPCs
<1>6. Locals(pos)
  BY DEF Init, Locals, PushLocals, PopLocals
<1>7. Owners(pos)
  <2>1. \A n \in 0..allocated : n = 0 /\ pos[n] = 1
    BY <1>1 DEF Init
  <2>2. QED
    BY <1>5, <2>1 DEF Owners
<1>8. RetiredOrder(pos, rank, 0)
  BY <1>1, <1>5 DEF Init, RetiredOrder
<1>9. Payloads(pos)
  BY DEF Init, Payloads, PoppedPCs
<1>10. Numbered(pos, 1, rank, 0)
  BY <1>2, <1>3, <1>4, <1>6, <1>7, <1>8, <1>9 DEF Numbered
<1> HIDE DEF pos, rank
<1>11. QED
  BY <1>1, <1>10 DEF QueueInv

\* Every step of a thread keeps the invariant.
LEMMA StepQueueInv ==
  ASSUME QueueInv, NEW t \in Threads, Call(t) \/ Step(t)
  PROVE  QueueInv'
<1>1. PICK pos \in [Nodes -> Nat], rank \in [Nodes -> Nat], len \in Nat, count \in Nat :
        Numbered(pos, len, rank, count)
  BY DEF QueueInv
<1>2. CASE PushLink(t)
  <2>1. PICK m \in Local : m = mine[t]
    BY <1>1 DEF Numbered, TypeOK
  <2>2. m \in 1..MaxPushes /\ Numbered([pos EXCEPT ![m] = len + 1], len + 1, rank, count)'
    BY <1>1, <1>2, <2>1, LinkNumbered
  <2>3. [pos EXCEPT ![m] = len + 1] \in [Nodes -> Nat] /\ len + 1 \in Nat
    BY <2>2, BoundAssumption DEF Nodes
  <2>4. QED
    BY <2>2, <2>3 DEF QueueInv
<1>3. CASE RetireExchange(t)
  <2>1. PICK m \in Local : m = myHead[t]
    BY <1>1 DEF Numbered, TypeOK
  <2>2. m \in Nodes /\ Numbered(pos, len, [rank EXCEPT ![m] = count + 1], count + 1)'
    BY <1>1, <1>3, <2>1, RetireNumbered
  <2>3. [rank EXCEPT ![m] = count + 1] \in [Nodes -> Nat] /\ count + 1 \in Nat
    BY <2>2
  <2>4. QED
    BY <2>2, <2>3 DEF QueueInv
<1>4. ASSUME ~PushLink(t), ~RetireExchange(t) PROVE Numbered(pos, len, rank, count)'
  BY <1>1, <1>4, PushReads, PushSwings, CallPushNumbered, PopReads, PopHelps,
     ExchangeNumbered, MoveNumbered, RetireReads
  DEF Call, Step
<1>5. QED
  BY <1>2, <1>3, <1>4 DEF QueueInv

\* Every step, and a stutter, keeps the invariant.
LEMMA NextQueueInv == QueueInv /\ [Next]_vars => QueueInv'
<1>1. ASSUME QueueInv, UNCHANGED vars PROVE QueueInv'
  <2>1. \A pos, rank \in [Nodes -> Nat], len, count \in Nat :
          Numbered(pos, len, rank, count) => Numbered(pos, len, rank, count)'
    BY <1>1
    DEF vars, shared, local, Numbered, TypeOK, ChainOrder, Linked, Ends, Locals,
        PushLocals, PopLocals, Owners, RetiredOrder, Payloads, Pushing, Popped, Follows
  <2>2. QED
    BY <1>1, <2>1 DEF QueueInv
<1>2. QED
  BY <1>1, StepQueueInv DEF Next

\* The variables keep their types; in particular no thread ever follows a null
\* pointer, and head_ and tail_ are never null.
THEOREM TypeCorrect == Spec => []TypeOK
<1>1. QueueInv => TypeOK
  BY DEF QueueInv, Numbered
<1>2. QED
  BY <1>1, InitQueueInv, NextQueueInv, PTL DEF Spec
-----------------------------------------------------------------------------
(***************************************************************************)
(* Walks: what the recursion of Walk computes, by induction                *)
(***************************************************************************)
Less == {p \in Nat \X Nat : p[1] < p[2]}

\* The order on the naturals is well founded.
LEMMA LessWellFounded == IsWellFoundedOn(Less, Nat)
<1>1. OpToRel(<, Nat) = Less
  BY DEF OpToRel, Less
<1>2. QED
  BY <1>1, NatLessThanWellFounded

\* Induction over the naturals for a set instead of an operator.
LEMMA NatInductionSet ==
  ASSUME NEW T, 0 \in T, \A n \in Nat : n \in T => n + 1 \in T
  PROVE  Nat \subseteq T
<1> DEFINE Out == Nat \ T
<1>1. SUFFICES ASSUME Out # {} PROVE FALSE
  OBVIOUS
<1>2. PICK n \in Out : \A m \in Out : ~(<<m, n>> \in Less)
  <2>1. Out \subseteq Nat
    OBVIOUS
  <2> HIDE DEF Out
  <2>2. QED
    BY <1>1, <2>1, LessWellFounded, WFMin, Zenon
<1>3. n \in Nat /\ n # 0 /\ n - 1 \in Nat /\ (n - 1) + 1 = n
  BY <1>2
<1>4. <<n - 1, n>> \in Less
  <2>1. <<n - 1, n>> \in Nat \X Nat /\ n - 1 < n
    BY <1>3
  <2>2. QED
    BY <2>1 DEF Less
<1>5. n - 1 \in T
  BY <1>2, <1>3, <1>4
<1>6. QED
  BY <1>2, <1>3, <1>5

WalkBody(succ, n, f) ==
  [k \in Nat |-> IF k = 0 THEN n
                 ELSE IF f[k - 1] = Null THEN Null ELSE succ[f[k - 1]]]

\* A linked sequence of nodes that ends in a null pointer is what a walk from
\* its first node passes.
LEMMA WalkIs ==
  ASSUME NEW succ \in [Nodes -> Local], NEW n \in Local, NEW s \in Seq(Nodes),
         Len(s) <= MaxPushes + 1,
         n = IF s = <<>> THEN Null ELSE s[1],
         \A i \in 1..Len(s) : succ[s[i]] = IF i = Len(s) THEN Null ELSE s[i + 1]
  PROVE  Walk(succ, n) = s
<1> DEFINE g == [k \in Nat |-> IF k < Len(s) THEN s[k + 1] ELSE Null]
           at == CHOOSE f : f = WalkBody(succ, n, f)
<1>1. g = WalkBody(succ, n, g)
  <2>1. \A k \in Nat : k # 0 => g[k] = IF g[k - 1] = Null THEN Null ELSE succ[g[k - 1]]
    <3> SUFFICES ASSUME NEW k \in Nat, k # 0
                 PROVE  g[k] = IF g[k - 1] = Null THEN Null ELSE succ[g[k - 1]]
      OBVIOUS
    <3>1. CASE k - 1 < Len(s)
      <4>1. k \in 1..Len(s) /\ s[k] \in Nodes /\ g[k - 1] = s[k]
        BY <3>1
      <4>2. s[k] # Null
        BY <4>1, NullAssumption DEF Nodes
      <4>3. g[k] = succ[s[k]]
        BY <4>1
      <4>4. QED
        BY <4>1, <4>2, <4>3
    <3>2. CASE ~(k - 1 < Len(s))
      BY <3>2
    <3>3. QED
      BY <3>1, <3>2
  <2>2. g[0] = n
    OBVIOUS
  <2>3. QED
    BY <2>1, <2>2 DEF WalkBody
<1> HIDE DEF g
<1>2. at = WalkBody(succ, n, at)
  BY <1>1
<1>3. \A k \in Nat : at[k] = g[k]
  <2> DEFINE T == {k \in Nat : at[k] = g[k]}
  <2> HIDE DEF at
  <2>1. 0 \in T
    BY <1>1, <1>2 DEF WalkBody
  <2>2. ASSUME NEW k \in Nat, k \in T PROVE k + 1 \in T
    <3>1. at[k + 1] = IF at[k] = Null THEN Null ELSE succ[at[k]]
      BY <1>2 DEF WalkBody
    <3>2. g[k + 1] = IF g[k] = Null THEN Null ELSE succ[g[k]]
      BY <1>1 DEF WalkBody
    <3>3. QED
      BY <2>2, <3>1, <3>2
  <2>3. Nat \subseteq T
    <3> HIDE DEF T
    <3> QED
      BY <2>1, <2>2, NatInductionSet
  <2>4. QED
    BY <2>3
<1>4. Walk(succ, n)
        = LET inside == {k \in 0..MaxPushes + 1 : at[k] # Null}
          IN  [k \in 1..Cardinality(inside) |-> at[k - 1]]
  BY DEF Walk, WalkBody
<1> HIDE DEF at
<1>5. {k \in 0..MaxPushes + 1 : at[k] # Null} = 0..(Len(s) - 1)
  <2>1. \A k \in Nat : k < Len(s) => s[k + 1] # Null
    <3>1. \A k \in Nat : k < Len(s) => s[k + 1] \in Nodes
      OBVIOUS
    <3>2. QED
      BY <3>1, NullAssumption DEF Nodes
  <2>2. QED
    BY <1>3, <2>1, BoundAssumption DEF g
<1>6. Cardinality(0..(Len(s) - 1)) = Len(s)
  <2>1. Len(s) \in Nat /\ 0 \in Int /\ Len(s) - 1 \in Int
    OBVIOUS
  <2>2. Cardinality(0..(Len(s) - 1))
          = IF 0 > Len(s) - 1 THEN 0 ELSE (Len(s) - 1) - 0 + 1
    BY <2>1, FS_Interval
  <2>3. QED
    BY <2>1, <2>2
<1>7. Walk(succ, n) = [k \in 1..Len(s) |-> at[k - 1]]
  BY <1>4, <1>5, <1>6
<1>8. \A k \in 1..Len(s) : at[k - 1] = s[k]
  BY <1>3 DEF g
<1>9. QED
  BY <1>7, <1>8

\* No chain is longer than there are nodes.
LEMMA LengthBound ==
  ASSUME NEW f \in [Nodes -> Nat], NEW k \in Nat,
         \A i \in 1..k : \E n \in Nodes : f[n] = i
  PROVE  k <= MaxPushes + 1
<1> DEFINE g == [i \in 1..k |-> CHOOSE n \in Nodes : f[n] = i]
<1>1. \A i \in 1..k : g[i] \in Nodes /\ f[g[i]] = i
  OBVIOUS
<1>2. g \in Injection(1..k, Nodes)
  <2>1. g \in [1..k -> Nodes] /\ \A i, j \in 1..k : g[i] = g[j] => i = j
    BY <1>1
  <2>2. QED
    BY <2>1 DEF Injection, IsInjective
<1>3. IsFiniteSet(Nodes) /\ Cardinality(Nodes) = MaxPushes + 1
  <2>1. 0 \in Int /\ MaxPushes \in Int /\ ~(0 > MaxPushes) /\ MaxPushes - 0 + 1 = MaxPushes + 1
    BY BoundAssumption
  <2>2. QED
    BY <2>1, FS_Interval DEF Nodes
<1>4. Cardinality(1..k) = k
  BY FS_Interval
<1>5. Cardinality(1..k) <= Cardinality(Nodes)
  BY <1>2, <1>3, FS_Injection
<1>6. QED
  BY <1>3, <1>4, <1>5

\* A walk along a chain passes the positions in order, up to the last.
LEMMA WalkUp ==
  ASSUME NEW pos \in [Nodes -> Nat], NEW len \in Nat, NEW succ \in [Nodes -> Local],
         NEW first \in Nodes, Linked(succ, pos, len), 1 <= pos[first]
  PROVE  /\ Walk(succ, first) \in Seq(Nodes)
         /\ Len(Walk(succ, first)) = len - pos[first] + 1
         /\ \A i \in 1..(len - pos[first] + 1) :
              Walk(succ, first)[i] \in Nodes /\ pos[Walk(succ, first)[i]] = pos[first] + i - 1
<1> DEFINE k == len - pos[first] + 1
           s == [i \in 1..k |-> CHOOSE n \in Nodes : pos[n] = pos[first] + i - 1]
<1>1. k \in Nat /\ 1 <= k /\ k <= len
  BY DEF Linked
<1>2. \A i \in 1..k : s[i] \in Nodes /\ pos[s[i]] = pos[first] + i - 1
  <2> SUFFICES ASSUME NEW i \in 1..k
               PROVE  \E n \in Nodes : pos[n] = pos[first] + i - 1
    OBVIOUS
  <2>1. pos[first] + i - 1 \in 1..len
    BY <1>1
  <2>2. QED
    BY <2>1 DEF Linked
<1>3. s \in Seq(Nodes) /\ Len(s) = k /\ s # <<>>
  BY <1>1, <1>2
<1> HIDE DEF s
<1>4. s[1] = first
  BY <1>1, <1>2 DEF Linked
<1>5. \A i \in 1..k : succ[s[i]] = IF i = k THEN Null ELSE s[i + 1]
  <2>1. succ[s[k]] = Null
    <3>1. s[k] \in Nodes /\ pos[s[k]] = len
      BY <1>1, <1>2
    <3>2. QED
      BY <3>1 DEF Linked
  <2>2. ASSUME NEW i \in 1..k, i # k PROVE succ[s[i]] = s[i + 1]
    <3>1. /\ i + 1 \in 1..k /\ s[i] \in Nodes /\ s[i + 1] \in Nodes
          /\ pos[s[i]] \in 1..(len - 1) /\ pos[s[i + 1]] = pos[s[i]] + 1
      BY <1>1, <1>2, <2>2
    <3>2. succ[s[i]] \in Nodes /\ pos[succ[s[i]]] = pos[s[i]] + 1
      BY <3>1 DEF Linked, Follows
    <3>3. QED
      BY <3>1, <3>2 DEF Linked
  <2>3. QED
    BY <2>1, <2>2
<1>6. Walk(succ, first) = s
  <2>1. len <= MaxPushes + 1
    BY LengthBound DEF Linked
  <2>2. Len(s) <= MaxPushes + 1
    BY <1>1, <1>3, <2>1, BoundAssumption
  <2>3. first \in Local
    BY DEF Local
  <2>4. QED
    BY <1>3, <1>4, <1>5, <2>2, <2>3, WalkIs
<1>7. QED
  BY <1>2, <1>3, <1>6

\* The walk of the destructor along the retired chain passes the ranks down to 1.
LEMMA WalkDown ==
  ASSUME NEW pos \in [Nodes -> Nat], NEW rank \in [Nodes -> Nat], NEW count \in Nat,
         TypeOK, RetiredOrder(pos, rank, count)
  PROVE  /\ RetiredChain \in Seq(Nodes) /\ Len(RetiredChain) = count
         /\ \A i \in 1..count :
              RetiredChain[i] \in Nodes /\ rank[RetiredChain[i]] = count - i + 1
<1> DEFINE s == [i \in 1..count |-> CHOOSE n \in Nodes : rank[n] = count - i + 1]
<1>1. \A i \in 1..count : s[i] \in Nodes /\ rank[s[i]] = count - i + 1
  <2> SUFFICES ASSUME NEW i \in 1..count
               PROVE  \E n \in Nodes : rank[n] = count - i + 1
    OBVIOUS
  <2>1. count - i + 1 \in 1..count
    OBVIOUS
  <2>2. QED
    BY <2>1 DEF RetiredOrder
<1>2. s \in Seq(Nodes) /\ Len(s) = count
  BY <1>1
<1> HIDE DEF s
<1>3. s = <<>> <=> count = 0
  BY <1>2
<1>4. retired = IF s = <<>> THEN Null ELSE s[1]
  <2>1. count # 0 => s[1] \in Nodes /\ rank[s[1]] = count
    BY <1>1
  <2>2. QED
    BY <1>3, <2>1 DEF RetiredOrder
<1>5. \A i \in 1..count : retiredNext[s[i]] = IF i = count THEN Null ELSE s[i + 1]
  <2>1. ASSUME count # 0 PROVE retiredNext[s[count]] = Null
    <3>1. s[count] \in Nodes /\ rank[s[count]] = 1
      BY <1>1, <2>1
    <3>2. QED
      BY <3>1 DEF RetiredOrder
  <2>2. ASSUME NEW i \in 1..count, i # count PROVE retiredNext[s[i]] = s[i + 1]
    <3>1. /\ s[i] \in Nodes /\ s[i + 1] \in Nodes
          /\ rank[s[i]] > 1 /\ rank[s[i + 1]] = rank[s[i]] - 1
          /\ rank[s[i + 1]] > 0
      BY <1>1, <2>2
    <3>2. retiredNext[s[i]] \in Nodes /\ rank[retiredNext[s[i]]] = rank[s[i]] - 1
      BY <3>1 DEF RetiredOrder
    <3>3. QED
      BY <3>1, <3>2 DEF RetiredOrder
  <2>3. QED
    BY <2>1, <2>2
<1>6. RetiredChain = s
  <2>1. count <= MaxPushes + 1
    BY LengthBound DEF RetiredOrder
  <2>2. Walk(retiredNext, retired) = s
    BY <1>2, <1>4, <1>5, <2>1, WalkIs DEF TypeOK
  <2>3. QED
    BY <2>2 DEF RetiredChain
<1>7. QED
  BY <1>1, <1>2, <1>6

\* The chain from head_ holds the positions from that of head_ to the last.
LEMMA ChainIs ==
  ASSUME NEW pos \in [Nodes -> Nat], NEW rank \in [Nodes -> Nat],
         NEW len \in Nat, NEW count \in Nat, Numbered(pos, len, rank, count)
  PROVE  /\ Chain \in Seq(Nodes) /\ Len(Chain) = len - pos[head] + 1
         /\ 1 <= pos[head] /\ pos[head] <= len
         /\ \A i \in 1..(len - pos[head] + 1) :
              Chain[i] \in Nodes /\ pos[Chain[i]] = pos[head] + i - 1
<1>1. /\ head \in Nodes /\ 1 <= pos[head] /\ next \in [Nodes -> Local]
      /\ Linked(next, pos, len)
  BY DEF Numbered, TypeOK, Ends, ChainOrder
<1>2. pos[head] <= len
  BY <1>1 DEF Linked
<1>3. QED
  BY <1>1, <1>2, WalkUp DEF Chain

\* tail_ may lag behind the last node but never behind head_: what is reached
\* through it has not been retired.
THEOREM TailCorrect == Spec => []TailInChain
<1>1. QueueInv => TailInChain
  <2> SUFFICES ASSUME QueueInv PROVE TailInChain
    OBVIOUS
  <2>1. PICK pos \in [Nodes -> Nat], rank \in [Nodes -> Nat], len \in Nat, count \in Nat :
          Numbered(pos, len, rank, count)
    BY DEF QueueInv
  <2>2. /\ tail \in Nodes /\ head \in Nodes
        /\ pos[head] <= pos[tail] /\ pos[tail] <= len /\ 1 <= pos[head]
        /\ \A m, n \in Nodes : pos[m] = pos[n] /\ pos[m] > 0 => m = n
    BY <2>1 DEF Numbered, TypeOK, Ends, ChainOrder, Linked
  <2>3. PICK i \in 1..(len - pos[head] + 1) : pos[head] + i - 1 = pos[tail]
    <3>1. pos[head] \in Nat /\ pos[tail] \in Nat
      BY <2>2
    <3>2. /\ pos[tail] - pos[head] + 1 \in 1..(len - pos[head] + 1)
          /\ pos[head] + (pos[tail] - pos[head] + 1) - 1 = pos[tail]
      BY <2>2, <3>1
    <3>3. QED
      BY <3>2
  <2>4. /\ Chain[i] \in Nodes /\ pos[Chain[i]] = pos[tail] /\ i \in DOMAIN Chain
    <3>1. Chain \in Seq(Nodes) /\ Len(Chain) = len - pos[head] + 1
      BY <2>1, ChainIs
    <3>2. Chain[i] \in Nodes /\ pos[Chain[i]] = pos[head] + i - 1
      BY <2>1, ChainIs
    <3>3. DOMAIN Chain = 1..(len - pos[head] + 1)
      BY <3>1
    <3>4. QED
      BY <2>3, <3>2, <3>3
  <2>5. Chain[i] = tail
    BY <2>2, <2>4
  <2>6. QED
    BY <2>4, <2>5 DEF TailInChain
<1>2. QED
  BY <1>1, InitQueueInv, NextQueueInv, PTL DEF Spec

\* What FreedOnce says of the nodes that are freed.
AllFreed(freed, n) == Len(freed) = n + 1 /\ {freed[i] : i \in DOMAIN freed} = 0..n

\* Each of the numbers 0 to n is in one of two sequences, once.
EachOnce(c, r, n) ==
  /\ \A i \in 1..Len(c) : c[i] \in 0..n
  /\ \A i \in 1..Len(r) : r[i] \in 0..n
  /\ \A i, j \in 1..Len(c) : c[i] = c[j] => i = j
  /\ \A i, j \in 1..Len(r) : r[i] = r[j] => i = j
  /\ \A i \in 1..Len(c), j \in 1..Len(r) : c[i] # r[j]
  /\ \A m \in 0..n : (\E i \in 1..Len(c) : c[i] = m) \/ (\E i \in 1..Len(r) : r[i] = m)

\* Two such sequences hold n + 1 elements together.
LEMMA TwoChains ==
  ASSUME NEW n \in Nat, NEW S, NEW c \in Seq(S), NEW r \in Seq(S), EachOnce(c, r, n)
  PROVE  AllFreed(c \o r, n)
<1> DEFINE both == c \o r
           k == Len(c)
           l == Len(r)
<1>1. /\ both \in Seq(S) /\ Len(both) = k + l
      /\ \A i \in 1..(k + l) : both[i] = IF i <= k THEN c[i] ELSE r[i - k]
  BY ConcatProperties
<1>2. k \in Nat /\ l \in Nat
  OBVIOUS
<1>3. DOMAIN both = 1..(k + l)
  BY <1>1
<1> HIDE DEF both, k, l
<1>4. \A i \in 1..(k + l) : IF i <= k THEN i \in 1..k ELSE i - k \in 1..l
  BY <1>2
<1>5. \A i \in 1..(k + l) : both[i] \in 0..n
  <2> SUFFICES ASSUME NEW i \in 1..(k + l) PROVE both[i] \in 0..n
    OBVIOUS
  <2>1. both[i] = IF i <= k THEN c[i] ELSE r[i - k]
    BY <1>1
  <2>2. CASE i <= k
    <3>1. i \in 1..k
      BY <1>4, <2>2
    <3>2. QED
      BY <2>1, <2>2, <3>1 DEF k, EachOnce
  <2>3. CASE ~(i <= k)
    <3>1. i - k \in 1..l
      BY <1>4, <2>3
    <3>2. QED
      BY <2>1, <2>3, <3>1 DEF l, EachOnce
  <2>4. QED
    BY <2>2, <2>3
<1>6. \A i, j \in 1..(k + l) : both[i] = both[j] => i = j
  <2> SUFFICES ASSUME NEW i \in 1..(k + l), NEW j \in 1..(k + l), both[i] = both[j]
               PROVE  i = j
    OBVIOUS
  <2>1. /\ both[i] = IF i <= k THEN c[i] ELSE r[i - k]
        /\ both[j] = IF j <= k THEN c[j] ELSE r[j - k]
        /\ IF i <= k THEN i \in 1..k ELSE i - k \in 1..l
        /\ IF j <= k THEN j \in 1..k ELSE j - k \in 1..l
    BY <1>1, <1>4
  <2>2. CASE i <= k /\ j <= k
    BY <2>1, <2>2 DEF k, EachOnce
  <2>3. CASE ~(i <= k) /\ ~(j <= k)
    <3>1. i - k = j - k
      BY <2>1, <2>3 DEF l, EachOnce
    <3>2. QED
      BY <1>2, <3>1
  <2>4. CASE i <= k /\ ~(j <= k)
    BY <2>1, <2>4 DEF k, l, EachOnce
  <2>5. CASE ~(i <= k) /\ j <= k
    BY <2>1, <2>5 DEF k, l, EachOnce
  <2>6. QED
    BY <2>2, <2>3, <2>4, <2>5
<1>7. ASSUME NEW m \in 0..n PROVE \E i \in 1..(k + l) : both[i] = m
  <2>1. CASE \E i \in 1..k : c[i] = m
    <3>1. PICK i \in 1..k : c[i] = m
      BY <2>1
    <3>2. i \in 1..(k + l) /\ i <= k
      BY <1>2
    <3>3. both[i] = m
      BY <1>1, <3>1, <3>2
    <3>4. QED
      BY <3>2, <3>3
  <2>2. CASE \E i \in 1..l : r[i] = m
    <3>1. PICK i \in 1..l : r[i] = m
      BY <2>2
    <3>2. k + i \in 1..(k + l) /\ ~(k + i <= k) /\ (k + i) - k = i
      BY <1>2
    <3>3. both[k + i] = r[(k + i) - k]
      BY <1>1, <3>2
    <3>4. QED
      BY <3>1, <3>2, <3>3
  <2>3. QED
    BY <2>1, <2>2 DEF k, l, EachOnce
<1>8. {both[i] : i \in DOMAIN both} = 0..n
  <2>1. {both[i] : i \in 1..(k + l)} \subseteq 0..n
    BY <1>5
  <2>2. 0..n \subseteq {both[i] : i \in 1..(k + l)}
    <3> SUFFICES ASSUME NEW m \in 0..n PROVE m \in {both[i] : i \in 1..(k + l)}
      OBVIOUS
    <3>1. PICK i \in 1..(k + l) : both[i] = m
      BY <1>7
    <3>2. QED
      BY <3>1
  <2>3. QED
    BY <1>3, <2>1, <2>2
<1>9. k + l = n + 1
  <2>1. both \in [1..(k + l) -> 0..n]
    <3>1. both = [i \in 1..(k + l) |-> both[i]]
      BY <1>1, <1>3
    <3>2. QED
      BY <1>5, <3>1
  <2>2. both \in Bijection(1..(k + l), 0..n)
    BY <1>6, <1>7, <2>1 DEF Bijection, Injection, IsInjective, Surjection
  <2>3. ExistsBijection(1..(k + l), 0..n) /\ k + l \in Nat
    BY <1>2, <2>2 DEF ExistsBijection
  <2>4. Cardinality(0..n) = k + l
    BY <2>3, FS_CountingElements
  <2>5. Cardinality(0..n) = n + 1
    <3>1. 0 \in Int /\ n \in Int /\ ~(0 > n) /\ n - 0 + 1 = n + 1
      OBVIOUS
    <3>2. QED
      BY <3>1, FS_Interval
  <2>6. QED
    BY <2>4, <2>5
<1>10. QED
  BY <1>1, <1>8, <1>9 DEF both, AllFreed

\* When no call is running, each node that was ever allocated, and no other, is
\* in one of the two chains that the destructor walks, once.
THEOREM FreedCorrect == Spec => []FreedOnce
<1>1. QueueInv => FreedOnce
  <2> SUFFICES ASSUME QueueInv, \A t \in Threads : pc[t] = "idle"
               PROVE  AllFreed(Chain \o RetiredChain, allocated)
    BY DEF FreedOnce, AllFreed
  <2>1. PICK pos \in [Nodes -> Nat], rank \in [Nodes -> Nat], len \in Nat, count \in Nat :
          Numbered(pos, len, rank, count)
    BY DEF QueueInv
  <2>2. Pushing = {} /\ Popped = {}
    BY DEF Pushing, Popped, PushPCs, PoppedPCs
  <2>3. /\ Chain \in Seq(Nodes) /\ Len(Chain) = len - pos[head] + 1
        /\ 1 <= pos[head] /\ pos[head] <= len
        /\ \A i \in 1..Len(Chain) : Chain[i] \in Nodes /\ pos[Chain[i]] = pos[head] + i - 1
    BY <2>1, ChainIs
  <2>4. /\ RetiredChain \in Seq(Nodes) /\ Len(RetiredChain) = count
        /\ \A i \in 1..count :
             RetiredChain[i] \in Nodes /\ rank[RetiredChain[i]] = count - i + 1
    BY <2>1, WalkDown DEF Numbered
  <2>5. /\ head \in Nodes /\ allocated \in Nat /\ 0..allocated \subseteq Nodes
        /\ \A n \in Nodes : pos[n] <= len /\ (pos[n] > 0 => n \in 0..allocated)
        /\ \A m, n \in Nodes : pos[m] = pos[n] /\ pos[m] > 0 => m = n
        /\ \A n \in 0..allocated : pos[n] > 0
    <3>1. /\ head \in Nodes /\ allocated \in Nodes
          /\ \A n \in Nodes : pos[n] <= len /\ (pos[n] > 0 => n <= allocated)
          /\ \A m, n \in Nodes : pos[m] = pos[n] /\ pos[m] > 0 => m = n
      BY <2>1 DEF Numbered, TypeOK, ChainOrder, Linked
    <3>2. allocated \in Nat /\ 0..allocated \subseteq Nodes
      BY <3>1, BoundAssumption DEF Nodes
    <3>3. \A n \in 0..allocated : pos[n] # 0
      BY <2>1, <2>2 DEF Numbered, Owners
    <3>4. \A n \in Nodes : n <= allocated => n \in 0..allocated
      BY <3>2 DEF Nodes
    <3>5. QED
      BY <3>1, <3>2, <3>3, <3>4
  <2>6. /\ \A n \in Nodes : rank[n] <= count
        /\ \A m, n \in Nodes : rank[m] = rank[n] /\ rank[m] > 0 => m = n
        /\ \A n \in Nodes : rank[n] > 0 <=> 1 <= pos[n] /\ pos[n] < pos[head]
    BY <2>1, <2>2 DEF Numbered, RetiredOrder
  <2>7. pos[head] \in Nat
    BY <2>5
  <2>8. \A i \in 1..Len(Chain) : pos[Chain[i]] >= pos[head] /\ pos[Chain[i]] > 0
    <3> SUFFICES ASSUME NEW i \in 1..Len(Chain)
                 PROVE  pos[Chain[i]] >= pos[head] /\ pos[Chain[i]] > 0
      OBVIOUS
    <3>1. pos[Chain[i]] = pos[head] + i - 1 /\ 1 <= pos[head]
      BY <2>3
    <3>2. QED
      BY <2>7, <3>1
  <2>9. \A i \in 1..Len(RetiredChain) :
          /\ RetiredChain[i] \in Nodes /\ rank[RetiredChain[i]] = count - i + 1
          /\ rank[RetiredChain[i]] > 0
    BY <2>4
  <2>10. \A i \in 1..Len(RetiredChain) :
           pos[RetiredChain[i]] < pos[head] /\ pos[RetiredChain[i]] > 0
    BY <2>4, <2>6, <2>9
  <2>11. /\ \A i \in 1..Len(Chain) : Chain[i] \in 0..allocated
         /\ \A i \in 1..Len(RetiredChain) : RetiredChain[i] \in 0..allocated
    BY <2>3, <2>4, <2>5, <2>8, <2>10
  <2>12. \A i, j \in 1..Len(Chain) : Chain[i] = Chain[j] => i = j
    <3> SUFFICES ASSUME NEW i \in 1..Len(Chain), NEW j \in 1..Len(Chain), Chain[i] = Chain[j]
                 PROVE  i = j
      OBVIOUS
    <3>1. pos[head] + i - 1 = pos[head] + j - 1
      BY <2>3
    <3>2. QED
      BY <2>7, <3>1
  <2>13. \A i, j \in 1..Len(RetiredChain) : RetiredChain[i] = RetiredChain[j] => i = j
    <3> SUFFICES ASSUME NEW i \in 1..Len(RetiredChain), NEW j \in 1..Len(RetiredChain),
                        RetiredChain[i] = RetiredChain[j]
                 PROVE  i = j
      OBVIOUS
    <3>1. count - i + 1 = count - j + 1
      BY <2>4
    <3>2. QED
      BY <3>1
  <2>14. \A i \in 1..Len(Chain), j \in 1..Len(RetiredChain) : Chain[i] # RetiredChain[j]
    <3> SUFFICES ASSUME NEW i \in 1..Len(Chain), NEW j \in 1..Len(RetiredChain)
                 PROVE  Chain[i] # RetiredChain[j]
      OBVIOUS
    <3>1. Chain[i] \in Nodes /\ pos[Chain[i]] >= pos[head] /\ pos[RetiredChain[j]] < pos[head]
      BY <2>3, <2>8, <2>10
    <3>2. pos[Chain[i]] \in Nat /\ pos[RetiredChain[j]] # pos[Chain[i]]
      <4>1. RetiredChain[j] \in Nodes
        BY <2>9
      <4>2. pos[Chain[i]] \in Nat /\ pos[RetiredChain[j]] \in Nat
        BY <3>1, <4>1
      <4>3. QED
        BY <2>7, <3>1, <4>2
    <3>3. QED
      BY <2>7, <3>1, <3>2
  <2>15. ASSUME NEW n \in 0..allocated
         PROVE  \/ \E i \in 1..Len(Chain) : Chain[i] = n
                \/ \E i \in 1..Len(RetiredChain) : RetiredChain[i] = n
    <3>1. n \in Nodes /\ pos[n] > 0 /\ pos[n] <= len /\ pos[n] \in Nat
      BY <2>5
    <3>2. CASE pos[n] >= pos[head]
      <4>1. PICK i \in 1..Len(Chain) : pos[head] + i - 1 = pos[n]
        <5>1. /\ pos[n] - pos[head] + 1 \in 1..(len - pos[head] + 1)
              /\ pos[head] + (pos[n] - pos[head] + 1) - 1 = pos[n]
          BY <2>7, <3>1, <3>2
        <5>2. QED
          BY <2>3, <5>1
      <4>2. Chain[i] \in Nodes /\ pos[Chain[i]] = pos[n]
        BY <2>3, <4>1
      <4>3. Chain[i] = n
        BY <2>5, <3>1, <4>2
      <4>4. QED
        BY <4>3
    <3>3. CASE pos[n] < pos[head]
      <4>1. rank[n] > 0 /\ rank[n] <= count /\ rank[n] \in Nat
        BY <2>6, <3>1, <3>3
      <4>2. PICK i \in 1..Len(RetiredChain) : count - i + 1 = rank[n]
        <5>1. count - rank[n] + 1 \in 1..count /\ count - (count - rank[n] + 1) + 1 = rank[n]
          BY <4>1
        <5>2. QED
          BY <2>4, <5>1
      <4>3. RetiredChain[i] \in Nodes /\ rank[RetiredChain[i]] = rank[n]
        BY <2>4, <4>2
      <4>4. RetiredChain[i] = n
        BY <2>6, <3>1, <4>1, <4>3
      <4>5. QED
        BY <4>4
    <3>4. QED
      BY <2>7, <3>1, <3>2, <3>3
  <2>16. QED
    <3>1. allocated \in Nat /\ Chain \in Seq(Nodes) /\ RetiredChain \in Seq(Nodes)
      BY <2>3, <2>4, <2>5
    <3>2. EachOnce(Chain, RetiredChain, allocated)
      BY <2>11, <2>12, <2>13, <2>14, <2>15 DEF EachOnce
    <3>3. QED
      BY <3>1, <3>2, TwoChains
<1>2. QED
  BY <1>1, InitQueueInv, NextQueueInv, PTL DEF Spec
-----------------------------------------------------------------------------
(***************************************************************************)
(* Linearizability: every step of the queue is a step of FifoQueue, or     *)
(* changes nothing that FifoQueue can see                                  *)
(***************************************************************************)
Queue == Tail(Chain)
Calls == [t \in Threads |-> CallOf(t)]
Seen == {t \in Threads : SawEmpty(t)}

\* A step changes the call of the thread that takes it, and no other.
LEMMA CallsChange ==
  ASSUME NEW t \in Threads, OthersStay(t)
  PROVE  /\ Calls' = [Calls EXCEPT ![t] = CallOf(t)']
         /\ CallOf(t)' = CallOf(t) => Calls' = Calls
<1>1. \A u \in Threads \ {t} : CallOf(u)' = CallOf(u)
  BY DEF OthersStay, CallOf
<1>2. Calls = [u \in Threads |-> CallOf(u)] /\ Calls' = [u \in Threads |-> CallOf(u)']
  BY DEF Calls
<1>3. QED
  BY <1>1, <1>2

\* As long as head_ stays, a step changes what its own thread has seen only.
LEMMA SeenChange ==
  ASSUME NEW t \in Threads, OthersStay(t), head' = head
  PROVE  /\ SawEmpty(t)' => Seen' = Seen \cup {t}
         /\ ~SawEmpty(t)' => Seen' = Seen \ {t}
         /\ (SawEmpty(t)' <=> SawEmpty(t)) => Seen' = Seen
<1>1. \A u \in Threads \ {t} : SawEmpty(u)' <=> SawEmpty(u)
  BY DEF OthersStay, SawEmpty
<1>2. \A u \in Threads : (u \in Seen <=> SawEmpty(u)) /\ (u \in Seen' <=> SawEmpty(u)')
  BY DEF Seen
<1>3. Seen \subseteq Threads /\ Seen' \subseteq Threads
  BY DEF Seen
<1> QED
  BY <1>1, <1>2, <1>3

\* The abstract queue stays as it was when the chain does.
LEMMA QueueStays ==
  ASSUME UNCHANGED <<next, head>>
  PROVE  Queue' = Queue
BY DEF Queue, Chain, Walk

\* What a step must leave alone for the queue not to notice it.
LEMMA Unseen ==
  ASSUME NEW t \in Threads, OthersStay(t), UNCHANGED <<next, head>>,
         CallOf(t)' = CallOf(t), SawEmpty(t)' <=> SawEmpty(t)
  PROVE  UNCHANGED <<Queue, Calls, Seen>>
BY CallsChange, SeenChange, QueueStays

\* The queue is empty when the current head has no successor.
LEMMA EmptyQueue ==
  ASSUME QueueInv, next[head] = Null
  PROVE  Queue = <<>>
<1>1. PICK pos \in [Nodes -> Nat], rank \in [Nodes -> Nat], len \in Nat, count \in Nat :
        Numbered(pos, len, rank, count)
  BY DEF QueueInv
<1>2. /\ Chain \in Seq(Nodes) /\ Len(Chain) = len - pos[head] + 1
      /\ 1 <= pos[head] /\ pos[head] <= len
  BY <1>1, ChainIs
<1>3. head \in Nodes /\ pos[head] \in Nat
  BY <1>1 DEF Numbered, TypeOK
<1>4. pos[head] \notin 1..(len - 1)
  BY <1>1, <1>3, NullAssumption DEF Numbered, ChainOrder, Linked, Follows, Nodes
<1>5. Len(Chain) = 1
  BY <1>2, <1>3, <1>4
<1>6. Chain # <<>>
  <2>1. \A s \in Seq(Nodes) : s = <<>> => Len(s) # 1
    OBVIOUS
  <2>2. QED
    BY <1>2, <1>5, <2>1
<1>7. Tail(Chain) \in Seq(Nodes) /\ Len(Tail(Chain)) = 0
  BY <1>2, <1>5, <1>6, HeadTailProperties
<1>8. QED
  <2>1. \A s \in Seq(Nodes) : Len(s) = 0 => s = <<>>
    OBVIOUS
  <2>2. QED
    BY <1>7, <2>1 DEF Queue

\* A push adds its node at the end of the queue.
LEMMA LinkAppends ==
  ASSUME QueueInv, NEW t \in Threads, PushLink(t)
  PROVE  mine[t] \in 1..MaxPushes /\ Queue' = Append(Queue, mine[t])
<1>1. PICK pos \in [Nodes -> Nat], rank \in [Nodes -> Nat], len \in Nat, count \in Nat :
        Numbered(pos, len, rank, count)
  BY DEF QueueInv
<1>2. PICK m \in Local : m = mine[t]
  BY <1>1 DEF Numbered, TypeOK
<1>3. /\ m \in 1..MaxPushes /\ pos[m] = 0
      /\ Numbered([pos EXCEPT ![m] = len + 1], len + 1, rank, count)'
  <2>1. m \in 1..MaxPushes
    BY <1>1, <1>2, LinkNumbered
  <2>2. pos[m] = 0
    <3>1. t \in Pushing
      BY DEF PushLink, At, Pushing, PushPCs
    <3>2. QED
      BY <1>1, <1>2, <3>1 DEF Numbered, Owners
  <2>3. Numbered([pos EXCEPT ![m] = len + 1], len + 1, rank, count)'
    BY <1>1, <1>2, LinkNumbered
  <2>4. QED
    BY <2>1, <2>2, <2>3
<1>4. PICK new \in [Nodes -> Nat] :
        new = [pos EXCEPT ![m] = len + 1] /\ Numbered(new, len + 1, rank, count)'
  <2>1. [pos EXCEPT ![m] = len + 1] \in [Nodes -> Nat]
    BY <1>3, BoundAssumption DEF Nodes
  <2>2. QED
    BY <1>3, <2>1
<1>5. m \in Nodes
  BY <1>3, BoundAssumption DEF Nodes
<1>6. new[m] = len + 1 /\ \A n \in Nodes : pos[n] > 0 => new[n] = pos[n]
  BY <1>3, <1>4, <1>5
<1>7. head' = head /\ head \in Nodes /\ pos[head] \in Nat
  BY <1>1 DEF PushLink, Numbered, TypeOK
<1>8. /\ Chain \in Seq(Nodes) /\ Len(Chain) = len - pos[head] + 1
      /\ 1 <= pos[head] /\ pos[head] <= len
      /\ \A i \in 1..(len - pos[head] + 1) :
           Chain[i] \in Nodes /\ pos[Chain[i]] = pos[head] + i - 1
  BY <1>1, ChainIs
<1>9. new[head] = pos[head]
  BY <1>6, <1>7, <1>8
<1>10. Linked(next', new, len + 1) /\ next' \in [Nodes -> Local]
  BY <1>4 DEF Numbered, ChainOrder, Linked, TypeOK
<1>11. Chain' = Walk(next', head)
  BY <1>7 DEF Chain, Walk
<1>12. /\ Chain' \in Seq(Nodes) /\ Len(Chain') = (len + 1) - pos[head] + 1
       /\ \A i \in 1..((len + 1) - pos[head] + 1) :
            Chain'[i] \in Nodes /\ new[Chain'[i]] = pos[head] + i - 1
  <2>1. len + 1 \in Nat /\ 1 <= new[head]
    BY <1>8, <1>9
  <2>2. /\ Walk(next', head) \in Seq(Nodes)
        /\ Len(Walk(next', head)) = (len + 1) - new[head] + 1
        /\ \A i \in 1..((len + 1) - new[head] + 1) :
             Walk(next', head)[i] \in Nodes /\ new[Walk(next', head)[i]] = new[head] + i - 1
    BY <1>7, <1>10, <2>1, WalkUp
  <2>3. QED
    BY <1>9, <1>11, <2>2
<1>13. \A n, o \in Nodes : new[n] = new[o] /\ new[n] > 0 => n = o
  BY <1>10 DEF Linked
<1>14. /\ Append(Chain, m) \in Seq(Nodes) /\ Len(Append(Chain, m)) = Len(Chain) + 1
       /\ \A i \in 1..Len(Chain) : Append(Chain, m)[i] = Chain[i]
       /\ Append(Chain, m)[Len(Chain) + 1] = m
  <2>1. \A s \in Seq(Nodes) :
          /\ Append(s, m) \in Seq(Nodes) /\ Len(Append(s, m)) = Len(s) + 1
          /\ \A i \in 1..Len(s) : Append(s, m)[i] = s[i]
          /\ Append(s, m)[Len(s) + 1] = m
    BY <1>5, AppendProperties
  <2>2. QED
    BY <1>8, <2>1
<1>15. ASSUME NEW i \in 1..Len(Chain') PROVE Chain'[i] = Append(Chain, m)[i]
  <2>1. i \in Nat /\ i <= len - pos[head] + 2
    BY <1>7, <1>12
  <2>2. CASE i \in 1..Len(Chain)
    <3>1. i \in 1..(len - pos[head] + 1) /\ pos[head] + i - 1 > 0
      BY <1>7, <1>8, <2>2
    <3>2. Chain[i] \in Nodes /\ new[Chain[i]] = pos[head] + i - 1
      BY <1>6, <1>8, <3>1
    <3>3. Chain'[i] \in Nodes /\ new[Chain'[i]] = pos[head] + i - 1
      BY <1>12
    <3>4. Chain'[i] = Chain[i]
      BY <1>13, <3>1, <3>2, <3>3
    <3>5. QED
      BY <1>14, <2>2, <3>4
  <2>3. CASE i \notin 1..Len(Chain)
    <3>1. i = len - pos[head] + 2
      <4>1. PICK p \in Nat : p = pos[head]
        BY <1>7
      <4>2. Len(Chain) = len - p + 1 /\ i <= len - p + 2 /\ i >= 1
        BY <1>8, <2>1, <4>1
      <4>3. i > Len(Chain)
        BY <2>1, <2>3, <4>2
      <4>4. i = len - p + 2
        BY <2>1, <4>2, <4>3
      <4>5. QED
        BY <4>1, <4>4
    <3>2. i = Len(Chain) + 1 /\ pos[head] + i - 1 = len + 1
      <4>1. PICK p \in Nat : p = pos[head]
        BY <1>7
      <4>2. Len(Chain) = len - p + 1 /\ i = len - p + 2
        BY <1>8, <3>1, <4>1
      <4>3. i = Len(Chain) + 1 /\ p + i - 1 = len + 1
        BY <4>2
      <4>4. QED
        BY <4>1, <4>3
    <3>3. Chain'[i] \in Nodes /\ new[Chain'[i]] = len + 1
      BY <1>12, <3>2
    <3>4. Chain'[i] = m
      BY <1>5, <1>6, <1>13, <3>3
    <3>5. QED
      BY <1>14, <3>2, <3>4
  <2>4. QED
    BY <2>2, <2>3
<1>16. Chain' = Append(Chain, m)
  <2>1. Len(Chain') = Len(Append(Chain, m))
    BY <1>7, <1>8, <1>12, <1>14
  <2>2. QED
    BY <1>12, <1>14, <1>15, <2>1, SeqEqual
<1>17. Chain # <<>>
  BY <1>7, <1>8
<1>18. Tail(Append(Chain, m)) = Append(Tail(Chain), m)
  BY <1>8, <1>17, HeadTailAppend
<1>19. QED
  BY <1>2, <1>3, <1>16, <1>18 DEF Queue

\* A pop takes the oldest value, and whoever had seen the queue empty at an
\* earlier head will find that head_ has moved.
LEMMA ExchangeTakes ==
  ASSUME QueueInv, NEW t \in Threads, PopExchange(t)
  PROVE  /\ Queue # <<>> /\ Head(Queue) = myNext[t]
         /\ Queue' = Tail(Queue) /\ Seen' = {}
<1>1. PICK pos \in [Nodes -> Nat], rank \in [Nodes -> Nat], len \in Nat, count \in Nat :
        Numbered(pos, len, rank, count)
  BY DEF QueueInv
<1>2. /\ head \in Nodes /\ head' = myNext[t] /\ Follows(pos, head, head')
      /\ Numbered(pos, len, rank, count)'
  BY <1>1, ExchangeNumbered
<1>3. head' \in Nodes /\ pos[head'] = pos[head] + 1 /\ pos[head] \in Nat /\ pos[head'] \in Nat
  BY <1>2 DEF Follows
<1>4. /\ Chain \in Seq(Nodes) /\ Len(Chain) = len - pos[head] + 1
      /\ 1 <= pos[head]
      /\ \A i \in 1..(len - pos[head] + 1) :
           Chain[i] \in Nodes /\ pos[Chain[i]] = pos[head] + i - 1
  BY <1>1, ChainIs
<1>5. Linked(next', pos, len) /\ next' \in [Nodes -> Local]
  BY <1>2 DEF Numbered, ChainOrder, Linked, TypeOK
<1>6. pos[head'] <= len
  BY <1>3, <1>5 DEF Linked
<1>7. Chain' = Walk(next', head')
  BY DEF Chain, Walk
<1>8. /\ Chain' \in Seq(Nodes) /\ Len(Chain') = len - pos[head'] + 1
      /\ \A i \in 1..(len - pos[head'] + 1) :
           Chain'[i] \in Nodes /\ pos[Chain'[i]] = pos[head'] + i - 1
  <2>1. 1 <= pos[head']
    BY <1>3, <1>4
  <2>2. /\ Walk(next', head') \in Seq(Nodes)
        /\ Len(Walk(next', head')) = len - pos[head'] + 1
        /\ \A i \in 1..(len - pos[head'] + 1) :
             /\ Walk(next', head')[i] \in Nodes
             /\ pos[Walk(next', head')[i]] = pos[head'] + i - 1
    BY <1>3, <1>5, <2>1, WalkUp
  <2>3. QED
    BY <1>7, <2>2
<1>9. \A m, n \in Nodes : pos[m] = pos[n] /\ pos[m] > 0 => m = n
  BY <1>5 DEF Linked
<1>10. Chain # <<>>
  BY <1>3, <1>4, <1>6
<1>11. /\ Queue \in Seq(Nodes) /\ Len(Queue) = Len(Chain) - 1
       /\ \A i \in 1..Len(Queue) : Queue[i] = Chain[i + 1]
  BY <1>4, <1>10, HeadTailProperties DEF Queue
<1>12. Chain' = Queue
  <2>1. Len(Chain') = Len(Queue)
    <3>1. len - pos[head'] + 1 = (len - pos[head] + 1) - 1
      BY <1>3
    <3>2. QED
      BY <1>4, <1>8, <1>11, <3>1
  <2>2. ASSUME NEW i \in 1..Len(Chain') PROVE Chain'[i] = Queue[i]
    <3>1. /\ i \in 1..(len - pos[head'] + 1) /\ i + 1 \in 1..(len - pos[head] + 1)
          /\ pos[head] + (i + 1) - 1 = pos[head'] + i - 1 /\ pos[head'] + i - 1 > 0
      <4>1. i \in 1..(len - pos[head'] + 1) /\ pos[head'] = pos[head] + 1
        BY <1>3, <1>8
      <4>2. PICK p \in Nat : p = pos[head]
        BY <1>3
      <4>3. i \in 1..(len - (p + 1) + 1)
        BY <4>1, <4>2
      <4>4. /\ i + 1 \in 1..(len - p + 1) /\ p + (i + 1) - 1 = (p + 1) + i - 1
            /\ (p + 1) + i - 1 > 0
        BY <4>3
      <4>5. QED
        BY <4>1, <4>2, <4>4
    <3>2. Chain'[i] \in Nodes /\ pos[Chain'[i]] = pos[head'] + i - 1
      BY <1>8, <3>1
    <3>3. Chain[i + 1] \in Nodes /\ pos[Chain[i + 1]] = pos[head'] + i - 1
      <4>1. Chain[i + 1] \in Nodes /\ pos[Chain[i + 1]] = pos[head] + (i + 1) - 1
        BY <1>4, <3>1
      <4>2. QED
        BY <3>1, <4>1
    <3>4. Chain'[i] = Chain[i + 1]
      BY <1>9, <3>1, <3>2, <3>3
    <3>5. QED
      BY <1>11, <2>1, <3>4
  <2>3. QED
    BY <1>8, <1>11, <2>1, <2>2, SeqEqual
<1>13. Queue # <<>> /\ Head(Queue) = myNext[t]
  <2>1. 1 \in 1..(len - pos[head'] + 1) /\ pos[head'] + 1 - 1 = pos[head'] /\ pos[head'] > 0
    BY <1>3, <1>6
  <2>2. Chain'[1] \in Nodes /\ pos[Chain'[1]] = pos[head']
    BY <1>8, <2>1
  <2>3. Chain'[1] = head'
    BY <1>3, <1>9, <2>1, <2>2
  <2>4. Queue # <<>>
    BY <1>3, <1>6, <1>8, <1>12
  <2>5. QED
    BY <1>2, <1>11, <1>12, <2>3, <2>4
<1>14. Seen' = {}
  <2> SUFFICES ASSUME NEW u \in Threads, SawEmpty(u)' PROVE FALSE
    BY DEF Seen
  <2>1. pc'[u] = "popCheck" /\ head' = myHead'[u] /\ myHead' = myHead
    BY DEF SawEmpty, PopExchange, local
  <2>2. pc[u] = "popCheck"
    BY <1>1, <2>1 DEF PopExchange, At, Numbered, TypeOK
  <2>3. myHead[u] \in Nodes /\ pos[myHead[u]] <= pos[head]
    BY <1>1, <2>2 DEF Numbered, Locals, PopLocals
  <2>4. QED
    BY <1>3, <2>1, <2>3
<1>15. QED
  BY <1>12, <1>13, <1>14 DEF Queue

\* What a call of t looks like at each place.
LEMMA CallAt ==
  ASSUME NEW t \in Threads
  PROVE  /\ pc[t] = "idle" => CallOf(t) = <<"idle">>
         /\ pc[t] = "pushSwing" => CallOf(t) = <<"pushed">>
         /\ pc[t] \in PushPCs \ {"pushSwing"} => CallOf(t) = <<"push", mine[t]>>
         /\ pc[t] \in PopPCs => CallOf(t) = <<"pop">>
         /\ pc[t] = "popMove" => CallOf(t) = <<"popped", myNext[t]>>
         /\ pc[t] \in PoppedPCs \ {"popMove"} => CallOf(t) = <<"popped", mine[t]>>
BY DEF CallOf, PushPCs, PopPCs, PoppedPCs

\* A call that only starts changes nothing in the abstract queue.
LEMMA CallThen ==
  ASSUME NEW t \in Threads
  PROVE  /\ pc'[t] = "idle" => CallOf(t)' = <<"idle">>
         /\ pc'[t] = "pushSwing" => CallOf(t)' = <<"pushed">>
         /\ pc'[t] \in PushPCs \ {"pushSwing"} => CallOf(t)' = <<"push", mine'[t]>>
         /\ pc'[t] \in PopPCs => CallOf(t)' = <<"pop">>
         /\ pc'[t] = "popMove" => CallOf(t)' = <<"popped", myNext'[t]>>
         /\ pc'[t] \in PoppedPCs \ {"popMove"} => CallOf(t)' = <<"popped", mine'[t]>>
BY DEF CallOf, PushPCs, PopPCs, PoppedPCs

\* Nobody who is not about to answer has seen the queue empty.
LEMMA NotChecking ==
  ASSUME NEW t \in Threads
  PROVE  /\ pc[t] # "popCheck" => ~SawEmpty(t)
         /\ pc'[t] # "popCheck" => ~SawEmpty(t)'
BY DEF SawEmpty

\* The loads, the failed exchanges, the moves of tail_ and the retirement of
\* the old head, up to its last exchange, are invisible.
LEMMA HiddenSteps ==
  ASSUME QueueInv, NEW t \in Threads,
         \/ PushTail(t) \/ PushNext(t) \/ PushCheck(t) \/ PushHelp(t) \/ PushLinkFails(t)
         \/ PopHead(t) \/ PopTail(t) \/ PopHelp(t) \/ PopExchangeFails(t)
         \/ RetireLoad(t) \/ RetireLink(t) \/ RetireExchangeFails(t)
  PROVE  UNCHANGED <<Queue, Calls, Seen>>
<1> USE DEF At, Jump, Load, shared, local
<1>1. TypeOK
  BY DEF QueueInv, Numbered
<1>2. OthersStay(t) /\ UNCHANGED <<next, head>>
  BY <1>1
  DEF TypeOK, OthersStay, PushTail, PushNext, PushCheck, PushHelp, PushLinkFails, PopHead,
      PopTail, PopHelp, PopExchangeFails, RetireLoad, RetireLink, RetireExchangeFails
<1>3. pc[t] # "popCheck" /\ pc'[t] # "popCheck"
  BY <1>1
  DEF TypeOK, PushTail, PushNext, PushCheck, PushHelp, PushLinkFails, PopHead,
      PopTail, PopHelp, PopExchangeFails, RetireLoad, RetireLink, RetireExchangeFails
<1>4. CallOf(t)' = CallOf(t)
  <2>1. CASE PushTail(t) \/ PushNext(t) \/ PushCheck(t) \/ PushHelp(t) \/ PushLinkFails(t)
    <3>1. /\ pc[t] \in PushPCs \ {"pushSwing"} /\ pc'[t] \in PushPCs \ {"pushSwing"}
          /\ mine'[t] = mine[t]
      BY <1>1, <2>1
      DEF TypeOK, PushPCs, PushTail, PushNext, PushCheck, PushHelp, PushLinkFails
    <3>2. QED
      BY <3>1, CallAt, CallThen
  <2>2. CASE PopHead(t) \/ PopTail(t) \/ PopHelp(t) \/ PopExchangeFails(t)
    <3>1. pc[t] \in PopPCs /\ pc'[t] \in PopPCs
      BY <1>1, <2>2 DEF TypeOK, PopPCs, PopHead, PopTail, PopHelp, PopExchangeFails
    <3>2. QED
      BY <3>1, CallAt, CallThen
  <2>3. CASE RetireLoad(t) \/ RetireLink(t) \/ RetireExchangeFails(t)
    <3>1. /\ pc[t] \in PoppedPCs \ {"popMove"} /\ pc'[t] \in PoppedPCs \ {"popMove"}
          /\ mine'[t] = mine[t]
      BY <1>1, <2>3 DEF TypeOK, PoppedPCs, RetireLoad, RetireLink, RetireExchangeFails
    <3>2. QED
      BY <3>1, CallAt, CallThen
  <2>4. QED
    BY <2>1, <2>2, <2>3
<1>5. QED
  BY <1>2, <1>3, <1>4, NotChecking, Unseen

\* The payload that pop() moves out is the value of the new head.
LEMMA MoveHidden ==
  ASSUME QueueInv, NEW t \in Threads, PopMove(t)
  PROVE  UNCHANGED <<Queue, Calls, Seen>>
<1> USE DEF At, Load, PopMove
<1>1. TypeOK /\ myNext[t] \notin moved
  BY MoveNumbered DEF QueueInv, Numbered
<1>2. OthersStay(t) /\ UNCHANGED <<next, head>>
  BY <1>1 DEF TypeOK, OthersStay
<1>3. pc[t] = "popMove" /\ pc'[t] = "retireLoad" /\ mine'[t] = myNext[t]
  BY <1>1 DEF TypeOK
<1>4. CallOf(t)' = CallOf(t)
  <2>1. CallOf(t) = <<"popped", myNext[t]>>
    BY <1>3, CallAt
  <2>2. CallOf(t)' = <<"popped", mine'[t]>>
    BY <1>3, CallThen DEF PoppedPCs
  <2>3. QED
    BY <1>3, <2>1, <2>2
<1>5. QED
  BY <1>2, <1>3, <1>4, NotChecking, Unseen

\* The checks of pop() that do not answer do not forget that the queue was
\* empty: if it was, they are not taken.
LEMMA ChecksHidden ==
  ASSUME QueueInv, NEW t \in Threads, PopAgain(t) \/ PopLagging(t)
  PROVE  UNCHANGED <<Queue, Calls, Seen>>
<1> USE DEF At, shared, local
<1>1. TypeOK
  BY DEF QueueInv, Numbered
<1>2. OthersStay(t) /\ UNCHANGED <<next, head>>
  BY <1>1 DEF TypeOK, OthersStay, PopAgain, PopLagging
<1>3. pc[t] = "popCheck" /\ pc'[t] \in {"popHead", "popHelp", "popExchange"}
  BY <1>1 DEF TypeOK, PopAgain, PopLagging
<1>4. ~SawEmpty(t) /\ ~SawEmpty(t)'
  BY <1>3 DEF SawEmpty, PopAgain, PopLagging
<1>5. CallOf(t)' = CallOf(t)
  BY <1>3, CallAt, CallThen DEF PopPCs
<1>6. QED
  BY <1>2, <1>4, <1>5, Unseen
-----------------------------------------------------------------------------
\* A null successor of the current head is what an empty pop has seen.
LEMMA NextSees ==
  ASSUME QueueInv, NEW t \in Threads, PopNext(t)
  PROVE  Fifo!SeeEmpty(t) \/ UNCHANGED <<Queue, Calls, Seen>>
<1> USE DEF At, Load, PopNext, shared
<1>1. TypeOK
  BY DEF QueueInv, Numbered
<1>2. OthersStay(t) /\ UNCHANGED <<next, head>> /\ myHead' = myHead
  BY <1>1 DEF TypeOK, OthersStay
<1>3. pc[t] = "popNext" /\ pc'[t] = "popCheck" /\ myNext'[t] = next[myHead[t]]
  BY <1>1 DEF TypeOK
<1>4. CallOf(t) = <<"pop">> /\ CallOf(t)' = <<"pop">>
  BY <1>3, CallAt, CallThen DEF PopPCs
<1>5. Calls' = Calls /\ Queue' = Queue
  BY <1>2, <1>4, CallsChange, QueueStays
<1>6. CASE SawEmpty(t)'
  <2>1. next[head] = Null
    BY <1>2, <1>3, <1>6 DEF SawEmpty
  <2>2. Queue = <<>>
    BY <2>1, EmptyQueue
  <2>3. Seen' = Seen \cup {t}
    BY <1>2, <1>6, SeenChange
  <2>4. Calls[t] = <<"pop">>
    BY <1>4 DEF Calls
  <2>5. QED
    BY <1>5, <2>2, <2>3, <2>4 DEF Fifo!SeeEmpty, Queue, Calls, Seen
<1>7. CASE ~SawEmpty(t)'
  <2>1. ~SawEmpty(t)
    BY <1>3, NotChecking
  <2>2. QED
    BY <1>2, <1>5, <1>7, <2>1, SeenChange
<1>8. QED
  BY <1>6, <1>7

\* The steps of push() map to an enqueue, once, or to nothing.
LEMMA PushesMap ==
  ASSUME QueueInv, NEW t \in Threads
  PROVE  /\ CallPush(t) => \E v \in 1..MaxPushes : Fifo!CallPush(t, v)
         /\ PushLink(t) => \E v \in 1..MaxPushes : Fifo!Push(t, v)
         /\ PushSwing(t) => Fifo!ReturnPush(t)
<1> USE DEF At, Load, local, Forget
<1>1. TypeOK
  BY DEF QueueInv, Numbered
<1>2. ASSUME CallPush(t) PROVE Fifo!CallPush(t, allocated + 1) /\ allocated + 1 \in 1..MaxPushes
  <2>1. OthersStay(t) /\ UNCHANGED <<next, head>>
    BY <1>1, <1>2 DEF TypeOK, OthersStay, CallPush
  <2>2. pc[t] = "idle" /\ pc'[t] = "pushTail" /\ mine'[t] = allocated + 1
    BY <1>1, <1>2 DEF TypeOK, CallPush
  <2>3. CallOf(t) = <<"idle">> /\ CallOf(t)' = <<"push", allocated + 1>>
    BY <2>2, CallAt, CallThen DEF PushPCs
  <2>4. Queue' = Queue /\ Seen' = Seen
    BY <2>1, <2>2, NotChecking, SeenChange, QueueStays
  <2>5. Calls[t] = <<"idle">> /\ Calls' = [Calls EXCEPT ![t] = <<"push", allocated + 1>>]
    <3>1. Calls[t] = CallOf(t)
      BY DEF Calls
    <3>2. QED
      BY <2>1, <2>3, <3>1, CallsChange
  <2>6. allocated + 1 \in 1..MaxPushes
    BY <1>1, <1>2, BoundAssumption DEF TypeOK, CallPush, Nodes
  <2>7. QED
    BY <2>4, <2>5, <2>6 DEF Fifo!CallPush, Fifo!Becomes, Fifo!Idle, Queue, Calls, Seen
<1>3. ASSUME PushLink(t) PROVE Fifo!Push(t, mine[t]) /\ mine[t] \in 1..MaxPushes
  <2>1. OthersStay(t) /\ head' = head
    BY <1>1, <1>3 DEF TypeOK, OthersStay, PushLink
  <2>2. pc[t] = "pushLink" /\ pc'[t] = "pushSwing"
    BY <1>1, <1>3 DEF TypeOK, PushLink
  <2>3. CallOf(t) = <<"push", mine[t]>> /\ CallOf(t)' = <<"pushed">>
    BY <2>2, CallAt, CallThen DEF PushPCs
  <2>4. mine[t] \in 1..MaxPushes /\ Queue' = Append(Queue, mine[t]) /\ Seen' = Seen
    BY <1>3, <2>1, <2>2, LinkAppends, NotChecking, SeenChange
  <2>5. Calls[t] = <<"push", mine[t]>> /\ Calls' = [Calls EXCEPT ![t] = <<"pushed">>]
    <3>1. Calls[t] = CallOf(t)
      BY DEF Calls
    <3>2. QED
      BY <2>1, <2>3, <3>1, CallsChange
  <2>6. QED
    BY <2>4, <2>5 DEF Fifo!Push, Fifo!Becomes, Queue, Calls, Seen
<1>4. ASSUME PushSwing(t) PROVE Fifo!ReturnPush(t)
  <2>1. OthersStay(t) /\ UNCHANGED <<next, head>>
    BY <1>1, <1>4 DEF TypeOK, OthersStay, PushSwing
  <2>2. pc[t] = "pushSwing" /\ pc'[t] = "idle"
    BY <1>1, <1>4 DEF TypeOK, PushSwing
  <2>3. CallOf(t) = <<"pushed">> /\ CallOf(t)' = <<"idle">>
    BY <2>2, CallAt, CallThen
  <2>4. Queue' = Queue /\ Seen' = Seen
    BY <2>1, <2>2, NotChecking, SeenChange, QueueStays
  <2>5. Calls[t] = <<"pushed">> /\ Calls' = [Calls EXCEPT ![t] = <<"idle">>]
    <3>1. Calls[t] = CallOf(t)
      BY DEF Calls
    <3>2. QED
      BY <2>1, <2>3, <3>1, CallsChange
  <2>6. QED
    BY <2>4, <2>5 DEF Fifo!ReturnPush, Fifo!Becomes, Fifo!Idle, Queue, Calls, Seen
<1>5. QED
  BY <1>2, <1>3, <1>4

\* The steps of pop() map to a dequeue, once, or to nothing.
LEMMA PopsMap ==
  ASSUME QueueInv, NEW t \in Threads
  PROVE  /\ CallPop(t) => Fifo!CallPop(t)
         /\ PopEmpty(t) => Fifo!ReturnEmpty(t)
         /\ PopExchange(t) => Fifo!Pop(t)
         /\ RetireExchange(t) => \E v \in 1..MaxPushes : Fifo!ReturnPop(t, v)
<1> USE DEF At, Load, local, shared, Forget
<1>1. TypeOK
  BY DEF QueueInv, Numbered
<1>2. ASSUME CallPop(t) PROVE Fifo!CallPop(t)
  <2>1. OthersStay(t) /\ UNCHANGED <<next, head>>
    BY <1>1, <1>2 DEF TypeOK, OthersStay, CallPop
  <2>2. pc[t] = "idle" /\ pc'[t] = "popHead"
    BY <1>1, <1>2 DEF TypeOK, CallPop
  <2>3. CallOf(t) = <<"idle">> /\ CallOf(t)' = <<"pop">>
    BY <2>2, CallAt, CallThen DEF PopPCs
  <2>4. Queue' = Queue /\ Seen' = Seen
    BY <2>1, <2>2, NotChecking, SeenChange, QueueStays
  <2>5. Calls[t] = <<"idle">> /\ Calls' = [Calls EXCEPT ![t] = <<"pop">>]
    <3>1. Calls[t] = CallOf(t)
      BY DEF Calls
    <3>2. QED
      BY <2>1, <2>3, <3>1, CallsChange
  <2>6. QED
    BY <2>4, <2>5 DEF Fifo!CallPop, Fifo!Becomes, Fifo!Idle, Queue, Calls, Seen
<1>3. ASSUME PopEmpty(t) PROVE Fifo!ReturnEmpty(t)
  <2>1. OthersStay(t) /\ UNCHANGED <<next, head>>
    BY <1>1, <1>3 DEF TypeOK, OthersStay, PopEmpty
  <2>2. pc[t] = "popCheck" /\ pc'[t] = "idle" /\ SawEmpty(t)
    BY <1>1, <1>3 DEF TypeOK, PopEmpty, SawEmpty
  <2>3. CallOf(t) = <<"pop">> /\ CallOf(t)' = <<"idle">>
    BY <2>2, CallAt, CallThen DEF PopPCs
  <2>4. ~SawEmpty(t)'
    BY <2>2, NotChecking
  <2>5. Queue' = Queue /\ Seen' = Seen \ {t} /\ t \in Seen
    BY <2>1, <2>2, <2>4, SeenChange, QueueStays DEF Seen
  <2>6. Calls[t] = <<"pop">> /\ Calls' = [Calls EXCEPT ![t] = <<"idle">>]
    <3>1. Calls[t] = CallOf(t)
      BY DEF Calls
    <3>2. QED
      BY <2>1, <2>3, <3>1, CallsChange
  <2>7. QED
    BY <2>5, <2>6 DEF Fifo!ReturnEmpty, Fifo!Becomes, Fifo!Idle, Queue, Calls, Seen
<1>4. ASSUME PopExchange(t) PROVE Fifo!Pop(t)
  <2>1. OthersStay(t) /\ myNext' = myNext
    BY <1>1, <1>4 DEF TypeOK, OthersStay, PopExchange
  <2>2. pc[t] = "popExchange" /\ pc'[t] = "popMove"
    BY <1>1, <1>4 DEF TypeOK, PopExchange
  <2>3. /\ Queue # <<>> /\ Head(Queue) = myNext[t]
        /\ Queue' = Tail(Queue) /\ Seen' = {}
    BY <1>4, ExchangeTakes
  <2>4. CallOf(t) = <<"pop">> /\ CallOf(t)' = <<"popped", Head(Queue)>>
    <3>1. CallOf(t) = <<"pop">>
      BY <2>2, CallAt DEF PopPCs
    <3>2. CallOf(t)' = <<"popped", myNext'[t]>>
      BY <2>2, CallThen
    <3>3. QED
      BY <2>1, <2>3, <3>1, <3>2
  <2>5. /\ Calls[t] = <<"pop">>
        /\ Calls' = [Calls EXCEPT ![t] = <<"popped", Head(Queue)>>]
    <3>1. Calls[t] = CallOf(t)
      BY DEF Calls
    <3>2. QED
      BY <2>1, <2>4, <3>1, CallsChange
  <2>6. QED
    BY <2>3, <2>5 DEF Fifo!Pop, Fifo!Becomes, Queue, Calls, Seen
<1>5. ASSUME RetireExchange(t) PROVE Fifo!ReturnPop(t, mine[t]) /\ mine[t] \in 1..MaxPushes
  <2>1. OthersStay(t) /\ UNCHANGED <<next, head>>
    BY <1>1, <1>5 DEF TypeOK, OthersStay, RetireExchange
  <2>2. pc[t] = "retireExchange" /\ pc'[t] = "idle"
    BY <1>1, <1>5 DEF TypeOK, RetireExchange
  <2>3. CallOf(t) = <<"popped", mine[t]>> /\ CallOf(t)' = <<"idle">>
    BY <2>2, CallAt, CallThen DEF PoppedPCs
  <2>4. mine[t] \in 1..MaxPushes
    BY <2>2 DEF QueueInv, Numbered, Payloads, PoppedPCs
  <2>5. Queue' = Queue /\ Seen' = Seen
    BY <2>1, <2>2, NotChecking, SeenChange, QueueStays
  <2>6. Calls[t] = <<"popped", mine[t]>> /\ Calls' = [Calls EXCEPT ![t] = <<"idle">>]
    <3>1. Calls[t] = CallOf(t)
      BY DEF Calls
    <3>2. QED
      BY <2>1, <2>3, <3>1, CallsChange
  <2>7. QED
    BY <2>4, <2>5, <2>6 DEF Fifo!ReturnPop, Fifo!Becomes, Fifo!Idle, Queue, Calls, Seen
<1>6. QED
  BY <1>2, <1>3, <1>4, <1>5
-----------------------------------------------------------------------------
\* The queue with its dummy node is the empty abstract queue.
LEMMA InitMaps == Init => Fifo!Init
<1> SUFFICES ASSUME Init PROVE Fifo!Init
  OBVIOUS
<1>1. QueueInv /\ next[head] = Null
  BY InitQueueInv, BoundAssumption DEF Init, Nodes
<1>2. Queue = <<>>
  BY <1>1, EmptyQueue
<1>3. \A t \in Threads : pc[t] = "idle"
  BY DEF Init
<1>4. \A t \in Threads : CallOf(t) = <<"idle">> /\ ~SawEmpty(t)
  BY <1>3, CallAt, NotChecking
<1>5. Calls = [t \in Threads |-> <<"idle">>] /\ Seen = {}
  BY <1>4 DEF Calls, Seen
<1>6. QED
  BY <1>2, <1>5 DEF Fifo!Init, Fifo!Idle, Queue, Calls, Seen

\* Every step maps to a step of the abstract queue or to a stutter.
LEMMA StepMaps == QueueInv /\ [Next]_vars => [Fifo!Next]_(Fifo!vars)
<1> SUFFICES ASSUME QueueInv, [Next]_vars PROVE Fifo!Next \/ UNCHANGED Fifo!vars
  OBVIOUS
<1>1. UNCHANGED <<Queue, Calls, Seen>> => UNCHANGED Fifo!vars
  BY DEF Fifo!vars, Queue, Calls, Seen
<1>2. CASE UNCHANGED vars
  <2>1. UNCHANGED <<next, head>>
    BY <1>2 DEF vars, shared
  <2>2. Calls' = Calls /\ Seen' = Seen
    BY <1>2 DEF vars, shared, local, Calls, Seen, CallOf, SawEmpty
  <2>3. QED
    BY <1>1, <2>1, <2>2, QueueStays
<1>3. ASSUME NEW t \in Threads, Call(t) \/ Step(t)
      PROVE  Fifo!Next \/ UNCHANGED <<Queue, Calls, Seen>>
  <2>1. CASE CallPush(t) \/ PushLink(t) \/ PushSwing(t)
    BY <2>1, PushesMap DEF Fifo!Next
  <2>2. CASE CallPop(t) \/ PopEmpty(t) \/ PopExchange(t) \/ RetireExchange(t)
    BY <2>2, PopsMap DEF Fifo!Next
  <2>3. CASE PopNext(t)
    BY <2>3, NextSees DEF Fifo!Next
  <2>4. CASE PopMove(t) \/ PopAgain(t) \/ PopLagging(t)
    BY <2>4, MoveHidden, ChecksHidden
  <2>5. QED
    BY <1>3, <2>1, <2>2, <2>3, <2>4, HiddenSteps DEF Call, Step
<1>4. QED
  BY <1>1, <1>2, <1>3 DEF Next

\* The queue is linearizable, for any number of threads: a push takes effect
\* when its node is linked, a pop when head_ moves, and a pop that answers with
\* nothing has seen the queue empty during its call.
THEOREM QueueImplementsFifo == Spec => ImplementsFifo
<1>1. QueueInv /\ [Next]_vars => [Fifo!Next]_(Fifo!vars)
  BY StepMaps
<1>2. QED
  BY <1>1, InitQueueInv, NextQueueInv, InitMaps, PTL DEF Spec, ImplementsFifo, Fifo!Spec
=============================================================================
