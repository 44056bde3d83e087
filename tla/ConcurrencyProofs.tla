------------------------- MODULE ConcurrencyProofs -------------------------
(***************************************************************************)
(* Theorems about the components that Concurrency lays side by side, for   *)
(* every finite set of threads and every size: no notification is lost or  *)
(* spent on a thread that cannot use it, readers under a lock see one      *)
(* state, and what has been cancelled stays quiet.                         *)
(*                                                                         *)
(* One invariant per component: part never changes, so that each of them   *)
(* is proved from the steps of its own component.                          *)
(***************************************************************************)
EXTENDS Concurrency, FiniteSetTheorems, SequenceTheorems, TLAPS

(***************************************************************************)
(* While one of S sleeps, at least n of W are awake.                       *)
(***************************************************************************)
Enough(S, W, n) == S # {} => Cardinality(W) >= n

\* A notification turns a sleeper into one that is awake, for what was added.
LEMMA NotifyEnough ==
  ASSUME NEW S, NEW W, IsFiniteSet(W), NEW n \in Int, NEW w \in S \ W, Enough(S, W, n)
  PROVE  \A T : Enough(T, W \cup {w}, n + 1)
<1>1. Cardinality(W \cup {w}) = Cardinality(W) + 1 /\ Cardinality(W) \in Nat
  BY FS_AddElement, FS_CardinalityType
<1>2. Cardinality(W) >= n
  BY DEF Enough
<1>3. QED
  BY <1>1, <1>2 DEF Enough

\* A thread that leaves with what it waited for takes one away.
LEMMA TakeEnough ==
  ASSUME NEW S, NEW W, IsFiniteSet(W), NEW n \in Int, NEW t, Enough(S, W, n)
  PROVE  Enough(S \ {t}, W \ {t}, n - 1)
<1>1. /\ Cardinality(W \ {t}) = IF t \in W THEN Cardinality(W) - 1 ELSE Cardinality(W)
      /\ Cardinality(W) \in Nat
  BY FS_RemoveElement, FS_CardinalityType
<1>2. SUFFICES ASSUME S \ {t} # {} PROVE Cardinality(W \ {t}) >= n - 1
  BY DEF Enough
<1>3. Cardinality(W) >= n
  BY <1>2 DEF Enough
<1>4. QED
  BY <1>1, <1>3

\* Nobody need be awake when there is nothing to have.
LEMMA NothingEnough ==
  ASSUME NEW S, NEW W, IsFiniteSet(W), NEW n \in Int, n <= 0
  PROVE  Enough(S, W, n)
BY FS_CardinalityType DEF Enough
-----------------------------------------------------------------------------
(***************************************************************************)
(* BlockingQueue and BoundedQueue                                          *)
(***************************************************************************)
Waits ==
  [at : {"push"}, item : Items, timed : BOOLEAN, woken : BOOLEAN]
    \cup [at : {"pop"}, timed : BOOLEAN, woken : BOOLEAN]

BlockingInv ==
  /\ obj \in [queue_ : Seq(Items), closed_ : BOOLEAN]
  /\ pc \in [Threads -> {Blocking!Idle} \cup Waits]
  /\ \A kind \in {"pop", "push"} : Blocking!Asleep(kind) # {} => ~obj.closed_
  /\ Enough(Blocking!Asleep("pop"), Blocking!Awake("pop"), Len(obj.queue_))
  /\ Enough(Blocking!Asleep("push"), Blocking!Awake("push"), Capacity - Len(obj.queue_))

\* The sets of the model as filters of Threads, finite and before and after a
\* step.
LEMMA BlockingSets ==
  /\ \A kind : IsFiniteSet(Blocking!Awake(kind)) /\ IsFiniteSet(Blocking!Awake(kind)')
  /\ \A kind : Blocking!Asleep(kind) = {t \in Threads : pc[t].at = kind /\ ~pc[t].woken}
  /\ \A kind : Blocking!Awake(kind) = {t \in Threads : pc[t].at = kind /\ pc[t].woken}
  /\ \A kind : Blocking!Asleep(kind)' = {t \in Threads : pc'[t].at = kind /\ ~pc'[t].woken}
  /\ \A kind : Blocking!Awake(kind)' = {t \in Threads : pc'[t].at = kind /\ pc'[t].woken}
<1>1. \A kind : Blocking!Awake(kind) = {t \in Threads : pc[t].at = kind /\ pc[t].woken}
  BY DEF Blocking!Awake, Blocking!Asleep, Blocking!On
<1>2. \A kind : Blocking!Awake(kind)' = {t \in Threads : pc'[t].at = kind /\ pc'[t].woken}
  BY DEF Blocking!Awake, Blocking!Asleep, Blocking!On
<1>3. \A kind : Blocking!Awake(kind) \in SUBSET Threads /\ Blocking!Awake(kind)' \in SUBSET Threads
  BY <1>1, <1>2
<1>4. QED
  BY <1>1, <1>2, <1>3, ThreadsAssumption, FS_Subset DEF Blocking!Asleep, Blocking!On

\* What the records of a waiting thread look like.
LEMMA WaitFacts ==
  /\ Blocking!Idle.at = "idle"
  /\ \A v \in Waits :
       /\ v.at \in {"push", "pop"} /\ v.woken \in BOOLEAN /\ v.timed \in BOOLEAN
       /\ v # Blocking!Idle
       /\ v.at = "push" => v.item \in Items
  /\ \A timed \in BOOLEAN :
       /\ Blocking!WaitToPop(timed) \in Waits
       /\ Blocking!WaitToPop(timed).at = "pop" /\ ~Blocking!WaitToPop(timed).woken
       /\ \A v \in Items :
            /\ Blocking!WaitToPush(v, timed) \in Waits
            /\ Blocking!WaitToPush(v, timed).at = "push" /\ ~Blocking!WaitToPush(v, timed).woken
<1>1. Blocking!Idle.at = "idle"
  BY DEF Blocking!Idle
<1>2. \A v \in Waits :
        /\ v.at \in {"push", "pop"} /\ v.woken \in BOOLEAN /\ v.timed \in BOOLEAN
        /\ v.at = "push" => v.item \in Items
  BY DEF Waits
<1>3. \A v \in Waits : v # Blocking!Idle
  BY <1>1, <1>2
<1>4. ASSUME NEW timed \in BOOLEAN, NEW v \in Items
      PROVE  /\ Blocking!WaitToPush(v, timed) \in Waits
             /\ Blocking!WaitToPush(v, timed).at = "push" /\ ~Blocking!WaitToPush(v, timed).woken
  BY DEF Waits, Blocking!WaitToPush
<1>5. ASSUME NEW timed \in BOOLEAN
      PROVE  /\ Blocking!WaitToPop(timed) \in Waits
             /\ Blocking!WaitToPop(timed).at = "pop" /\ ~Blocking!WaitToPop(timed).woken
  BY DEF Waits, Blocking!WaitToPop
<1>6. QED
  BY <1>1, <1>2, <1>3, <1>4, <1>5

\* A waiting thread that is woken, or goes back to sleep, still waits.
LEMMA WakesUp ==
  ASSUME NEW t \in Threads, pc[t] \in Waits, pc'[t] = [pc[t] EXCEPT !.woken = TRUE]
  PROVE  pc'[t] \in Waits /\ pc'[t].woken /\ pc'[t].at = pc[t].at
<1>1. CASE pc[t] \in [at : {"push"}, item : Items, timed : BOOLEAN, woken : BOOLEAN]
  BY <1>1 DEF Waits
<1>2. CASE pc[t] \in [at : {"pop"}, timed : BOOLEAN, woken : BOOLEAN]
  BY <1>2 DEF Waits
<1>3. QED
  BY <1>1, <1>2 DEF Waits

\* A spurious wake-up that finds nothing puts the thread back to sleep as it
\* was.
LEMMA SleepsOn ==
  ASSUME NEW t \in Threads, pc[t] \in Waits, pc'[t] = [pc[t] EXCEPT !.woken = FALSE]
  PROVE  pc'[t] \in Waits /\ ~pc'[t].woken /\ pc'[t].at = pc[t].at
<1>1. CASE pc[t] \in [at : {"push"}, item : Items, timed : BOOLEAN, woken : BOOLEAN]
  BY <1>1 DEF Waits
<1>2. CASE pc[t] \in [at : {"pop"}, timed : BOOLEAN, woken : BOOLEAN]
  BY <1>2 DEF Waits
<1>3. QED
  BY <1>1, <1>2 DEF Waits

\* A thread that returns is in no set of waiting threads any more.
LEMMA Leaves ==
  ASSUME BlockingInv, NEW t \in Threads, pc' = [pc EXCEPT ![t] = Blocking!Idle]
  PROVE  /\ pc' \in [Threads -> {Blocking!Idle} \cup Waits]
         /\ \A kind \in {"pop", "push"} :
              /\ Blocking!Asleep(kind)' = Blocking!Asleep(kind) \ {t}
              /\ Blocking!Awake(kind)' = Blocking!Awake(kind) \ {t}
<1>1. pc \in [Threads -> {Blocking!Idle} \cup Waits]
  BY DEF BlockingInv
<1>2. pc'[t] = Blocking!Idle /\ \A u \in Threads \ {t} : pc'[u] = pc[u]
  BY <1>1
<1>3. pc'[t].at = "idle"
  BY <1>2, WaitFacts
<1>4. QED
  BY <1>1, <1>2, <1>3, BlockingSets

\* notify_one() keeps the count of those it is about, and the other count too.
LEMMA Notifies ==
  ASSUME BlockingInv, NEW t \in Threads, NEW kind \in {"pop", "push"},
         NEW other \in {"pop", "push"}, other # kind,
         Blocking!ReturnAndNotify(t, kind), pc[t].at # kind, NEW n \in Int
  PROVE  /\ pc' \in [Threads -> {Blocking!Idle} \cup Waits]
         /\ \A k \in {"pop", "push"} : Blocking!Asleep(k)' \subseteq Blocking!Asleep(k)
         /\ Blocking!Asleep(other)' = Blocking!Asleep(other) \ {t}
         /\ Blocking!Awake(other)' = Blocking!Awake(other) \ {t}
         /\ Enough(Blocking!Asleep(kind), Blocking!Awake(kind), n) =>
              Enough(Blocking!Asleep(kind)', Blocking!Awake(kind)', n + 1)
<1>1. pc \in [Threads -> {Blocking!Idle} \cup Waits]
  BY DEF BlockingInv
<1>2. t \notin Blocking!Asleep(kind) /\ t \notin Blocking!Awake(kind)
  BY BlockingSets
<1>3. CASE Blocking!Asleep(kind) \ {t} = {} /\ pc' = [pc EXCEPT ![t] = Blocking!Idle]
  <2>1. Blocking!Asleep(kind)' = {}
    BY <1>3, Leaves
  <2>2. QED
    BY <1>3, <2>1, Leaves DEF Enough
<1>4. ASSUME NEW w \in Blocking!Asleep(kind) \ {t},
             pc' = [pc EXCEPT ![t] = Blocking!Idle, ![w].woken = TRUE]
      PROVE  /\ pc' \in [Threads -> {Blocking!Idle} \cup Waits]
             /\ \A k \in {"pop", "push"} : Blocking!Asleep(k)' \subseteq Blocking!Asleep(k)
             /\ Blocking!Asleep(other)' = Blocking!Asleep(other) \ {t}
             /\ Blocking!Awake(other)' = Blocking!Awake(other) \ {t}
             /\ Blocking!Awake(kind)' = Blocking!Awake(kind) \cup {w}
  <2>1. w \in Threads /\ w # t /\ pc[w].at = kind /\ ~pc[w].woken
    BY BlockingSets
  <2>2. pc[w] \in Waits
    BY <1>1, <2>1, WaitFacts
  <2>3. /\ pc'[t] = Blocking!Idle /\ pc'[w] = [pc[w] EXCEPT !.woken = TRUE]
        /\ \A u \in Threads \ {t, w} : pc'[u] = pc[u]
    BY <1>1, <1>4, <2>1
  <2>4. pc'[w] \in Waits /\ pc'[w].woken /\ pc'[w].at = kind /\ pc'[t].at = "idle"
    <3>1. pc'[w] \in Waits /\ pc'[w].woken /\ pc'[w].at = pc[w].at
      BY <2>1, <2>2, <2>3, WakesUp
    <3>2. pc'[t].at = "idle"
      BY <2>3, WaitFacts
    <3>3. QED
      BY <2>1, <3>1, <3>2
  <2>5. pc' \in [Threads -> {Blocking!Idle} \cup Waits]
    BY <1>1, <1>4, <2>3, <2>4
  <2>6. /\ Blocking!Asleep(other)' = Blocking!Asleep(other) \ {t}
        /\ Blocking!Awake(other)' = Blocking!Awake(other) \ {t}
    <3>1. \A u \in Threads :
            /\ u \in Blocking!Asleep(other)' <=> u \in Blocking!Asleep(other) \ {t}
            /\ u \in Blocking!Awake(other)' <=> u \in Blocking!Awake(other) \ {t}
      BY <2>1, <2>3, <2>4, BlockingSets
    <3>2. /\ Blocking!Asleep(other)' \subseteq Threads /\ Blocking!Asleep(other) \subseteq Threads
          /\ Blocking!Awake(other)' \subseteq Threads /\ Blocking!Awake(other) \subseteq Threads
      BY BlockingSets
    <3>3. QED
      BY <3>1, <3>2
  <2>7. Blocking!Asleep(kind)' \subseteq Blocking!Asleep(kind)
    BY <2>3, <2>4, BlockingSets
  <2>8. Blocking!Awake(kind)' = Blocking!Awake(kind) \cup {w}
    <3>1. \A u \in Threads : u \in Blocking!Awake(kind)' <=> u \in Blocking!Awake(kind) \cup {w}
      BY <1>2, <2>1, <2>3, <2>4, BlockingSets
    <3>2. /\ Blocking!Awake(kind)' \subseteq Threads /\ Blocking!Awake(kind) \subseteq Threads
          /\ w \in Threads
      BY <2>1, BlockingSets
    <3>3. QED
      BY <3>1, <3>2
  <2>9. QED
    BY <2>5, <2>6, <2>7, <2>8
<1>5. ASSUME NEW w \in Blocking!Asleep(kind) \ {t},
             pc' = [pc EXCEPT ![t] = Blocking!Idle, ![w].woken = TRUE],
             Enough(Blocking!Asleep(kind), Blocking!Awake(kind), n)
      PROVE  Enough(Blocking!Asleep(kind)', Blocking!Awake(kind)', n + 1)
  <2>1. w \in Blocking!Asleep(kind) \ Blocking!Awake(kind) /\ IsFiniteSet(Blocking!Awake(kind))
    BY BlockingSets
  <2>2. QED
    <3>1. \A T : Enough(T, Blocking!Awake(kind) \cup {w}, n + 1)
      BY <1>5, <2>1, NotifyEnough
    <3>2. Blocking!Awake(kind)' = Blocking!Awake(kind) \cup {w}
      BY <1>4, <1>5
    <3>3. QED
      BY <3>1, <3>2
<1>6. QED
  BY <1>3, <1>4, <1>5 DEF Blocking!ReturnAndNotify

\* A thread returns without having pushed or taken anything: of a closed queue,
\* or when there is nothing it could have had.
LEMMA ReturnKeeps ==
  ASSUME BlockingInv, NEW t \in Threads, obj' = obj, pc' = [pc EXCEPT ![t] = Blocking!Idle],
         \/ obj.closed_
         \/ pc[t].at = "pop" /\ obj.queue_ = <<>>
         \/ pc[t].at = "push" /\ Len(obj.queue_) >= Capacity
  PROVE  BlockingInv'
<1>1. /\ pc' \in [Threads -> {Blocking!Idle} \cup Waits]
      /\ Blocking!Asleep("pop")' = Blocking!Asleep("pop") \ {t}
      /\ Blocking!Awake("pop")' = Blocking!Awake("pop") \ {t}
      /\ Blocking!Asleep("push")' = Blocking!Asleep("push") \ {t}
      /\ Blocking!Awake("push")' = Blocking!Awake("push") \ {t}
  BY Leaves
<1>2. \A kind \in {"pop", "push"} : Blocking!Asleep(kind)' # {} => ~obj'.closed_
  BY <1>1 DEF BlockingInv
<1>3. Len(obj.queue_) \in Nat /\ (obj.queue_ = <<>> => Len(obj.queue_) = 0)
  BY DEF BlockingInv
<1>4. /\ IsFiniteSet(Blocking!Awake("pop")') /\ IsFiniteSet(Blocking!Awake("push")')
  BY BlockingSets
<1>5. Enough(Blocking!Asleep("pop")', Blocking!Awake("pop")', Len(obj'.queue_))
  <2>1. CASE obj.closed_
    BY <1>2, <2>1 DEF Enough
  <2>2. CASE obj.queue_ = <<>>
    BY <1>3, <1>4, <2>2, NothingEnough
  <2>3. CASE pc[t].at = "push"
    <3>1. t \notin Blocking!Asleep("pop") /\ t \notin Blocking!Awake("pop")
      BY <2>3, BlockingSets
    <3>2. /\ Blocking!Asleep("pop")' = Blocking!Asleep("pop")
          /\ Blocking!Awake("pop")' = Blocking!Awake("pop")
      BY <1>1, <3>1
    <3>3. QED
      BY <3>2 DEF BlockingInv
  <2>4. QED
    BY <2>1, <2>2, <2>3
<1>6. Enough(Blocking!Asleep("push")', Blocking!Awake("push")', Capacity - Len(obj'.queue_))
  <2>1. CASE obj.closed_
    BY <1>2, <2>1 DEF Enough
  <2>2. CASE Len(obj.queue_) >= Capacity
    <3>1. Capacity - Len(obj'.queue_) \in Int /\ Capacity - Len(obj'.queue_) <= 0
      BY <1>3, <2>2, SizesAssumption
    <3>2. QED
      BY <1>4, <3>1, NothingEnough
  <2>3. CASE pc[t].at = "pop"
    <3>1. t \notin Blocking!Asleep("push") /\ t \notin Blocking!Awake("push")
      BY <2>3, BlockingSets
    <3>2. /\ Blocking!Asleep("push")' = Blocking!Asleep("push")
          /\ Blocking!Awake("push")' = Blocking!Awake("push")
      BY <1>1, <3>1
    <3>3. QED
      BY <3>2 DEF BlockingInv
  <2>4. QED
    BY <2>1, <2>2, <2>3
<1>7. QED
  BY <1>1, <1>2, <1>5, <1>6 DEF BlockingInv

\* A thread goes to sleep, or back to sleep, when there is nothing for it.
LEMMA SleepKeeps ==
  ASSUME BlockingInv, NEW t \in Threads, NEW kind \in {"pop", "push"}, obj' = obj,
         NEW v \in Waits, pc' = [pc EXCEPT ![t] = v], v.at = kind, ~v.woken,
         pc[t].at \in {"idle", kind}, ~obj.closed_,
         kind = "pop" => obj.queue_ = <<>>,
         kind = "push" => Len(obj.queue_) >= Capacity
  PROVE  BlockingInv'
<1>1. pc \in [Threads -> {Blocking!Idle} \cup Waits]
  BY DEF BlockingInv
<1>2. /\ pc' \in [Threads -> {Blocking!Idle} \cup Waits]
      /\ pc'[t] = v /\ \A u \in Threads \ {t} : pc'[u] = pc[u]
  BY <1>1
<1>3. \A other \in {"pop", "push"} : other # kind =>
        /\ Blocking!Asleep(other)' = Blocking!Asleep(other)
        /\ Blocking!Awake(other)' = Blocking!Awake(other)
  <2> SUFFICES ASSUME NEW other \in {"pop", "push"}, other # kind
               PROVE  /\ Blocking!Asleep(other)' = Blocking!Asleep(other)
                      /\ Blocking!Awake(other)' = Blocking!Awake(other)
    OBVIOUS
  <2>1. pc[t].at # other /\ pc'[t].at # other
    BY <1>2
  <2>2. \A u \in Threads :
          /\ u \in Blocking!Asleep(other)' <=> u \in Blocking!Asleep(other)
          /\ u \in Blocking!Awake(other)' <=> u \in Blocking!Awake(other)
    BY <1>2, <2>1, BlockingSets
  <2>3. /\ Blocking!Asleep(other)' \subseteq Threads /\ Blocking!Asleep(other) \subseteq Threads
        /\ Blocking!Awake(other)' \subseteq Threads /\ Blocking!Awake(other) \subseteq Threads
    BY BlockingSets
  <2>4. QED
    BY <2>2, <2>3
<1>4. Len(obj.queue_) \in Nat /\ (obj.queue_ = <<>> => Len(obj.queue_) = 0)
  BY DEF BlockingInv
<1>5. /\ IsFiniteSet(Blocking!Awake("pop")') /\ IsFiniteSet(Blocking!Awake("push")')
  BY BlockingSets
<1>6. Enough(Blocking!Asleep("pop")', Blocking!Awake("pop")', Len(obj'.queue_))
  <2>1. CASE kind = "pop"
    BY <1>4, <1>5, <2>1, NothingEnough
  <2>2. CASE kind = "push"
    BY <1>3, <2>2 DEF BlockingInv
  <2>3. QED
    BY <2>1, <2>2
<1>7. Enough(Blocking!Asleep("push")', Blocking!Awake("push")', Capacity - Len(obj'.queue_))
  <2>1. CASE kind = "push"
    <3>1. Capacity - Len(obj'.queue_) \in Int /\ Capacity - Len(obj'.queue_) <= 0
      BY <1>4, <2>1, SizesAssumption
    <3>2. QED
      BY <1>5, <3>1, NothingEnough
  <2>2. CASE kind = "pop"
    BY <1>3, <2>2 DEF BlockingInv
  <2>3. QED
    BY <2>1, <2>2
<1>8. QED
  BY <1>2, <1>6, <1>7 DEF BlockingInv

\* An item more for those that pop, a place less for those that push.
LEMMA AdmitKeeps ==
  ASSUME BlockingInv, NEW t \in Threads, NEW v \in Items, Blocking!HasSpace,
         pc[t].at # "pop", Blocking!Admit(t, v)
  PROVE  BlockingInv'
<1>1. CASE obj.closed_ /\ Blocking!Return(t)
  BY <1>1, ReturnKeeps DEF Blocking!Return
<1>2. CASE /\ ~obj.closed_ /\ obj' = [obj EXCEPT !.queue_ = Append(@, v)]
           /\ Blocking!ReturnAndNotify(t, "pop")
  <2>1. obj \in [queue_ : Seq(Items), closed_ : BOOLEAN]
    BY DEF BlockingInv
  <2>2. /\ obj' \in [queue_ : Seq(Items), closed_ : BOOLEAN]
        /\ Len(obj'.queue_) = Len(obj.queue_) + 1 /\ obj'.closed_ = obj.closed_
        /\ Len(obj.queue_) \in Nat
    BY <1>2, <2>1
  <2>3. /\ pc' \in [Threads -> {Blocking!Idle} \cup Waits]
        /\ Blocking!Asleep("push")' = Blocking!Asleep("push") \ {t}
        /\ Blocking!Awake("push")' = Blocking!Awake("push") \ {t}
    BY <1>2, Notifies
  <2>4. Enough(Blocking!Asleep("pop")', Blocking!Awake("pop")', Len(obj'.queue_))
    <3>1. Enough(Blocking!Asleep("pop")', Blocking!Awake("pop")', Len(obj.queue_) + 1)
      BY <1>2, <2>2, Notifies DEF BlockingInv
    <3>2. QED
      BY <2>2, <3>1
  <2>5. Enough(Blocking!Asleep("push")', Blocking!Awake("push")', Capacity - Len(obj'.queue_))
    <3>1. IsFiniteSet(Blocking!Awake("push")) /\ Capacity - Len(obj.queue_) \in Int
      BY <2>2, BlockingSets, SizesAssumption
    <3>2. Enough(Blocking!Asleep("push")', Blocking!Awake("push")', (Capacity - Len(obj.queue_)) - 1)
      <4>1. Enough(Blocking!Asleep("push"), Blocking!Awake("push"), Capacity - Len(obj.queue_))
        BY DEF BlockingInv
      <4>2. Enough(Blocking!Asleep("push") \ {t}, Blocking!Awake("push") \ {t},
                   (Capacity - Len(obj.queue_)) - 1)
        BY <3>1, <4>1, TakeEnough
      <4>3. QED
        BY <2>3, <4>2
    <3>3. (Capacity - Len(obj.queue_)) - 1 = Capacity - Len(obj'.queue_)
      BY <2>2, SizesAssumption
    <3>4. QED
      BY <3>2, <3>3
  <2>6. QED
    BY <1>2, <2>2, <2>3, <2>4, <2>5 DEF BlockingInv
<1>3. QED
  BY <1>1, <1>2 DEF Blocking!Admit

\* An item less for those that pop, a place more for those that push.
LEMMA TakeKeeps ==
  ASSUME BlockingInv, NEW t \in Threads, pc[t].at # "push", Blocking!Take(t),
         obj.queue_ = <<>> => obj.closed_ \/ pc[t].at = "pop"
  PROVE  BlockingInv'
<1>1. CASE obj.queue_ = <<>> /\ Blocking!Return(t)
  BY <1>1, ReturnKeeps DEF Blocking!Return
<1>2. CASE /\ obj.queue_ # <<>> /\ obj' = [obj EXCEPT !.queue_ = Tail(@)]
           /\ Blocking!ReturnAndNotify(t, "push")
  <2>1. obj \in [queue_ : Seq(Items), closed_ : BOOLEAN]
    BY DEF BlockingInv
  <2>2. /\ obj' \in [queue_ : Seq(Items), closed_ : BOOLEAN]
        /\ Len(obj'.queue_) = Len(obj.queue_) - 1 /\ obj'.closed_ = obj.closed_
        /\ Len(obj.queue_) \in Nat
    <3>1. /\ obj.queue_ \in Seq(Items) /\ Tail(obj.queue_) \in Seq(Items)
          /\ Len(Tail(obj.queue_)) = Len(obj.queue_) - 1 /\ Len(obj.queue_) \in Nat
      BY <1>2, <2>1
    <3>2. obj' = [queue_ |-> Tail(obj.queue_), closed_ |-> obj.closed_] /\ obj.closed_ \in BOOLEAN
      BY <1>2, <2>1
    <3>3. QED
      BY <3>1, <3>2
  <2>3. /\ pc' \in [Threads -> {Blocking!Idle} \cup Waits]
        /\ \A k \in {"pop", "push"} : Blocking!Asleep(k)' \subseteq Blocking!Asleep(k)
        /\ Blocking!Asleep("pop")' = Blocking!Asleep("pop") \ {t}
        /\ Blocking!Awake("pop")' = Blocking!Awake("pop") \ {t}
    BY <1>2, Notifies
  <2>4. Enough(Blocking!Asleep("push")', Blocking!Awake("push")', Capacity - Len(obj'.queue_))
    <3>1. Capacity - Len(obj.queue_) \in Int
      BY <2>2, SizesAssumption
    <3>2. Enough(Blocking!Asleep("push")', Blocking!Awake("push")', (Capacity - Len(obj.queue_)) + 1)
      BY <1>2, <3>1, Notifies DEF BlockingInv
    <3>3. (Capacity - Len(obj.queue_)) + 1 = Capacity - Len(obj'.queue_)
      BY <2>2, SizesAssumption
    <3>4. QED
      BY <3>2, <3>3
  <2>5. Enough(Blocking!Asleep("pop")', Blocking!Awake("pop")', Len(obj'.queue_))
    <3>1. IsFiniteSet(Blocking!Awake("pop"))
      BY BlockingSets
    <3>2. Enough(Blocking!Asleep("pop")', Blocking!Awake("pop")', Len(obj.queue_) - 1)
      <4>1. Enough(Blocking!Asleep("pop"), Blocking!Awake("pop"), Len(obj.queue_))
        BY DEF BlockingInv
      <4>2. Len(obj.queue_) \in Int
        BY <2>2
      <4>3. Enough(Blocking!Asleep("pop") \ {t}, Blocking!Awake("pop") \ {t}, Len(obj.queue_) - 1)
        BY <3>1, <4>1, <4>2, TakeEnough
      <4>4. QED
        BY <2>3, <4>3
    <3>3. QED
      BY <2>2, <3>2
  <2>6. \A k \in {"pop", "push"} : Blocking!Asleep(k)' # {} => ~obj'.closed_
    BY <2>2, <2>3 DEF BlockingInv
  <2>7. QED
    BY <2>2, <2>3, <2>4, <2>5, <2>6 DEF BlockingInv
<1>3. QED
  BY <1>1, <1>2 DEF Blocking!Take

\* The new queue satisfies the invariant.
LEMMA BlockingInitInv ==
  ASSUME Blocking!Init
  PROVE  BlockingInv
<1>1. obj = [queue_ |-> <<>>, closed_ |-> FALSE] /\ pc = [t \in Threads |-> Blocking!Idle]
  BY DEF Blocking!Init
<1>2. \A kind \in {"pop", "push"} : Blocking!Asleep(kind) = {}
  BY <1>1, BlockingSets, WaitFacts
<1>3. QED
  BY <1>1, <1>2 DEF BlockingInv, Enough

\* close() leaves nobody asleep.
LEMMA CloseKeeps ==
  ASSUME BlockingInv, Blocking!Close
  PROVE  BlockingInv'
<1>1. /\ obj \in [queue_ : Seq(Items), closed_ : BOOLEAN]
      /\ pc \in [Threads -> {Blocking!Idle} \cup Waits]
  BY DEF BlockingInv
<1>2. obj' \in [queue_ : Seq(Items), closed_ : BOOLEAN]
  BY <1>1 DEF Blocking!Close
<1>3. ASSUME NEW t \in Threads
      PROVE  pc'[t] \in {Blocking!Idle} \cup Waits /\ (pc'[t] # Blocking!Idle => pc'[t].woken)
  <2>1. CASE pc[t] = Blocking!Idle
    BY <2>1 DEF Blocking!Close
  <2>2. CASE pc[t] # Blocking!Idle
    <3>1. pc[t] \in Waits /\ pc'[t] = [pc[t] EXCEPT !.woken = TRUE]
      BY <1>1, <2>2 DEF Blocking!Close
    <3>2. QED
      BY <3>1, WakesUp
  <2>3. QED
    BY <2>1, <2>2
<1>4. pc' \in [Threads -> {Blocking!Idle} \cup Waits]
  BY <1>3 DEF Blocking!Close
<1>5. \A kind \in {"pop", "push"} : Blocking!Asleep(kind)' = {}
  BY <1>3, BlockingSets, WaitFacts
<1>6. QED
  BY <1>2, <1>4, <1>5 DEF BlockingInv, Enough

\* One more is awake for the same items.
LEMMA SpuriousKeeps ==
  ASSUME BlockingInv, NEW t \in Threads, Blocking!SpuriousWakeup(t)
  PROVE  BlockingInv'
<1>1. /\ pc \in [Threads -> {Blocking!Idle} \cup Waits] /\ pc[t] # Blocking!Idle
      /\ pc' = [pc EXCEPT ![t].woken = TRUE] /\ obj' = obj
  BY DEF BlockingInv, Blocking!SpuriousWakeup
<1>2. pc[t] \in Waits /\ pc'[t] = [pc[t] EXCEPT !.woken = TRUE] /\ \A u \in Threads \ {t} : pc'[u] = pc[u]
  BY <1>1
<1>3. pc'[t] \in Waits /\ pc'[t].woken /\ pc'[t].at = pc[t].at
  BY <1>2, WakesUp
<1>4. pc' \in [Threads -> {Blocking!Idle} \cup Waits]
  BY <1>1, <1>3
<1>5. \A kind : /\ Blocking!Asleep(kind)' \subseteq Blocking!Asleep(kind)
                /\ Blocking!Awake(kind) \subseteq Blocking!Awake(kind)'
  BY <1>2, <1>3, BlockingSets
<1>6. ASSUME NEW kind, NEW n \in Int, Enough(Blocking!Asleep(kind), Blocking!Awake(kind), n)
      PROVE  Enough(Blocking!Asleep(kind)', Blocking!Awake(kind)', n)
  <2>1. /\ Cardinality(Blocking!Awake(kind)) <= Cardinality(Blocking!Awake(kind)')
        /\ Cardinality(Blocking!Awake(kind)) \in Nat /\ Cardinality(Blocking!Awake(kind)') \in Nat
    BY <1>5, BlockingSets, FS_Subset, FS_CardinalityType
  <2>2. QED
    BY <1>5, <1>6, <2>1 DEF Enough
<1>7. Len(obj.queue_) \in Int /\ Capacity - Len(obj.queue_) \in Int
  BY SizesAssumption DEF BlockingInv
<1>8. QED
  BY <1>1, <1>4, <1>5, <1>6, <1>7 DEF BlockingInv

\* Every step of either queue keeps the invariant.
LEMMA BlockingStep ==
  ASSUME BlockingInv, Blocking!Next \/ Blocking!BoundedNext
  PROVE  BlockingInv'
<1>1. obj \in [queue_ : Seq(Items), closed_ : BOOLEAN] /\ pc \in [Threads -> {Blocking!Idle} \cup Waits]
  BY DEF BlockingInv
<1>2. Len(obj.queue_) \in Nat
  BY <1>1
<1>3. ASSUME NEW t \in Threads, NEW v \in Items, NEW timed \in BOOLEAN, Blocking!Push(t, v, timed)
      PROVE  BlockingInv'
  <2>1. pc[t].at = "idle"
    BY <1>3, WaitFacts DEF Blocking!Push
  <2>2. CASE Blocking!HasSpace /\ Blocking!Admit(t, v)
    BY <2>1, <2>2, AdmitKeeps
  <2>3. CASE ~Blocking!HasSpace /\ pc' = [pc EXCEPT ![t] = Blocking!WaitToPush(v, timed)] /\ obj' = obj
    <3>1. ~obj.closed_ /\ Len(obj.queue_) >= Capacity
      BY <1>2, <2>3, SizesAssumption DEF Blocking!HasSpace
    <3>2. /\ Blocking!WaitToPush(v, timed) \in Waits
          /\ Blocking!WaitToPush(v, timed).at = "push" /\ ~Blocking!WaitToPush(v, timed).woken
      BY WaitFacts
    <3>3. QED
      BY <2>1, <2>3, <3>1, <3>2, SleepKeeps
  <2>4. QED
    BY <1>3, <2>2, <2>3 DEF Blocking!Push
<1>4. ASSUME NEW t \in Threads, pc[t].at = "push", pc[t] \in Waits
      PROVE  /\ Blocking!PushTimeout(t) => BlockingInv'
             /\ Blocking!PushResume(t) => BlockingInv'
  <2>1. pc[t].item \in Items
    BY <1>4, WaitFacts
  <2>2. CASE Blocking!HasSpace /\ Blocking!Admit(t, pc[t].item)
    BY <1>4, <2>1, <2>2, AdmitKeeps
  <2>3. ~Blocking!HasSpace => ~obj.closed_ /\ Len(obj.queue_) >= Capacity
    BY <1>2, SizesAssumption DEF Blocking!HasSpace
  <2>4. CASE ~Blocking!HasSpace /\ pc' = [pc EXCEPT ![t].woken = FALSE] /\ obj' = obj
    <3>1. pc'[t] = [pc[t] EXCEPT !.woken = FALSE] /\ pc' = [pc EXCEPT ![t] = pc'[t]]
      BY <1>1, <2>4
    <3>2. pc'[t] \in Waits /\ pc'[t].at = "push" /\ ~pc'[t].woken
      BY <1>4, <3>1, SleepsOn
    <3>3. QED
      BY <1>4, <2>3, <2>4, <3>1, <3>2, SleepKeeps
  <2>5. CASE ~Blocking!HasSpace /\ Blocking!Return(t)
    BY <1>4, <2>3, <2>5, ReturnKeeps DEF Blocking!Return
  <2>6. QED
    BY <2>2, <2>4, <2>5 DEF Blocking!PushTimeout, Blocking!PushResume
<1>5. ASSUME NEW t \in Threads, NEW timed \in BOOLEAN, Blocking!Pop(t, timed)
      PROVE  BlockingInv'
  <2>1. pc[t].at = "idle"
    BY <1>5, WaitFacts DEF Blocking!Pop
  <2>2. CASE Blocking!HasItem /\ Blocking!Take(t)
    BY <2>1, <2>2, TakeKeeps DEF Blocking!HasItem
  <2>3. CASE ~Blocking!HasItem /\ pc' = [pc EXCEPT ![t] = Blocking!WaitToPop(timed)] /\ obj' = obj
    <3>1. ~obj.closed_ /\ obj.queue_ = <<>>
      BY <2>3 DEF Blocking!HasItem
    <3>2. /\ Blocking!WaitToPop(timed) \in Waits
          /\ Blocking!WaitToPop(timed).at = "pop" /\ ~Blocking!WaitToPop(timed).woken
      BY WaitFacts
    <3>3. QED
      BY <2>1, <2>3, <3>1, <3>2, SleepKeeps
  <2>4. QED
    BY <1>5, <2>2, <2>3 DEF Blocking!Pop
<1>6. ASSUME NEW t \in Threads, pc[t].at = "pop", pc[t] \in Waits
      PROVE  /\ Blocking!PopTimeout(t) => BlockingInv'
             /\ Blocking!PopResume(t) => BlockingInv'
  <2>1. CASE Blocking!HasItem /\ Blocking!Take(t)
    BY <1>6, <2>1, TakeKeeps
  <2>2. ~Blocking!HasItem => ~obj.closed_ /\ obj.queue_ = <<>>
    BY DEF Blocking!HasItem
  <2>3. CASE ~Blocking!HasItem /\ pc' = [pc EXCEPT ![t].woken = FALSE] /\ obj' = obj
    <3>1. pc'[t] = [pc[t] EXCEPT !.woken = FALSE] /\ pc' = [pc EXCEPT ![t] = pc'[t]]
      BY <1>1, <2>3
    <3>2. pc'[t] \in Waits /\ pc'[t].at = "pop" /\ ~pc'[t].woken
      BY <1>6, <3>1, SleepsOn
    <3>3. QED
      BY <1>6, <2>2, <2>3, <3>1, <3>2, SleepKeeps
  <2>4. CASE ~Blocking!HasItem /\ Blocking!Return(t)
    BY <1>6, <2>2, <2>4, ReturnKeeps DEF Blocking!Return
  <2>5. QED
    BY <2>1, <2>3, <2>4 DEF Blocking!PopTimeout, Blocking!PopResume
<1>7. ASSUME NEW t \in Threads,
             \/ Blocking!Resume(t) \/ Blocking!PushTimeout(t) \/ Blocking!PopTimeout(t)
             \/ Blocking!SpuriousWakeup(t)
      PROVE  BlockingInv'
  <2>1. CASE Blocking!SpuriousWakeup(t)
    BY <2>1, SpuriousKeeps
  <2>2. CASE Blocking!PushResume(t) \/ Blocking!PushTimeout(t)
    <3>1. pc[t].at = "push"
      BY <2>2, BlockingSets DEF Blocking!PushResume, Blocking!PushTimeout, Blocking!On
    <3>2. pc[t] \in Waits
      BY <1>1, <3>1, WaitFacts
    <3>3. QED
      BY <1>4, <2>2, <3>1, <3>2
  <2>3. CASE Blocking!PopResume(t) \/ Blocking!PopTimeout(t)
    <3>1. pc[t].at = "pop"
      BY <2>3, BlockingSets DEF Blocking!PopResume, Blocking!PopTimeout, Blocking!On
    <3>2. pc[t] \in Waits
      BY <1>1, <3>1, WaitFacts
    <3>3. QED
      BY <1>6, <2>3, <3>1, <3>2
  <2>4. QED
    BY <1>7, <2>1, <2>2, <2>3 DEF Blocking!Resume
<1>8. CASE Blocking!Next
  BY <1>3, <1>5, <1>7, <1>8, CloseKeeps DEF Blocking!Next
<1>9. CASE Blocking!BoundedNext
  BY <1>3, <1>5, <1>7, <1>9
     DEF Blocking!BoundedNext, Blocking!BoundedPush, Blocking!BoundedPop, Blocking!BoundedWait
<1>10. QED
  BY <1>8, <1>9

\* The invariant says that no notification is lost on either condition
\* variable.
LEMMA BlockingWakeups ==
  ASSUME BlockingInv
  PROVE  Blocking!NoLostWakeup
<1>1. \A S : Blocking!Cardinality(S) = Cardinality(S)
  BY Zenon DEF Blocking!Cardinality, Cardinality
<1>2. /\ Len(obj.queue_) \in Nat
      /\ Cardinality(Blocking!Awake("push")) \in Nat
      /\ Cardinality(Blocking!Awake("pop")) \in Nat
  BY BlockingSets, FS_CardinalityType DEF BlockingInv
<1>3. QED
  BY <1>1, <1>2, SizesAssumption DEF BlockingInv, Blocking!NoLostWakeup, Enough
-----------------------------------------------------------------------------
(***************************************************************************)
(* Threads of T that are idle (I), asleep (A) or awake (W) in a wait for   *)
(* one of n things: RingBuffer and ConnectionPool.                         *)
(***************************************************************************)
Where(p, T, s) == {t \in T : p[t] = s}

Waiting(p, T, I, A, W, n) ==
  /\ p \in [T -> {I, A, W}] /\ n \in Nat
  /\ Enough(Where(p, T, A), Where(p, T, W), n)

\* What a step does to p and n, which become q and m.
OneMore(p, q, T, A, W, n, m) ==
  /\ m = n + 1
  /\ \/ Where(p, T, A) = {} /\ q = p
     \/ \E w \in Where(p, T, A) : q = [p EXCEPT ![w] = W]
OneLess(p, q, T, I, n, m) == n > 0 /\ m = n - 1 /\ \E t \in T : q = [p EXCEPT ![t] = I]
NothingThere(p, q, T, I, A, n, m) ==
  m = 0 /\ (q = p \/ (n = 0 /\ \E t \in T : \E s \in {I, A} : q = [p EXCEPT ![t] = s]))

WaitStep(p, q, T, I, A, W, n, m) ==
  \/ OneMore(p, q, T, A, W, n, m) \/ OneLess(p, q, T, I, n, m)
  \/ NothingThere(p, q, T, I, A, n, m) \/ (q = p /\ m = n)

Distinct(I, A, W) == I # A /\ I # W /\ A # W

Moved(p, q, T, t, s) == t \in T /\ DOMAIN p = T /\ q = [p EXCEPT ![t] = s]

\* A thread that moves leaves the set it was in and enters another one.
LEMMA Moves ==
  ASSUME NEW T, NEW p, NEW t, NEW s, NEW q, Moved(p, q, T, t, s)
  PROVE  /\ \A x : x # s => Where(q, T, x) = Where(p, T, x) \ {t}
         /\ Where(q, T, s) = Where(p, T, s) \cup {t}
<1>1. t \in T /\ q[t] = s /\ \A u \in T \ {t} : q[u] = p[u]
  BY DEF Moved
<1>2. ASSUME NEW x, x # s
      PROVE  Where(q, T, x) = Where(p, T, x) \ {t}
  BY <1>1, <1>2 DEF Where
<1>3. Where(q, T, s) = Where(p, T, s) \cup {t}
  BY <1>1 DEF Where
<1>4. QED
  BY <1>2, <1>3

\* Whatever comes or goes, enough are awake for what is there.
LEMMA WaitKeeps ==
  ASSUME NEW T, IsFiniteSet(T), NEW I, NEW A, NEW W, Distinct(I, A, W),
         NEW p, NEW q, NEW n, NEW m,
         Waiting(p, T, I, A, W, n), WaitStep(p, q, T, I, A, W, n, m)
  PROVE  Waiting(q, T, I, A, W, m)
<1>1. /\ p \in [T -> {I, A, W}] /\ n \in Nat
      /\ Enough(Where(p, T, A), Where(p, T, W), n)
  BY DEF Waiting
<1>2. \A r, s : IsFiniteSet(Where(r, T, s))
  <2>1. \A r, s : Where(r, T, s) \in SUBSET T
    BY DEF Where
  <2>2. QED
    BY <2>1, FS_Subset
<1>3. CASE OneMore(p, q, T, A, W, n, m)
  <2>1. m = n + 1 /\ m \in Nat
    BY <1>1, <1>3 DEF OneMore
  <2>2. CASE Where(p, T, A) = {} /\ q = p
    BY <1>1, <2>1, <2>2 DEF Waiting, Enough
  <2>3. ASSUME NEW w \in Where(p, T, A), q = [p EXCEPT ![w] = W]
        PROVE  Waiting(q, T, I, A, W, m)
    <3>1. w \in T /\ p[w] = A /\ A # W
      BY DEF Where, Distinct
    <3>2. Where(q, T, W) = Where(p, T, W) \cup {w}
      <4>1. Moved(p, q, T, w, W)
        BY <1>1, <2>3, <3>1 DEF Moved
      <4>2. QED
        BY <4>1, Moves
    <3>3. w \in Where(p, T, A) \ Where(p, T, W)
      BY <3>1 DEF Where
    <3>4. \A R : Enough(R, Where(p, T, W) \cup {w}, n + 1)
      BY <1>1, <1>2, <3>3, NotifyEnough
    <3>5. q \in [T -> {I, A, W}]
      BY <1>1, <2>3
    <3>6. QED
      BY <2>1, <3>2, <3>4, <3>5 DEF Waiting
  <2>4. QED
    BY <1>3, <2>2, <2>3 DEF OneMore
<1>4. CASE OneLess(p, q, T, I, n, m)
  <2>1. n > 0 /\ m = n - 1 /\ m \in Nat
    BY <1>1, <1>4 DEF OneLess
  <2>2. PICK t \in T : q = [p EXCEPT ![t] = I]
    BY <1>4 DEF OneLess
  <2>3. Where(q, T, A) = Where(p, T, A) \ {t} /\ Where(q, T, W) = Where(p, T, W) \ {t}
    <3>1. Moved(p, q, T, t, I) /\ I # A /\ I # W
      BY <1>1, <2>2 DEF Distinct, Moved
    <3>2. QED
      BY <3>1, Moves
  <2>4. Enough(Where(p, T, A) \ {t}, Where(p, T, W) \ {t}, n - 1)
    <3>1. IsFiniteSet(Where(p, T, W)) /\ n \in Int
      BY <1>1, <1>2
    <3>2. QED
      BY <1>1, <3>1, TakeEnough
  <2>5. q \in [T -> {I, A, W}]
    BY <1>1, <2>2
  <2>6. QED
    BY <2>1, <2>3, <2>4, <2>5 DEF Waiting
<1>5. CASE NothingThere(p, q, T, I, A, n, m)
  <2>1. m = 0 /\ q \in [T -> {I, A, W}]
    BY <1>1, <1>5 DEF NothingThere
  <2>2. Enough(Where(q, T, A), Where(q, T, W), 0)
    BY <1>2, NothingEnough
  <2>3. QED
    BY <2>1, <2>2 DEF Waiting
<1>6. CASE q = p /\ m = n
  BY <1>6
<1>7. QED
  BY <1>3, <1>4, <1>5, <1>6 DEF WaitStep

\* ... and there are such threads to begin with.
LEMMA WaitInit ==
  ASSUME NEW T, NEW I, NEW A, NEW W, Distinct(I, A, W), NEW n \in Nat,
         NEW p, p = [t \in T |-> I]
  PROVE  Waiting(p, T, I, A, W, n)
<1>1. Where(p, T, A) = {}
  BY DEF Where, Distinct
<1>2. QED
  BY <1>1 DEF Waiting, Enough

\* The two threads of the small parts are among all of them.
LEMMA PairFinite == Pair \subseteq Threads /\ IsFiniteSet(Pair) /\ Owner \in Pair
<1>1. PICK t \in Threads, u \in Threads : t # u
  BY ThreadsAssumption
<1>2. Owner \in Threads
  BY <1>1 DEF Owner
<1>3. \E v \in Threads \ {Owner} : TRUE
  BY <1>1
<1>4. (CHOOSE v \in Threads \ {Owner} : TRUE) \in Threads \ {Owner}
  BY <1>3
<1>5. QED
  BY <1>2, <1>4, ThreadsAssumption, FS_Subset DEF Pair

\* A thread is in one of the three states only.
LEMMA RingStates == Distinct(Ring!Idle, Ring!Asleep, Ring!Woken)
<1>1. Ring!Idle.at = "idle" /\ Ring!Asleep.at = "popWait" /\ Ring!Woken.at = "popWait"
      /\ Ring!Asleep.woken = FALSE /\ Ring!Woken.woken = TRUE
  BY DEF Ring!Idle, Ring!Asleep, Ring!Woken
<1>2. QED
  BY <1>1 DEF Distinct

RingFields == DOMAIN obj = {"buffer_", "head_", "tail_", "size_"}

RingInv ==
  /\ RingFields
  /\ Waiting(pc, Pair, Ring!Idle, Ring!Asleep, Ring!Woken, obj.size_)

\* The states of the ring buffer's threads, in the terms of WaitStep.
LEMMA RingSets == \A s : Ring!In(s) = Where(pc, Pair, s)
BY DEF Ring!In, Where

\* Every step of the ring buffer keeps its invariant.
LEMMA RingStep ==
  ASSUME RingInv, Ring!Next
  PROVE  RingInv'
<1> DEFINE Steps(n, m, q) == WaitStep(pc, q, Pair, Ring!Idle, Ring!Asleep, Ring!Woken, n, m)
<1> USE DEF WaitStep
<1>1. /\ pc \in [Pair -> {Ring!Idle, Ring!Asleep, Ring!Woken}] /\ obj.size_ \in Nat /\ RingFields
  BY DEF RingInv, Waiting
<1>2. ASSUME NEW t \in Pair, Ring!Take(t), obj.size_ > 0
      PROVE  RingFields' /\ Steps(obj.size_, obj'.size_, pc')
  <2>1. RingFields' /\ obj'.size_ = obj.size_ - 1
    BY <1>1, <1>2 DEF RingFields, Ring!Take
  <2>2. QED
    BY <1>2, <2>1 DEF OneLess, Ring!Take
<1>3. ASSUME NEW t \in Pair, NEW s \in {Ring!Idle, Ring!Asleep}, obj.size_ = 0, obj' = obj,
             pc' = [pc EXCEPT ![t] = s]
      PROVE  RingFields' /\ Steps(obj.size_, obj'.size_, pc')
  BY <1>1, <1>3 DEF RingFields, NothingThere
<1>4. ASSUME NEW t \in Pair, NEW v \in Items, Ring!Push(t, v)
      PROVE  RingFields' /\ Steps(obj.size_, obj'.size_, pc')
  <2>1. RingFields' /\ obj'.size_ = obj.size_ + 1
    BY <1>1, <1>4 DEF RingFields, Ring!Push
  <2>2. QED
    BY <1>4, <2>1, RingSets DEF OneMore, Ring!Push
<1>5. CASE Ring!Clear
  <2>1. RingFields' /\ obj'.size_ = 0 /\ pc' = pc
    BY <1>1, <1>5 DEF RingFields, Ring!Clear
  <2>2. QED
    <3>1. Steps(obj.size_, obj'.size_, pc')
      BY <2>1 DEF NothingThere
    <3>2. QED
      BY <2>1, <3>1, WaitKeeps, PairFinite, RingStates DEF RingInv
<1>6. ASSUME NEW t \in Pair,
             \/ Ring!PushFull(t) \/ Ring!Pop(t) \/ Ring!PopWait(t) \/ Ring!PopWake(t) \/ Ring!PopTimeout(t)
      PROVE  RingFields' /\ Steps(obj.size_, obj'.size_, pc')
  <2>1. CASE Ring!PushFull(t)
    BY <1>1, <2>1 DEF Ring!PushFull, Ring!vars, RingFields
  <2>2. CASE Ring!Pop(t)
    BY <1>2, <1>3, <2>2 DEF Ring!Pop, Ring!Return
  <2>3. CASE Ring!PopWait(t)
    BY <1>2, <1>3, <2>3 DEF Ring!PopWait
  <2>4. CASE Ring!PopWake(t)
    BY <1>2, <1>3, <2>4 DEF Ring!PopWake
  <2>5. CASE Ring!PopTimeout(t)
    BY <1>2, <1>3, <2>5 DEF Ring!PopTimeout, Ring!Return
  <2>6. QED
    BY <1>6, <2>1, <2>2, <2>3, <2>4, <2>5
<1>7. CASE RingFields' /\ Steps(obj.size_, obj'.size_, pc')
  BY <1>7, WaitKeeps, PairFinite, RingStates DEF RingInv
<1>8. QED
  BY <1>4, <1>5, <1>6, <1>7 DEF Ring!Next

\* The empty ring buffer satisfies the invariant.
LEMMA RingInitInv ==
  ASSUME Ring!Init
  PROVE  RingInv
<1>1. RingFields /\ obj.size_ = 0 /\ pc = [t \in Pair |-> Ring!Idle]
  BY DEF Ring!Init, RingFields
<1>2. Waiting(pc, Pair, Ring!Idle, Ring!Asleep, Ring!Woken, 0)
  BY <1>1, WaitInit, RingStates
<1>3. QED
  BY <1>1, <1>2 DEF RingInv

\* The invariant implies that no wake-up is lost.
LEMMA RingWakeups ==
  ASSUME RingInv
  PROVE  Ring!NoLostWakeup
<1>1. \A S : Ring!Cardinality(S) = Cardinality(S)
  BY Zenon DEF Ring!Cardinality, Cardinality
<1>2. QED
  BY <1>1, RingSets DEF RingInv, Waiting, Enough, Ring!NoLostWakeup

\* The producers and consumers of the demo, on a ring buffer of their own.
DemoThreads == Pair \cup {"c1", "c2"}

DemoInv ==
  /\ RingFields
  /\ Waiting(pc, DemoThreads, Demo!Ring!Idle, Demo!Ring!Asleep, Demo!Ring!Woken, obj.size_)

\* A thread of the demo is in one of the three states only, and there are
\* finitely many.
LEMMA DemoStates ==
  /\ Distinct(Demo!Ring!Idle, Demo!Ring!Asleep, Demo!Ring!Woken)
  /\ IsFiniteSet(DemoThreads)
<1>1. Demo!Ring!Idle.at = "idle" /\ Demo!Ring!Asleep.at = "popWait" /\ Demo!Ring!Woken.at = "popWait"
      /\ Demo!Ring!Asleep.woken = FALSE /\ Demo!Ring!Woken.woken = TRUE
  BY DEF Demo!Ring!Idle, Demo!Ring!Asleep, Demo!Ring!Woken
<1>2. IsFiniteSet(Pair \cup {"c1"})
  BY PairFinite, FS_AddElement
<1>3. IsFiniteSet((Pair \cup {"c1"}) \cup {"c2"})
  BY <1>2, FS_AddElement
<1>4. DemoThreads = (Pair \cup {"c1"}) \cup {"c2"}
  BY DEF DemoThreads
<1>5. QED
  BY <1>1, <1>3, <1>4 DEF Distinct

\* The states of the demo's threads, in the terms of WaitStep.
LEMMA DemoSets == \A s : Demo!Ring!In(s) = Where(pc, DemoThreads, s)
BY DEF Demo!Ring!In, Where, DemoThreads

\* Every step of a producer or a consumer keeps the invariant.
LEMMA DemoStep ==
  ASSUME DemoInv, Demo!Next
  PROVE  DemoInv'
<1> DEFINE Steps(n, m, q) ==
      WaitStep(pc, q, DemoThreads, Demo!Ring!Idle, Demo!Ring!Asleep, Demo!Ring!Woken, n, m)
<1> USE DEF WaitStep
<1>1. /\ pc \in [DemoThreads -> {Demo!Ring!Idle, Demo!Ring!Asleep, Demo!Ring!Woken}]
      /\ obj.size_ \in Nat /\ RingFields
  BY DEF DemoInv, Waiting
<1>2. ASSUME NEW t \in DemoThreads, Demo!Ring!Take(t), obj.size_ > 0
      PROVE  RingFields' /\ Steps(obj.size_, obj'.size_, pc')
  <2>1. RingFields' /\ obj'.size_ = obj.size_ - 1
    BY <1>1, <1>2 DEF RingFields, Demo!Ring!Take
  <2>2. QED
    BY <1>2, <2>1 DEF OneLess, Demo!Ring!Take
<1>3. ASSUME NEW t \in DemoThreads, NEW s \in {Demo!Ring!Idle, Demo!Ring!Asleep}, obj.size_ = 0,
             obj' = obj, pc' = [pc EXCEPT ![t] = s]
      PROVE  RingFields' /\ Steps(obj.size_, obj'.size_, pc')
  BY <1>1, <1>3 DEF RingFields, NothingThere
<1>4. ASSUME NEW p \in Pair, Demo!producer(p)
      PROVE  RingFields' /\ Steps(obj.size_, obj'.size_, pc')
  <2>1. PICK v : Demo!Ring!Push(p, v)
    BY <1>4 DEF Demo!producer
  <2>2. RingFields' /\ obj'.size_ = obj.size_ + 1
    BY <1>1, <2>1 DEF RingFields, Demo!Ring!Push
  <2>3. QED
    BY <2>1, <2>2, DemoSets DEF OneMore, Demo!Ring!Push
<1>5. ASSUME NEW c \in {"c1", "c2"}, Demo!consumer(c)
      PROVE  RingFields' /\ Steps(obj.size_, obj'.size_, pc')
  <2>1. c \in DemoThreads
    BY DEF DemoThreads
  <2>2. CASE Demo!Ring!PopWait(c)
    BY <1>2, <1>3, <2>1, <2>2 DEF Demo!Ring!PopWait
  <2>3. CASE Demo!Ring!PopWake(c)
    BY <1>2, <1>3, <2>1, <2>3 DEF Demo!Ring!PopWake
  <2>4. CASE Demo!Ring!PopTimeout(c)
    BY <1>2, <1>3, <2>1, <2>4 DEF Demo!Ring!PopTimeout, Demo!Ring!Return
  <2>5. QED
    BY <1>5, <2>2, <2>3, <2>4 DEF Demo!consumer
<1>6. RingFields' /\ Steps(obj.size_, obj'.size_, pc')
  BY <1>4, <1>5 DEF Demo!Next
<1>7. QED
  BY <1>6, WaitKeeps, DemoStates DEF DemoInv

\* The demo starts with nobody asleep.
LEMMA DemoInitInv ==
  ASSUME Demo!Init
  PROVE  DemoInv
<1>1. RingFields /\ obj.size_ = 0 /\ pc = [t \in DemoThreads |-> Demo!Ring!Idle]
  BY DEF Demo!Init, Demo!Ring!Init, RingFields, DemoThreads
<1>2. Waiting(pc, DemoThreads, Demo!Ring!Idle, Demo!Ring!Asleep, Demo!Ring!Woken, 0)
  BY <1>1, WaitInit, DemoStates
<1>3. QED
  BY <1>1, <1>2 DEF DemoInv

\* The invariant implies that no wake-up is lost.
LEMMA DemoWakeups ==
  ASSUME DemoInv
  PROVE  Demo!Ring!NoLostWakeup
<1>1. \A S : Demo!Ring!Cardinality(S) = Cardinality(S)
  BY Zenon DEF Demo!Ring!Cardinality, Cardinality
<1>2. QED
  BY <1>1, DemoSets DEF DemoInv, Waiting, Enough, Demo!Ring!NoLostWakeup
-----------------------------------------------------------------------------
(***************************************************************************)
(* ConnectionPool                                                          *)
(***************************************************************************)
PoolTypes ==
  /\ DOMAIN obj = {"pool_", "activeConnections_", "closed_"}
  /\ obj.pool_ \in Seq(Nat) /\ obj.closed_ \in BOOLEAN
  /\ DOMAIN log = {"made", "held", "gone"}
  /\ log.made \in Nat /\ log.held \in [Threads -> Nat \cup {Empty}]

PoolWaiting == Waiting(pc, Threads, Pool!Idle, Pool!Asleep, Pool!Woken, Len(obj.pool_))
PoolInv ==
  /\ PoolTypes /\ PoolWaiting
  /\ obj.closed_ => Where(pc, Threads, Pool!Asleep) = {}

\* A thread is in one of the three states only.
LEMMA PoolStates == Distinct(Pool!Idle, Pool!Asleep, Pool!Woken)
<1>1. Pool!Idle.at = "idle" /\ Pool!Asleep.at = "acquire" /\ Pool!Woken.at = "acquire"
      /\ Pool!Asleep.woken = FALSE /\ Pool!Woken.woken = TRUE
  BY DEF Pool!Idle, Pool!Asleep, Pool!Woken
<1>2. QED
  BY <1>1 DEF Distinct

\* The states of the pool's threads, in the terms of WaitStep.
LEMMA PoolSets == \A s : Pool!In(s) = Where(pc, Threads, s)
BY DEF Pool!In, Where

\* A step of an open pool, of which PoolWaiting' follows.
PoolStepOpen ==
  /\ PoolTypes' /\ obj'.closed_ = FALSE
  /\ WaitStep(pc, pc', Threads, Pool!Idle, Pool!Asleep, Pool!Woken, Len(obj.pool_), Len(obj'.pool_))

\* A step after which nobody sleeps.
PoolStepQuiet ==
  /\ PoolTypes' /\ pc' \in [Threads -> {Pool!Idle, Pool!Asleep, Pool!Woken}]
  /\ Where(pc', Threads, Pool!Asleep) = {}

\* acquire() keeps to a step of an open pool, or leaves nobody asleep.
LEMMA PoolAcquire ==
  ASSUME PoolInv, NEW t \in Threads
  PROVE  /\ Pool!Acquire(t) => PoolStepOpen
         /\ Pool!AcquireWake(t) \/ Pool!AcquireTimeout(t) => PoolStepOpen \/ PoolStepQuiet
<1> USE DEF WaitStep
<1>1. PoolTypes /\ Len(obj.pool_) \in Nat /\ pc \in [Threads -> {Pool!Idle, Pool!Asleep, Pool!Woken}]
  BY DEF PoolInv, PoolTypes, PoolWaiting, Waiting
<1>2. ASSUME ~obj.closed_, obj.pool_ # <<>>, Pool!TakeFront(t)
      PROVE  PoolStepOpen
  <2>1. /\ Head(obj.pool_) \in Nat /\ Tail(obj.pool_) \in Seq(Nat)
        /\ Len(Tail(obj.pool_)) = Len(obj.pool_) - 1 /\ Len(obj.pool_) > 0
    BY <1>1, <1>2 DEF PoolTypes
  <2>2. PoolTypes' /\ obj'.closed_ = FALSE /\ obj'.pool_ = Tail(obj.pool_)
    BY <1>1, <1>2, <2>1 DEF PoolTypes, Pool!TakeFront
  <2>3. OneLess(pc, pc', Threads, Pool!Idle, Len(obj.pool_), Len(obj'.pool_))
    BY <1>2, <2>1, <2>2 DEF OneLess, Pool!TakeFront
  <2>4. QED
    BY <2>2, <2>3 DEF PoolStepOpen
<1>3. ASSUME ~obj.closed_, obj.pool_ = <<>>, NEW s \in {Pool!Idle, Pool!Asleep},
             pc' = [pc EXCEPT ![t] = s], obj' = obj, log' = log
      PROVE  PoolStepOpen
  <2>1. PoolTypes' /\ obj'.closed_ = FALSE /\ Len(obj.pool_) = 0 /\ Len(obj'.pool_) = 0
    BY <1>1, <1>3 DEF PoolTypes
  <2>2. NothingThere(pc, pc', Threads, Pool!Idle, Pool!Asleep, Len(obj.pool_), Len(obj'.pool_))
    BY <1>3, <2>1 DEF NothingThere
  <2>3. QED
    BY <2>1, <2>2 DEF PoolStepOpen
<1>4. ASSUME ~obj.closed_, Pool!Create(t)
      PROVE  PoolStepOpen
  <2>1. PoolTypes' /\ obj'.closed_ = FALSE /\ obj'.pool_ = obj.pool_ /\ pc' = pc
    BY <1>1, <1>4 DEF PoolTypes, Pool!Create
  <2>2. QED
    BY <2>1 DEF PoolStepOpen
<1>5. ASSUME Pool!AfterWait(t)
      PROVE  PoolStepOpen \/ PoolStepQuiet
  <2>1. CASE ~obj.closed_ /\ obj.pool_ # <<>> /\ Pool!TakeFront(t)
    BY <1>2, <2>1
  <2>2. CASE ~obj.closed_ /\ obj.pool_ = <<>> /\ Pool!Return(t)
    BY <1>3, <2>2 DEF Pool!Return
  <2>3. CASE obj.closed_ /\ Pool!Return(t)
    <3>1. Moved(pc, pc', Threads, t, Pool!Idle) /\ Where(pc, Threads, Pool!Asleep) = {}
      BY <1>1, <2>3 DEF Moved, PoolInv, Pool!Return
    <3>2. Where(pc', Threads, Pool!Asleep) = {}
      BY <3>1, Moves, PoolStates DEF Distinct
    <3>3. pc' \in [Threads -> {Pool!Idle, Pool!Asleep, Pool!Woken}] /\ PoolTypes'
      BY <1>1, <2>3 DEF Pool!Return, PoolTypes
    <3>4. QED
      BY <3>2, <3>3 DEF PoolStepQuiet
  <2>4. QED
    BY <1>5, <2>1, <2>2, <2>3 DEF Pool!AfterWait, Pool!Return
<1>6. Pool!Acquire(t) => PoolStepOpen
  BY <1>2, <1>3, <1>4 DEF Pool!Acquire
<1>7. Pool!AcquireWake(t) => PoolStepOpen \/ PoolStepQuiet
  BY <1>3, <1>5 DEF Pool!AcquireWake
<1>8. QED
  BY <1>5, <1>6, <1>7 DEF Pool!AcquireTimeout

\* release() hands the connection over or, the pool being closed, drops it.
LEMMA PoolRelease ==
  ASSUME PoolInv, NEW t \in Threads, Pool!Release(t)
  PROVE  PoolStepOpen \/ PoolStepQuiet
<1> USE DEF WaitStep
<1>1. PoolTypes /\ Len(obj.pool_) \in Nat /\ pc \in [Threads -> {Pool!Idle, Pool!Asleep, Pool!Woken}]
  BY DEF PoolInv, PoolTypes, PoolWaiting, Waiting
<1>2. log.held[t] \in Nat
  BY <1>1 DEF PoolTypes, Pool!Release, Pool!Holders
<1>3. CASE obj.closed_ /\ Pool!Drop(t) /\ UNCHANGED <<obj, pc>>
  <2>1. PoolTypes' /\ pc' = pc
    BY <1>1, <1>3 DEF PoolTypes, Pool!Drop
  <2>2. QED
    BY <1>1, <1>3, <2>1 DEF PoolInv, PoolStepQuiet
<1>4. CASE /\ ~obj.closed_
           /\ obj' = [obj EXCEPT !.pool_ = Append(@, log.held[t]), !.activeConnections_ = @ - 1]
           /\ log' = [log EXCEPT !.held[t] = Empty]
           /\ \/ Pool!In(Pool!Asleep) = {} /\ UNCHANGED pc
              \/ \E w \in Pool!In(Pool!Asleep) : pc' = [pc EXCEPT ![w] = Pool!Woken]
  <2>1. Append(obj.pool_, log.held[t]) \in Seq(Nat) /\ Len(Append(obj.pool_, log.held[t])) = Len(obj.pool_) + 1
    BY <1>1, <1>2 DEF PoolTypes
  <2>2. obj'.closed_ = FALSE /\ obj'.pool_ = Append(obj.pool_, log.held[t])
    BY <1>1, <1>4 DEF PoolTypes
  <2>3. PoolTypes'
    BY <1>1, <1>4, <2>1, <2>2 DEF PoolTypes
  <2>4. OneMore(pc, pc', Threads, Pool!Asleep, Pool!Woken, Len(obj.pool_), Len(obj'.pool_))
    BY <1>4, <2>1, <2>2, PoolSets DEF OneMore
  <2>5. QED
    BY <2>2, <2>3, <2>4 DEF PoolStepOpen
<1>5. QED
  BY <1>3, <1>4 DEF Pool!Release

\* Every step of the pool keeps the invariant, close() included.
LEMMA PoolStep ==
  ASSUME PoolInv, Pool!Next
  PROVE  PoolInv'
<1>1. PoolTypes /\ Len(obj.pool_) \in Nat /\ pc \in [Threads -> {Pool!Idle, Pool!Asleep, Pool!Woken}]
  BY DEF PoolInv, PoolTypes, PoolWaiting, Waiting
<1>2. CASE PoolStepOpen
  <2>1. PoolWaiting'
    BY <1>2, WaitKeeps, ThreadsAssumption, PoolStates DEF PoolStepOpen, PoolInv, PoolWaiting
  <2>2. QED
    BY <1>2, <2>1 DEF PoolStepOpen, PoolInv
<1>3. CASE PoolStepQuiet
  <2>1. Len(obj'.pool_) \in Nat
    BY <1>3 DEF PoolStepQuiet, PoolTypes
  <2>2. QED
    BY <1>3, <2>1 DEF PoolStepQuiet, PoolInv, PoolWaiting, Waiting, Enough
<1>4. CASE Pool!Close
  <2>1. PoolTypes'
    BY <1>1, <1>4 DEF PoolTypes, Pool!Close
  <2>2. pc' \in [Threads -> {Pool!Idle, Pool!Asleep, Pool!Woken}] /\ \A t \in Threads : pc'[t] # Pool!Asleep
    BY <1>1, <1>4, PoolStates DEF Pool!Close, Distinct
  <2>3. PoolStepQuiet
    BY <2>1, <2>2 DEF PoolStepQuiet, Where
  <2>4. QED
    BY <1>3, <2>3
<1>5. QED
  BY <1>2, <1>3, <1>4, PoolAcquire, PoolRelease DEF Pool!Next

\* The pool that the constructor filled satisfies the invariant.
LEMMA PoolInitInv ==
  ASSUME Pool!Init
  PROVE  PoolInv
<1>1. MinSize \in Nat
  BY SizesAssumption
<1>2. [i \in 1..MinSize |-> i] \in Seq(Nat)
  BY <1>1
<1>3. PoolTypes /\ obj.closed_ = FALSE /\ pc = [t \in Threads |-> Pool!Idle]
  BY <1>1, <1>2 DEF Pool!Init, PoolTypes
<1>4. Len(obj.pool_) \in Nat
  BY <1>3 DEF PoolTypes
<1>5. PoolWaiting
  BY <1>3, <1>4, WaitInit, PoolStates DEF PoolWaiting
<1>6. QED
  BY <1>3, <1>5 DEF PoolInv

\* The invariant implies that no wake-up is lost.
LEMMA PoolWakeups ==
  ASSUME PoolInv
  PROVE  Pool!NoLostWakeup
<1>1. \A S : Pool!Cardinality(S) = Cardinality(S)
  BY Zenon DEF Pool!Cardinality, Cardinality
<1>2. QED
  BY <1>1, PoolSets DEF PoolInv, PoolWaiting, Waiting, Enough, Pool!NoLostWakeup
-----------------------------------------------------------------------------
(***************************************************************************)
(* Mailbox: NoLostWakeup is inductive, given which fields there are.       *)
(***************************************************************************)
MailInv ==
  /\ DOMAIN obj = {"queue_", "stopped_", "running_", "handled_"}
  /\ DOMAIN pc = {"owner", "actor", "msg"}
  /\ Actor!NoLostWakeup

\* A new actor satisfies the invariant.
LEMMA MailInitInv ==
  ASSUME Actor!Init
  PROVE  MailInv
BY DEF Actor!Init, MailInv, Actor!NoLostWakeup

\* Every step of the actor and of its senders keeps the invariant.
LEMMA MailStep ==
  ASSUME MailInv, Actor!Next
  PROVE  MailInv'
<1> USE DEF MailInv, Actor!NoLostWakeup
<1>1. CASE Actor!Start
  BY <1>1 DEF Actor!Start
<1>2. CASE Actor!StopFlag
  BY <1>2 DEF Actor!StopFlag
<1>3. CASE Actor!StopNotify
  <2>1. pc'.actor # "asleep" /\ DOMAIN pc' = {"owner", "actor", "msg"}
    BY <1>3 DEF Actor!StopNotify, Actor!Notified
  <2>2. QED
    BY <1>3, <2>1 DEF Actor!StopNotify
<1>4. CASE Actor!StopJoin
  BY <1>4 DEF Actor!StopJoin
<1>5. CASE Actor!Loop
  <2>1. CASE obj.queue_ = <<>> /\ obj' = obj /\ pc' = [pc EXCEPT !.actor = IF obj.stopped_ THEN "ended" ELSE "asleep"]
    BY <2>1
  <2>2. CASE /\ pc' = [pc EXCEPT !.actor = "handle", !.msg = <<Head(obj.queue_)>>]
             /\ obj' = [obj EXCEPT !.queue_ = Tail(@)]
    BY <2>2
  <2>3. QED
    BY <1>5, <2>1, <2>2 DEF Actor!Loop
<1>6. CASE Actor!Handle
  BY <1>6 DEF Actor!Handle
<1>7. CASE Actor!SpuriousWakeup
  BY <1>7 DEF Actor!SpuriousWakeup, Actor!Notified
<1>8. CASE Actor!SendRefused
  BY <1>8 DEF Actor!SendRefused, Actor!vars
<1>9. ASSUME NEW m \in Items, Actor!Send(m)
      PROVE  MailInv'
  <2>1. pc'.actor # "asleep" /\ DOMAIN pc' = {"owner", "actor", "msg"}
    BY <1>9 DEF Actor!Send, Actor!Notified
  <2>2. QED
    BY <1>9, <2>1 DEF Actor!Send
<1>10. QED
  BY <1>1, <1>2, <1>3, <1>4, <1>5, <1>6, <1>7, <1>8, <1>9 DEF Actor!Next, Actor!Owner, Actor!Actor
-----------------------------------------------------------------------------
(***************************************************************************)
(* The three classes of CommandQueue.  The count of active tasks is exact, *)
(* so that only the last task to finish wakes those that wait for all; the *)
(* pool with futures counts nothing and nobody waits for it.               *)
(***************************************************************************)
Workers == {"w1", "w2"}
WorkerPlaces == {"loop", "asleep", "exec", "ended"}
CallerPlaces == {"idle", "notify", "waiting", "awake", "broadcast", "join"}

QueueTypes ==
  /\ DOMAIN obj = {"tasks_", "shutdown_", "activeTasks_", "completedCount_"}
  /\ obj.tasks_ \in Seq(Items) /\ obj.shutdown_ \in BOOLEAN
  /\ DOMAIN pc = Workers \cup Pair
  /\ \A w \in Workers : pc[w].at \in WorkerPlaces
  /\ \A c \in Pair : pc[c].at \in CallerPlaces

QueueCounts ==
  IF part = "ThreadPoolAdvanced"
  THEN obj.activeTasks_ = 0 /\ \A c \in Pair : pc[c].at \notin {"waiting", "awake"}
  ELSE obj.activeTasks_ = Cardinality(Queue!In(Workers, "exec"))

QueueInv == QueueTypes /\ QueueCounts /\ Queue!NoLostWakeup

\* No worker is a caller.
LEMMA WorkersApart == Workers \cap Pair = {}
BY PairFinite, ThreadsAssumption DEF Workers, Names

\* The sets of the model as filters, before and after a step.
LEMMA QueueSets ==
  /\ \A S, place : Queue!In(S, place) = {t \in S : pc[t].at = place}
  /\ \A S, place : Queue!In(S, place)' = {t \in S' : pc'[t].at = place}
  /\ \A place : IsFiniteSet(Queue!In(Workers, place)) /\ IsFiniteSet(Queue!In(Workers, place)')
<1>1. /\ \A S, place : Queue!In(S, place) = {t \in S : pc[t].at = place}
      /\ \A S, place : Queue!In(S, place)' = {t \in S' : pc'[t].at = place}
  BY DEF Queue!In
<1>2. IsFiniteSet(Workers)
  <2>1. IsFiniteSet({"w1"})
    BY FS_Singleton
  <2>2. IsFiniteSet({"w1"} \cup {"w2"})
    BY <2>1, FS_AddElement
  <2>3. Workers = {"w1"} \cup {"w2"}
    BY DEF Workers
  <2>4. QED
    BY <2>2, <2>3
<1>3. \A place : /\ Queue!In(Workers, place) \in SUBSET Workers
                 /\ Queue!In(Workers, place)' \in SUBSET Workers
  BY <1>1 DEF Workers
<1>4. QED
  BY <1>1, <1>2, <1>3, FS_Subset

\* Where a thread's record says it is.
LEMMA QueuePlaces ==
  /\ \A place : Queue!At(place).at = place
  /\ \A k : Queue!Exec(k).at = "exec"
BY DEF Queue!At, Queue!Exec

\* What a caller does leaves the workers where they are.
LEMMA CallerMoves ==
  ASSUME QueueTypes, NEW c \in Pair, NEW place \in CallerPlaces, Queue!Goto(c, place)
  PROVE  /\ DOMAIN pc' = Workers \cup Pair
         /\ \A w \in Workers : pc'[w] = pc[w]
         /\ pc'[c].at = place
         /\ \A b \in Pair \ {c} : pc'[b] = pc[b]
         /\ \A p : Queue!In(Workers, p)' = Queue!In(Workers, p)
<1>1. pc' = [pc EXCEPT ![c] = Queue!At(place)] /\ DOMAIN pc = Workers \cup Pair
  BY DEF Queue!Goto, QueueTypes
<1>2. /\ DOMAIN pc' = Workers \cup Pair
      /\ \A w \in Workers : pc'[w] = pc[w]
      /\ pc'[c] = Queue!At(place)
      /\ \A b \in Pair \ {c} : pc'[b] = pc[b]
  BY <1>1, WorkersApart
<1>3. \A p : Queue!In(Workers, p)' = Queue!In(Workers, p)
  BY <1>2, QueueSets DEF Workers
<1>4. QED
  BY <1>2, <1>3, QueuePlaces

\* ... and what a worker does the callers.
LEMMA WorkerMoves ==
  ASSUME QueueTypes, NEW w \in Workers, NEW v, pc' = [pc EXCEPT ![w] = v]
  PROVE  /\ DOMAIN pc' = Workers \cup Pair
         /\ pc'[w] = v
         /\ \A u \in Workers \ {w} : pc'[u] = pc[u]
         /\ \A c \in Pair : pc'[c] = pc[c]
         /\ \A p : Queue!In(Pair, p)' = Queue!In(Pair, p)
<1>1. DOMAIN pc = Workers \cup Pair
  BY DEF QueueTypes
<1>2. /\ DOMAIN pc' = Workers \cup Pair
      /\ pc'[w] = v
      /\ \A u \in Workers \ {w} : pc'[u] = pc[u]
      /\ \A c \in Pair : pc'[c] = pc[c]
  BY <1>1, WorkersApart
<1>3. Pair' = Pair
  BY DEF Pair, Owner
<1>4. \A p : Queue!In(Pair, p)' = Queue!In(Pair, p)
  BY <1>2, <1>3, QueueSets
<1>5. QED
  BY <1>2, <1>4

\* A queue whose workers were just started satisfies the invariant.
LEMMA QueueInitInv ==
  ASSUME Queue!Init
  PROVE  QueueInv
<1>1. /\ obj = [tasks_ |-> <<>>, shutdown_ |-> FALSE, activeTasks_ |-> 0, completedCount_ |-> 0]
      /\ pc = [t \in Workers \cup Pair |-> Queue!At(IF t \in Workers THEN "loop" ELSE "idle")]
  BY DEF Queue!Init, Workers
<1>2. /\ \A w \in Workers : pc[w].at = "loop"
      /\ \A c \in Pair : pc[c].at = "idle"
  BY <1>1, WorkersApart, QueuePlaces
<1>3. QueueTypes
  BY <1>1, <1>2 DEF QueueTypes, WorkerPlaces, CallerPlaces
<1>4. Queue!In(Workers, "exec") = {} /\ Queue!In(Workers, "asleep") = {} /\ Queue!In(Pair, "waiting") = {}
  BY <1>2, QueueSets
<1>5. Cardinality(Queue!In(Workers, "exec")) = 0
  BY <1>4, FS_EmptySet
<1>6. QueueCounts
  BY <1>1, <1>2, <1>5 DEF QueueCounts
<1>7. Queue!NoLostWakeup
  BY <1>1, <1>4 DEF Queue!NoLostWakeup, Workers
<1>8. QED
  BY <1>3, <1>6, <1>7 DEF QueueInv

\* What NoLostWakeup says, with the names used here.
QueueWakeups(tasks, shutdown, active, asleep, notifying, telling, waiting) ==
  /\ tasks # <<>> /\ asleep # {} => asleep # Workers \/ notifying # {}
  /\ shutdown /\ asleep # {} => telling # {}
  /\ waiting # {} => ~(tasks = <<>> /\ active = 0)

\* NoLostWakeup in terms of the sets that a step changes.
LEMMA QueueWakeupsHere ==
  /\ Queue!NoLostWakeup <=>
       QueueWakeups(obj.tasks_, obj.shutdown_, obj.activeTasks_, Queue!In(Workers, "asleep"),
                    Queue!In(Pair, "notify"), Queue!In(Pair, "broadcast"), Queue!In(Pair, "waiting"))
  /\ Queue!NoLostWakeup' <=>
       QueueWakeups(obj'.tasks_, obj'.shutdown_, obj'.activeTasks_, Queue!In(Workers, "asleep")',
                    Queue!In(Pair, "notify")', Queue!In(Pair, "broadcast")', Queue!In(Pair, "waiting")')
BY DEF QueueWakeups, Queue!NoLostWakeup, Queue!AllDone, Workers

\* A step of a caller, of shutdown() or of waitForAll() keeps the invariant.
LEMMA QueueCallerStep ==
  ASSUME QueueInv, UNCHANGED part, NEW c \in Pair,
         \/ Queue!Calls(c) \/ Queue!ShutdownJoin(c)
         \/ part # "ThreadPoolAdvanced" /\ Queue!WaitForAll(c)
  PROVE  QueueInv'
<1>1. /\ QueueTypes /\ QueueCounts
      /\ QueueWakeups(obj.tasks_, obj.shutdown_, obj.activeTasks_, Queue!In(Workers, "asleep"),
                      Queue!In(Pair, "notify"), Queue!In(Pair, "broadcast"), Queue!In(Pair, "waiting"))
  BY QueueWakeupsHere DEF QueueInv
<1>2. Pair' = Pair
  BY DEF Pair, Owner
<1>3. PICK place \in CallerPlaces : Queue!Goto(c, place)
  BY DEF Queue!Calls, Queue!ShutdownJoin, Queue!WaitForAll, Queue!Enqueue, Queue!ShutdownFlag, CallerPlaces
<1>4. /\ DOMAIN pc' = Workers \cup Pair
      /\ \A w \in Workers : pc'[w] = pc[w]
      /\ pc'[c].at = place
      /\ \A b \in Pair \ {c} : pc'[b] = pc[b]
      /\ \A p : Queue!In(Workers, p)' = Queue!In(Workers, p)
  BY <1>1, <1>3, CallerMoves
<1>5. \A w \in Workers : pc'[w].at \in WorkerPlaces
  BY <1>1, <1>4 DEF QueueTypes
<1>6. \A b \in Pair : pc'[b].at \in CallerPlaces
  BY <1>1, <1>4 DEF QueueTypes
<1>7. /\ \A p : p # place => Queue!In(Pair, p)' = Queue!In(Pair, p) \ {c}
      /\ Queue!In(Pair, place)' # {}
  BY <1>2, <1>4, QueueSets
<1>8. \A p : p # pc[c].at => c \notin Queue!In(Pair, p)
  BY QueueSets
<1>9. ASSUME NEW k \in Items, Queue!Enqueue(c, k)
      PROVE  QueueInv'
  <2>1. obj'.tasks_ = Append(obj.tasks_, k) /\ obj'.tasks_ \in Seq(Items) /\ obj'.tasks_ # <<>>
    BY <1>1, <1>9 DEF QueueTypes, Queue!Enqueue
  <2>2. /\ DOMAIN obj' = DOMAIN obj /\ obj'.shutdown_ = obj.shutdown_ /\ obj'.activeTasks_ = obj.activeTasks_
    BY <1>1, <1>9 DEF QueueTypes, Queue!Enqueue
  <2>3. pc'[c].at = "notify" /\ pc[c].at = "idle"
    BY <1>1, <1>9, QueuePlaces DEF QueueTypes, Queue!Enqueue, Queue!Goto
  <2>4. place = "notify"
    BY <1>4, <2>3
  <2>5. QueueTypes'
    BY <1>1, <1>2, <1>4, <1>5, <1>6, <2>1, <2>2 DEF QueueTypes, Workers
  <2>6. QueueCounts'
    BY <1>1, <1>2, <1>4, <2>2, <2>3 DEF QueueCounts, Workers
  <2>7. Queue!NoLostWakeup'
    BY <1>1, <1>4, <1>7, <1>8, <2>1, <2>2, <2>3, <2>4, QueueWakeupsHere DEF QueueWakeups
  <2>8. QED
    BY <2>5, <2>6, <2>7 DEF QueueInv
<1>10. CASE Queue!ShutdownFlag(c)
  <2>1. /\ DOMAIN obj' = DOMAIN obj /\ obj'.shutdown_ = TRUE /\ obj'.activeTasks_ = obj.activeTasks_
        /\ obj'.tasks_ = obj.tasks_
    BY <1>1, <1>10 DEF QueueTypes, Queue!ShutdownFlag
  <2>2. pc'[c].at = "broadcast" /\ pc[c].at = "idle"
    BY <1>1, <1>10, QueuePlaces DEF QueueTypes, Queue!ShutdownFlag, Queue!Goto
  <2>3. place = "broadcast"
    BY <1>4, <2>2
  <2>4. QueueTypes'
    BY <1>1, <1>2, <1>4, <1>5, <1>6, <2>1 DEF QueueTypes, Workers
  <2>5. QueueCounts'
    BY <1>1, <1>2, <1>4, <2>1, <2>2 DEF QueueCounts, Workers
  <2>6. Queue!NoLostWakeup'
    BY <1>1, <1>4, <1>7, <1>8, <2>1, <2>2, <2>3, QueueWakeupsHere DEF QueueWakeups
  <2>7. QED
    BY <2>4, <2>5, <2>6 DEF QueueInv
<1>11. CASE Queue!ShutdownJoin(c)
  <2>1. obj' = obj
    BY <1>11 DEF Queue!ShutdownJoin
  <2>2. pc'[c].at = "idle" /\ pc[c].at = "join"
    BY <1>1, <1>11, QueuePlaces DEF QueueTypes, Queue!ShutdownJoin, Queue!Goto
  <2>3. place = "idle"
    BY <1>4, <2>2
  <2>4. QueueTypes'
    BY <1>1, <1>2, <1>4, <1>5, <1>6, <2>1 DEF QueueTypes, Workers
  <2>5. QueueCounts'
    BY <1>1, <1>2, <1>4, <2>1, <2>2 DEF QueueCounts, Workers
  <2>6. Queue!NoLostWakeup'
    BY <1>1, <1>4, <1>7, <1>8, <2>1, <2>2, <2>3, QueueWakeupsHere DEF QueueWakeups
  <2>7. QED
    BY <2>4, <2>5, <2>6 DEF QueueInv
<1>12. CASE part # "ThreadPoolAdvanced" /\ Queue!WaitForAll(c)
  <2>1. obj' = obj
    BY <1>12 DEF Queue!WaitForAll
  <2>2. pc'[c].at = (IF Queue!AllDone THEN "idle" ELSE "waiting") /\ pc[c].at \in {"idle", "awake"}
    BY <1>1, <1>12, QueuePlaces DEF QueueTypes, Queue!WaitForAll, Queue!Goto
  <2>3. place = (IF Queue!AllDone THEN "idle" ELSE "waiting")
    BY <1>4, <2>2
  <2>4. QueueTypes'
    BY <1>1, <1>2, <1>4, <1>5, <1>6, <2>1 DEF QueueTypes, Workers
  <2>5. QueueCounts'
    BY <1>1, <1>4, <1>12, <2>1 DEF QueueCounts, Workers
  <2>6. Queue!NoLostWakeup'
    BY <1>1, <1>4, <1>7, <1>8, <2>1, <2>2, <2>3, QueueWakeupsHere DEF QueueWakeups, Queue!AllDone
  <2>7. QED
    BY <2>4, <2>5, <2>6 DEF QueueInv
<1>13. QED
  BY <1>9, <1>10, <1>11, <1>12 DEF Queue!Calls

\* The two notifications: notify_one() wakes a worker, notify_all() all of them.
LEMMA QueueNotifyStep ==
  ASSUME QueueInv, UNCHANGED part, NEW c \in Pair, Queue!EnqueueNotify(c) \/ Queue!ShutdownNotify(c)
  PROVE  QueueInv'
<1>1. /\ QueueTypes /\ QueueCounts
      /\ QueueWakeups(obj.tasks_, obj.shutdown_, obj.activeTasks_, Queue!In(Workers, "asleep"),
                      Queue!In(Pair, "notify"), Queue!In(Pair, "broadcast"), Queue!In(Pair, "waiting"))
  BY QueueWakeupsHere DEF QueueInv
<1>2. Pair' = Pair /\ c \notin Workers
  BY WorkersApart DEF Pair, Owner
<1>3. obj' = obj
  BY DEF Queue!EnqueueNotify, Queue!ShutdownNotify
<1>4. ASSUME NEW S \in SUBSET Queue!In(Workers, "asleep"), DOMAIN pc' = Workers \cup Pair,
             \A w \in Workers : pc'[w] = IF w \in S THEN Queue!At("loop") ELSE pc[w],
             \A b \in Pair \ {c} : pc'[b] = pc[b],
             \/ pc[c].at = "notify" /\ pc'[c].at = "idle" /\ (Queue!In(Workers, "asleep") # {} => S # {})
             \/ pc[c].at = "broadcast" /\ pc'[c].at = "join" /\ S = Queue!In(Workers, "asleep")
      PROVE  QueueInv'
  <2>1. \A w \in S : w \in Workers /\ pc[w].at = "asleep" /\ pc'[w].at = "loop"
    BY <1>4, QueueSets, QueuePlaces
  <2>2. \A w \in Workers \ S : pc'[w] = pc[w]
    BY <1>4
  <2>3. QueueTypes'
    BY <1>1, <1>2, <1>3, <1>4, <2>1, <2>2 DEF QueueTypes, WorkerPlaces, CallerPlaces, Workers
  <2>4. Queue!In(Workers, "exec")' = Queue!In(Workers, "exec")
    <3>1. \A w \in Workers : pc'[w].at = "exec" <=> pc[w].at = "exec"
      BY <2>1, <2>2
    <3>2. QED
      BY <3>1, QueueSets DEF Workers
  <2>5. QueueCounts'
    BY <1>1, <1>2, <1>3, <1>4, <2>4 DEF QueueCounts, Workers
  <2>6. Queue!In(Workers, "asleep")' = Queue!In(Workers, "asleep") \ S
    <3>1. \A w \in Workers : pc'[w].at = "asleep" <=> pc[w].at = "asleep" /\ w \notin S
      BY <2>1, <2>2
    <3>2. QED
      BY <3>1, QueueSets DEF Workers
  <2>7. S \subseteq Workers /\ Queue!In(Workers, "asleep") \subseteq Workers
    BY QueueSets
  <2>8. Queue!In(Pair, "waiting")' = Queue!In(Pair, "waiting")
    <3>1. \A b \in Pair : pc'[b].at = "waiting" <=> pc[b].at = "waiting"
      BY <1>4
    <3>2. QED
      BY <1>2, <3>1, QueueSets
  <2>9. CASE pc[c].at = "notify" /\ pc'[c].at = "idle" /\ (Queue!In(Workers, "asleep") # {} => S # {})
    <3>1. Queue!In(Pair, "broadcast")' = Queue!In(Pair, "broadcast")
      <4>1. \A b \in Pair : pc'[b].at = "broadcast" <=> pc[b].at = "broadcast"
        BY <1>4, <2>9
      <4>2. QED
        BY <1>2, <4>1, QueueSets
    <3>2. Queue!In(Workers, "asleep")' # {} => S # {}
      BY <2>6, <2>9
    <3>3. Queue!In(Workers, "asleep")' # {} => Queue!In(Workers, "asleep")' # Workers
      BY <2>6, <2>7, <3>2
    <3>4. Queue!NoLostWakeup'
      BY <1>1, <1>3, <2>6, <2>8, <3>1, <3>3, QueueWakeupsHere DEF QueueWakeups
    <3>5. QED
      BY <2>3, <2>5, <3>4 DEF QueueInv
  <2>10. CASE pc[c].at = "broadcast" /\ pc'[c].at = "join" /\ S = Queue!In(Workers, "asleep")
    <3>1. Queue!In(Workers, "asleep")' = {}
      BY <2>6, <2>10
    <3>2. Queue!NoLostWakeup'
      BY <1>1, <1>3, <2>8, <3>1, QueueWakeupsHere DEF QueueWakeups
    <3>3. QED
      BY <2>3, <2>5, <3>2 DEF QueueInv
  <2>11. QED
    BY <1>4, <2>9, <2>10
<1>5. DOMAIN pc = Workers \cup Pair
  BY <1>1 DEF QueueTypes
<1>6. CASE Queue!EnqueueNotify(c)
  <2>1. pc[c].at = "notify"
    BY <1>6 DEF Queue!EnqueueNotify
  <2>2. CASE Queue!In(Workers, "asleep") = {} /\ Queue!Goto(c, "idle")
    <3>1. /\ DOMAIN pc' = Workers \cup Pair /\ pc'[c].at = "idle"
          /\ \A w \in Workers : pc'[w] = pc[w]
          /\ \A b \in Pair \ {c} : pc'[b] = pc[b]
      BY <1>1, <2>2, CallerMoves DEF CallerPlaces
    <3>2. {} \in SUBSET Queue!In(Workers, "asleep")
      OBVIOUS
    <3>3. \A w \in Workers : pc'[w] = IF w \in {} THEN Queue!At("loop") ELSE pc[w]
      BY <3>1
    <3>4. QED
      BY <1>4, <2>1, <2>2, <3>1, <3>2, <3>3
  <2>3. ASSUME NEW w \in Queue!In(Workers, "asleep"),
               pc' = [pc EXCEPT ![c] = Queue!At("idle"), ![w] = Queue!At("loop")]
        PROVE  QueueInv'
    <3>1. w \in Workers /\ w # c
      BY <1>2, QueueSets
    <3>2. /\ DOMAIN pc' = Workers \cup Pair /\ pc'[c] = Queue!At("idle")
          /\ \A u \in Workers : pc'[u] = IF u \in {w} THEN Queue!At("loop") ELSE pc[u]
          /\ \A b \in Pair \ {c} : pc'[b] = pc[b]
      BY <1>2, <1>5, <2>3, <3>1, WorkersApart
    <3>3. {w} \in SUBSET Queue!In(Workers, "asleep") /\ {w} # {} /\ pc'[c].at = "idle"
      BY <3>2, QueuePlaces
    <3>4. QED
      BY <1>4, <2>1, <3>2, <3>3
  <2>4. QED
    BY <1>6, <2>2, <2>3 DEF Queue!EnqueueNotify, Workers
<1>7. CASE Queue!ShutdownNotify(c)
  <2> DEFINE S == Queue!In(Workers, "asleep")
  <2>1. pc[c].at = "broadcast" /\ pc' = [Queue!Wake(S) EXCEPT ![c] = Queue!At("join")]
    BY <1>7 DEF Queue!ShutdownNotify, Workers
  <2>2. Queue!Wake(S) = [t \in Workers \cup Pair |-> IF t \in S THEN Queue!At("loop") ELSE pc[t]]
    BY <1>5 DEF Queue!Wake
  <2>3. S \subseteq Workers
    BY QueueSets
  <2> HIDE DEF S
  <2>4. /\ DOMAIN pc' = Workers \cup Pair /\ pc'[c] = Queue!At("join")
        /\ \A u \in Workers : pc'[u] = IF u \in S THEN Queue!At("loop") ELSE pc[u]
        /\ \A b \in Pair \ {c} : pc'[b] = pc[b]
    BY <1>2, <2>1, <2>2, <2>3, WorkersApart
  <2>5. pc'[c].at = "join"
    BY <2>4, QueuePlaces
  <2>6. QED
    BY <1>4, <2>1, <2>4, <2>5 DEF S
<1>8. QED
  BY <1>6, <1>7

\* Taking one task out leaves a queue of tasks.
LEMMA QueueTakes ==
  ASSUME NEW s \in Seq(Items), s # <<>>, NEW i \in DOMAIN s
  PROVE  Queue!Without(s, i) \in Seq(Items) /\ s[i] \in Items
<1>1. SubSeq(s, 1, i - 1) \in Seq(Items) /\ SubSeq(s, i + 1, Len(s)) \in Seq(Items)
  <2>1. i \in 1..Len(s) /\ Len(s) \in Nat
    OBVIOUS
  <2>2. \A j \in 1..(i - 1) : s[j] \in Items
    BY <2>1
  <2>3. \A j \in (i + 1)..Len(s) : s[j] \in Items
    BY <2>1
  <2>4. QED
    BY <2>1, <2>2, <2>3, SubSeqProperties
<1>2. QED
  BY <1>1 DEF Queue!Without

\* A worker between its waits: it looks for a task, takes one, or has run it.
LEMMA QueueWorkerStep ==
  ASSUME QueueInv, UNCHANGED part, NEW w \in Workers,
         \/ Queue!NoTask(w)
         \/ part # "ThreadPoolAdvanced" /\ \E i \in DOMAIN obj.tasks_ : Queue!TakeTask(w, i, 1)
         \/ part = "ThreadPoolAdvanced" /\ \E i \in DOMAIN obj.tasks_ : Queue!TakeTask(w, i, 0)
         \/ part = "ThreadPoolAdvanced" /\ Queue!FinishAdvanced(w)
  PROVE  QueueInv'
<1>1. /\ QueueTypes /\ QueueCounts
      /\ QueueWakeups(obj.tasks_, obj.shutdown_, obj.activeTasks_, Queue!In(Workers, "asleep"),
                      Queue!In(Pair, "notify"), Queue!In(Pair, "broadcast"), Queue!In(Pair, "waiting"))
  BY QueueWakeupsHere DEF QueueInv
<1>2. Pair' = Pair
  BY DEF Pair, Owner
<1>3. ASSUME NEW v, v.at \in WorkerPlaces, pc' = [pc EXCEPT ![w] = v], DOMAIN obj' = DOMAIN obj,
             obj'.tasks_ \in Seq(Items), obj'.shutdown_ = obj.shutdown_
      PROVE  /\ QueueTypes'
             /\ pc'[w] = v /\ \A u \in Workers \ {w} : pc'[u] = pc[u]
             /\ \A c \in Pair : pc'[c] = pc[c]
             /\ \A p : Queue!In(Pair, p)' = Queue!In(Pair, p)
             /\ \A p : v.at # p => Queue!In(Workers, p)' = Queue!In(Workers, p) \ {w}
             /\ \A p : v.at = p => Queue!In(Workers, p)' = Queue!In(Workers, p) \cup {w}
  <2>1. /\ DOMAIN pc' = Workers \cup Pair
        /\ pc'[w] = v
        /\ \A u \in Workers \ {w} : pc'[u] = pc[u]
        /\ \A c \in Pair : pc'[c] = pc[c]
        /\ \A p : Queue!In(Pair, p)' = Queue!In(Pair, p)
    BY <1>1, <1>3, WorkerMoves
  <2>2. \A u \in Workers : pc'[u].at \in WorkerPlaces
    BY <1>1, <1>3, <2>1 DEF QueueTypes
  <2>3. QueueTypes'
    BY <1>1, <1>2, <1>3, <2>1, <2>2 DEF QueueTypes, Workers
  <2>4. ASSUME NEW p, v.at # p
        PROVE  Queue!In(Workers, p)' = Queue!In(Workers, p) \ {w}
    BY <2>1, <2>4, QueueSets DEF Workers
  <2>5. \A p : v.at = p => Queue!In(Workers, p)' = Queue!In(Workers, p) \cup {w}
    BY <2>1, QueueSets DEF Workers
  <2>6. QED
    BY <2>1, <2>3, <2>4, <2>5
<1>4. \A p : p # pc[w].at => w \notin Queue!In(Workers, p)
  BY QueueSets
<1>5. CASE Queue!NoTask(w)
  <2> DEFINE v == Queue!At(IF obj.shutdown_ THEN "ended" ELSE "asleep")
  <2>1. pc[w].at = "loop" /\ obj.tasks_ = <<>> /\ pc' = [pc EXCEPT ![w] = v] /\ obj' = obj
    BY <1>5 DEF Queue!NoTask, Queue!Goto
  <2>2. v.at = IF obj.shutdown_ THEN "ended" ELSE "asleep"
    BY QueuePlaces
  <2> HIDE DEF v
  <2>3. v.at \in WorkerPlaces /\ v.at # "exec"
    BY <2>2 DEF WorkerPlaces
  <2>4. /\ QueueTypes' /\ \A c \in Pair : pc'[c] = pc[c]
        /\ \A p : Queue!In(Pair, p)' = Queue!In(Pair, p)
        /\ \A p : v.at # p => Queue!In(Workers, p)' = Queue!In(Workers, p) \ {w}
    BY <1>1, <1>3, <2>1, <2>3 DEF QueueTypes
  <2>5. Queue!In(Workers, "exec")' = Queue!In(Workers, "exec")
    <3>1. w \notin Queue!In(Workers, "exec")
      BY <1>4, <2>1
    <3>2. Queue!In(Workers, "exec")' = Queue!In(Workers, "exec") \ {w}
      BY <2>3, <2>4
    <3>3. QED
      BY <3>1, <3>2
  <2>6. QueueCounts'
    BY <1>1, <1>2, <2>1, <2>4, <2>5 DEF QueueCounts, Workers
  <2>7. obj.shutdown_ => Queue!In(Workers, "asleep")' = Queue!In(Workers, "asleep")
    BY <1>4, <2>1, <2>2, <2>4
  <2>8. Queue!NoLostWakeup'
    BY <1>1, <2>1, <2>4, <2>7, QueueWakeupsHere DEF QueueWakeups
  <2>9. QED
    BY <2>4, <2>6, <2>8 DEF QueueInv
<1>6. ASSUME NEW i \in DOMAIN obj.tasks_, NEW active \in {0, 1}, Queue!TakeTask(w, i, active),
             active = 0 <=> part = "ThreadPoolAdvanced"
      PROVE  QueueInv'
  <2> DEFINE v == Queue!Exec(obj.tasks_[i])
  <2>1. /\ pc[w].at = "loop" /\ obj.tasks_ # <<>> /\ pc' = [pc EXCEPT ![w] = v]
        /\ obj' = [obj EXCEPT !.tasks_ = Queue!Without(obj.tasks_, i), !.activeTasks_ = @ + active]
    BY <1>6 DEF Queue!TakeTask
  <2>2. v.at = "exec" /\ v.at \in WorkerPlaces
    BY QueuePlaces DEF WorkerPlaces
  <2> HIDE DEF v
  <2>3. Queue!Without(obj.tasks_, i) \in Seq(Items)
    BY <1>1, <2>1, QueueTakes DEF QueueTypes
  <2>4. /\ DOMAIN obj' = DOMAIN obj /\ obj'.tasks_ \in Seq(Items) /\ obj'.shutdown_ = obj.shutdown_
        /\ obj'.activeTasks_ = obj.activeTasks_ + active
    BY <1>1, <2>1, <2>3 DEF QueueTypes
  <2>5. /\ QueueTypes' /\ \A c \in Pair : pc'[c] = pc[c]
        /\ \A p : Queue!In(Pair, p)' = Queue!In(Pair, p)
        /\ \A p : v.at # p => Queue!In(Workers, p)' = Queue!In(Workers, p) \ {w}
        /\ \A p : v.at = p => Queue!In(Workers, p)' = Queue!In(Workers, p) \cup {w}
    <3>1. pc' = [pc EXCEPT ![w] = v]
      BY <2>1
    <3>2. /\ QueueTypes' /\ \A c \in Pair : pc'[c] = pc[c]
          /\ \A p : Queue!In(Pair, p)' = Queue!In(Pair, p)
          /\ \A p : v.at # p => Queue!In(Workers, p)' = Queue!In(Workers, p) \ {w}
      BY <1>3, <2>2, <2>4, <3>1
    <3>3. \A p : v.at = p => Queue!In(Workers, p)' = Queue!In(Workers, p) \cup {w}
      BY <1>3, <2>2, <2>4, <3>1
    <3>4. QED
      BY <3>2, <3>3
  <2>6. Queue!In(Workers, "exec")' = Queue!In(Workers, "exec") \cup {w} /\ w \notin Queue!In(Workers, "exec")
    BY <1>4, <2>1, <2>2, <2>5
  <2>7. /\ Cardinality(Queue!In(Workers, "exec")') = Cardinality(Queue!In(Workers, "exec")) + 1
        /\ Cardinality(Queue!In(Workers, "exec")) \in Nat
    BY <2>6, QueueSets, FS_AddElement, FS_CardinalityType
  <2>8. QueueCounts'
    <3>1. CASE part = "ThreadPoolAdvanced"
      BY <1>1, <1>2, <1>6, <2>4, <2>5, <3>1 DEF QueueCounts
    <3>2. CASE part # "ThreadPoolAdvanced"
      <4>1. active = 1 /\ obj.activeTasks_ = Cardinality(Queue!In(Workers, "exec"))
        BY <1>1, <1>6, <3>2 DEF QueueCounts
      <4>2. obj'.activeTasks_ = Cardinality(Queue!In(Workers, "exec")')
        BY <2>4, <2>7, <4>1
      <4>3. QED
        BY <3>2, <4>2 DEF QueueCounts, Workers
    <3>3. QED
      BY <3>1, <3>2
  <2>9. Queue!In(Pair, "waiting")' # {} => obj'.activeTasks_ # 0
    <3>1. CASE part = "ThreadPoolAdvanced"
      <4>1. Queue!In(Pair, "waiting") = {}
        BY <1>1, <3>1, QueueSets DEF QueueCounts
      <4>2. QED
        BY <2>5, <4>1
    <3>2. CASE part # "ThreadPoolAdvanced"
      <4>1. active = 1 /\ obj.activeTasks_ = Cardinality(Queue!In(Workers, "exec"))
        BY <1>1, <1>6, <3>2 DEF QueueCounts
      <4>2. QED
        BY <2>4, <2>7, <4>1
    <3>3. QED
      BY <3>1, <3>2
  <2>10. Queue!In(Workers, "asleep")' = Queue!In(Workers, "asleep") /\ w \notin Queue!In(Workers, "asleep")
    <3>1. w \notin Queue!In(Workers, "asleep")
      BY <1>4, <2>1
    <3>2. Queue!In(Workers, "asleep")' = Queue!In(Workers, "asleep") \ {w}
      BY <2>2, <2>5
    <3>3. QED
      BY <3>1, <3>2
  <2>11. Queue!NoLostWakeup'
    BY <1>1, <2>4, <2>5, <2>9, <2>10, QueueWakeupsHere DEF QueueWakeups
  <2>12. QED
    BY <2>5, <2>8, <2>11 DEF QueueInv
<1>7. CASE part = "ThreadPoolAdvanced" /\ Queue!FinishAdvanced(w)
  <2> DEFINE v == Queue!At("loop")
  <2>1. pc[w].at = "exec" /\ pc' = [pc EXCEPT ![w] = v] /\ obj' = obj
    BY <1>7 DEF Queue!FinishAdvanced, Queue!Goto
  <2>2. v.at = "loop" /\ v.at \in WorkerPlaces
    BY QueuePlaces DEF WorkerPlaces
  <2> HIDE DEF v
  <2>3. /\ QueueTypes' /\ \A c \in Pair : pc'[c] = pc[c]
        /\ \A p : Queue!In(Pair, p)' = Queue!In(Pair, p)
        /\ \A p : v.at # p => Queue!In(Workers, p)' = Queue!In(Workers, p) \ {w}
    BY <1>1, <1>3, <2>1, <2>2 DEF QueueTypes
  <2>4. QueueCounts'
    BY <1>1, <1>2, <1>7, <2>1, <2>3 DEF QueueCounts
  <2>5. Queue!In(Workers, "asleep")' = Queue!In(Workers, "asleep")
    BY <1>4, <2>1, <2>2, <2>3
  <2>6. Queue!NoLostWakeup'
    BY <1>1, <2>1, <2>3, <2>5, QueueWakeupsHere DEF QueueWakeups
  <2>7. QED
    BY <2>3, <2>4, <2>6 DEF QueueInv
<1>8. QED
  BY <1>5, <1>6, <1>7

\* The last task to finish wakes the callers that wait for all.
LEMMA QueueFinishStep ==
  ASSUME QueueInv, UNCHANGED part, part # "ThreadPoolAdvanced", NEW w \in Workers, Queue!Finish(w)
  PROVE  QueueInv'
<1>1. /\ QueueTypes /\ QueueCounts
      /\ QueueWakeups(obj.tasks_, obj.shutdown_, obj.activeTasks_, Queue!In(Workers, "asleep"),
                      Queue!In(Pair, "notify"), Queue!In(Pair, "broadcast"), Queue!In(Pair, "waiting"))
  BY QueueWakeupsHere DEF QueueInv
<1>2. Pair' = Pair /\ DOMAIN pc = Workers \cup Pair
  BY <1>1 DEF Pair, Owner, QueueTypes
<1>3. /\ DOMAIN obj' = DOMAIN obj /\ obj'.tasks_ = obj.tasks_ /\ obj'.shutdown_ = obj.shutdown_
      /\ obj'.activeTasks_ = obj.activeTasks_ - 1
  BY <1>1 DEF Queue!Finish, QueueTypes
<1>4. pc[w].at = "exec" /\ DOMAIN pc' = Workers \cup Pair
  BY <1>2 DEF Queue!Finish
<1>5. \A u \in Workers : pc[u].at # "waiting"
  BY <1>1 DEF QueueTypes, WorkerPlaces
<1>6. pc'[w].at = "loop" /\ \A u \in Workers \ {w} : pc'[u] = pc[u]
  BY <1>2, <1>5, QueuePlaces DEF Queue!Finish
<1>7. \A c \in Pair : pc'[c] = IF pc[c].at = "waiting" /\ obj.activeTasks_ = 1 /\ obj.tasks_ = <<>>
                                THEN Queue!At("awake") ELSE pc[c]
  BY <1>2, WorkersApart DEF Queue!Finish
<1>8. QueueTypes'
  <2>1. \A u \in Workers : pc'[u].at \in WorkerPlaces
    BY <1>1, <1>6 DEF QueueTypes, WorkerPlaces
  <2>2. \A c \in Pair : pc'[c].at \in CallerPlaces
    BY <1>1, <1>7, QueuePlaces DEF QueueTypes, CallerPlaces
  <2>3. QED
    BY <1>1, <1>2, <1>3, <1>4, <2>1, <2>2 DEF QueueTypes, Workers
<1>9. w \in Queue!In(Workers, "exec") /\ Queue!In(Workers, "exec")' = Queue!In(Workers, "exec") \ {w}
  BY <1>4, <1>6, QueueSets DEF Workers
<1>10. /\ Cardinality(Queue!In(Workers, "exec")') = Cardinality(Queue!In(Workers, "exec")) - 1
       /\ Cardinality(Queue!In(Workers, "exec")) \in Nat
  BY <1>9, QueueSets, FS_RemoveElement, FS_CardinalityType
<1>11. obj.activeTasks_ = Cardinality(Queue!In(Workers, "exec"))
  BY <1>1 DEF QueueCounts
<1>12. QueueCounts'
  <2>1. obj'.activeTasks_ = Cardinality(Queue!In(Workers, "exec")')
    BY <1>3, <1>10, <1>11
  <2>2. QED
    BY <2>1 DEF QueueCounts, Workers
<1>13. Queue!In(Pair, "waiting")' # {} => Queue!In(Pair, "waiting") # {} /\ ~(obj.activeTasks_ = 1 /\ obj.tasks_ = <<>>)
  <2>1. \A c \in Pair : pc'[c].at = "waiting" => pc[c].at = "waiting" /\ ~(obj.activeTasks_ = 1 /\ obj.tasks_ = <<>>)
    BY <1>7, QueuePlaces
  <2>2. QED
    BY <1>2, <2>1, QueueSets
<1>14. Queue!In(Workers, "asleep")' = Queue!In(Workers, "asleep") /\ w \notin Queue!In(Workers, "asleep")
  BY <1>4, <1>6, QueueSets DEF Workers
<1>15. /\ Queue!In(Pair, "notify")' = Queue!In(Pair, "notify")
       /\ Queue!In(Pair, "broadcast")' = Queue!In(Pair, "broadcast")
  <2>1. \A c \in Pair : /\ pc'[c].at = "notify" <=> pc[c].at = "notify"
                        /\ pc'[c].at = "broadcast" <=> pc[c].at = "broadcast"
    <3> SUFFICES ASSUME NEW c \in Pair
                 PROVE  /\ pc'[c].at = "notify" <=> pc[c].at = "notify"
                        /\ pc'[c].at = "broadcast" <=> pc[c].at = "broadcast"
      OBVIOUS
    <3>1. CASE pc'[c] = pc[c]
      BY <3>1
    <3>2. CASE pc[c].at = "waiting" /\ pc'[c].at = "awake"
      BY <3>2
    <3>3. QED
      BY <1>7, <3>1, <3>2, QueuePlaces
  <2>2. QED
    <3>1. ASSUME NEW p \in {"notify", "broadcast"}
          PROVE  Queue!In(Pair, p)' = Queue!In(Pair, p)
      <4>1. \A c \in Pair : pc'[c].at = p <=> pc[c].at = p
        BY <2>1
      <4>2. QED
        BY <1>2, <4>1, QueueSets
    <3>2. QED
      BY <3>1
<1>16. ~(obj.activeTasks_ = 1 /\ obj.tasks_ = <<>>) => ~(obj'.activeTasks_ = 0 /\ obj'.tasks_ = <<>>)
  BY <1>3, <1>10, <1>11
<1>17. Queue!NoLostWakeup'
  BY <1>1, <1>3, <1>13, <1>14, <1>15, <1>16, QueueWakeupsHere DEF QueueWakeups
<1>18. QED
  BY <1>8, <1>12, <1>17 DEF QueueInv

\* A worker or a waiting caller that wakes for nothing keeps the invariant.
LEMMA QueueSpuriousStep ==
  ASSUME QueueInv, UNCHANGED part, Queue!SpuriousWakeup
  PROVE  QueueInv'
<1>1. /\ QueueTypes /\ QueueCounts
      /\ QueueWakeups(obj.tasks_, obj.shutdown_, obj.activeTasks_, Queue!In(Workers, "asleep"),
                      Queue!In(Pair, "notify"), Queue!In(Pair, "broadcast"), Queue!In(Pair, "waiting"))
  BY QueueWakeupsHere DEF QueueInv
<1>2. PICK t \in DOMAIN pc : /\ pc[t].at \in {"asleep", "waiting"}
                             /\ Queue!Goto(t, IF t \in Workers THEN "loop" ELSE "awake")
  BY DEF Queue!SpuriousWakeup, Workers
<1>3. obj' = obj /\ Pair' = Pair /\ t \in Workers \cup Pair
  BY <1>1, <1>2 DEF Queue!SpuriousWakeup, Pair, Owner, QueueTypes
<1>4. CASE t \in Workers
  <2> DEFINE v == Queue!At("loop")
  <2>1. pc[t].at = "asleep" /\ pc' = [pc EXCEPT ![t] = v]
    BY <1>1, <1>2, <1>4 DEF Queue!Goto, QueueTypes, WorkerPlaces
  <2>2. v.at = "loop"
    BY QueuePlaces
  <2> HIDE DEF v
  <2>3. /\ DOMAIN pc' = Workers \cup Pair
        /\ pc'[t] = v
        /\ \A u \in Workers \ {t} : pc'[u] = pc[u]
        /\ \A c \in Pair : pc'[c] = pc[c]
        /\ \A p : Queue!In(Pair, p)' = Queue!In(Pair, p)
    BY <1>1, <1>4, <2>1, WorkerMoves
  <2>4. QueueTypes'
    BY <1>1, <1>3, <2>2, <2>3 DEF QueueTypes, Workers, WorkerPlaces
  <2>5. Queue!In(Workers, "exec")' = Queue!In(Workers, "exec")
    <3>1. \A u \in Workers : pc'[u].at = "exec" <=> pc[u].at = "exec"
      BY <2>1, <2>2, <2>3
    <3>2. QED
      BY <3>1, QueueSets DEF Workers
  <2>6. QueueCounts'
    BY <1>1, <1>3, <2>3, <2>5 DEF QueueCounts, Workers
  <2>7. /\ Queue!In(Workers, "asleep")' = Queue!In(Workers, "asleep") \ {t}
        /\ Queue!In(Workers, "asleep") \subseteq Workers
    <3>1. \A u \in Workers : pc'[u].at = "asleep" <=> pc[u].at = "asleep" /\ u # t
      BY <2>1, <2>2, <2>3
    <3>2. QED
      BY <3>1, QueueSets DEF Workers
  <2>8. Queue!In(Workers, "asleep")' # Workers
    BY <1>4, <2>7
  <2>9. Queue!NoLostWakeup'
    BY <1>1, <1>3, <2>3, <2>7, <2>8, QueueWakeupsHere DEF QueueWakeups
  <2>10. QED
    BY <2>4, <2>6, <2>9 DEF QueueInv
<1>5. CASE t \notin Workers
  <2>1. t \in Pair /\ pc[t].at = "waiting" /\ Queue!Goto(t, "awake")
    BY <1>1, <1>2, <1>3, <1>5 DEF QueueTypes, CallerPlaces
  <2>2. part # "ThreadPoolAdvanced"
    BY <1>1, <2>1 DEF QueueCounts
  <2>3. /\ DOMAIN pc' = Workers \cup Pair
        /\ \A w \in Workers : pc'[w] = pc[w]
        /\ pc'[t].at = "awake"
        /\ \A b \in Pair \ {t} : pc'[b] = pc[b]
        /\ \A p : Queue!In(Workers, p)' = Queue!In(Workers, p)
    BY <1>1, <2>1, CallerMoves DEF CallerPlaces
  <2>4. QueueTypes'
    <3>1. \A w \in Workers : pc'[w].at \in WorkerPlaces
      BY <1>1, <2>3 DEF QueueTypes
    <3>2. \A b \in Pair : pc'[b].at \in CallerPlaces
      BY <1>1, <2>3 DEF QueueTypes, CallerPlaces
    <3>3. QED
      BY <1>1, <1>3, <2>3, <3>1, <3>2 DEF QueueTypes, Workers
  <2>5. QueueCounts'
    BY <1>1, <1>3, <2>2, <2>3 DEF QueueCounts, Workers
  <2>6. ASSUME NEW p, p # "awake", p # "waiting"
        PROVE  Queue!In(Pair, p)' = Queue!In(Pair, p)
    <3>1. \A b \in Pair : pc'[b].at = p <=> pc[b].at = p
      BY <2>1, <2>3, <2>6
    <3>2. QED
      BY <1>3, <3>1, QueueSets
  <2>7. Queue!In(Pair, "waiting")' \subseteq Queue!In(Pair, "waiting")
    <3>1. \A b \in Pair : pc'[b].at = "waiting" => pc[b].at = "waiting"
      BY <2>1, <2>3
    <3>2. QED
      BY <1>3, <3>1, QueueSets
  <2>8. /\ Queue!In(Pair, "notify")' = Queue!In(Pair, "notify")
        /\ Queue!In(Pair, "broadcast")' = Queue!In(Pair, "broadcast")
    BY <2>6
  <2>9. Queue!NoLostWakeup'
    BY <1>1, <1>3, <2>3, <2>7, <2>8, QueueWakeupsHere DEF QueueWakeups
  <2>10. QED
    BY <2>4, <2>5, <2>9 DEF QueueInv
<1>6. QED
  BY <1>4, <1>5

\* Every step of each of the three queues keeps the invariant.
LEMMA QueueStep ==
  ASSUME QueueInv, UNCHANGED part,
         \/ part = "CommandQueue" /\ Queue!NextV1
         \/ part = "CommandQueueV2" /\ Queue!NextV2
         \/ part = "ThreadPoolAdvanced" /\ Queue!NextAdvanced
  PROVE  QueueInv'
<1>1. obj.tasks_ \in Seq(Items)
  BY DEF QueueInv, QueueTypes
<1>2. obj.tasks_ # <<>> => 1 \in DOMAIN obj.tasks_
  BY <1>1
<1>3. CASE part = "CommandQueue" /\ Queue!NextV1
  <2>1. ASSUME NEW c \in Pair, Queue!Calls(c) \/ Queue!Serve(c) \/ Queue!WaitForAll(c)
        PROVE  QueueInv'
    BY <1>3, <2>1, QueueCallerStep, QueueNotifyStep DEF Queue!Serve
  <2>2. ASSUME NEW w \in Workers, Queue!WorkV1(w)
        PROVE  QueueInv'
    <3>1. CASE Queue!NoTask(w)
      BY <3>1, QueueWorkerStep
    <3>2. CASE Queue!workerLoop(w)
      BY <1>2, <1>3, <3>2, QueueWorkerStep DEF Queue!workerLoop, Queue!Front
    <3>3. CASE Queue!Finish(w)
      BY <1>3, <3>3, QueueFinishStep
    <3>4. QED
      BY <2>2, <3>1, <3>2, <3>3 DEF Queue!WorkV1
  <2>3. QED
    BY <1>3, <2>1, <2>2, QueueSpuriousStep DEF Queue!NextV1, Workers
<1>4. CASE part = "CommandQueueV2" /\ Queue!NextV2
  <2>1. ASSUME NEW c \in Pair, Queue!Calls(c) \/ Queue!Serve(c) \/ Queue!WaitForAll(c)
        PROVE  QueueInv'
    BY <1>4, <2>1, QueueCallerStep, QueueNotifyStep DEF Queue!Serve
  <2>2. ASSUME NEW w \in Workers, Queue!WorkV2(w)
        PROVE  QueueInv'
    <3>1. CASE Queue!NoTask(w)
      BY <3>1, QueueWorkerStep
    <3>2. CASE Queue!workerLoopV2(w)
      BY <1>4, <3>2, QueueWorkerStep DEF Queue!workerLoopV2, Queue!Top
    <3>3. CASE Queue!Finish(w)
      BY <1>4, <3>3, QueueFinishStep
    <3>4. QED
      BY <2>2, <3>1, <3>2, <3>3 DEF Queue!WorkV2
  <2>3. QED
    BY <1>4, <2>1, <2>2, QueueSpuriousStep DEF Queue!NextV2, Workers
<1>5. CASE part = "ThreadPoolAdvanced" /\ Queue!NextAdvanced
  <2>1. ASSUME NEW c \in Pair, Queue!Calls(c) \/ Queue!Serve(c)
        PROVE  QueueInv'
    BY <1>5, <2>1, QueueCallerStep, QueueNotifyStep DEF Queue!Serve
  <2>2. ASSUME NEW w \in Workers, Queue!WorkAdvanced(w)
        PROVE  QueueInv'
    <3>1. CASE Queue!NoTask(w)
      BY <3>1, QueueWorkerStep
    <3>2. CASE Queue!workerLoopAdvanced(w)
      BY <1>2, <1>5, <3>2, QueueWorkerStep DEF Queue!workerLoopAdvanced
    <3>3. CASE Queue!FinishAdvanced(w)
      BY <1>5, <3>3, QueueWorkerStep
    <3>4. QED
      BY <2>2, <3>1, <3>2, <3>3 DEF Queue!WorkAdvanced
  <2>3. QED
    BY <1>5, <2>1, <2>2, QueueSpuriousStep DEF Queue!NextAdvanced, Workers
<1>6. QED
  BY <1>3, <1>4, <1>5
-----------------------------------------------------------------------------
(***************************************************************************)
(* All of them together: part says which invariant is meant.               *)
(***************************************************************************)
WakeupInv ==
  /\ part \in BoundedParts => BlockingInv
  /\ part = "RingBuffer" => RingInv
  /\ part = "ProducerConsumerDemo" => DemoInv
  /\ part = "ConnectionPool" => PoolInv
  /\ part = "Mailbox" => MailInv
  /\ part \in QueueParts => QueueInv

\* Each part starts in its own invariant.
LEMMA WakeupInitInv == Init => WakeupInv
<1> SUFFICES ASSUME Init PROVE WakeupInv
  OBVIOUS
<1>1. CASE part \in BoundedParts
  <2>1. Blocking!Init
    BY <1>1 DEF Init, BoundedParts, QueueParts
  <2>2. QED
    BY <1>1, <2>1, BlockingInitInv DEF WakeupInv, BoundedParts, QueueParts
<1>2. CASE part = "RingBuffer"
  BY <1>2, RingInitInv DEF Init, WakeupInv, BoundedParts, QueueParts
<1>3. CASE part = "ProducerConsumerDemo"
  BY <1>3, DemoInitInv DEF Init, WakeupInv, BoundedParts, QueueParts
<1>4. CASE part = "ConnectionPool"
  BY <1>4, PoolInitInv DEF Init, WakeupInv, BoundedParts, QueueParts
<1>5. CASE part = "Mailbox"
  BY <1>5, MailInitInv DEF Init, WakeupInv, BoundedParts, QueueParts
<1>6. CASE part \in QueueParts
  <2>1. Queue!Init
    BY <1>6 DEF Init, BoundedParts, QueueParts
  <2>2. QED
    BY <1>6, <2>1, QueueInitInv DEF WakeupInv, BoundedParts, QueueParts
<1>7. QED
  BY <1>1, <1>2, <1>3, <1>4, <1>5, <1>6 DEF WakeupInv

\* A step of a part keeps the invariant of that part.
LEMMA WakeupStep == WakeupInv /\ [Next]_vars => WakeupInv'
<1> SUFFICES ASSUME WakeupInv, [Next]_vars PROVE WakeupInv'
  OBVIOUS
<1>1. part' = part
  BY DEF Next, Untimed, Timed, vars
<1>2. CASE UNCHANGED vars
  <2>1. obj' = obj /\ pc' = pc /\ log' = log
    BY <1>2 DEF vars
  <2>2. BlockingInv => BlockingInv'
    BY <2>1 DEF BlockingInv, Blocking!Asleep, Blocking!Awake, Blocking!On
  <2>3. RingInv => RingInv'
    BY <2>1 DEF RingInv, RingFields, Pair, Owner
  <2>4. DemoInv => DemoInv'
    BY <2>1 DEF DemoInv, RingFields, DemoThreads, Pair, Owner
  <2>5. PoolInv => PoolInv'
    BY <2>1 DEF PoolInv, PoolTypes, PoolWaiting
  <2>6. MailInv => MailInv'
    BY <2>1 DEF MailInv, Actor!NoLostWakeup
  <2>7. QueueInv => QueueInv'
    BY <1>1, <2>1 DEF QueueInv, QueueTypes, QueueCounts, Queue!NoLostWakeup, Queue!In, Queue!AllDone,
                      Workers, Pair, Owner
  <2>8. QED
    BY <1>1, <2>2, <2>3, <2>4, <2>5, <2>6, <2>7 DEF WakeupInv
<1>3. CASE Next
  <2>1. part \in BoundedParts => Blocking!Next \/ Blocking!BoundedNext
    BY <1>3 DEF Next, Untimed, Timed, BoundedParts
  <2>2. part = "RingBuffer" => Ring!Next
    BY <1>3 DEF Next, Untimed, Timed
  <2>3. part = "ProducerConsumerDemo" => Demo!Next
    BY <1>3 DEF Next, Untimed, Timed
  <2>4. part = "ConnectionPool" => Pool!Next
    BY <1>3 DEF Next, Untimed, Timed
  <2>5. part = "Mailbox" => Actor!Next
    BY <1>3 DEF Next, Untimed, Timed
  <2>6. part \in QueueParts =>
          \/ part = "CommandQueue" /\ Queue!NextV1
          \/ part = "CommandQueueV2" /\ Queue!NextV2
          \/ part = "ThreadPoolAdvanced" /\ Queue!NextAdvanced
    <3>1. part = "CommandQueue" => Queue!NextV1
      BY <1>3 DEF Next, Untimed, Timed
    <3>2. part = "CommandQueueV2" => Queue!NextV2
      BY <1>3 DEF Next, Untimed, Timed
    <3>3. part = "ThreadPoolAdvanced" => Queue!NextAdvanced
      BY <1>3 DEF Next, Untimed, Timed
    <3>4. QED
      BY <3>1, <3>2, <3>3 DEF QueueParts
  <2>7. part \in BoundedParts => BlockingInv'
    BY <2>1, BlockingStep DEF WakeupInv
  <2>8. part = "RingBuffer" => RingInv'
    BY <2>2, RingStep DEF WakeupInv
  <2>9. part = "ProducerConsumerDemo" => DemoInv'
    BY <2>3, DemoStep DEF WakeupInv
  <2>10. part = "ConnectionPool" => PoolInv'
    BY <2>4, PoolStep DEF WakeupInv
  <2>11. part = "Mailbox" => MailInv'
    BY <2>5, MailStep DEF WakeupInv
  <2>12. part \in QueueParts => QueueInv'
    BY <1>1, <2>6, QueueStep DEF WakeupInv
  <2>13. QED
    BY <1>1, <2>7, <2>8, <2>9, <2>10, <2>11, <2>12 DEF WakeupInv, BoundedParts, QueueParts
<1>4. QED
  BY <1>2, <1>3

\* The invariants of the parts make up the property.
LEMMA WakeupMeans == WakeupInv => NoLostWakeup
<1> SUFFICES ASSUME WakeupInv PROVE NoLostWakeup
  OBVIOUS
<1>1. part \in BoundedParts => Blocking!NoLostWakeup
  BY BlockingWakeups DEF WakeupInv
<1>2. part = "RingBuffer" => Ring!NoLostWakeup
  BY RingWakeups DEF WakeupInv
<1>3. part = "ProducerConsumerDemo" => Demo!Ring!NoLostWakeup
  BY DemoWakeups DEF WakeupInv
<1>4. part = "ConnectionPool" => Pool!NoLostWakeup
  BY PoolWakeups DEF WakeupInv
<1>5. part = "Mailbox" => Actor!NoLostWakeup
  BY DEF WakeupInv, MailInv
<1>6. part \in QueueParts => Queue!NoLostWakeup
  BY DEF WakeupInv, QueueInv
<1>7. QED
  BY <1>1, <1>2, <1>3, <1>4, <1>5, <1>6, Zenon DEF NoLostWakeup, BoundedParts, QueueParts

\* No notification is lost, nor spent on a thread that cannot use it, in any of
\* the blocking queues, ring buffers, pools and mailboxes, for every number of
\* threads and every capacity (of the queues with workers: two of them).
THEOREM WakeupsCorrect == Spec => []NoLostWakeup
<1>1. Spec => []WakeupInv
  BY WakeupInitInv, WakeupStep, PTL DEF Spec
<1>2. QED
  BY <1>1, WakeupMeans, PTL
-----------------------------------------------------------------------------
(***************************************************************************)
(* ThreadSafeMap: nothing is inserted or erased while keys() is under way, *)
(* and keys() takes the least of the keys that are left.                   *)
(***************************************************************************)
KeyReads == [at : {"keys"}, result : SUBSET Keys]

MapInv ==
  /\ DOMAIN obj = {"data_"} /\ DOMAIN obj.data_ \subseteq Keys
  /\ pc \in [Threads -> {Shared!Idle} \cup KeyReads]
  /\ Shared!KeysAreSnapshot

Snapshot(result, keys) == result \subseteq keys /\ \A j \in result, k \in keys : k < j => k \in result

\* keys() in terms of the state it is compared with.
LEMMA MapReads ==
  /\ Shared!Idle.at = "idle"
  /\ \A v \in KeyReads : v.at = "keys" /\ v.result \subseteq Keys /\ v # Shared!Idle
  /\ Shared!KeysAreSnapshot <=>
       \A t \in Threads : pc[t].at = "keys" => Snapshot(pc[t].result, DOMAIN obj.data_)
  /\ Shared!KeysAreSnapshot' <=>
       \A t \in Threads : pc'[t].at = "keys" => Snapshot(pc'[t].result, DOMAIN obj'.data_)
<1>1. Shared!Idle.at = "idle"
  BY DEF Shared!Idle
<1>2. \A v \in KeyReads : v.at = "keys" /\ v.result \subseteq Keys
  BY DEF KeyReads
<1>3. \A v \in KeyReads : v # Shared!Idle
  BY <1>1, <1>2
<1>4. /\ Shared!KeysAreSnapshot <=>
           \A t \in Threads : pc[t].at = "keys" => Snapshot(pc[t].result, DOMAIN obj.data_)
      /\ Shared!KeysAreSnapshot' <=>
           \A t \in Threads : pc'[t].at = "keys" => Snapshot(pc'[t].result, DOMAIN obj'.data_)
  BY DEF Shared!KeysAreSnapshot, Shared!On, Snapshot
<1>5. QED
  BY <1>1, <1>2, <1>3, <1>4

\* The least key left makes the prefix longer by one.
LEMMA SnapshotGrows ==
  ASSUME NEW keys \in SUBSET Nat, NEW result, Snapshot(result, keys),
         NEW k \in keys, \A j \in result : j < k,
         \A i \in keys : (\A j \in result : j < i) => k <= i
  PROVE  Snapshot(result \cup {k}, keys)
<1>1. result \subseteq keys
  BY DEF Snapshot
<1>2. ASSUME NEW j \in result \cup {k}, NEW i \in keys, i < j
      PROVE  i \in result \cup {k}
  <2>1. CASE j \in result
    BY <1>2, <2>1 DEF Snapshot
  <2>2. CASE j = k
    <3>1. ~(k <= i)
      BY <1>2, <2>2
    <3>2. PICK h \in result : ~(h < i)
      BY <3>1
    <3>3. i = h \/ i < h
      BY <1>1, <3>2
    <3>4. QED
      BY <3>3 DEF Snapshot
  <2>3. QED
    BY <2>1, <2>2
<1>3. QED
  BY <1>1, <1>2 DEF Snapshot

\* Every step of the map keeps the invariant: a writer has the lock for
\* itself.
LEMMA MapStep ==
  ASSUME MapInv, Shared!MapNext
  PROVE  MapInv'
<1>1. /\ DOMAIN obj = {"data_"} /\ DOMAIN obj.data_ \subseteq Keys
      /\ pc \in [Threads -> {Shared!Idle} \cup KeyReads]
      /\ \A t \in Threads : pc[t].at = "keys" => Snapshot(pc[t].result, DOMAIN obj.data_)
  BY MapReads DEF MapInv
<1>2. PICK t \in Threads : \/ \E k \in Keys : (\E v \in Values : Shared!MapInsert(t, k, v)) \/ Shared!MapErase(t, k)
                          \/ Shared!MapKeys(t) \/ Shared!MapKeysNext(t)
  BY DEF Shared!MapNext
<1>3. ASSUME NEW k \in Keys, NEW v \in Values, Shared!MapInsert(t, k, v)
      PROVE  MapInv'
  <2>1. /\ DOMAIN obj' = {"data_"} /\ DOMAIN obj'.data_ = DOMAIN obj.data_ \cup {k}
        /\ pc' = pc /\ \A u \in Threads : pc[u].at # "keys"
    BY <1>1, <1>3 DEF Shared!MapInsert, Shared!Exclusive, Shared!On
  <2>2. QED
    BY <1>1, <2>1, MapReads DEF MapInv
<1>4. ASSUME NEW k \in Keys, Shared!MapErase(t, k)
      PROVE  MapInv'
  <2>1. /\ DOMAIN obj' = {"data_"} /\ DOMAIN obj'.data_ = DOMAIN obj.data_ \ {k}
        /\ pc' = pc /\ \A u \in Threads : pc[u].at # "keys"
    BY <1>1, <1>4 DEF Shared!MapErase, Shared!Exclusive, Shared!On
  <2>2. QED
    BY <1>1, <2>1, MapReads DEF MapInv
<1>5. ASSUME NEW v \in {Shared!Idle} \cup KeyReads, Shared!Goto(t, v), obj' = obj,
             v.at = "keys" => Snapshot(v.result, DOMAIN obj.data_)
      PROVE  MapInv'
  <2>1. pc' \in [Threads -> {Shared!Idle} \cup KeyReads] /\ pc'[t] = v /\ \A u \in Threads \ {t} : pc'[u] = pc[u]
    BY <1>1, <1>5 DEF Shared!Goto
  <2>2. \A u \in Threads : pc'[u].at = "keys" => Snapshot(pc'[u].result, DOMAIN obj'.data_)
    BY <1>1, <1>5, <2>1
  <2>3. QED
    BY <1>1, <1>5, <2>1, <2>2, MapReads DEF MapInv
<1>6. CASE Shared!MapKeys(t)
  <2> DEFINE v == [at |-> "keys", result |-> {}]
  <2>1. v \in KeyReads /\ v.result = {}
    BY DEF KeyReads
  <2>2. Snapshot(v.result, DOMAIN obj.data_)
    BY DEF Snapshot
  <2>3. Shared!Goto(t, v) /\ obj' = obj
    BY <1>6 DEF Shared!MapKeys
  <2> HIDE DEF v
  <2>4. QED
    BY <1>5, <2>1, <2>2, <2>3
<1>7. CASE Shared!MapKeysNext(t)
  <2> DEFINE left == {k \in DOMAIN obj.data_ : \A j \in pc[t].result : j < k}
  <2>1. pc[t].at = "keys" /\ obj' = obj
    BY <1>7 DEF Shared!MapKeysNext, Shared!On
  <2>2. pc[t] \in KeyReads /\ Snapshot(pc[t].result, DOMAIN obj.data_)
    BY <1>1, <2>1, MapReads
  <2>3. CASE Shared!Goto(t, Shared!Idle)
    BY <1>5, <2>1, <2>3, MapReads
  <2>4. ASSUME NEW k \in left, \A j \in left : k <= j,
               Shared!Goto(t, [pc[t] EXCEPT !.result = @ \cup {k}])
        PROVE  MapInv'
    <3> DEFINE v == [pc[t] EXCEPT !.result = @ \cup {k}]
    <3>1. v \in KeyReads /\ v.result = pc[t].result \cup {k}
      BY <1>1, <2>2 DEF KeyReads
    <3>2. DOMAIN obj.data_ \in SUBSET Nat
      BY <1>1, KeysAssumption
    <3>3. Snapshot(pc[t].result \cup {k}, DOMAIN obj.data_)
      BY <2>2, <2>4, <3>2, SnapshotGrows
    <3>4. Shared!Goto(t, v)
      BY <2>4
    <3> HIDE DEF v
    <3>5. QED
      BY <1>5, <2>1, <3>1, <3>3, <3>4
  <2>5. QED
    BY <1>7, <2>3, <2>4 DEF Shared!MapKeysNext
<1>8. QED
  BY <1>2, <1>3, <1>4, <1>6, <1>7

\* The empty map satisfies the invariant.
LEMMA MapInitInv ==
  ASSUME Shared!MapInit
  PROVE  MapInv
<1>1. obj = [data_ |-> [k \in {} |-> 0]] /\ pc = [t \in Threads |-> Shared!Idle]
  BY DEF Shared!MapInit, Shared!Start
<1>2. QED
  BY <1>1, MapReads DEF MapInv
-----------------------------------------------------------------------------
(***************************************************************************)
(* DoubleBuffer: the buffers are not swapped while read() is under way,    *)
(* and only the back buffer is written to.                                 *)
(***************************************************************************)
Frames == [1..Size -> Values \cup {0}]
FrameWrites == [at : {"write"}, i : Nat, data : Values]
FrameReads == [at : {"read"}, copy : Seq(Values \cup {0})]

CopyOf(copy, frame) == Len(copy) <= Size /\ \A i \in 1..Len(copy) : copy[i] = frame[i]

DoubleInv ==
  /\ obj \in [front_ : Frames, back_ : Frames]
  /\ pc \in [Threads -> {Shared!Idle} \cup FrameWrites \cup FrameReads]
  /\ \A t \in Threads : pc[t].at = "read" => CopyOf(pc[t].copy, obj.front_)

\* What the records of a writing and of a reading thread look like.
LEMMA FramePlaces ==
  /\ Shared!Idle.at = "idle"
  /\ \A v \in FrameWrites : v.at = "write" /\ v.i \in Nat /\ v.data \in Values
  /\ \A v \in FrameReads : v.at = "read" /\ v.copy \in Seq(Values \cup {0})
BY DEF Shared!Idle, FrameWrites, FrameReads

\* Every step of the double buffer keeps the invariant.
LEMMA DoubleStep ==
  ASSUME DoubleInv, Shared!DoubleNext
  PROVE  DoubleInv'
<1>1. /\ obj \in [front_ : Frames, back_ : Frames]
      /\ pc \in [Threads -> {Shared!Idle} \cup FrameWrites \cup FrameReads]
      /\ \A t \in Threads : pc[t].at = "read" => CopyOf(pc[t].copy, obj.front_)
      /\ Size \in Nat
  BY SizesAssumption DEF DoubleInv
<1>2. PICK t \in Threads :
        \/ \E v \in Values : Shared!DoubleWrite(t, v) \/ \E i \in 1..Size : Shared!DoubleSetBack(t, i, v)
        \/ Shared!DoubleWriteNext(t) \/ Shared!DoubleRead(t) \/ Shared!DoubleReadNext(t) \/ Shared!DoubleSwap(t)
  BY DEF Shared!DoubleNext
<1>3. ASSUME NEW v \in {Shared!Idle} \cup FrameWrites \cup FrameReads, Shared!Goto(t, v),
             obj' \in [front_ : Frames, back_ : Frames], obj'.front_ = obj.front_,
             v.at = "read" => CopyOf(v.copy, obj.front_)
      PROVE  DoubleInv'
  <2>1. pc' \in [Threads -> {Shared!Idle} \cup FrameWrites \cup FrameReads]
    BY <1>1, <1>3 DEF Shared!Goto
  <2>2. pc'[t] = v /\ \A u \in Threads \ {t} : pc'[u] = pc[u]
    BY <1>1, <1>3 DEF Shared!Goto
  <2>3. QED
    BY <1>1, <1>3, <2>1, <2>2 DEF DoubleInv
<1>4. ASSUME NEW v \in Values, Shared!DoubleWrite(t, v)
      PROVE  DoubleInv'
  <2> DEFINE w == [at |-> "write", i |-> 1, data |-> v]
  <2>1. w \in FrameWrites
    BY DEF FrameWrites
  <2>2. Shared!Goto(t, w) /\ obj' = obj
    BY <1>4 DEF Shared!DoubleWrite
  <2> HIDE DEF w
  <2>3. QED
    BY <1>1, <1>3, <2>1, <2>2, FramePlaces
<1>5. ASSUME NEW i \in 1..Size, NEW v \in Values, obj' = [obj EXCEPT !.back_[i] = v]
      PROVE  obj' \in [front_ : Frames, back_ : Frames] /\ obj'.front_ = obj.front_
  <2>1. [obj.back_ EXCEPT ![i] = v] \in Frames
    BY <1>1, <1>5 DEF Frames
  <2>2. QED
    BY <1>1, <1>5, <2>1
<1>6. ASSUME NEW v \in Values, NEW i \in 1..Size, Shared!DoubleSetBack(t, i, v)
      PROVE  DoubleInv'
  <2>1. pc' = pc /\ obj' = [obj EXCEPT !.back_[i] = v]
    BY <1>6 DEF Shared!DoubleSetBack
  <2>2. obj' \in [front_ : Frames, back_ : Frames] /\ obj'.front_ = obj.front_
    BY <1>5, <2>1
  <2>3. QED
    BY <1>1, <2>1, <2>2 DEF DoubleInv
<1>7. CASE Shared!DoubleWriteNext(t)
  <2>1. pc[t].at = "write"
    BY <1>7 DEF Shared!DoubleWriteNext, Shared!On
  <2>2. pc[t] \in FrameWrites /\ pc[t].i \in Nat /\ pc[t].data \in Values
    BY <1>1, <2>1, FramePlaces
  <2>3. CASE pc[t].i > Size /\ Shared!Goto(t, Shared!Idle) /\ obj' = obj
    BY <1>1, <1>3, <2>3, FramePlaces
  <2>4. CASE /\ pc[t].i <= Size /\ obj' = [obj EXCEPT !.back_[pc[t].i] = pc[t].data]
             /\ Shared!Goto(t, [pc[t] EXCEPT !.i = @ + 1])
    <3> DEFINE v == [pc[t] EXCEPT !.i = @ + 1]
    <3>1. v \in FrameWrites
      BY <2>2 DEF FrameWrites
    <3>2. obj' \in [front_ : Frames, back_ : Frames] /\ obj'.front_ = obj.front_
      <4>1. CASE pc[t].i \in 1..Size
        BY <1>5, <2>2, <2>4, <4>1
      <4>2. CASE pc[t].i \notin 1..Size
        <5>1. [obj.back_ EXCEPT ![pc[t].i] = pc[t].data] = obj.back_
          BY <1>1, <4>2 DEF Frames
        <5>2. QED
          BY <1>1, <2>4, <5>1
      <4>3. QED
        BY <4>1, <4>2
    <3>3. Shared!Goto(t, v)
      BY <2>4
    <3> HIDE DEF v
    <3>4. QED
      BY <1>3, <3>1, <3>2, <3>3, FramePlaces
  <2>5. QED
    BY <1>7, <2>3, <2>4 DEF Shared!DoubleWriteNext
<1>8. CASE Shared!DoubleRead(t)
  <2> DEFINE v == [at |-> "read", copy |-> <<>>]
  <2>1. v \in FrameReads /\ v.copy = <<>>
    BY DEF FrameReads
  <2>2. CopyOf(v.copy, obj.front_)
    BY <1>1, <2>1 DEF CopyOf
  <2>3. Shared!Goto(t, v) /\ obj' = obj
    BY <1>8 DEF Shared!DoubleRead
  <2> HIDE DEF v
  <2>4. QED
    BY <1>1, <1>3, <2>1, <2>2, <2>3
<1>9. CASE Shared!DoubleReadNext(t)
  <2>1. pc[t].at = "read" /\ obj' = obj
    BY <1>9 DEF Shared!DoubleReadNext, Shared!On
  <2>2. pc[t] \in FrameReads /\ pc[t].copy \in Seq(Values \cup {0}) /\ CopyOf(pc[t].copy, obj.front_)
    BY <1>1, <2>1, FramePlaces
  <2>3. CASE Shared!Goto(t, Shared!Idle)
    BY <1>1, <1>3, <2>1, <2>3, FramePlaces
  <2>4. CASE /\ Len(pc[t].copy) < Size
             /\ Shared!Goto(t, [pc[t] EXCEPT !.copy = Append(@, obj.front_[Len(pc[t].copy) + 1])])
    <3> DEFINE n == Len(pc[t].copy)
               copy == Append(pc[t].copy, obj.front_[n + 1])
               v == [pc[t] EXCEPT !.copy = copy]
    <3>1. n \in Nat /\ n + 1 \in 1..Size
      BY <1>1, <2>2, <2>4
    <3>2. obj.front_[n + 1] \in Values \cup {0}
      BY <1>1, <3>1 DEF Frames
    <3>3. copy \in Seq(Values \cup {0}) /\ Len(copy) = n + 1 /\ copy[n + 1] = obj.front_[n + 1]
          /\ \A i \in 1..n : copy[i] = pc[t].copy[i]
      BY <2>2, <3>2
    <3>4. CopyOf(copy, obj.front_)
      <4> HIDE DEF copy
      <4>1. \A i \in 1..Len(copy) : i \in 1..n \/ i = n + 1
        BY <3>1, <3>3
      <4>2. Len(copy) <= Size
        BY <1>1, <3>1, <3>3
      <4>3. ASSUME NEW i \in 1..n
            PROVE  copy[i] = obj.front_[i]
        <5>1. pc[t].copy[i] = obj.front_[i]
          BY <2>2, <4>3 DEF CopyOf
        <5>2. QED
          BY <3>3, <5>1
      <4>4. QED
        BY <3>3, <4>1, <4>2, <4>3 DEF CopyOf
    <3>5. v \in FrameReads /\ v.copy = copy
      BY <2>2, <3>3 DEF FrameReads
    <3>6. Shared!Goto(t, v)
      BY <2>4
    <3> HIDE DEF v
    <3>7. QED
      BY <1>1, <1>3, <2>1, <3>4, <3>5, <3>6
  <2>5. QED
    BY <1>9, <2>3, <2>4 DEF Shared!DoubleReadNext
<1>10. CASE Shared!DoubleSwap(t)
  <2>1. /\ obj' \in [front_ : Frames, back_ : Frames] /\ pc' = pc
        /\ \A u \in Threads : pc[u].at # "read"
    BY <1>1, <1>10 DEF Shared!DoubleSwap, Shared!On
  <2>2. QED
    BY <1>1, <2>1 DEF DoubleInv
<1>11. QED
  BY <1>2, <1>4, <1>6, <1>7, <1>8, <1>9, <1>10

\* The two empty buffers satisfy the invariant.
LEMMA DoubleInitInv ==
  ASSUME Shared!DoubleInit
  PROVE  DoubleInv
<1>1. /\ obj = [front_ |-> [i \in 1..Size |-> 0], back_ |-> [i \in 1..Size |-> 0]]
      /\ pc = [t \in Threads |-> Shared!Idle]
  BY DEF Shared!DoubleInit, Shared!Start
<1>2. QED
  BY <1>1, FramePlaces DEF DoubleInv, Frames

\* The invariant implies that a copy is a whole frame.
LEMMA DoubleReads ==
  ASSUME DoubleInv
  PROVE  Shared!ReadsWholeFrame
<1> SUFFICES ASSUME NEW t \in Shared!On("read")
             PROVE  pc[t].copy = SubSeq(obj.front_, 1, Len(pc[t].copy))
  BY DEF Shared!ReadsWholeFrame
<1>1. t \in Threads /\ pc[t].at = "read"
  BY DEF Shared!On
<1>2. pc[t].copy \in Seq(Values \cup {0}) /\ CopyOf(pc[t].copy, obj.front_)
  BY <1>1, FramePlaces DEF DoubleInv
<1> DEFINE copy == pc[t].copy
           n == Len(copy)
           prefix == SubSeq(obj.front_, 1, n)
<1>3. n \in Nat /\ n <= Size /\ Size \in Nat
  BY <1>2, SizesAssumption DEF CopyOf
<1>4. \A i \in 1..n : obj.front_[i] \in Values \cup {0}
  BY <1>3 DEF DoubleInv, Frames
<1>5. /\ prefix \in Seq(Values \cup {0}) /\ Len(prefix) = n
      /\ \A i \in 1..n : prefix[i] = obj.front_[i]
  <2>1. /\ prefix \in Seq(Values \cup {0}) /\ Len(prefix) = (IF 1 <= n THEN n - 1 + 1 ELSE 0)
        /\ \A i \in 1..(n - 1 + 1) : prefix[i] = obj.front_[1 + i - 1]
    BY <1>3, <1>4, SubSeqProperties
  <2>2. QED
    BY <1>3, <2>1
<1>6. \A i \in 1..n : copy[i] = prefix[i]
  BY <1>2, <1>5 DEF CopyOf
<1>7. QED
  BY <1>2, <1>5, <1>6, SeqEqual
-----------------------------------------------------------------------------
ReadInv ==
  /\ part = "ThreadSafeMap" => MapInv
  /\ part = "DoubleBuffer" => DoubleInv

\* Each part starts in its own invariant.
LEMMA ReadInitInv == Init => ReadInv
BY MapInitInv, DoubleInitInv DEF Init, ReadInv, BoundedParts, QueueParts

\* A step of a part keeps the invariant of that part.
LEMMA ReadStep == ReadInv /\ [Next]_vars => ReadInv'
<1> SUFFICES ASSUME ReadInv, [Next]_vars PROVE ReadInv'
  OBVIOUS
<1>1. part' = part
  BY DEF Next, Untimed, Timed, vars
<1>2. CASE UNCHANGED vars
  <2>1. obj' = obj /\ pc' = pc
    BY <1>2 DEF vars
  <2>2. MapInv => MapInv'
    BY <2>1 DEF MapInv, Shared!KeysAreSnapshot, Shared!On
  <2>3. DoubleInv => DoubleInv'
    BY <2>1 DEF DoubleInv
  <2>4. QED
    BY <1>1, <2>2, <2>3 DEF ReadInv
<1>3. CASE Next
  <2>1. part = "ThreadSafeMap" => Shared!MapNext
    BY <1>3 DEF Next, Untimed, Timed
  <2>2. part = "DoubleBuffer" => Shared!DoubleNext
    BY <1>3 DEF Next, Untimed, Timed
  <2>3. QED
    BY <1>1, <2>1, <2>2, MapStep, DoubleStep DEF ReadInv
<1>4. QED
  BY <1>2, <1>3

\* What keys() has collected, and what read() has copied, is of the map, or of
\* the front buffer, as it is: neither is changed under a reader's lock.
THEOREM ReadsCorrect == Spec => []ReadsOneState
<1>1. ReadInv => ReadsOneState
  BY DoubleReads DEF ReadInv, ReadsOneState, MapInv
<1>2. Spec => []ReadInv
  BY ReadInitInv, ReadStep, PTL DEF Spec
<1>3. QED
  BY <1>1, <1>2, PTL
-----------------------------------------------------------------------------
(***************************************************************************)
(* TaskScheduler: the flag of a cancelled task is down, and stays down; a  *)
(* worker that has taken one and not called it yet took it before.         *)
(***************************************************************************)
SchedInv ==
  /\ DOMAIN obj = {"taskQueue_", "activeTasks_", "nextId_", "stopped_", "completedCount_"}
  /\ DOMAIN log = {"cancelled", "owed", "ran"} /\ DOMAIN pc = Pair \cup {"stop"}
  /\ obj.nextId_ \in Nat \ {0} /\ DOMAIN obj.activeTasks_ = 1..obj.nextId_ - 1
  /\ \A id \in log.cancelled : id \in 1..obj.nextId_ - 1 /\ ~obj.activeTasks_[id]
  /\ \A w \in Pair : pc[w].at = "call" /\ pc[w].task.id \in log.cancelled => w \in log.owed

\* stop() is no worker.
LEMMA StopApart == "stop" \notin Pair
BY PairFinite, ThreadsAssumption DEF Names

\* What keeps the flags, and takes no cancelled task, keeps the invariant.
LEMMA SchedSame ==
  ASSUME SchedInv, DOMAIN obj' = DOMAIN obj, DOMAIN log' = DOMAIN log, DOMAIN pc' = DOMAIN pc,
         obj'.activeTasks_ = obj.activeTasks_, obj'.nextId_ = obj.nextId_,
         log'.cancelled = log.cancelled,
         \A w \in Pair :
           \/ pc'[w] = pc[w] /\ (w \in log.owed => w \in log'.owed)
           \/ pc'[w].at = "call" => pc'[w].task.id \notin log.cancelled
  PROVE  SchedInv'
<1>1. Pair' = Pair
  BY DEF Pair, Owner
<1>2. QED
  BY <1>1 DEF SchedInv

\* A worker takes only what is active, begins only what it has taken, and
\* cancels nothing.
LEMMA SchedWorker ==
  ASSUME SchedInv, NEW w \in Pair, Sched!workerLoop(w)
  PROVE  SchedInv' /\ Sched!BeginsOnlyActive
<1>1. /\ DOMAIN obj = {"taskQueue_", "activeTasks_", "nextId_", "stopped_", "completedCount_"}
      /\ DOMAIN log = {"cancelled", "owed", "ran"} /\ DOMAIN pc = Pair \cup {"stop"}
      /\ \A id \in log.cancelled : ~obj.activeTasks_[id]
  BY DEF SchedInv
<1>2. \A place : Sched!At(place).at = place
  BY DEF Sched!At
<1>3. ASSUME NEW v, Sched!Goto(w, v)
      PROVE  DOMAIN pc' = DOMAIN pc /\ pc'[w] = v /\ \A u \in Pair \ {w} : pc'[u] = pc[u]
  BY <1>1, <1>3 DEF Sched!Goto
<1>4. ASSUME NEW v, Sched!Goto(w, v), v.at = "run" => pc[w].at = "run",
             v.at = "call" => v.task.id \notin log.cancelled,
             DOMAIN obj' = DOMAIN obj, obj'.activeTasks_ = obj.activeTasks_, obj'.nextId_ = obj.nextId_,
             DOMAIN log' = DOMAIN log, log'.cancelled = log.cancelled, log'.owed = log.owed
      PROVE  SchedInv' /\ Sched!BeginsOnlyActive
  <2>1. /\ DOMAIN pc' = DOMAIN pc /\ pc'[w] = v /\ \A u \in Pair \ {w} : pc'[u] = pc[u]
    BY <1>3, <1>4
  <2>2. SchedInv'
    BY <1>4, <2>1, SchedSame
  <2>3. QED
    BY <1>4, <2>1, <2>2 DEF Sched!BeginsOnlyActive
<1>5. CASE Sched!LoopHead(w)
  <2> DEFINE v == Sched!At(IF obj.stopped_ THEN "ended" ELSE "look")
  <2>1. Sched!Goto(w, v) /\ obj' = obj /\ log' = log
    BY <1>5 DEF Sched!LoopHead
  <2>2. v.at # "run" /\ v.at # "call"
    BY <1>2
  <2> HIDE DEF v
  <2>3. QED
    BY <1>4, <2>1, <2>2
<1>6. CASE Sched!Again(w)
  <2> DEFINE v == Sched!At("loop")
  <2>1. Sched!Goto(w, v) /\ log' = log
    BY <1>6 DEF Sched!Again
  <2>2. /\ DOMAIN obj' = DOMAIN obj /\ obj'.activeTasks_ = obj.activeTasks_
        /\ obj'.nextId_ = obj.nextId_
    BY <1>1, <1>6 DEF Sched!Again
  <2>3. v.at # "run" /\ v.at # "call"
    BY <1>2
  <2> HIDE DEF v
  <2>4. QED
    BY <1>4, <2>1, <2>2, <2>3
<1>7. CASE Sched!Run(w)
  <2> DEFINE v == IF pc[w].task.interval = 0 THEN Sched!At("loop") ELSE [pc[w] EXCEPT !.at = "again"]
  <2>1. Sched!Goto(w, v) /\ pc[w].at = "run"
    BY <1>7 DEF Sched!Run
  <2>2. /\ DOMAIN obj' = DOMAIN obj /\ obj'.activeTasks_ = obj.activeTasks_
        /\ obj'.nextId_ = obj.nextId_
        /\ DOMAIN log' = DOMAIN log /\ log'.cancelled = log.cancelled /\ log'.owed = log.owed
    BY <1>1, <1>7 DEF Sched!Run
  <2>3. v.at # "call"
    BY <1>2, <2>1
  <2> HIDE DEF v
  <2>4. QED
    BY <1>4, <2>1, <2>2, <2>3
<1>8. CASE Sched!Look(w)
  <2>1. ASSUME NEW place \in {"ended", "loop"}, Sched!Goto(w, Sched!At(place)), obj' = obj, log' = log
        PROVE  SchedInv' /\ Sched!BeginsOnlyActive
    <3>1. Sched!At(place).at # "run" /\ Sched!At(place).at # "call"
      BY <1>2
    <3>2. QED
      BY <1>4, <2>1, <3>1
  <2>2. ASSUME NEW k \in Sched!Tops, obj' = [obj EXCEPT !.taskQueue_ = @ \ {k}], log' = log,
               Sched!Goto(w, IF obj.activeTasks_[k.id] THEN [at |-> "call", task |-> k] ELSE Sched!At("loop"))
        PROVE  SchedInv' /\ Sched!BeginsOnlyActive
    <3> DEFINE v == IF obj.activeTasks_[k.id] THEN [at |-> "call", task |-> k] ELSE Sched!At("loop")
    <3>1. /\ DOMAIN obj' = DOMAIN obj /\ obj'.activeTasks_ = obj.activeTasks_
          /\ obj'.nextId_ = obj.nextId_
      BY <1>1, <2>2
    <3>2. v.at # "run" /\ (v.at = "call" => v.task.id \notin log.cancelled)
      <4>1. CASE obj.activeTasks_[k.id]
        BY <1>1, <4>1
      <4>2. CASE ~obj.activeTasks_[k.id]
        BY <1>2, <4>2
      <4>3. QED
        BY <4>1, <4>2
    <3>3. Sched!Goto(w, v)
      BY <2>2
    <3> HIDE DEF v
    <3>4. QED
      BY <1>4, <2>2, <3>1, <3>2, <3>3
  <2>3. CASE obj.taskQueue_ = {} /\ Sched!Goto(w, Sched!At(IF obj.stopped_ THEN "ended" ELSE "loop")) /\ obj' = obj
    BY <1>8, <2>1, <2>3 DEF Sched!Look
  <2>4. QED
    BY <1>8, <2>1, <2>2, <2>3 DEF Sched!Look
<1>9. CASE Sched!Call(w)
  <2> DEFINE v == [at |-> "run", task |-> pc[w].task]
  <2>1. Sched!Goto(w, v) /\ pc[w].at = "call" /\ obj' = obj
    BY <1>9 DEF Sched!Call
  <2>2. DOMAIN log' = DOMAIN log /\ log'.cancelled = log.cancelled /\ log'.owed = log.owed \ {w}
    BY <1>1, <1>9 DEF Sched!Call
  <2>3. v.task = pc[w].task
    OBVIOUS
  <2>4. v.at # "call"
    BY <2>1
  <2> HIDE DEF v
  <2>5. /\ DOMAIN pc' = DOMAIN pc /\ pc'[w] = v /\ \A u \in Pair \ {w} : pc'[u] = pc[u]
    BY <1>3, <2>1
  <2>6. SchedInv'
    <3>1. ASSUME NEW u \in Pair
          PROVE  \/ pc'[u] = pc[u] /\ (u \in log.owed => u \in log'.owed)
                 \/ pc'[u].at = "call" => pc'[u].task.id \notin log.cancelled
      <4>1. CASE u = w
        BY <2>4, <2>5, <4>1
      <4>2. CASE u # w
        BY <2>2, <2>5, <4>2
      <4>3. QED
        BY <4>1, <4>2
    <3>2. QED
      BY <2>1, <2>2, <2>5, <3>1, SchedSame
  <2>7. pc[w].task.id \in log.cancelled => w \in log.owed
    BY <2>1 DEF SchedInv
  <2>8. ASSUME NEW u \in Pair, pc'[u].at = "run" /\ pc[u].at # "run" /\ pc'[u].task.id \in log.cancelled
        PROVE  u \in log.owed
    <3>1. u = w
      BY <2>5, <2>8
    <3>2. QED
      BY <2>3, <2>5, <2>7, <2>8, <3>1
  <2>9. QED
    BY <2>6, <2>8 DEF Sched!BeginsOnlyActive
<1>10. QED
  BY <1>5, <1>6, <1>7, <1>8, <1>9 DEF Sched!workerLoop

\* A task of a new number does not touch the flags of the others.
LEMMA SchedEnter ==
  ASSUME SchedInv, NEW priority, NEW at, NEW interval, Sched!Enter(priority, at, interval)
  PROVE  SchedInv'
<1> DEFINE n == obj.nextId_
<1>1. /\ DOMAIN obj = {"taskQueue_", "activeTasks_", "nextId_", "stopped_", "completedCount_"}
      /\ n \in Nat \ {0} /\ DOMAIN obj.activeTasks_ = 1..n - 1
      /\ \A id \in log.cancelled : id \in 1..n - 1 /\ ~obj.activeTasks_[id]
  BY DEF SchedInv
<1>2. /\ DOMAIN obj' = DOMAIN obj /\ obj'.nextId_ = n + 1 /\ log' = log /\ pc' = pc
      /\ obj'.activeTasks_ = [i \in DOMAIN obj.activeTasks_ \cup {n} |-> i = n \/ obj.activeTasks_[i]]
  BY <1>1 DEF Sched!Enter
<1> HIDE DEF n
<1>3. obj'.nextId_ \in Nat \ {0} /\ DOMAIN obj'.activeTasks_ = 1..obj'.nextId_ - 1
  BY <1>1, <1>2
<1>4. ASSUME NEW id \in log.cancelled
      PROVE  id \in 1..obj'.nextId_ - 1 /\ ~obj'.activeTasks_[id]
  <2>1. id \in 1..n - 1 /\ id # n /\ ~obj.activeTasks_[id] /\ id \in DOMAIN obj.activeTasks_
    BY <1>1
  <2>2. obj'.activeTasks_[id] = (id = n \/ obj.activeTasks_[id])
    BY <1>2, <2>1
  <2>3. ~obj'.activeTasks_[id]
    BY <2>1, <2>2
  <2>4. id \in 1..obj'.nextId_ - 1
    BY <1>1, <1>2, <2>1
  <2>5. QED
    BY <2>3, <2>4
<1>5. Pair' = Pair
  BY DEF Pair, Owner
<1>6. \A w \in Pair : pc'[w].at = "call" /\ pc'[w].task.id \in log'.cancelled => w \in log'.owed
  BY <1>2 DEF SchedInv
<1>7. QED
  BY <1>1, <1>2, <1>3, <1>4, <1>5, <1>6 DEF SchedInv

\* cancel() marks the task and takes its flag down at once.
LEMMA SchedCancel ==
  ASSUME SchedInv, NEW id \in 1..obj.nextId_ - 1, Sched!cancel(id)
  PROVE  SchedInv'
<1>1. /\ DOMAIN obj' = DOMAIN obj /\ obj'.nextId_ = obj.nextId_ /\ pc' = pc
      /\ obj'.activeTasks_ = [obj.activeTasks_ EXCEPT ![id] = FALSE]
      /\ DOMAIN log' = DOMAIN log /\ log'.cancelled = log.cancelled \cup {id}
      /\ log'.owed = log.owed \cup {w \in Pair : pc[w].at = "call" /\ pc[w].task.id = id}
  BY DEF SchedInv, Sched!cancel, Sched!In
<1>2. Pair' = Pair
  BY DEF Pair, Owner
<1>3. ASSUME NEW c \in log'.cancelled
      PROVE  c \in 1..obj.nextId_ - 1 /\ ~obj'.activeTasks_[c]
  <2>1. c \in 1..obj.nextId_ - 1 /\ (c # id => ~obj.activeTasks_[c])
    BY <1>1, <1>3 DEF SchedInv
  <2>2. DOMAIN obj.activeTasks_ = 1..obj.nextId_ - 1
    BY DEF SchedInv
  <2>3. QED
    BY <1>1, <2>1, <2>2
<1>4. ASSUME NEW w \in Pair, pc[w].at = "call", pc[w].task.id \in log'.cancelled
      PROVE  w \in log'.owed
  BY <1>1, <1>4 DEF SchedInv
<1>5. QED
  BY <1>1, <1>2, <1>3, <1>4 DEF SchedInv

\* Every step of the scheduler keeps the invariant and begins only what
\* may begin.
LEMMA SchedStep ==
  ASSUME SchedInv, Sched!Next
  PROVE  SchedInv' /\ Sched!BeginsOnlyActive
<1>1. (\A w \in Pair : pc'[w] = pc[w]) => Sched!BeginsOnlyActive
  BY DEF Sched!BeginsOnlyActive
<1>2. ASSUME NEW p, NEW at, NEW i, Sched!Enter(p, at, i)
      PROVE  SchedInv' /\ Sched!BeginsOnlyActive
  <2>1. pc' = pc
    BY <1>2 DEF Sched!Enter
  <2>2. QED
    BY <1>1, <1>2, <2>1, SchedEnter
<1>3. ASSUME NEW p \in Sched!Priorities,
             \/ Sched!schedule(p) \/ \E at \in 0..1 : Sched!scheduleAt(p, at)
             \/ \E i \in {1} : Sched!scheduleRepeating(p, i)
      PROVE  SchedInv' /\ Sched!BeginsOnlyActive
  BY <1>2, <1>3 DEF Sched!schedule, Sched!scheduleAt, Sched!scheduleRepeating
<1>4. ASSUME NEW id \in 1..obj.nextId_ - 1, Sched!cancel(id)
      PROVE  SchedInv' /\ Sched!BeginsOnlyActive
  <2>1. pc' = pc
    BY <1>4 DEF Sched!cancel
  <2>2. QED
    BY <1>1, <1>4, <2>1, SchedCancel
<1>5. CASE Sched!stop
  <2>1. PICK v : Sched!Goto("stop", v)
    BY <1>5 DEF Sched!stop
  <2>2. DOMAIN pc' = DOMAIN pc /\ \A w \in Pair : pc'[w] = pc[w]
    BY <2>1, StopApart DEF SchedInv, Sched!Goto
  <2>3. /\ DOMAIN obj' = DOMAIN obj /\ obj'.activeTasks_ = obj.activeTasks_
        /\ obj'.nextId_ = obj.nextId_ /\ log' = log
    BY <1>5 DEF Sched!stop, SchedInv
  <2>4. QED
    BY <1>1, <2>2, <2>3, SchedSame
<1>6. CASE Sched!Tick
  <2>1. obj' = obj /\ log' = log /\ pc' = pc
    BY <1>6 DEF Sched!Tick
  <2>2. QED
    BY <1>1, <2>1, SchedSame
<1>7. CASE Sched!start
  <2>1. /\ DOMAIN obj' = DOMAIN obj /\ obj'.activeTasks_ = obj.activeTasks_
        /\ obj'.nextId_ = obj.nextId_ /\ log' = log /\ pc' = pc
    BY <1>7 DEF Sched!start, SchedInv
  <2>2. QED
    BY <1>1, <2>1, SchedSame
<1>8. QED
  BY <1>3, <1>4, <1>5, <1>6, <1>7, SchedWorker DEF Sched!Next

\* The new scheduler satisfies the invariant.
LEMMA SchedInitInv ==
  ASSUME Sched!Init
  PROVE  SchedInv
<1>1. /\ obj = [taskQueue_ |-> {}, activeTasks_ |-> [i \in {} |-> TRUE], nextId_ |-> 1,
                stopped_ |-> FALSE, completedCount_ |-> 0]
      /\ DOMAIN pc = Pair \cup {"stop"}
      /\ DOMAIN log = {"cancelled", "owed", "ran"} /\ log.cancelled = {}
  BY DEF Sched!Init
<1>2. DOMAIN obj.activeTasks_ = {} /\ 1..1 - 1 = {}
  BY <1>1
<1>3. QED
  BY <1>1, <1>2 DEF SchedInv
-----------------------------------------------------------------------------
(***************************************************************************)
(* DebouncedDispatcher: cancelled_ stays set once the destructor has set   *)
(* it, unless the emit() of a handler resets it.                           *)
(***************************************************************************)
DebounceInv ==
  /\ DOMAIN obj = {"timers_", "cancelled_", "emitCount_", "finished"}
  /\ DOMAIN pc = {"emit", "disp", "owner"}
  /\ DOMAIN pc.emit = Debounce!Callers /\ DOMAIN pc.disp = 1..3 /\ DOMAIN pc.owner = {"at", "timers"}
  /\ DOMAIN log = {"started", "handled", "joined", "late", "undone"}
  /\ pc.owner.at # "alive" /\ ~log.undone => obj.cancelled_

\* What neither destroys the object nor resets the flag keeps the invariant.
LEMMA DebounceSame ==
  ASSUME DebounceInv, DOMAIN obj' = DOMAIN obj, DOMAIN pc' = DOMAIN pc, DOMAIN pc'.disp = DOMAIN pc.disp,
         DOMAIN pc'.emit = DOMAIN pc.emit, DOMAIN pc'.owner = DOMAIN pc.owner, DOMAIN log' = DOMAIN log,
         pc'.owner.at # "alive" /\ ~log'.undone =>
           obj'.cancelled_ \/ (pc.owner.at # "alive" /\ ~log.undone /\ obj'.cancelled_ = obj.cancelled_)
  PROVE  DebounceInv'
<1>1. Debounce!Callers' = Debounce!Callers
  BY DEF Pair, Owner, Debounce!Callers, Debounce!Thread, Debounce!Handler, Debounce!Dispatches
<1>2. QED
  BY <1>1 DEF DebounceInv

\* Every step of the dispatcher keeps the invariant, and one that was
\* cancelled wakes quietly.
LEMMA DebounceStep ==
  ASSUME DebounceInv, Debounce!Next
  PROVE  DebounceInv' /\ Debounce!WakesQuietly
<1>1. /\ DOMAIN obj = {"timers_", "cancelled_", "emitCount_", "finished"}
      /\ DOMAIN pc = {"emit", "disp", "owner"}
      /\ DOMAIN pc.emit = Debounce!Callers /\ DOMAIN pc.disp = 1..3 /\ DOMAIN pc.owner = {"at", "timers"}
      /\ DOMAIN log = {"started", "handled", "joined", "late", "undone"}
  BY DEF DebounceInv
<1>2. ASSUME \/ pc'.disp = pc.disp
             \/ \E d : pc'.disp = [pc.disp EXCEPT ![d] = "asleep"]
      PROVE  Debounce!WakesQuietly
  <2>1. ASSUME NEW c \in 1..3, pc.disp[c] = "asleep"
        PROVE  pc'.disp[c] # "handler"
    <3>1. CASE pc'.disp = pc.disp
      BY <2>1, <3>1
    <3>2. ASSUME NEW d, pc'.disp = [pc.disp EXCEPT ![d] = "asleep"]
          PROVE  pc'.disp[c] = "asleep"
      <4>1. CASE c = d
        BY <1>1, <3>2, <4>1
      <4>2. CASE c # d
        BY <1>1, <2>1, <3>2, <4>2
      <4>3. QED
        BY <4>1, <4>2
    <3>3. QED
      BY <1>2, <3>1, <3>2
  <2>2. QED
    BY <2>1 DEF Debounce!WakesQuietly, Debounce!Dispatches
<1>3. ASSUME NEW c, NEW v, Debounce!Emitter(c, v)
      PROVE  /\ pc'.owner = pc.owner /\ DOMAIN pc' = DOMAIN pc /\ pc'.disp = pc.disp
             /\ DOMAIN pc'.emit = DOMAIN pc.emit
  BY <1>1, <1>3 DEF Debounce!Emitter
<1>4. CASE Debounce!Cancel
  <2>1. pc' = pc /\ log' = log /\ DOMAIN obj' = DOMAIN obj /\ obj'.cancelled_ = TRUE
    BY <1>1, <1>4 DEF Debounce!Cancel
  <2>2. QED
    BY <1>2, <2>1, DebounceSame
<1>5. CASE Debounce!Destroy
  <2>1. /\ DOMAIN obj' = DOMAIN obj /\ obj'.cancelled_ = TRUE /\ log' = log
        /\ DOMAIN pc' = DOMAIN pc /\ pc'.emit = pc.emit /\ pc'.disp = pc.disp
        /\ DOMAIN pc'.owner = {"at", "timers"}
    BY <1>1, <1>5 DEF Debounce!Destroy, Debounce!At
  <2>2. QED
    BY <1>1, <1>2, <2>1, DebounceSame
<1>6. CASE Debounce!DestroyTake \/ Debounce!DestroyJoin
  <2>1. /\ pc.owner.at # "alive"
        /\ DOMAIN obj' = DOMAIN obj /\ obj'.cancelled_ = obj.cancelled_
        /\ DOMAIN log' = DOMAIN log /\ log'.undone = log.undone
        /\ DOMAIN pc' = DOMAIN pc /\ pc'.emit = pc.emit /\ pc'.disp = pc.disp
        /\ DOMAIN pc'.owner = DOMAIN pc.owner
    BY <1>1, <1>6 DEF Debounce!DestroyTake, Debounce!DestroyJoin, Debounce!At
  <2>2. QED
    BY <1>2, <2>1, DebounceSame
<1>7. ASSUME NEW c \in Debounce!Callers, Debounce!Reap(c) \/ Debounce!ReapJoin(c) \/ Debounce!EmitRegister(c)
      PROVE  DebounceInv' /\ Debounce!WakesQuietly
  <2>1. PICK v : Debounce!Emitter(c, v)
    BY <1>7 DEF Debounce!Reap, Debounce!ReapJoin, Debounce!EmitRegister
  <2>2. /\ DOMAIN obj' = DOMAIN obj /\ obj'.cancelled_ = obj.cancelled_
        /\ DOMAIN log' = DOMAIN log /\ log'.undone = log.undone
    <3>1. CASE Debounce!Reap(c)
      BY <1>1, <3>1 DEF Debounce!Reap
    <3>2. CASE Debounce!ReapJoin(c)
      BY <1>1, <3>2 DEF Debounce!ReapJoin
    <3>3. CASE Debounce!EmitRegister(c)
      BY <1>1, <3>3 DEF Debounce!EmitRegister
    <3>4. QED
      BY <1>7, <3>1, <3>2, <3>3
  <2>3. /\ pc'.owner = pc.owner /\ DOMAIN pc' = DOMAIN pc /\ pc'.disp = pc.disp
        /\ DOMAIN pc'.emit = DOMAIN pc.emit
    BY <1>3, <2>1
  <2>4. QED
    BY <1>2, <2>2, <2>3, DebounceSame
<1>8. ASSUME NEW c \in Debounce!Callers, Debounce!EmitStart(c)
      PROVE  DebounceInv' /\ Debounce!WakesQuietly
  <2>1. DOMAIN obj' = DOMAIN obj
    BY <1>1, <1>8 DEF Debounce!EmitStart
  <2>2. DOMAIN log' = DOMAIN log /\ (log'.undone <=> log.undone \/ pc.owner.at # "alive")
    BY <1>1, <1>8 DEF Debounce!EmitStart
  <2>3. /\ pc'.owner = pc.owner /\ DOMAIN pc' = DOMAIN pc
        /\ DOMAIN pc'.emit = DOMAIN pc.emit
        /\ pc'.disp = [pc.disp EXCEPT ![log.started + 1] = "asleep"]
    BY <1>1, <1>8 DEF Debounce!EmitStart
  <2>4. DOMAIN pc'.disp = DOMAIN pc.disp
    BY <2>3
  <2>5. DebounceInv'
    BY <2>1, <2>2, <2>3, <2>4, DebounceSame
  <2>6. QED
    BY <1>2, <2>3, <2>5
<1>9. ASSUME NEW d \in 1..3, Debounce!Awake(d) \/ Debounce!Handled(d)
      PROVE  DebounceInv' /\ Debounce!WakesQuietly
  <2>1. PICK place : Debounce!Dispatch(d, place) /\ (place = "handler" => ~obj.cancelled_)
    BY <1>9 DEF Debounce!Awake, Debounce!Handled
  <2>2. /\ DOMAIN obj' = DOMAIN obj /\ obj'.cancelled_ = obj.cancelled_
        /\ DOMAIN log' = DOMAIN log /\ log'.undone = log.undone
    BY <1>1, <1>9 DEF Debounce!Awake, Debounce!Handled
  <2>3. /\ DOMAIN pc' = DOMAIN pc /\ pc'.emit = pc.emit /\ pc'.owner = pc.owner
        /\ DOMAIN pc'.disp = DOMAIN pc.disp /\ pc'.disp[d] = place
        /\ \A c \in 1..3 : c # d => pc'.disp[c] = pc.disp[c]
    BY <1>1, <2>1 DEF Debounce!Dispatch
  <2>4. DebounceInv'
    BY <1>1, <2>2, <2>3, DebounceSame
  <2>5. pc.owner.at # "alive" /\ ~log.undone => place # "handler"
    BY <2>1 DEF DebounceInv
  <2>6. Debounce!WakesQuietly
    BY <2>3, <2>5 DEF Debounce!WakesQuietly, Debounce!Dispatches
  <2>7. QED
    BY <2>4, <2>6
<1>10. QED
  BY <1>4, <1>5, <1>6, <1>7, <1>8, <1>9 DEF Debounce!Next, Debounce!Dispatches

\* The new dispatcher satisfies the invariant.
LEMMA DebounceInitInv ==
  ASSUME Debounce!Init
  PROVE  DebounceInv
BY DEF Debounce!Init, DebounceInv, Debounce!At, Debounce!Dispatches
-----------------------------------------------------------------------------
(***************************************************************************)
(* EventLoop: a timer is due once at a time, and one that is dead is       *)
(* neither active nor due.                                                 *)
(***************************************************************************)
Below == 1..obj.nextTimerId_ - 1

TimersUnique ==
  /\ \A e \in obj.timers_ : DOMAIN e = {"id", "expiry", "interval"} /\ e.id \in Below
  /\ \A e \in obj.timers_ : \A f \in obj.timers_ : e.id = f.id => e = f

DueOnce ==
  /\ pc.due \in Seq(Below)
  /\ \A i \in 1..Len(pc.due) : pc.due[i] \in log.dead => pc.due[i] \in log.owed
  /\ \A i \in 1..Len(pc.due) : \A j \in 1..Len(pc.due) : pc.due[i] = pc.due[j] => i = j

LoopInv ==
  /\ DOMAIN obj = {"taskQueue_", "timers_", "activeTimers_", "nextTimerId_", "running_", "stopped_"}
  /\ DOMAIN pc = {"at", "due"} /\ DOMAIN log = {"posted", "run", "dead", "owed", "fired"}
  /\ DOMAIN log.fired = 1..2
  /\ obj.nextTimerId_ \in Nat \ {0}
  /\ TimersUnique /\ DueOnce
  /\ \A id \in log.dead : id \in Below /\ ~Loop!IsActive(id)

\* What leaves the timers and the due ones alone keeps the invariant.
LEMMA LoopSame ==
  ASSUME LoopInv, DOMAIN obj' = DOMAIN obj, DOMAIN pc' = DOMAIN pc, DOMAIN log' = DOMAIN log,
         obj'.timers_ = obj.timers_, obj'.activeTimers_ = obj.activeTimers_,
         obj'.nextTimerId_ = obj.nextTimerId_, pc'.due = pc.due,
         log'.dead = log.dead, log'.owed = log.owed, log'.fired = log.fired
  PROVE  LoopInv' /\ Loop!DueNotCancelled
<1>1. Below' = Below
  BY DEF Below
<1>2. TimersUnique'
  BY <1>1 DEF LoopInv, TimersUnique
<1>3. DueOnce'
  BY <1>1 DEF LoopInv, DueOnce
<1>4. \A id \in log'.dead : id \in Below' /\ ~Loop!IsActive(id)'
  BY <1>1 DEF LoopInv, Loop!IsActive
<1>5. Loop!DueNotCancelled
  BY DEF Loop!DueNotCancelled
<1>6. QED
  BY <1>2, <1>3, <1>4, <1>5 DEF LoopInv

\* A sequence over a set is one over any larger set.
LEMMA SeqWidens ==
  ASSUME NEW S, NEW T, S \subseteq T, NEW s \in Seq(S)
  PROVE  s \in Seq(T)
<1>1. /\ Len(s) \in Nat /\ s = [i \in 1..Len(s) |-> s[i]]
      /\ \A i \in 1..Len(s) : s[i] \in T
  OBVIOUS
<1>2. [i \in 1..Len(s) |-> s[i]] \in Seq(T)
  BY <1>1
<1>3. QED
  BY <1>1, <1>2

\* A timer of a new number wakes none of the dead.
LEMMA LoopEnter ==
  ASSUME LoopInv, NEW expiry, NEW interval, Loop!Enter(expiry, interval)
  PROVE  LoopInv' /\ Loop!DueNotCancelled
<1> DEFINE n == obj.nextTimerId_
           new == [id |-> n, expiry |-> expiry, interval |-> interval]
<1>1. /\ DOMAIN obj = {"taskQueue_", "timers_", "activeTimers_", "nextTimerId_", "running_", "stopped_"}
      /\ n \in Nat \ {0} /\ TimersUnique /\ DueOnce
      /\ \A id \in log.dead : id \in Below /\ ~Loop!IsActive(id)
  BY DEF LoopInv
<1>2. /\ DOMAIN obj' = DOMAIN obj /\ obj'.nextTimerId_ = n + 1 /\ log' = log /\ pc' = pc
      /\ obj'.timers_ = obj.timers_ \cup {new}
      /\ obj'.activeTimers_ = [i \in DOMAIN obj.activeTimers_ \cup {n} |-> i = n \/ obj.activeTimers_[i]]
  BY <1>1 DEF Loop!Enter
<1>3. DOMAIN new = {"id", "expiry", "interval"} /\ new.id = n
  OBVIOUS
<1>4. Below = 1..n - 1
  BY DEF Below
<1> HIDE DEF n, new
<1>5. Below' = 1..n /\ Below \subseteq 1..n /\ n \notin Below /\ n \in 1..n
  <2>1. Below' = 1..(n + 1) - 1
    BY <1>2 DEF Below
  <2>2. QED
    BY <1>1, <1>4, <2>1
<1>6. TimersUnique'
  <2>1. \A e \in obj'.timers_ : DOMAIN e = {"id", "expiry", "interval"} /\ e.id \in Below'
    BY <1>1, <1>2, <1>3, <1>5 DEF TimersUnique
  <2>2. \A e \in obj.timers_ : e.id # n
    BY <1>1, <1>5 DEF TimersUnique
  <2>3. \A e \in obj'.timers_ : \A f \in obj'.timers_ : e.id = f.id => e = f
    BY <1>1, <1>2, <1>3, <2>2 DEF TimersUnique
  <2>4. QED
    BY <2>1, <2>3 DEF TimersUnique
<1>7. DueOnce'
  <2>1. pc.due \in Seq(1..n)
    BY <1>1, <1>5, SeqWidens DEF DueOnce
  <2>2. QED
    BY <1>1, <1>2, <1>5, <2>1 DEF DueOnce
<1>8. ASSUME NEW id \in log'.dead
      PROVE  id \in Below' /\ ~Loop!IsActive(id)'
  <2>1. id \in Below /\ id # n /\ ~Loop!IsActive(id)
    BY <1>1, <1>2, <1>5, <1>8
  <2>2. CASE id \in DOMAIN obj.activeTimers_
    <3>1. ~obj.activeTimers_[id]
      BY <2>1, <2>2 DEF Loop!IsActive
    <3>2. obj'.activeTimers_[id] = (id = n \/ obj.activeTimers_[id])
      BY <1>2, <2>2
    <3>3. ~obj'.activeTimers_[id]
      BY <2>1, <3>1, <3>2
    <3>4. QED
      BY <1>5, <2>1, <3>3 DEF Loop!IsActive
  <2>3. CASE id \notin DOMAIN obj.activeTimers_
    <3>1. id \notin DOMAIN obj'.activeTimers_
      BY <1>2, <2>1, <2>3
    <3>2. QED
      BY <1>5, <2>1, <3>1 DEF Loop!IsActive
  <2>4. QED
    BY <2>2, <2>3
<1>9. Loop!DueNotCancelled
  BY <1>2 DEF Loop!DueNotCancelled
<1>10. QED
  <2>1. n + 1 \in Nat \ {0}
    BY <1>1
  <2>2. QED
    BY <1>1, <1>2, <1>6, <1>7, <1>8, <1>9, <2>1 DEF LoopInv

\* cancelTimer() takes the flag down; a timer that is due is owed one call.
LEMMA LoopCancel ==
  ASSUME LoopInv, NEW id \in Below, Loop!cancelTimer(id)
  PROVE  LoopInv' /\ Loop!DueNotCancelled
<1>1. /\ DOMAIN obj = {"taskQueue_", "timers_", "activeTimers_", "nextTimerId_", "running_", "stopped_"}
      /\ DOMAIN log = {"posted", "run", "dead", "owed", "fired"}
      /\ TimersUnique /\ DueOnce /\ \A d \in log.dead : d \in Below /\ ~Loop!IsActive(d)
  BY DEF LoopInv
<1>2. /\ DOMAIN obj' = DOMAIN obj /\ obj'.timers_ = obj.timers_ /\ obj'.nextTimerId_ = obj.nextTimerId_
      /\ pc' = pc /\ DOMAIN obj'.activeTimers_ = DOMAIN obj.activeTimers_
      /\ \A d \in DOMAIN obj.activeTimers_ :
           obj'.activeTimers_[d] = IF d = id THEN FALSE ELSE obj.activeTimers_[d]
  BY <1>1 DEF Loop!cancelTimer
<1>3. Below' = Below
  BY <1>2 DEF Below
<1>4. /\ DOMAIN log' = DOMAIN log /\ log'.fired = log.fired
      /\ log'.dead = log.dead \cup {id} /\ log.owed \subseteq log'.owed
      /\ Loop!IsDue(id) => id \in log'.owed
  BY <1>1 DEF Loop!cancelTimer
<1>5. DueOnce'
  <2>1. ASSUME NEW i \in 1..Len(pc.due), pc.due[i] \in log'.dead
        PROVE  pc.due[i] \in log'.owed
    <3>1. i \in DOMAIN pc.due /\ (pc.due[i] \in log.dead => pc.due[i] \in log.owed)
      BY <1>1, <2>1 DEF DueOnce
    <3>2. CASE pc.due[i] = id
      BY <1>4, <3>1, <3>2 DEF Loop!IsDue
    <3>3. CASE pc.due[i] # id
      BY <1>4, <2>1, <3>1, <3>3
    <3>4. QED
      BY <3>2, <3>3
  <2>2. QED
    BY <1>1, <1>2, <1>3, <2>1 DEF DueOnce
<1>6. ASSUME NEW d \in log'.dead
      PROVE  d \in Below' /\ ~Loop!IsActive(d)'
  <2>1. d = id \/ (d \in Below /\ ~Loop!IsActive(d))
    BY <1>1, <1>4
  <2>2. CASE d = id
    BY <1>2, <1>3, <2>2 DEF Loop!IsActive
  <2>3. CASE d # id
    BY <1>2, <1>3, <2>1, <2>3 DEF Loop!IsActive
  <2>4. QED
    BY <2>2, <2>3
<1>7. TimersUnique'
  BY <1>1, <1>2, <1>3 DEF TimersUnique
<1>8. Loop!DueNotCancelled
  BY <1>4 DEF Loop!DueNotCancelled
<1>9. QED
  BY <1>2, <1>4, <1>5, <1>6, <1>7, <1>8 DEF LoopInv

\* The timers that become due are active, and each comes up once.
LEMMA LoopProcess ==
  ASSUME LoopInv, Loop!processTimers
  PROVE  LoopInv' /\ Loop!DueNotCancelled
<1> DEFINE expired == {e \in obj.timers_ : e.expiry <= now}
           active == {e \in expired : Loop!IsActive(e.id)}
           again == {e \in active : e.interval > 0}
           renewed == {[e EXCEPT !.expiry = now + e.interval] : e \in again}
<1>1. /\ DOMAIN obj = {"taskQueue_", "timers_", "activeTimers_", "nextTimerId_", "running_", "stopped_"}
      /\ obj.nextTimerId_ \in Nat \ {0}
      /\ TimersUnique /\ DueOnce /\ \A d \in log.dead : d \in Below /\ ~Loop!IsActive(d)
  BY DEF LoopInv
<1>2. PICK order \in Loop!SetToSeqs(active) :
        pc' = [at |-> "fire", due |-> [i \in DOMAIN order |-> order[i].id]]
  BY DEF Loop!processTimers
<1>3. /\ DOMAIN obj' = DOMAIN obj /\ log' = log /\ obj'.nextTimerId_ = obj.nextTimerId_
      /\ obj'.timers_ = (obj.timers_ \ expired) \cup renewed
      /\ obj'.activeTimers_ = [i \in DOMAIN obj.activeTimers_ \ {e.id : e \in expired \ again} |-> obj.activeTimers_[i]]
  BY <1>1 DEF Loop!processTimers
<1>4. Below' = Below
  BY <1>3 DEF Below
<1>5. IsFiniteSet(active)
  <2> DEFINE f == [e \in active |-> e.id]
  <2>1. f \in [active -> Below]
    BY <1>1 DEF TimersUnique
  <2>2. \A a, b \in DOMAIN f : f[a] = f[b] => a = b
    BY <1>1 DEF TimersUnique
  <2>3. f \in Injection(active, Below)
    BY <2>1, <2>2 DEF Injection, IsInjective
  <2>4. IsFiniteSet(Below)
    BY <1>1, FS_Interval DEF Below
  <2>5. QED
    BY <2>3, <2>4, FS_Injection
<1>6. PICK m \in Nat : /\ order \in [1..m -> active]
                      /\ \A i \in 1..m : \A j \in 1..m : order[i] = order[j] => i = j
  <2>1. Cardinality(active) \in Nat
    BY <1>5, FS_CardinalityType
  <2>2. Loop!Cardinality(active) = Cardinality(active)
    BY Zenon DEF Loop!Cardinality, Cardinality
  <2> HIDE DEF active
  <2>3. /\ order \in [1..Loop!Cardinality(active) -> active]
        /\ \A i, j \in 1..Loop!Cardinality(active) : i # j => order[i] # order[j]
    BY DEF Loop!SetToSeqs
  <2>4. QED
    BY <2>1, <2>2, <2>3
<1>7. DOMAIN pc' = {"at", "due"} /\ DOMAIN pc'.due = 1..m /\ \A i \in 1..m : pc'.due[i] = order[i].id
  BY <1>2, <1>6
<1>8. \A e \in active : e \in obj.timers_ /\ e.id \in Below /\ Loop!IsActive(e.id)
  BY <1>1 DEF TimersUnique
<1>9. \A i \in 1..m : order[i] \in active
  BY <1>6
<1> HIDE DEF active
<1>10. pc'.due \in Seq(Below) /\ Len(pc'.due) = m
  <2>1. pc'.due = [i \in 1..m |-> order[i].id]
    BY <1>2, <1>6
  <2>2. \A i \in 1..m : order[i].id \in Below
    BY <1>8, <1>9
  <2>3. QED
    BY <2>1, <2>2
<1>11. \A i \in 1..m : pc'.due[i] \notin log.dead
  BY <1>1, <1>7, <1>8, <1>9
<1>12. \A i \in 1..m : \A j \in 1..m : pc'.due[i] = pc'.due[j] => i = j
  BY <1>1, <1>6, <1>7, <1>8, <1>9 DEF TimersUnique
<1>13. DueOnce'
  BY <1>3, <1>4, <1>10, <1>11, <1>12 DEF DueOnce
<1>14. TimersUnique'
  <2>1. ASSUME NEW e \in obj'.timers_
        PROVE  /\ DOMAIN e = {"id", "expiry", "interval"} /\ e.id \in Below
               /\ \E d \in obj.timers_ : /\ d.id = e.id
                                         /\ d \in expired => e = [d EXCEPT !.expiry = now + d.interval]
                                         /\ d \notin expired => e = d
    <3>1. CASE e \in obj.timers_ \ expired
      BY <1>1, <3>1 DEF TimersUnique
    <3>2. CASE e \in renewed
      <4>1. PICK d \in again : e = [d EXCEPT !.expiry = now + d.interval]
        BY <3>2
      <4>2. d \in obj.timers_ /\ d \in expired
        BY DEF active
      <4>3. DOMAIN d = {"id", "expiry", "interval"} /\ d.id \in Below
        BY <1>1, <4>2 DEF TimersUnique
      <4>4. DOMAIN e = DOMAIN d /\ e.id = d.id
        BY <4>1, <4>3
      <4>5. QED
        BY <4>1, <4>2, <4>3, <4>4
    <3>3. QED
      BY <1>3, <2>1, <3>1, <3>2
  <2> HIDE DEF expired
  <2>2. ASSUME NEW e \in obj'.timers_, NEW f \in obj'.timers_, e.id = f.id
        PROVE  e = f
    <3>1. PICK c \in obj.timers_ : /\ c.id = e.id
                                   /\ c \in expired => e = [c EXCEPT !.expiry = now + c.interval]
                                   /\ c \notin expired => e = c
      BY <2>1
    <3>2. PICK d \in obj.timers_ : /\ d.id = f.id
                                   /\ d \in expired => f = [d EXCEPT !.expiry = now + d.interval]
                                   /\ d \notin expired => f = d
      BY <2>1
    <3>3. c = d
      BY <1>1, <2>2, <3>1, <3>2 DEF TimersUnique
    <3>4. QED
      BY <3>1, <3>2, <3>3
  <2>3. QED
    BY <1>4, <2>1, <2>2 DEF TimersUnique
<1>15. ASSUME NEW d \in log'.dead
       PROVE  d \in Below' /\ ~Loop!IsActive(d)'
  <2>1. d \in Below /\ ~Loop!IsActive(d)
    BY <1>1, <1>3
  <2>2. d \in DOMAIN obj'.activeTimers_ =>
          d \in DOMAIN obj.activeTimers_ /\ obj'.activeTimers_[d] = obj.activeTimers_[d]
    BY <1>3
  <2>3. QED
    BY <1>4, <2>1, <2>2 DEF Loop!IsActive
<1>16. Loop!DueNotCancelled
  BY <1>3 DEF Loop!DueNotCancelled
<1>17. QED
  BY <1>3, <1>7, <1>13, <1>14, <1>15, <1>16 DEF LoopInv

\* The one that fires is not among those still due, and if it is dead it was
\* owed.
LEMMA LoopFire ==
  ASSUME LoopInv, Loop!Fire
  PROVE  LoopInv' /\ Loop!DueNotCancelled
<1>1. /\ DOMAIN pc = {"at", "due"} /\ DOMAIN log = {"posted", "run", "dead", "owed", "fired"}
      /\ DOMAIN log.fired = 1..2
      /\ TimersUnique /\ DueOnce /\ \A d \in log.dead : d \in Below /\ ~Loop!IsActive(d)
  BY DEF LoopInv
<1> DEFINE id == Head(pc.due)
<1>2. /\ pc.due # <<>> /\ pc.due \in Seq(Below) /\ obj' = obj
      /\ DOMAIN pc' = DOMAIN pc /\ pc'.due = Tail(pc.due)
      /\ DOMAIN log' = DOMAIN log
      /\ log'.dead = log.dead /\ log'.owed = log.owed \ {id}
      /\ log'.fired = [log.fired EXCEPT ![id] = @ + 1]
  BY <1>1 DEF Loop!Fire, DueOnce
<1>3. /\ Len(pc.due) \in Nat \ {0} /\ id = pc.due[1] /\ id \in Below
      /\ pc'.due \in Seq(Below) /\ Len(pc'.due) = Len(pc.due) - 1
      /\ \A i \in 1..Len(pc'.due) : pc'.due[i] = pc.due[i + 1]
  BY <1>2
<1> HIDE DEF id
<1>4. Below' = Below
  BY <1>2 DEF Below
<1>5. /\ 1 \in 1..Len(pc.due)
      /\ \A i \in 1..Len(pc'.due) : i + 1 \in 1..Len(pc.due) /\ i + 1 # 1
  BY <1>3
<1>6. \A i \in 1..Len(pc'.due) : pc'.due[i] # id /\ (pc'.due[i] \in log.dead => pc'.due[i] \in log.owed)
  BY <1>1, <1>3, <1>5 DEF DueOnce
<1>7. \A i \in 1..Len(pc'.due) : pc'.due[i] \in log'.dead => pc'.due[i] \in log'.owed
  BY <1>2, <1>6
<1>8. ASSUME NEW i \in 1..Len(pc'.due), NEW j \in 1..Len(pc'.due), pc'.due[i] = pc'.due[j]
      PROVE  i = j
  <2>1. i + 1 = j + 1
    BY <1>1, <1>3, <1>5, <1>8 DEF DueOnce
  <2>2. i \in Int /\ j \in Int
    BY <1>3
  <2>3. QED
    BY <2>1, <2>2
<1>9. DueOnce'
  BY <1>3, <1>4, <1>7, <1>8 DEF DueOnce
<1>10. ASSUME NEW d \in log'.dead
       PROVE  d \in Below' /\ ~Loop!IsActive(d)'
  <2>1. d \in Below /\ ~Loop!IsActive(d)
    BY <1>1, <1>2
  <2>2. QED
    BY <1>2, <1>4, <2>1 DEF Loop!IsActive
<1>11. TimersUnique'
  BY <1>1, <1>2, <1>4 DEF TimersUnique
<1>12. Loop!DueNotCancelled
  <2>1. ASSUME NEW d \in 1..2, log'.fired[d] # log.fired[d], d \in log.dead
        PROVE  d \in log.owed
    <3>1. d = id
      BY <1>1, <1>2, <2>1
    <3>2. QED
      BY <1>1, <1>3, <1>5, <2>1, <3>1 DEF DueOnce
  <2>2. QED
    BY <2>1 DEF Loop!DueNotCancelled
<1>13. DOMAIN log'.fired = 1..2
  BY <1>1, <1>2
<1>14. QED
  BY <1>1, <1>2, <1>9, <1>10, <1>11, <1>12, <1>13 DEF LoopInv

\* Every step of the loop keeps the invariant and starts no dead timer.
LEMMA LoopStep ==
  ASSUME LoopInv, Loop!Next
  PROVE  LoopInv' /\ Loop!DueNotCancelled
<1>1. /\ DOMAIN obj = {"taskQueue_", "timers_", "activeTimers_", "nextTimerId_", "running_", "stopped_"}
      /\ DOMAIN pc = {"at", "due"} /\ DOMAIN log = {"posted", "run", "dead", "owed", "fired"}
  BY DEF LoopInv
<1>2. ASSUME NEW place, Loop!Goto(place)
      PROVE  DOMAIN pc' = DOMAIN pc /\ pc'.due = pc.due
  BY <1>1, <1>2 DEF Loop!Goto
<1>3. CASE Loop!post
  <2>1. /\ DOMAIN obj' = DOMAIN obj /\ DOMAIN log' = DOMAIN log /\ pc' = pc
        /\ log'.dead = log.dead /\ log'.owed = log.owed /\ log'.fired = log.fired
        /\ obj'.timers_ = obj.timers_ /\ obj'.activeTimers_ = obj.activeTimers_
        /\ obj'.nextTimerId_ = obj.nextTimerId_
    BY <1>1, <1>3 DEF Loop!post
  <2>2. QED
    BY <2>1, LoopSame
<1>4. CASE Loop!stop
  <2>1. /\ DOMAIN obj' = DOMAIN obj /\ log' = log /\ pc' = pc
        /\ obj'.timers_ = obj.timers_ /\ obj'.activeTimers_ = obj.activeTimers_
        /\ obj'.nextTimerId_ = obj.nextTimerId_
    BY <1>1, <1>4 DEF Loop!stop
  <2>2. QED
    BY <2>1, LoopSame
<1>5. CASE Loop!run \/ Loop!LoopHead \/ Loop!LoopEnd
  <2>1. \E place : Loop!Goto(place)
    BY <1>5 DEF Loop!run, Loop!LoopHead, Loop!LoopEnd
  <2>2. log' = log
    BY <1>5 DEF Loop!run, Loop!LoopHead, Loop!LoopEnd
  <2>3. /\ DOMAIN obj' = DOMAIN obj
        /\ obj'.timers_ = obj.timers_ /\ obj'.activeTimers_ = obj.activeTimers_
        /\ obj'.nextTimerId_ = obj.nextTimerId_
    BY <1>1, <1>5 DEF Loop!run, Loop!LoopHead, Loop!LoopEnd
  <2>4. QED
    BY <1>2, <2>1, <2>2, <2>3, LoopSame
<1>6. CASE Loop!TakeTask
  <2>1. \E place : Loop!Goto(place)
    BY <1>6 DEF Loop!TakeTask
  <2>2. /\ DOMAIN log' = DOMAIN log
        /\ log'.dead = log.dead /\ log'.owed = log.owed /\ log'.fired = log.fired
    BY <1>1, <1>6 DEF Loop!TakeTask
  <2>3. /\ DOMAIN obj' = DOMAIN obj
        /\ obj'.timers_ = obj.timers_ /\ obj'.activeTimers_ = obj.activeTimers_
        /\ obj'.nextTimerId_ = obj.nextTimerId_
    BY <1>1, <1>6 DEF Loop!TakeTask
  <2>4. QED
    BY <1>2, <2>1, <2>2, <2>3, LoopSame
<1>7. CASE Loop!Tick
  BY <1>7, LoopSame DEF Loop!Tick
<1>8. ASSUME NEW d \in 0..1, Loop!schedule(d)
      PROVE  LoopInv' /\ Loop!DueNotCancelled
  BY <1>8, LoopEnter DEF Loop!schedule
<1>9. ASSUME NEW i \in {1}, Loop!scheduleRepeating(i)
      PROVE  LoopInv' /\ Loop!DueNotCancelled
  BY <1>9, LoopEnter DEF Loop!scheduleRepeating
<1>10. ASSUME NEW id \in 1..obj.nextTimerId_ - 1, Loop!cancelTimer(id)
       PROVE  LoopInv' /\ Loop!DueNotCancelled
  BY <1>10, LoopCancel DEF Below
<1>11. QED
  BY <1>3, <1>4, <1>5, <1>6, <1>7, <1>8, <1>9, <1>10, LoopProcess, LoopFire DEF Loop!Next, Loop!Loop

\* The new loop satisfies the invariant.
LEMMA LoopInitInv ==
  ASSUME Loop!Init
  PROVE  LoopInv
<1>1. /\ obj = [taskQueue_ |-> <<>>, timers_ |-> {}, activeTimers_ |-> [i \in {} |-> TRUE],
                nextTimerId_ |-> 1, running_ |-> FALSE, stopped_ |-> FALSE]
      /\ pc = [at |-> "out", due |-> <<>>]
      /\ DOMAIN log = {"posted", "run", "dead", "owed", "fired"} /\ log.dead = {}
      /\ DOMAIN log.fired = 1..2
  BY DEF Loop!Init
<1>2. TimersUnique /\ DueOnce
  BY <1>1 DEF TimersUnique, DueOnce
<1>3. QED
  BY <1>1, <1>2 DEF LoopInv
-----------------------------------------------------------------------------
CancelInv ==
  /\ part = "TaskScheduler" => SchedInv
  /\ part = "EventLoop" => LoopInv
  /\ part = "DebouncedDispatcher" => DebounceInv

\* Each part starts in its own invariant.
LEMMA CancelInitInv == Init => CancelInv
BY SchedInitInv, LoopInitInv, DebounceInitInv DEF Init, CancelInv, BoundedParts, QueueParts

StaysQuiet ==
  /\ part = "TaskScheduler" => Sched!BeginsOnlyActive
  /\ part = "EventLoop" => Loop!DueNotCancelled
  /\ part = "DebouncedDispatcher" => Debounce!WakesQuietly

\* A step of a part keeps the invariant of that part and starts nothing that
\* was cancelled.
LEMMA CancelStep == CancelInv /\ [Next]_vars => CancelInv' /\ [StaysQuiet]_vars
<1> SUFFICES ASSUME CancelInv, [Next]_vars PROVE CancelInv' /\ [StaysQuiet]_vars
  OBVIOUS
<1>1. part' = part
  BY DEF Next, Untimed, Timed, vars
<1>2. CASE UNCHANGED vars
  <2>1. obj' = obj /\ pc' = pc /\ log' = log /\ DOMAIN pc'.emit = DOMAIN pc.emit
    BY <1>2 DEF vars
  <2>2. SchedInv => SchedInv'
    BY <2>1, SchedSame
  <2>3. LoopInv => LoopInv'
    BY <2>1, LoopSame
  <2>4. DebounceInv => DebounceInv'
    BY <2>1, DebounceSame
  <2>5. QED
    BY <1>1, <1>2, <2>2, <2>3, <2>4 DEF CancelInv
<1>3. CASE Next
  <2>1. part = "TaskScheduler" => Sched!Next
    BY <1>3 DEF Next, Untimed, Timed
  <2>2. part = "EventLoop" => Loop!Next
    BY <1>3 DEF Next, Untimed, Timed
  <2>3. part = "DebouncedDispatcher" => Debounce!Next
    BY <1>3 DEF Next, Untimed, Timed
  <2>4. part = "TaskScheduler" => SchedInv' /\ Sched!BeginsOnlyActive
    BY <2>1, SchedStep DEF CancelInv
  <2>5. part = "EventLoop" => LoopInv' /\ Loop!DueNotCancelled
    BY <2>2, LoopStep DEF CancelInv
  <2>6. part = "DebouncedDispatcher" => DebounceInv' /\ Debounce!WakesQuietly
    BY <2>3, DebounceStep DEF CancelInv
  <2>7. QED
    BY <1>1, <2>4, <2>5, <2>6 DEF CancelInv, StaysQuiet
<1>4. QED
  BY <1>2, <1>3

\* A task or a timer whose cancel() has returned is called no more, except once
\* where a worker had taken the task, or the timer was in the list of those that
\* are due, when cancel() came; and no dispatch that sleeps once the destructor
\* has cancelled reaches the handler, unless a handler's emit() has undone that.
THEOREM CancelsCorrect == Spec => CancelledStaysQuiet
<1>1. Spec => [][StaysQuiet]_vars
  BY CancelInitInv, CancelStep, PTL DEF Spec
<1>2. QED
  BY <1>1 DEF CancelledStaysQuiet, StaysQuiet
=============================================================================
