-------------------------------- MODULE Memory --------------------------------
(***************************************************************************)
(* Owners of memory: smart_ptr and simple_allocator (03-advanced),         *)
(* memory_pool, arena_allocator, slab_allocator and allocation_tracker     *)
(* (stage 35), object_pool (stages 8 and 16).                              *)
(* The tracker is used by threads, the others by one thread (the pools of  *)
(* objects hold their mutex for the whole of every call).                  *)
(***************************************************************************)
EXTENDS Naturals, Sequences, SequencesExt, FiniteSets, FiniteSetsExt

CONSTANTS Objects,            \* what pointers point to
          Strong, Weak, Raw,  \* handles: SharedPtr, WeakPtr, UniquePtr
          Blocks,             \* bound: blocks of an allocator
          Size, MaxSlabs,     \* bounds: bytes of an arena or a slab; slabs
          MaxSize,            \* bound: objects of a pool
          Threads, MaxAlloc   \* bound: allocations tracked

VARIABLES
  obj,
  abs    \* history
-----------------------------------------------------------------------------
(* smart_ptr.  Every object has a control block while a SharedPtr or a     *)
(* WeakPtr refers to it; handles that refer to none hold None.             *)
None == "none"
PtrInit ==
  /\ obj = [shared |-> [h \in Strong |-> None], weak |-> [h \in Weak |-> None], unique |-> [h \in Raw |-> None],
            strong_count |-> [o \in Objects |-> 0], weak_count |-> [o \in Objects |-> 0]]
  /\ abs = [new |-> Objects, shared |-> {}, loose |-> {}, deleted |-> [o \in Objects |-> 0], freed |-> [o \in Objects |-> 0]]

\* The effect on the counters is computed on a record of both.
addStrong(h, o) == IF o = None THEN h ELSE [h EXCEPT !.obj.strong_count[o] = @ + 1]
addWeak(h, o) == IF o = None THEN h ELSE [h EXCEPT !.obj.weak_count[o] = @ + 1]
MutReleaseWeak(h, o) ==
  IF o = None THEN h
  ELSE [h EXCEPT !.obj.weak_count[o] = @ - 1, !.abs.freed[o] = IF h.obj.strong_count[o] = 0 THEN @ + 1 ELSE @]
releaseWeak(h, o) ==
  IF o = None THEN h
  ELSE [h EXCEPT !.obj.weak_count[o] = @ - 1, !.abs.freed[o] = IF h.obj.weak_count[o] = 1 THEN @ + 1 ELSE @]
releaseStrong(h, o) ==
  IF o = None THEN h
  ELSE LET less == [h EXCEPT !.obj.strong_count[o] = @ - 1] IN
       IF less.obj.strong_count[o] > 0 THEN less
       ELSE releaseWeak([less EXCEPT !.abs.deleted[o] = @ + 1], o)

Now == [obj |-> obj, abs |-> abs]
Become(h) == obj' = h.obj /\ abs' = h.abs
Refer(h, p, o) == [h EXCEPT !.obj.shared[p] = o]
ReferWeak(h, p, o) == [h EXCEPT !.obj.weak[p] = o]

\* SharedPtr(ptr) and reset(ptr): an object nobody owns, or none.
ResetShared(p, o) ==
  /\ o \in abs.new \union abs.loose \union {None} /\ obj.shared[p] # o
  /\ LET freed == releaseStrong(Now, obj.shared[p])
         owned == [freed EXCEPT !.abs.new = @ \ {o}, !.abs.loose = @ \ {o}] IN
     Become(Refer(IF o = None THEN owned
                  ELSE [owned EXCEPT !.obj.strong_count[o] = 1, !.obj.weak_count[o] = 1,
                                    !.abs.shared = @ \union {o}], p, o))

CopyShared(p, q) == p # q /\ Become(addStrong(Refer(releaseStrong(Now, obj.shared[p]), p, obj.shared[q]), obj.shared[q]))
MoveShared(p, q) == p # q /\ Become(Refer(Refer(releaseStrong(Now, obj.shared[p]), p, obj.shared[q]), q, None))
CopyWeak(w, o) == Become(addWeak(ReferWeak(releaseWeak(Now, obj.weak[w]), w, o), o))
MoveWeak(w, v) == w # v /\ Become(ReferWeak(ReferWeak(releaseWeak(Now, obj.weak[w]), w, obj.weak[v]), v, None))
ResetWeak(w) == Become(ReferWeak(releaseWeak(Now, obj.weak[w]), w, None))

\* p = w.lock(): nothing if expired; the pointer that p had is released last.
expired(w) == obj.weak[w] = None \/ obj.strong_count[obj.weak[w]] = 0
Lock(p, w) ==
  IF expired(w) THEN Become(Refer(releaseStrong(Now, obj.shared[p]), p, None))
  ELSE Become(Refer(releaseStrong(addStrong(Now, obj.weak[w]), obj.shared[p]), p, obj.weak[w]))

\* UniquePtr: reset, move and release; a released object is loose.
Deleted(h, o) == IF o = None THEN h ELSE [h EXCEPT !.abs.deleted[o] = @ + 1]
ResetUnique(u, o) ==
  /\ o \in abs.new \union abs.loose \union {None} /\ obj.unique[u] # o
  /\ LET h == Deleted(Now, obj.unique[u]) IN
     Become([h EXCEPT !.obj.unique[u] = o, !.abs.new = @ \ {o}, !.abs.loose = @ \ {o}])
MoveUnique(u, v) ==
  /\ u # v
  /\ LET h == Deleted(Now, obj.unique[u]) IN Become([h EXCEPT !.obj.unique[u] = obj.unique[v], !.obj.unique[v] = None])
ReleaseUnique(u) ==
  /\ obj.unique[u] # None
  /\ obj' = [obj EXCEPT !.unique[u] = None]
  /\ abs' = [abs EXCEPT !.loose = @ \union {obj.unique[u]}]

PtrNext ==
  \/ \E p, q \in Strong : CopyShared(p, q) \/ MoveShared(p, q)
  \/ \E w, v \in Weak : (w # v /\ CopyWeak(w, obj.weak[v])) \/ MoveWeak(w, v)
  \/ \E p \in Strong, w \in Weak : CopyWeak(w, obj.shared[p]) \/ Lock(p, w)
  \/ \E w \in Weak : ResetWeak(w)
  \/ \E p \in Strong, o \in Objects \union {None} : ResetShared(p, o)
  \/ \E u \in Raw, o \in Objects \union {None} : ResetUnique(u, o)
  \/ \E u, v \in Raw : MoveUnique(u, v)
  \/ \E u \in Raw : ReleaseUnique(u)

\* An object is deleted once, when its last SharedPtr or its UniquePtr goes and
\* not before; its control block is freed once, when no handle of either kind
\* refers to it; no WeakPtr gives out an object that is gone.
PtrOwned ==
  \A o \in Objects :
    LET strong == {p \in Strong : obj.shared[p] = o}
        weak == {w \in Weak : obj.weak[w] = o}
        unique == {u \in Raw : obj.unique[u] = o} IN
    /\ abs.deleted[o] = IF strong \union unique # {} \/ o \in abs.new \union abs.loose THEN 0 ELSE 1
    /\ Cardinality(unique) + (IF strong = {} THEN 0 ELSE 1) <= 1
    /\ obj.strong_count[o] = Cardinality(strong)
    /\ obj.weak_count[o] = Cardinality(weak) + (IF strong = {} THEN 0 ELSE 1)
    /\ abs.freed[o] = IF o \in abs.shared /\ strong \union weak = {} THEN 1 ELSE 0
-----------------------------------------------------------------------------
(* simple_allocator: a list of free blocks threaded through the blocks;    *)
(* memory_pool: a vector of them.  Callers give back what they hold, once, *)
(* or a null or foreign pointer, which is refused.                         *)
End == 0
AllocatorInit ==
  /\ obj = [freeList_ |-> 1, next |-> [b \in 1..Blocks |-> IF b = Blocks THEN End ELSE b + 1],
            usedCount_ |-> 0, pool |-> [b \in 1..Blocks |-> b]]
  /\ abs = [list |-> {}, pool |-> {}]

allocateBlock ==
  /\ obj.freeList_ # End
  /\ obj' = [obj EXCEPT !.freeList_ = obj.next[@], !.usedCount_ = @ + 1]
  /\ abs' = [abs EXCEPT !.list = @ \union {obj.freeList_}]
deallocateBlock(b) ==
  /\ b \in abs.list
  /\ obj' = [obj EXCEPT !.next[b] = obj.freeList_, !.freeList_ = b, !.usedCount_ = @ - 1]
  /\ abs' = [abs EXCEPT !.list = @ \ {b}]
reset ==
  /\ obj' = [obj EXCEPT !.freeList_ = 1, !.usedCount_ = 0, !.next = [b \in 1..Blocks |-> IF b = Blocks THEN End ELSE b + 1]]
  /\ abs' = [abs EXCEPT !.list = {}]
allocatePool ==
  /\ obj.pool # <<>>
  /\ obj' = [obj EXCEPT !.pool = Front(@)]
  /\ abs' = [abs EXCEPT !.pool = @ \union {Last(obj.pool)}]
deallocatePool(b) ==
  /\ b \in abs.pool
  /\ obj' = [obj EXCEPT !.pool = Append(@, b)]
  /\ abs' = [abs EXCEPT !.pool = @ \ {b}]

AllocatorNext ==
  \/ allocateBlock \/ reset \/ allocatePool
  \/ \E b \in 1..Blocks : deallocateBlock(b) \/ deallocatePool(b)

\* From the head the links reach, in as many steps as there are free blocks, the
\* end, and pass every block that nobody holds; both count alike.
Chain == LET at[n \in 0..Blocks] == IF n = 0 THEN obj.freeList_ ELSE IF at[n - 1] = End THEN End ELSE obj.next[at[n - 1]]
         IN at
FreeBlocksLinked ==
  LET used == Cardinality(abs.list) IN
  /\ {Chain[n] : n \in 0..Blocks} \ {End} = 1..Blocks \ abs.list
  /\ Chain[Blocks - used] = End /\ obj.usedCount_ = used
  /\ ToSet(obj.pool) = 1..Blocks \ abs.pool /\ Len(obj.pool) = Blocks - Cardinality(abs.pool)
-----------------------------------------------------------------------------
(* arena_allocator and slab_allocator: an offset that grows.  Regions are  *)
(* noted with the slab they are in; the arena is slab 0.  In units of      *)
(* eight bytes the smallest block of a slab is two.                        *)
BumpInit == obj = [offset_ |-> 0, slab |-> 1, slabOffset_ |-> 0] /\ abs = {}

Region(slab, from, size) == [slab |-> slab, from |-> from, size |-> size]
Aligned(n, alignment) == ((n + alignment - 1) \div alignment) * alignment
allocateArena(size, alignment) ==
  LET from == Aligned(obj.offset_, alignment) IN
  /\ from + size <= Size
  /\ obj' = [obj EXCEPT !.offset_ = from + size]
  /\ abs' = abs \union {Region(0, from, size)}
resetArena ==
  /\ obj' = [obj EXCEPT !.offset_ = 0]
  /\ abs' = {r \in abs : r.slab # 0}

nextPowerOf2(n) == CHOOSE p \in {1, 2, 4, 8, 16} : p >= n /\ (p > 1 => p \div 2 < n)
\* Nothing ever enters freeLists_; a block as large as the slab, or larger, gets
\* a slab of its own of the usual size.
allocateSlab(size) ==
  LET block == Max({nextPowerOf2(size), 2})
      full == obj.slabOffset_ + block > Size
      slab == IF full THEN obj.slab + 1 ELSE obj.slab
      from == IF full THEN 0 ELSE obj.slabOffset_ IN
  /\ slab <= MaxSlabs
  /\ obj' = [obj EXCEPT !.slab = slab, !.slabOffset_ = from + block]
  /\ abs' = abs \union {Region(slab, from, size)}
resetSlabs ==
  /\ obj' = [obj EXCEPT !.slab = 1, !.slabOffset_ = 0]
  /\ abs' = {r \in abs : r.slab = 0}

BumpNext ==
  \/ \E size \in 1..3, alignment \in {1, 2} : allocateArena(size, alignment)
  \/ \E size \in {1, 3, Size + 1} : allocateSlab(size)
  \/ resetArena \/ resetSlabs

\* Regions that are handed out and not taken back by a reset do not overlap, and
\* lie within their memory unless what was asked of a slab is larger than one.
RegionsApart ==
  \A r \in abs :
    /\ r.size <= Size => r.from + r.size <= Size
    /\ \A q \in abs : r # q /\ r.slab = q.slab => r.from + r.size <= q.from \/ q.from + q.size <= r.from
-----------------------------------------------------------------------------
(* object_pool and object_pool_advanced: the latter deletes what its       *)
(* validator refuses; the former has none, and none spoils.  The callers   *)
(* hold objects by shared pointers that put them back.                     *)
PoolInit ==
  /\ \E min \in 0..MaxSize : obj = [pool_ |-> [i \in 1..min |-> i], activeCount_ |-> 0, made |-> min]
  /\ abs = [held |-> {}, spoilt |-> {}, deleted |-> <<>>]

acquire ==
  LET good == {i \in DOMAIN obj.pool_ : obj.pool_[i] \notin abs.spoilt}
      first == CHOOSE i \in good : \A j \in good : i <= j
      raw == IF good = {} THEN obj.made + 1 ELSE obj.pool_[first]
      gone == IF good = {} THEN Len(obj.pool_) ELSE first - 1 IN
  /\ raw <= MaxSize + 1
  /\ obj' = [pool_ |-> IF good = {} THEN <<>> ELSE SubSeq(obj.pool_, first + 1, Len(obj.pool_)),
             activeCount_ |-> obj.activeCount_ + 1, made |-> Max({raw, obj.made})]
  /\ abs' = [abs EXCEPT !.held = @ \union {raw}, !.deleted = @ \o SubSeq(obj.pool_, 1, gone)]
giveBack(o) ==
  /\ o \in abs.held
  /\ obj' = [obj EXCEPT !.pool_ = Append(@, o), !.activeCount_ = @ - 1]
  /\ abs' = [abs EXCEPT !.held = @ \ {o}]
spoil(o) ==
  /\ o \in abs.held \ abs.spoilt
  /\ abs' = [abs EXCEPT !.spoilt = @ \union {o}]
  /\ UNCHANGED obj
clear ==
  /\ obj' = [obj EXCEPT !.pool_ = <<>>]
  /\ abs' = [abs EXCEPT !.deleted = @ \o obj.pool_]

PoolNext == acquire \/ clear \/ \E o \in 1..MaxSize + 1 : giveBack(o) \/ spoil(o)

\* An object that was made is idle, held or deleted, only one of these, and it is
\* deleted once.
PooledOnce ==
  LET idle == ToSet(obj.pool_)
      gone == ToSet(abs.deleted) IN
  /\ idle \union abs.held \union gone = 1..obj.made
  /\ Len(obj.pool_) + Cardinality(abs.held) + Len(abs.deleted) = obj.made
  /\ obj.activeCount_ = Cardinality(abs.held)
-----------------------------------------------------------------------------
(* allocation_tracker: the counters are atomics, a call is several steps.  *)
TrackerInit ==
  /\ obj = [gTotalAlloc |-> 0, gTotalDealloc |-> 0, gLiveAlloc |-> 0, gLiveBytes |-> 0, gPeakBytes |-> 0,
            at |-> [t \in Threads |-> "idle"], live |-> [t \in Threads |-> 0], peak |-> [t \in Threads |-> 0]]
  /\ abs = [held |-> [t \in Threads |-> 0], highest |-> 0]

Goto(o, t, pc) == [o EXCEPT !.at[t] = pc]
recordAllocation(t) ==
  \/ /\ obj.at[t] = "idle" /\ abs.held[t] = 0 /\ obj.gTotalAlloc < MaxAlloc
     /\ obj' = Goto([obj EXCEPT !.gTotalAlloc = @ + 1], t, "live")
     /\ UNCHANGED abs
  \/ /\ obj.at[t] = "live"
     /\ obj' = Goto([obj EXCEPT !.gLiveAlloc = @ + 1], t, "bytes")
     /\ UNCHANGED abs
  \/ /\ obj.at[t] = "bytes"
     /\ \E bytes \in {1, 2} :
          /\ obj' = Goto([obj EXCEPT !.gLiveBytes = @ + bytes, !.live[t] = obj.gLiveBytes + bytes], t, "peak")
          /\ abs' = [held |-> [abs.held EXCEPT ![t] = bytes], highest |-> Max({abs.highest, obj.gLiveBytes + bytes})]
  \/ /\ obj.at[t] = "peak"
     /\ obj' = Goto([obj EXCEPT !.peak[t] = obj.gPeakBytes], t, "exchange")
     /\ UNCHANGED abs
  \/ /\ obj.at[t] = "exchange"    \* compare_exchange_weak may fail, and reloads peak
     /\ \/ obj.live[t] <= obj.peak[t] /\ obj' = Goto(obj, t, "idle")
        \/ /\ obj.live[t] > obj.peak[t] /\ obj.gPeakBytes = obj.peak[t]
           /\ obj' = Goto([obj EXCEPT !.gPeakBytes = obj.live[t]], t, "idle")
        \/ /\ obj.live[t] > obj.peak[t]
           /\ obj' = [obj EXCEPT !.peak[t] = obj.gPeakBytes]
     /\ UNCHANGED abs

recordDeallocation(t) ==
  \/ /\ obj.at[t] = "idle" /\ abs.held[t] > 0
     /\ obj' = Goto([obj EXCEPT !.gTotalDealloc = @ + 1], t, "dead")
     /\ UNCHANGED abs
  \/ /\ obj.at[t] = "dead"
     /\ obj' = Goto([obj EXCEPT !.gLiveAlloc = @ - 1], t, "less")
     /\ UNCHANGED abs
  \/ /\ obj.at[t] = "less"
     /\ obj' = Goto([obj EXCEPT !.gLiveBytes = @ - abs.held[t]], t, "idle")
     /\ abs' = [abs EXCEPT !.held[t] = 0]

TrackerNext == \E t \in Threads : recordAllocation(t) \/ recordDeallocation(t)

\* Whatever the interleaving, the bytes are those held and the peak is never
\* above the highest they were; with all threads idle it is the highest, and
\* the other counters agree.
PeakIsHighest ==
  LET quiet == \A t \in Threads : obj.at[t] = "idle" IN
  /\ obj.gLiveBytes = MapThenSumSet(LAMBDA t : abs.held[t], Threads)
  /\ obj.gPeakBytes <= abs.highest
  /\ quiet => /\ obj.gPeakBytes = abs.highest
              /\ obj.gLiveAlloc = obj.gTotalAlloc - obj.gTotalDealloc
              /\ obj.gLiveAlloc = Cardinality({t \in Threads : abs.held[t] > 0})
=============================================================================
