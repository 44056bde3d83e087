------------------------------- MODULE Pitfalls -------------------------------
(***************************************************************************)
(* The programs of src/examples that show what threads do wrong and how it *)
(* is set right: pitfall-deadlock, -livelock, -data-race, -broken-double-  *)
(* checked-locking, -memory-order-pitfalls, -priority-inversion,           *)
(* -thread-leak, -thread-safety-composition-fallacy, -the-myth-of-thread-  *)
(* safety, std-latch-barrier and copy_on_write_example.                    *)
(* obj.program names the variant; a thread t is at the step obj.at[t].     *)
(***************************************************************************)
EXTENDS Naturals, Sequences, FiniteSets, FiniteSetsExt

CONSTANTS Threads,      \* two of them, where the program has two roles
          First,        \* the one of them that plays the first
          Rounds        \* bound: rounds, phases, increments

VARIABLES obj, abs

Other(t) == CHOOSE u \in Threads : u # t
Goes(t, to, o) == obj' = [o EXCEPT !.at[t] = to]
AllAt(set) == \A t \in Threads : obj.at[t] \in set
Start(v) == [t \in Threads |-> v]
-----------------------------------------------------------------------------
(* Two mutexes.  own(t) is taken first by the thread that cannot do        *)
(* better; std::scoped_lock takes both or, finding the second taken, lets  *)
(* the first go; transfer_in_global_order takes the lower first.           *)
(* Barrier(2) of the pattern is passed when both have come.                *)
Mutexes == {1, 2}
own(t) == IF t = First THEN 1 ELSE 2
LockInit ==
  /\ \E p \in {"pattern", "scoped", "ordered", "polite", "backoff"} :
       obj = [program |-> p, at |-> Start("start"), held |-> [m \in Mutexes |-> "free"], arrived |-> {}, round |-> Start(0)]
  /\ abs = [done |-> {}, got |-> {}]

Free(m) == obj.held[m] = "free"
firstOf(t) == IF obj.program = "ordered" THEN 1 ELSE own(t)
secondOf(t) == 3 - firstOf(t)
lockFirst(t) ==
  /\ obj.at[t] = "start" /\ Free(firstOf(t))
  /\ Goes(t, IF obj.program \in {"pattern", "polite"} THEN "holding" ELSE "try", [obj EXCEPT !.held[firstOf(t)] = t])
  /\ UNCHANGED abs
\* arrive_and_wait(), with the step it leads to.
arrive_and_wait(t, from, to) ==
  /\ obj.at[t] = from
  /\ IF obj.arrived = {Other(t)}
     THEN obj' = [obj EXCEPT !.arrived = {}, !.at = Start(to)]
     ELSE obj.arrived = {} /\ Goes(t, "waits", [obj EXCEPT !.arrived = {t}])
  /\ UNCHANGED abs
\* try_lock_for(), try_lock(), or the second lock of scoped_lock or of an order.
lockSecond(t) ==
  LET m == secondOf(t) IN
  /\ obj.at[t] = "try"
  /\ IF Free(m) THEN /\ Goes(t, "has", [obj EXCEPT !.held[m] = t])
                     /\ abs' = [abs EXCEPT !.got = @ \union {t}]
     ELSE /\ obj.program # "ordered"
          /\ Goes(t, IF obj.program \in {"scoped", "backoff"} THEN "start" ELSE "tried",
                  IF obj.program \in {"scoped", "backoff"} THEN [obj EXCEPT !.held[own(t)] = "free"] ELSE obj)
          /\ UNCHANGED abs
leave(t) ==
  /\ obj.at[t] = "has"
  /\ IF obj.program = "pattern" THEN Goes(t, "tried", [obj EXCEPT !.held[secondOf(t)] = "free"])
     ELSE Goes(t, "done", [obj EXCEPT !.held = [m \in Mutexes |-> "free"]])
  /\ abs' = [abs EXCEPT !.done = IF obj.program = "pattern" THEN @ ELSE @ \union {t}]
\* lock_guard, or the polite worker that steps aside.
stepAside(t) ==
  /\ obj.at[t] = "release"
  /\ Goes(t, IF obj.program = "pattern" THEN "done" ELSE "aside",
          [obj EXCEPT !.held[own(t)] = "free", !.round[t] = @ + 1])
  /\ UNCHANGED abs
nextRound(t) ==
  /\ obj.at[t] = "again"
  /\ Goes(t, IF obj.round[t] = Rounds THEN "done" ELSE "start", obj)
  /\ UNCHANGED abs

LockNext ==
  \E t \in Threads :
    \/ lockFirst(t) \/ lockSecond(t) \/ leave(t) \/ stepAside(t) \/ nextRound(t)
    \/ arrive_and_wait(t, "holding", "try") \/ arrive_and_wait(t, "tried", "release") \/ arrive_and_wait(t, "aside", "again")

\* A thread that cannot move waits for one that can, so that both get done; who
\* has both mutexes has them alone; and where each holds one until both have
\* tried the other, as the deadlock and the polite workers do, nobody gets both.
NoCycle ==
  LET Stuck(t) == \/ obj.at[t] = "waits"
                  \/ obj.at[t] = "start" /\ ~Free(firstOf(t))
                  \/ obj.program = "ordered" /\ obj.at[t] = "try" /\ ~Free(secondOf(t)) IN
  /\ \E t \in Threads : ~Stuck(t) \/ AllAt({"done"})
  /\ \A t \in Threads : Stuck(t) => obj.at[Other(t)] # "done"
  /\ \A t \in Threads : obj.at[t] = "has" => obj.held = [m \in Mutexes |-> t]
  /\ obj.program \in {"pattern", "polite"} => abs.got = {}
  /\ AllAt({"done"}) /\ obj.program \notin {"pattern", "polite"} => abs.done = Threads
-----------------------------------------------------------------------------
(* Reads and writes.  ++ of an int is a read and a write; fetch_add is     *)
(* one; the transfers under scoped_lock of both accounts are one;          *)
(* tryAcquire loads and then stores, tryAcquireSafe exchanges what it has  *)
(* loaded.                                                                 *)
RaceInit ==
  /\ \E p \in {"racy", "atomic", "transfer", "tryAcquire", "tryAcquireSafe"} :
       obj = [program |-> p, at |-> Start("start"), value |-> IF p \in {"tryAcquire", "tryAcquireSafe"} THEN 1 ELSE 0,
              other |-> 0, read |-> Start(0)]
  /\ abs = [did |-> Start(0)]
Did(t) == abs' = [abs EXCEPT !.did[t] = @ + 1]

readCounter(t) ==
  /\ obj.program = "racy" /\ obj.at[t] = "start" /\ abs.did[t] < Rounds
  /\ Goes(t, "write", [obj EXCEPT !.read[t] = obj.value])
  /\ UNCHANGED abs
writeCounter(t) ==
  /\ obj.program = "racy" /\ obj.at[t] = "write"
  /\ Goes(t, "start", [obj EXCEPT !.value = obj.read[t] + 1])
  /\ Did(t)
fetch_add(t) ==
  /\ obj.program = "atomic" /\ abs.did[t] < Rounds
  /\ obj' = [obj EXCEPT !.value = @ + 1]
  /\ Did(t)
\* There and back: what one account loses the other has.
good_transfer(t) ==
  /\ obj.program = "transfer" /\ abs.did[t] < Rounds
  /\ obj' = IF t = First THEN [obj EXCEPT !.value = @ + 1] ELSE [obj EXCEPT !.other = @ + 1]
  /\ Did(t)
loadSlots(t) ==
  /\ obj.program \in {"tryAcquire", "tryAcquireSafe"} /\ obj.at[t] = "start"
  /\ Goes(t, IF obj.value > 0 THEN "write" ELSE "done", [obj EXCEPT !.read[t] = obj.value])
  /\ UNCHANGED abs
storeSlots(t) ==
  /\ obj.program \in {"tryAcquire", "tryAcquireSafe"} /\ obj.at[t] = "write"
  /\ IF obj.program = "tryAcquireSafe" /\ obj.value # obj.read[t]
     THEN Goes(t, IF obj.value > 0 THEN "write" ELSE "done", [obj EXCEPT !.read[t] = obj.value]) /\ UNCHANGED abs
     ELSE Goes(t, "done", [obj EXCEPT !.value = obj.read[t] - 1]) /\ Did(t)
RaceNext ==
  \E t \in Threads : readCounter(t) \/ writeCounter(t) \/ fetch_add(t) \/ good_transfer(t) \/ loadSlots(t) \/ storeSlots(t)

\* The atomic counter counts every increment and the racy one no more than there
\* were, and not fewer than its last writer made; the exchange hands out one
\* slot, where load and store hand it to each who read it.
CountsAreKept ==
  LET total == FoldSet(LAMBDA t, n : n + abs.did[t], 0, Threads) IN
  CASE obj.program \in {"atomic", "transfer"} -> obj.value + obj.other = total
    [] obj.program = "racy" -> obj.value <= total /\ (total > 0 => obj.value > 0)
    [] obj.program = "tryAcquireSafe" -> obj.value + total = 1
    [] OTHER -> total <= Cardinality(Threads)
-----------------------------------------------------------------------------
(* Publishing an object.  A relaxed store may be seen before the object's  *)
(* fields are, the unsynchronized pointer too; an acquiring load of a      *)
(* releasing store sees them.  call_once and a local static run under a    *)
(* flag of their own.  seen: the fields that a thread can see.             *)
OnceInit ==
  /\ \E p \in {"broken", "relaxed", "acquire", "once", "naive", "shared"} :
       obj = [program |-> p, at |-> Start("start"), pointer |-> 0, lock |-> "free", made |-> 0, seen |-> Start({})]
  /\ abs = [result |-> Start(0), whole |-> Start(TRUE)]

Sees(t, p) == p = 0 \/ p \in obj.seen[t]
Takes(t) == abs' = [result |-> [abs.result EXCEPT ![t] = obj.pointer], whole |-> [abs.whole EXCEPT ![t] = Sees(t, obj.pointer)]]
\* The cache that is naive locks for the check and for the update, not for both.
checkPointer(t) ==
  /\ obj.at[t] = "start"
  /\ LET fresh == IF obj.program \in {"acquire", "once", "naive", "shared"} /\ obj.pointer # 0
                  THEN [obj EXCEPT !.seen[t] = @ \union {obj.pointer}] ELSE obj IN
     IF obj.pointer = 0 THEN Goes(t, IF obj.program = "naive" THEN "make" ELSE "locks", obj) /\ UNCHANGED abs
     ELSE /\ Goes(t, "done", fresh)
          /\ abs' = [result |-> [abs.result EXCEPT ![t] = obj.pointer],
                     whole |-> [abs.whole EXCEPT ![t] = obj.pointer \in fresh.seen[t]]]
lockToMake(t) ==
  /\ obj.at[t] = "locks" /\ obj.lock = "free"
  /\ Goes(t, "recheck", [obj EXCEPT !.lock = t, !.seen[t] = 1..obj.made])
  /\ UNCHANGED abs
recheckPointer(t) ==
  /\ obj.at[t] = "recheck"
  /\ IF obj.pointer = 0 THEN Goes(t, "make", obj) /\ UNCHANGED abs
     ELSE Goes(t, "done", [obj EXCEPT !.lock = "free"]) /\ Takes(t)
\* Make the object, then store the pointer, in two steps.
makeObject(t) ==
  /\ obj.at[t] = "make"
  /\ Goes(t, "store", [obj EXCEPT !.made = @ + 1, !.seen[t] = @ \union {obj.made + 1}])
  /\ UNCHANGED abs
storePointer(t) ==
  /\ obj.at[t] = "store"
  /\ LET mine == IF obj.program = "naive" THEN Max(obj.seen[t]) ELSE obj.made IN
     /\ Goes(t, "done", [obj EXCEPT !.pointer = mine, !.lock = IF @ = t THEN "free" ELSE @])
     /\ abs' = [abs EXCEPT !.result[t] = mine]
OnceNext == \E t \in Threads : checkPointer(t) \/ lockToMake(t) \/ recheckPointer(t) \/ makeObject(t) \/ storePointer(t)

\* However many ask for it, one object is made and all have it, in every variant
\* but the cache that checks and acts in two critical sections; and who has it
\* sees its fields, unless it read a pointer that orders nothing.
MadeOnce ==
  /\ obj.program # "naive" => obj.made <= 1 /\ \A t \in Threads : obj.at[t] = "done" => abs.result[t] = 1
  /\ obj.program \notin {"broken", "relaxed"} => \A t \in Threads : abs.whole[t]
  /\ obj.made <= Cardinality(Threads)
-----------------------------------------------------------------------------
(* The handshakes of memory-order-pitfalls: the writer's two stores, and   *)
(* the order in which the reader can see them.  A fence or a releasing     *)
(* store orders the first before the second.                               *)
HandshakeInit ==
  /\ \E p \in {"relaxed", "acquire-release", "fence", "seq_cst"} :
       obj = [program |-> p, stored |-> 0, visible |-> {}, reader |-> "spins"]
  /\ abs = [observed |-> "none"]
storeNext == obj.stored < 2 /\ obj' = [obj EXCEPT !.stored = @ + 1] /\ UNCHANGED abs
becomesVisible(n) ==
  /\ n \in 1..obj.stored \ obj.visible
  /\ obj.program = "relaxed" \/ 1..n - 1 \subseteq obj.visible
  /\ obj' = [obj EXCEPT !.visible = @ \union {n}]
  /\ UNCHANGED abs
seesFlag == obj.reader = "spins" /\ 2 \in obj.visible /\ obj' = [obj EXCEPT !.reader = "reads"] /\ UNCHANGED abs
readsPayload ==
  /\ obj.reader = "reads"
  /\ obj' = [obj EXCEPT !.reader = "done"]
  /\ abs' = [observed |-> IF 1 \in obj.visible THEN "42" ELSE "0"]
HandshakeNext == storeNext \/ seesFlag \/ readsPayload \/ \E n \in {1, 2} : becomesVisible(n)

\* A reader that has seen the flag observes the payload, but for relaxed stores.
FlagMeansPayload == obj.program # "relaxed" => abs.observed # "0"
-----------------------------------------------------------------------------
(* priority-inversion: simulate(), one tick a step.                        *)
Priority == [low |-> 0, medium |-> 1, high |-> 2]
RunnableAt == [low |-> 1, medium |-> 3, high |-> 2]
InversionInit ==
  /\ \E inherits, needs \in BOOLEAN, low \in 1..3, medium \in {0, 1, 4} :
       obj = [inherits |-> inherits, needs |-> needs, tick |-> 0, left |-> [low |-> low, medium |-> medium, high |-> 1],
              effective |-> Priority.low, finished |-> {}, blocked |-> FALSE, holds |-> "none", started |-> FALSE, waited |-> 0]
  /\ abs = [low |-> obj.left.low, medium |-> obj.left.medium]

Effective(name) == IF name = "low" THEN obj.effective ELSE Priority[name]
Less(n) == IF n = 0 THEN 0 ELSE n - 1
\* Of equal priorities the first in the order low, medium, high.
Chosen(tick) ==
  LET ready == {n \in DOMAIN Priority : n \notin obj.finished /\ RunnableAt[n] <= tick /\ ~(n = "high" /\ obj.blocked)} IN
  {n \in ready : \A m \in ready : Effective(n) > Effective(m) \/ (Effective(n) = Effective(m) /\ Priority[n] <= Priority[m])}
Waits(o) == [o EXCEPT !.waited = IF o.blocked THEN @ + 1 ELSE @]
runLow(o) ==
  LET left == Less(o.left.low)
      released == left = 0 IN
  [o EXCEPT !.left.low = left, !.holds = IF released THEN "none" ELSE "low",
            !.blocked = IF released THEN FALSE ELSE @,
            !.effective = IF released /\ o.blocked THEN Priority.low ELSE @]
runMedium(o) ==
  [o EXCEPT !.left.medium = Less(@), !.finished = IF Less(o.left.medium) = 0 THEN @ \union {"medium"} ELSE @]
runHigh(o) ==
  LET blocks == ~o.started /\ o.needs /\ o.holds = "low" IN
  IF blocks THEN [o EXCEPT !.started = TRUE, !.blocked = TRUE, !.effective = IF o.inherits THEN Priority.high ELSE @]
  ELSE [o EXCEPT !.started = TRUE, !.left.high = 0, !.finished = @ \union {"high"}]
simulateTick ==
  LET tick == obj.tick + 1
      o == [obj EXCEPT !.tick = tick] IN
  /\ "high" \notin obj.finished
  /\ \E n \in Chosen(tick) : obj' = Waits(CASE n = "low" -> runLow(o) [] n = "medium" -> runMedium(o) [] OTHER -> runHigh(o))
  /\ UNCHANGED abs
InversionNext == simulateTick

\* With inheritance the high task waits as long at most as the low one is in its
\* critical section; without, as long as the medium one's work lasts besides; and
\* it does not wait if it does not need the resource.
InheritanceBoundsWait ==
  /\ obj.waited <= IF ~obj.needs THEN 0 ELSE IF obj.inherits THEN abs.low ELSE abs.low + abs.medium + 1
  /\ obj.blocked => obj.holds = "low"
-----------------------------------------------------------------------------
(* std::latch and std::barrier, and the WorkerPool of thread-leak, whose   *)
(* destructor asks its workers to stop and joins them.                     *)
PhaseInit ==
  /\ \E p \in {"latch", "barrier", "pool"} :
       obj = [program |-> p, at |-> Start("runs"), arrived |-> {}, phase |-> 0, stop |-> FALSE, main |-> "waits", passed |-> Start(0)]
  /\ abs = [jobs |-> Start(0), ended |-> {}]
count_down(t) ==
  /\ obj.program = "latch" /\ obj.at[t] = "runs"
  /\ Goes(t, "ended", [obj EXCEPT !.arrived = @ \union {t}])
  /\ abs' = [jobs |-> [abs.jobs EXCEPT ![t] = 1], ended |-> abs.ended \union {t}]
latchWait == obj.program = "latch" /\ obj.arrived = Threads /\ obj.main = "waits" /\ obj' = [obj EXCEPT !.main = "on"] /\ UNCHANGED abs
\* The last to arrive runs the completion and starts the next phase.
arriveAtBarrier(t) ==
  /\ obj.program = "barrier" /\ obj.at[t] = "runs" /\ obj.passed[t] < Rounds
  /\ IF obj.arrived \union {t} = Threads
     THEN obj' = [obj EXCEPT !.arrived = {}, !.phase = @ + 1, !.at = Start("runs"), !.passed = [u \in Threads |-> @[u] + 1]]
     ELSE Goes(t, "waits", [obj EXCEPT !.arrived = @ \union {t}])
  /\ abs' = [abs EXCEPT !.jobs[t] = @ + 1]
job(t) ==
  /\ obj.program = "pool" /\ obj.at[t] = "runs"
  /\ IF obj.stop THEN Goes(t, "ended", obj) /\ abs' = [abs EXCEPT !.ended = @ \union {t}]
     ELSE abs.jobs[t] < Rounds /\ abs' = [abs EXCEPT !.jobs[t] = @ + 1] /\ UNCHANGED obj
destroyPool == obj.program = "pool" /\ ~obj.stop /\ obj' = [obj EXCEPT !.stop = TRUE] /\ UNCHANGED abs
joinAll == obj.program = "pool" /\ obj.stop /\ obj.main = "waits" /\ AllAt({"ended"}) /\ obj' = [obj EXCEPT !.main = "on"] /\ UNCHANGED abs
PhaseNext ==
  \/ latchWait \/ destroyPool \/ joinAll
  \/ \E t \in Threads : count_down(t) \/ arriveAtBarrier(t) \/ job(t)

\* Nobody is a phase ahead of one who has not arrived; what waits for the others
\* goes on only when all have done their part, or ended.
NobodyAhead ==
  /\ obj.program = "barrier" => \A t, u \in Threads : abs.jobs[t] <= abs.jobs[u] + 1 /\ obj.passed[t] = obj.phase
  /\ obj.program = "barrier" => \A t \in Threads : abs.jobs[t] - (IF t \in obj.arrived THEN 1 ELSE 0) = obj.phase
  /\ obj.main = "on" => abs.ended = Threads
-----------------------------------------------------------------------------
(* copy_on_write: handles share an object (by number) until one of them is *)
(* written to.  operator[] hands out a reference, which may be kept.       *)
CowInit ==
  /\ obj = [data_ |-> [t \in Threads |-> IF t = First THEN 1 ELSE 2], content |-> [d \in 1..Rounds + 2 |-> 0], made |-> 2, ref |-> 0]
  /\ abs = [value |-> Start(0), kept |-> FALSE]
copyHandle(t, u) ==
  /\ t # u
  /\ obj' = [obj EXCEPT !.data_[t] = obj.data_[u]]
  /\ abs' = [value |-> [abs.value EXCEPT ![t] = abs.value[u]], kept |-> abs.kept \/ obj.ref = obj.data_[u]]
Shared(t) == \E u \in Threads \ {t} : obj.data_[u] = obj.data_[t]
Detached(t) ==
  IF ~Shared(t) THEN obj
  ELSE [obj EXCEPT !.made = @ + 1, !.data_[t] = obj.made + 1, !.content[obj.made + 1] = obj.content[obj.data_[t]]]
writeIndex(t, v) ==
  /\ Shared(t) => obj.made < Rounds + 2
  /\ LET o == Detached(t) IN obj' = [o EXCEPT !.content[o.data_[t]] = v, !.ref = o.data_[t]]
  /\ abs' = [abs EXCEPT !.value[t] = v]
\* The reference that was handed out last is written to once more.
writeReference(v) ==
  /\ \E t \in Threads : obj.data_[t] = obj.ref
  /\ obj' = [obj EXCEPT !.content[obj.ref] = v]
  /\ abs' = [abs EXCEPT !.value = [t \in Threads |-> IF obj.data_[t] = obj.ref /\ ~abs.kept THEN v ELSE @[t]]]
CowNext ==
  \/ \E t, u \in Threads : copyHandle(t, u)
  \/ \E v \in {1, 2} : writeReference(v) \/ \E t \in Threads : writeIndex(t, v)

\* Each handle has the value that was last written through it or that it was
\* copied with, as long as no reference into an object was kept that was copied
\* afterwards: that one writes to all its handles.
HandlesApart == abs.kept \/ \A t \in Threads : obj.content[obj.data_[t]] = abs.value[t]
=============================================================================
