-------------------------------- MODULE Limits --------------------------------
(***************************************************************************)
(* Objects that keep within a limit.  Some let calls through or hold them  *)
(* back: rate_limiter (stage 8), observer_throttler (stage 22),            *)
(* circuit_breaker (stage 29), balking (stage 31), guarded_suspension      *)
(* (stage 32).  The limiters are called by threads that read the clock     *)
(* before they take the mutex, so that now may be a little behind what the *)
(* limiter has seen.                                                       *)
(*                                                                         *)
(* Others are caches of bounded size: lru_cache, lfu_cache,                *)
(* thread_safe_cache and bloom_filter (stage 7), strategy_cache (stage     *)
(* 17), flyweight_pattern (stage 12), proxy_pattern (stage 14).  lru_cache *)
(* and thread_safe_cache hold their mutex for the whole of a call, but for *)
(* getOrCreate(), which takes it twice.                                    *)
(***************************************************************************)
EXTENDS Naturals, Sequences, SequencesExt, FiniteSets, FiniteSetsExt

CONSTANTS capacity_, refillPerSec_,   \* of the token bucket
          limit_, window_,            \* of the windows and the throttler
          failureThreshold_, resetTimeout_,
          Threads, MaxTime,           \* bound: ticks of the clock
          Keys,
          Capacity,                   \* of the caches, at least 1
          MaxUses,                    \* bound: calls of a cache
          Bits, Items, Hashes

VARIABLES
  obj,
  abs    \* history: of a limiter, the clock and when calls were let through

Tick ==
  /\ abs.clock < MaxTime
  /\ abs' = [abs EXCEPT !.clock = @ + 1]
  /\ UNCHANGED obj
\* The times a call may have read.
Nows == {abs.clock} \union (IF abs.clock = 0 THEN {} ELSE {abs.clock - 1})
Granted(now) == abs' = [abs EXCEPT !.granted = Append(@, now),
                                 !.late = @ \/ (abs.granted # <<>> /\ now < Last(abs.granted))]
Within(from, to) == Len(SelectSeq(abs.granted, LAMBDA t : from <= t /\ t < to))
-----------------------------------------------------------------------------
LimiterInit ==
  /\ \/ obj = [kind |-> "bucket", tokens_ |-> capacity_, last_ |-> 0]
     \/ obj = [kind |-> "fixed", window |-> "none", start |-> 0, count |-> 0]
     \/ obj = [kind |-> "sliding", log |-> <<>>]
     \/ obj = [kind |-> "throttled", lastEmit_ |-> 0]
  /\ abs = [clock |-> window_, granted |-> <<>>, late |-> FALSE]

Lesser(a, b) == IF a < b THEN a ELSE b
MutRefill(now) ==   \* a bucket that overflows
  IF now <= obj.last_ THEN obj
  ELSE [obj EXCEPT !.tokens_ = @ + (now - obj.last_) * refillPerSec_, !.last_ = now]
refill(now) ==
  IF now <= obj.last_ THEN obj
  ELSE [obj EXCEPT !.tokens_ = Lesser(capacity_, @ + (now - obj.last_) * refillPerSec_), !.last_ = now]
bucketAcquire(now) ==
  LET o == refill(now) IN
  /\ obj.kind = "bucket"
  /\ IF o.tokens_ >= 1 THEN obj' = [o EXCEPT !.tokens_ = @ - 1] /\ Granted(now)
     ELSE obj' = o /\ UNCHANGED abs

\* A new window is opened with one call, whatever the limit is.
fixedAcquire(now) ==
  /\ obj.kind = "fixed"
  /\ IF obj.window = "none" \/ now >= obj.start + window_
     THEN obj' = [obj EXCEPT !.window = "open", !.start = now, !.count = 1] /\ Granted(now)
     ELSE obj.count < limit_ /\ obj' = [obj EXCEPT !.count = @ + 1] /\ Granted(now)

slidingAcquire(now) ==
  LET old == {n \in 0..Len(obj.log) : \A i \in 1..n : now >= obj.log[i] + window_}
      gone == CHOOSE n \in old : \A m \in old : m <= n
      log == SubSeq(obj.log, gone + 1, Len(obj.log)) IN
  /\ obj.kind = "sliding"
  /\ IF Len(log) >= limit_ THEN obj' = [obj EXCEPT !.log = log] /\ UNCHANGED abs
     ELSE obj' = [obj EXCEPT !.log = Append(log, now)] /\ Granted(now)

\* One thread emits; the handler runs before lastEmit_ is set.
emit ==
  /\ obj.kind = "throttled" /\ abs.clock >= obj.lastEmit_ + window_
  /\ obj' = [obj EXCEPT !.lastEmit_ = abs.clock]
  /\ Granted(abs.clock)

LimiterNext ==
  \/ Tick \/ emit
  \/ Len(abs.granted) < 5 /\ \E now \in Nows : bucketAcquire(now) \/ fixedAcquire(now) \/ slidingAcquire(now)

\* In any span of time the bucket lets through what it holds and what is refilled
\* meanwhile; a window lets through twice the limit at most if it is fixed, and
\* the limit if it slides; the throttler one event.  If a call comes with an
\* earlier time than one before it, the limit that slides holds in spans that
\* are shorter than the window by the delay, and not in the window itself.
WithinLimits ==
  \A from \in 0..MaxTime, length \in 1..window_ :
    LET n == Within(from, from + length) IN
    CASE obj.kind = "bucket" -> n <= capacity_ + length * refillPerSec_
      [] obj.kind = "fixed" -> n <= 2 * limit_
      [] obj.kind = "sliding" -> (length < window_ \/ ~abs.late) => n <= limit_
      [] OTHER -> n <= 1
-----------------------------------------------------------------------------
(* circuit_breaker: a call that is let through succeeds or throws.         *)
BreakerInit ==
  /\ obj = [state_ |-> "Closed", failureCount_ |-> 0, lastFailureTime_ |-> 0]
  /\ abs = [clock |-> 0, granted |-> <<>>, late |-> FALSE, failures |-> <<>>]

Passes == obj.state_ # "Open" \/ abs.clock >= obj.lastFailureTime_ + resetTimeout_
Entered == IF obj.state_ = "Open" THEN "HalfOpen" ELSE obj.state_
onSuccess ==
  /\ Passes
  /\ obj' = [obj EXCEPT !.state_ = IF Entered = "HalfOpen" THEN "Closed" ELSE Entered,
                        !.failureCount_ = IF Entered = "HalfOpen" THEN 0 ELSE @]
  /\ abs' = [abs EXCEPT !.granted = Append(@, abs.clock), !.failures = IF Entered = "HalfOpen" THEN <<>> ELSE @]
onFailure ==
  /\ Passes
  /\ obj' = [state_ |-> IF obj.failureCount_ + 1 >= failureThreshold_ THEN "Open" ELSE Entered,
             failureCount_ |-> obj.failureCount_ + 1, lastFailureTime_ |-> abs.clock]
  /\ abs' = [abs EXCEPT !.granted = Append(@, abs.clock), !.failures = Append(@, abs.clock)]
resetBreaker ==
  /\ obj' = [obj EXCEPT !.state_ = "Closed", !.failureCount_ = 0]
  /\ abs' = [abs EXCEPT !.failures = <<>>, !.granted = <<>>]

BreakerNext == Tick \/ resetBreaker \/ (Len(abs.granted) < 5 /\ (onSuccess \/ onFailure))

\* The circuit is open exactly when so many calls have failed, in a row or not,
\* since it was closed; after the failure that opened it no call passes before
\* the timeout, and while it stays open each failure starts the timeout anew.
OpenHoldsBack ==
  LET n == Len(abs.failures) IN
  /\ (obj.state_ = "Open") = (n >= failureThreshold_)
  /\ \A i \in failureThreshold_..n - 1 : abs.failures[i + 1] >= abs.failures[i] + resetTimeout_
  /\ n >= failureThreshold_ => ~\E i \in DOMAIN abs.granted : abs.granted[i] > abs.failures[n]
-----------------------------------------------------------------------------
(* guarded_suspension, whose predicates here are whether a value was set   *)
(* (read without isReady(), which would take the mutex again), balking's   *)
(* Document and its Sensor, whose two stores are not one step.             *)
GuardInit ==
  /\ obj = [ready_ |-> FALSE, waiting |-> {}, notified |-> {}, opened_ |-> FALSE, saved_ |-> FALSE,
            triggered_ |-> FALSE, lastValue_ |-> 0, at |-> [t \in Threads |-> 0]]
  /\ abs = [returned |-> {}, opens |-> FALSE, read |-> 0]

set ==
  /\ obj' = [obj EXCEPT !.ready_ = TRUE, !.notified = @ \union obj.waiting, !.waiting = {}]
  /\ UNCHANGED abs
waitFor(t) ==
  /\ t \notin obj.waiting \union obj.notified
  /\ obj' = [obj EXCEPT !.waiting = IF obj.ready_ THEN @ ELSE @ \union {t}]
  /\ abs' = [abs EXCEPT !.returned = IF obj.ready_ THEN @ \union {t} ELSE @ \ {t}]
\* Woken, or spuriously so, or at its timeout, when it returns anyhow.
Wake(t) ==
  /\ t \in obj.waiting \union obj.notified
  /\ obj' = [obj EXCEPT !.notified = @ \ {t}, !.waiting = IF obj.ready_ THEN @ \ {t} ELSE @ \union {t}]
  /\ abs' = [abs EXCEPT !.returned = IF obj.ready_ THEN @ \union {t} ELSE @]
Timeout(t) ==
  /\ t \in obj.waiting
  /\ obj' = [obj EXCEPT !.waiting = @ \ {t}]
  /\ UNCHANGED abs
resetGuard ==
  /\ obj' = [obj EXCEPT !.ready_ = FALSE]
  /\ UNCHANGED abs

open == obj' = [obj EXCEPT !.opened_ = TRUE] /\ abs' = [abs EXCEPT !.opens = TRUE]
saveDocument == obj' = [obj EXCEPT !.saved_ = @ \/ obj.opened_] /\ UNCHANGED abs
close ==
  /\ obj' = [obj EXCEPT !.opened_ = FALSE, !.saved_ = @ /\ ~obj.opened_]
  /\ abs' = [abs EXCEPT !.opens = FALSE]

\* read() of a value above the threshold: the value, then the flag.
readValue(t, v) ==
  /\ obj.at[t] = 0
  /\ obj' = [obj EXCEPT !.lastValue_ = v, !.at[t] = 1]
  /\ abs' = [abs EXCEPT !.read = v]
readTrigger(t) ==
  /\ obj.at[t] = 1
  /\ obj' = [obj EXCEPT !.triggered_ = TRUE, !.at[t] = 0]
  /\ UNCHANGED abs

GuardNext ==
  \/ set \/ resetGuard \/ open \/ saveDocument \/ close
  \/ \E t \in Threads : \/ waitFor(t) \/ Wake(t) \/ Timeout(t) \/ readTrigger(t)
                        \/ \E v \in {1, 2} : readValue(t, v)

\* Nobody sleeps unnotified while the value is set; a document is saved only
\* while it is open; a sensor that was triggered has the last value over the
\* threshold.
GuardsHold ==
  /\ obj.ready_ => obj.waiting = {}
  /\ obj.saved_ => obj.opened_ /\ abs.opens
  /\ obj.triggered_ => obj.lastValue_ = abs.read /\ abs.read > 0
-----------------------------------------------------------------------------
Put(f, k, v) == [j \in DOMAIN f \union {k} |-> IF j = k THEN v ELSE f[j]]
Cut(f, k) == [j \in DOMAIN f \ {k} |-> f[j]]
Empty == [i \in {} |-> 0]
-----------------------------------------------------------------------------
(* lru_cache: the list order_, and the keys that map_ has an iterator for. *)
(* The value of an entry is the number of the call that put it; used has   *)
(* the number of the call that met a key last.                             *)
LruInit == obj = [order_ |-> <<>>, map_ |-> {}, calls |-> 0] /\ abs = [used |-> Empty, value |-> Empty]

Entry(k, v) == [key |-> k, value |-> v]
At(k) == CHOOSE i \in DOMAIN obj.order_ : obj.order_[i].key = k
ToFront(k, e) == <<e>> \o RemoveAt(obj.order_, At(k))
UsedNow(k) == Put(abs.used, k, obj.calls)
Call == obj.calls < MaxUses

lruGet(k) ==
  /\ Call /\ k \in obj.map_
  /\ obj' = [obj EXCEPT !.order_ = ToFront(k, obj.order_[At(k)]), !.calls = @ + 1]
  /\ abs' = [abs EXCEPT !.used = UsedNow(k)]

lruPut(k) ==
  LET e == Entry(k, obj.calls)
      full == Cardinality(obj.map_) >= Capacity IN
  /\ Call
  /\ obj' = [order_ |-> IF k \in obj.map_ THEN ToFront(k, e)
                        ELSE <<e>> \o (IF full THEN Front(obj.order_) ELSE obj.order_),
             map_ |-> (IF k \notin obj.map_ /\ full THEN obj.map_ \ {Last(obj.order_).key} ELSE obj.map_) \union {k},
             calls |-> obj.calls + 1]
  /\ abs' = [used |-> UsedNow(k), value |-> Put(abs.value, k, obj.calls)]

lruErase(k) ==
  /\ Call /\ k \in obj.map_
  /\ obj' = [obj EXCEPT !.order_ = RemoveAt(@, At(k)), !.map_ = @ \ {k}]
  /\ UNCHANGED abs
lruClear == Call /\ obj' = [obj EXCEPT !.order_ = <<>>, !.map_ = {}] /\ UNCHANGED abs

LruNext == lruClear \/ \E k \in Keys : lruGet(k) \/ lruPut(k) \/ lruErase(k)

\* The list has the keys of the map, each once, the one used last in front, and
\* with the value put last: so the one evicted is the least recently used.
LeastRecentlyUsed ==
  /\ {obj.order_[i].key : i \in DOMAIN obj.order_} = obj.map_ /\ Len(obj.order_) = Cardinality(obj.map_)
  /\ Len(obj.order_) <= Capacity
  /\ \A i, j \in DOMAIN obj.order_ : i < j => abs.used[obj.order_[i].key] > abs.used[obj.order_[j].key]
  /\ \A i \in DOMAIN obj.order_ : obj.order_[i].value = abs.value[obj.order_[i].key]
-----------------------------------------------------------------------------
(* lfu_cache: freq_ maps how often a key was used to the keys used that    *)
(* often.  Buckets that are empty are erased.                              *)
LfuInit == obj = [freq_ |-> Empty, minFreq_ |-> 0, index_ |-> Empty, calls |-> 0] /\ abs = [used |-> Empty, times |-> Empty]

Bucket(freq, f) == IF f \in DOMAIN freq THEN freq[f] ELSE <<>>
WithBucket(freq, f, b) == IF b = <<>> THEN Cut(freq, f) ELSE Put(freq, f, b)
touch(k) ==
  LET f == obj.index_[k]
      rest == SelectSeq(obj.freq_[f], LAMBDA j : j # k) IN
  /\ obj' = [obj EXCEPT !.freq_ = WithBucket(WithBucket(@, f, rest), f + 1, <<k>> \o Bucket(obj.freq_, f + 1)),
                        !.minFreq_ = IF rest = <<>> /\ @ = f THEN @ + 1 ELSE @,
                        !.index_[k] = f + 1, !.calls = @ + 1]
  /\ abs' = [used |-> UsedNow(k), times |-> [abs.times EXCEPT ![k] = @ + 1]]

lfuInsert(k) ==
  LET full == Cardinality(DOMAIN obj.index_) >= Capacity
      low == obj.freq_[obj.minFreq_]
      freq == IF full THEN WithBucket(obj.freq_, obj.minFreq_, Front(low)) ELSE obj.freq_
      index == IF full THEN Cut(obj.index_, Last(low)) ELSE obj.index_ IN
  /\ obj' = [freq_ |-> Put(freq, 1, <<k>> \o Bucket(freq, 1)), minFreq_ |-> 1, index_ |-> Put(index, k, 1), calls |-> obj.calls + 1]
  /\ abs' = [used |-> UsedNow(k), times |-> Put(abs.times, k, 1)]

lfuGet(k) == Call /\ k \in DOMAIN obj.index_ /\ touch(k)
lfuPut(k) == Call /\ IF k \in DOMAIN obj.index_ THEN touch(k) ELSE lfuInsert(k)
LfuNext == \E k \in Keys : lfuGet(k) \/ lfuPut(k)

\* A key is in the bucket of the number of its uses since it was inserted, those
\* used last in front, and minFreq_ is the least such number: the key evicted is
\* the least frequently used and, of several, the least recently.
LeastFrequentlyUsed ==
  /\ UNION {ToSet(obj.freq_[f]) : f \in DOMAIN obj.freq_} = DOMAIN obj.index_
  /\ Cardinality(DOMAIN obj.index_) <= Capacity
  /\ \A f \in DOMAIN obj.freq_ :
       /\ obj.freq_[f] # <<>>
       /\ \A i \in DOMAIN obj.freq_[f] : abs.times[obj.freq_[f][i]] = f
       /\ \A i, j \in DOMAIN obj.freq_[f] : i < j => abs.used[obj.freq_[f][i]] > abs.used[obj.freq_[f][j]]
  /\ DOMAIN obj.index_ # {} => obj.minFreq_ = Min(DOMAIN obj.freq_)
-----------------------------------------------------------------------------
(* thread_safe_cache and, with one thread, the two strategies of           *)
(* strategy_cache.  An entry may be expired; the cache leaves it there,    *)
(* the strategy's get() takes it out.  A full cache drops the entry with   *)
(* the smallest key.  A thread may be in getOrCreate(), between its get()  *)
(* and its set(), for a key: since is what happened to the key last in     *)
(* there.  evicted are the keys that the last set() dropped, out of among. *)
SafeKeys == 1..Cardinality(Keys)
SafeInit ==
  /\ \E kind \in {"cache", "lru", "ttl"} : obj = [kind |-> kind, data_ |-> Empty, creating |-> [t \in Threads |-> 0], made |-> 0]
  /\ abs = [live |-> Empty, since |-> [t \in Threads |-> "nothing"], evicted |-> {}, among |-> {}]

Valid(k) == k \in DOMAIN obj.data_ /\ ~obj.data_[k].expired
Stored(k, v) ==
  LET full == obj.kind # "ttl" /\ Cardinality(DOMAIN obj.data_) >= Capacity /\ k \notin DOMAIN obj.data_
      data == IF full THEN Cut(obj.data_, Min(DOMAIN obj.data_)) ELSE obj.data_ IN
  Put(data, k, [value |-> v, expired |-> FALSE])
Since(keys, what) == [t \in Threads |-> IF obj.creating[t] \in keys THEN what ELSE abs.since[t]]
\* set() by a thread that is not in getOrCreate(), or by the one that is.
Set(k, by) ==
  LET v == obj.made + 1
      data == Stored(k, v)
      gone == DOMAIN obj.data_ \ DOMAIN data IN
  /\ v <= MaxUses
  /\ obj' = [obj EXCEPT !.data_ = data, !.made = v, !.creating = [t \in Threads |-> IF t \in by THEN 0 ELSE @[t]]]
  /\ abs' = [live |-> Put([j \in DOMAIN abs.live \ gone |-> abs.live[j]], k, v), evicted |-> gone, among |-> DOMAIN obj.data_,
             since |-> [t \in Threads |-> CASE t \in by -> "nothing"
                                           [] t \notin by /\ obj.creating[t] = k -> "stored"
                                           [] t \notin by /\ obj.creating[t] \in gone -> "gone"
                                           [] OTHER -> abs.since[t]]]
safeSet(k) == Set(k, {})
\* getOrCreate() that finds a valid entry changes nothing.
safeMiss(t, k) ==
  /\ obj.kind = "cache" /\ obj.creating[t] = 0 /\ ~Valid(k)
  /\ obj' = [obj EXCEPT !.creating[t] = k]
  /\ UNCHANGED abs
\* creator() and set(), whatever others have stored since the miss.
safeCreate(t) == obj.creating[t] # 0 /\ Set(obj.creating[t], {t})
expire(k) ==
  /\ obj.kind # "lru" /\ Valid(k)
  /\ obj' = [obj EXCEPT !.data_[k].expired = TRUE]
  /\ abs' = [abs EXCEPT !.live = Cut(@, k), !.since = Since({k}, "gone")]
Erased(keys) ==
  /\ obj' = [obj EXCEPT !.data_ = [j \in DOMAIN @ \ keys |-> @[j]]]
  /\ abs' = [abs EXCEPT !.live = [j \in DOMAIN @ \ keys |-> @[j]], !.since = Since(keys, "gone")]
safeErase(k) == Erased({k})
safeClear == obj.kind = "cache" /\ Erased(SafeKeys)
ttlGet(k) == obj.kind = "ttl" /\ k \in DOMAIN obj.data_ /\ ~Valid(k) /\ Erased({k})

SafeNext ==
  \/ safeClear \/ \E t \in Threads : safeCreate(t)
  \/ \E k \in SafeKeys : safeSet(k) \/ expire(k) \/ safeErase(k) \/ ttlGet(k) \/ \E t \in Threads : safeMiss(t, k)

\* The valid entries are the values stored last that were not erased, evicted or
\* expired since.  A cache with a limit keeps it, expired entries counted; a new key
\* in a full one costs one entry, which is that of the smallest key, expired or not,
\* and not the oldest or the least recently used, as the README and the tests of the
\* two caches call it: their keys are stored in ascending order.  getOrCreate() meets
\* a valid entry when it stores, and replaces it, exactly if another thread has
\* stored the key after its look and nothing has taken that entry away.
CacheIsTrue ==
  /\ {k \in SafeKeys : Valid(k)} = DOMAIN abs.live
  /\ \A k \in DOMAIN abs.live : obj.data_[k].value = abs.live[k]
  /\ obj.kind # "ttl" => Cardinality(DOMAIN obj.data_) <= Capacity
  /\ abs.evicted # {} => abs.evicted = {Min(abs.among)} /\ Cardinality(abs.among) = Capacity
  /\ \A t \in Threads : obj.creating[t] # 0 => (Valid(obj.creating[t]) <=> abs.since[t] = "stored")
-----------------------------------------------------------------------------
(* bloom_filter: the two base hashes of an item are any two numbers.       *)
BloomInit ==
  /\ \E h1, h2 \in [Items -> 0..Bits - 1] : obj = [h1 |-> h1, h2 |-> h2, bits_ |-> {}]
  /\ abs = {}
bitsOf(item) == {(obj.h1[item] + i * obj.h2[item]) % Bits : i \in 0..Hashes - 1}
add(item) ==
  /\ obj' = [obj EXCEPT !.bits_ = @ \union bitsOf(item)]
  /\ abs' = abs \union {item}
contains(item) == bitsOf(item) \subseteq obj.bits_
BloomNext == \E item \in Items : add(item)

\* What was added is contained; what is contained and was not added has only
\* bits of others; an item sets as many bits as there are hashes at most.
NoFalseNegative ==
  /\ \A item \in abs : contains(item)
  /\ \A item \in Items : contains(item) => \A b \in bitsOf(item) : \E other \in abs : b \in bitsOf(other)
  /\ Cardinality(obj.bits_) <= Hashes * Cardinality(abs)
-----------------------------------------------------------------------------
(* flyweight_pattern's fonts and proxy_pattern's image: made when asked    *)
(* for first.  A font outlives clear() in the hands of its holders.        *)
SharedInit == obj = [fonts_ |-> Empty, realImage_ |-> 0, made |-> 0] /\ abs = [held |-> {}, loads |-> 0]

getFont(k) ==
  LET font == IF k \in DOMAIN obj.fonts_ THEN obj.fonts_[k] ELSE obj.made + 1 IN
  /\ font <= MaxUses
  /\ obj' = [obj EXCEPT !.fonts_ = Put(@, k, font), !.made = Max({@, font})]
  /\ abs' = [abs EXCEPT !.held = @ \union {[key |-> k, font |-> font]}]
clearFonts ==
  /\ obj' = [obj EXCEPT !.fonts_ = Empty]
  /\ abs' = [abs EXCEPT !.held = {}]
display ==
  /\ obj' = [obj EXCEPT !.realImage_ = 1]
  /\ abs' = [abs EXCEPT !.loads = @ + (IF obj.realImage_ = 0 THEN 1 ELSE 0)]

SharedNext == clearFonts \/ display \/ \E k \in Keys : getFont(k)

\* Between two clear() equal keys have one font and unequal keys another; the
\* image is loaded when it is displayed first, and once.
OneInstance ==
  /\ \A x, y \in abs.held : x.key = y.key <=> x.font = y.font
  /\ abs.loads = obj.realImage_
=============================================================================
