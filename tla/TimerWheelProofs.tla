-------------------------- MODULE TimerWheelProofs --------------------------
(***************************************************************************)
(* Theorems about TimerWheel, for every number of slots, of timers and of  *)
(* ticks.                                                                  *)
(***************************************************************************)
EXTENDS TimerWheel, TLAPS

WheelInv == TypeOK /\ EntriesAhead /\ DueNowOrLater

\* An entry is erased from its bucket: the others are still there.
LEMMA RemoveAtKeeps ==
  ASSUME NEW S, NEW q \in Seq(S), NEW i \in DOMAIN q
  PROVE  /\ RemoveAt(q, i) \in Seq(S)
         /\ Len(RemoveAt(q, i)) = Len(q) - 1
         /\ \A j \in 1..Len(q) - 1 :
              RemoveAt(q, i)[j] = q[IF j < i THEN j ELSE j + 1]
<1>1. i \in Nat /\ 1 <= i /\ i <= Len(q) /\ Len(q) \in Nat
  OBVIOUS
<1> DEFINE a == SubSeq(q, 1, i - 1)
           b == SubSeq(q, i + 1, Len(q))
<1>2. /\ a \in Seq(S) /\ Len(a) = i - 1
      /\ \A j \in 1..i - 1 : a[j] = q[j]
  BY <1>1
<1>3. /\ b \in Seq(S) /\ Len(b) = Len(q) - i
      /\ \A j \in 1..Len(q) - i : b[j] = q[j + i]
  BY <1>1
<1>4. RemoveAt(q, i) = a \o b
  BY DEF RemoveAt
<1> HIDE DEF a, b
<1>5. a \o b \in Seq(S) /\ Len(a \o b) = Len(q) - 1
  BY <1>1, <1>2, <1>3
<1>6. ASSUME NEW j \in 1..Len(q) - 1
      PROVE  (a \o b)[j] = q[IF j < i THEN j ELSE j + 1]
  <2>1. CASE j < i
    BY <1>1, <1>2, <1>3, <2>1
  <2>2. CASE ~(j < i)
    <3>1. (a \o b)[j] = b[j - (i - 1)]
      BY <1>1, <1>2, <1>3, <2>2
    <3>2. j - (i - 1) \in 1..Len(q) - i /\ (j - (i - 1)) + i = j + 1
      BY <1>1, <2>2
    <3>3. QED
      BY <1>3, <2>2, <3>1, <3>2
  <2>3. QED
    BY <2>1, <2>2
<1>7. QED
  BY <1>4, <1>5, <1>6

LEMMA SlotType == \A t \in Nat : SlotFor(t) \in 0..Slots - 1
BY SlotsAssumption DEF SlotFor

LEMMA InitWheelInv == Init => WheelInv
BY SlotsAssumption DEF Init, WheelInv, TypeOK, EntriesAhead, DueNowOrLater, Entry

\* An entry added to the bucket of its tick, when that tick is ahead.
LEMMA AddAhead ==
  ASSUME WheelInv, NEW e \in Entry, e.at > currentTick,
         buckets' = [buckets EXCEPT ![SlotFor(e.at)] = Append(@, e)],
         currentTick' = currentTick
  PROVE  /\ buckets' \in [0..Slots - 1 -> Seq(Entry)]
         /\ EntriesAhead'
<1> DEFINE s0 == SlotFor(e.at)
<1>1. e.at \in Nat /\ s0 \in 0..Slots - 1
  BY SlotType DEF Entry
<1>2. buckets' \in [0..Slots - 1 -> Seq(Entry)]
  BY <1>1 DEF WheelInv, TypeOK
<1>3. ASSUME NEW s \in 0..Slots - 1, NEW i \in DOMAIN buckets'[s]
      PROVE  SlotFor(buckets'[s][i].at) = s /\ buckets'[s][i].at > currentTick
  <2>1. CASE s # s0
    BY <1>1, <2>1 DEF WheelInv, TypeOK, EntriesAhead
  <2>2. CASE s = s0
    <3>1. buckets'[s] = Append(buckets[s], e) /\ buckets[s] \in Seq(Entry)
      BY <1>1, <2>2 DEF WheelInv, TypeOK
    <3>2. i \in DOMAIN buckets[s] \/ buckets'[s][i] = e
      BY <1>3, <3>1
    <3>3. i \in DOMAIN buckets[s] => buckets'[s][i] = buckets[s][i]
      BY <3>1
    <3>4. QED
      BY <2>2, <3>2, <3>3 DEF WheelInv, EntriesAhead
  <2>3. QED
    BY <2>1, <2>2
<1>4. QED
  BY <1>2, <1>3 DEF EntriesAhead

\* The first entry leaves the vector of tick().
LEMMA TailDue ==
  ASSUME WheelInv, due # <<>>, due' = Tail(due), currentTick' = currentTick
  PROVE  /\ due' \in Seq(Entry) /\ DueNowOrLater'
         /\ Head(due) \in Entry /\ Head(due).at >= currentTick
<1>1. due \in Seq(Entry) /\ Len(due) \in Nat /\ Len(due) > 0
  BY DEF WheelInv, TypeOK
<1>2. Head(due) \in Entry /\ Head(due) = due[1] /\ 1 \in DOMAIN due
  BY <1>1
<1>3. \A i \in DOMAIN due' : i + 1 \in DOMAIN due /\ due'[i] = due[i + 1]
  BY <1>1
<1>4. QED
  BY <1>1, <1>2, <1>3 DEF WheelInv, DueNowOrLater

LEMMA AdvanceWheelInv ==
  ASSUME WheelInv, Advance
  PROVE  WheelInv'
<1> DEFINE now == currentTick + 1
           s0  == SlotFor(now)
<1>1. now \in Nat /\ s0 \in 0..Slots - 1 /\ currentTick' = now
  <2>1. now \in Nat /\ currentTick' = now
    BY DEF WheelInv, TypeOK, Advance
  <2>2. QED
    BY <2>1, SlotType
<1>2. TypeOK'
  BY <1>1 DEF WheelInv, TypeOK, Advance
<1>3. ASSUME NEW s \in 0..Slots - 1, NEW i \in DOMAIN buckets[s]
      PROVE  /\ SlotFor(buckets[s][i].at) = s
             /\ buckets[s][i].at >= now
             /\ s # s0 => buckets[s][i].at > now
  <2>1. buckets[s][i] \in Entry /\ currentTick \in Nat
    <3>1. buckets[s] \in Seq(Entry)
      BY DEF WheelInv, TypeOK
    <3>2. QED
      BY <3>1 DEF WheelInv, TypeOK
  <2>2. SlotFor(buckets[s][i].at) = s /\ buckets[s][i].at > currentTick
    BY DEF WheelInv, EntriesAhead
  <2>3. s # s0 => buckets[s][i].at # now
    BY <2>2
  <2>4. buckets[s][i].at \in Nat
    BY <2>1 DEF Entry
  <2>5. QED
    BY <2>1, <2>2, <2>3, <2>4
<1>4. DueNowOrLater'
  BY <1>1, <1>3 DEF Advance, DueNowOrLater
<1>5. EntriesAhead'
  <2>1. \A s \in 0..Slots - 1 :
          buckets'[s] = IF s = s0 THEN <<>> ELSE buckets[s]
    BY <1>1 DEF WheelInv, TypeOK, Advance
  <2>2. QED
    BY <1>1, <1>3, <2>1 DEF EntriesAhead
<1>6. QED
  BY <1>2, <1>4, <1>5 DEF WheelInv

LEMMA CancelWheelInv ==
  ASSUME WheelInv, NEW id \in 1..nextId - 1, CancelFound(id)
  PROVE  WheelInv'
<1>0. PICK s0 \in 0..Slots - 1 : \E i \in DOMAIN buckets[s0] :
        buckets' = [buckets EXCEPT ![s0] = RemoveAt(@, i)]
  BY DEF CancelFound, WheelInv, TypeOK
<1>1. PICK i0 \in DOMAIN buckets[s0] :
        buckets' = [buckets EXCEPT ![s0] = RemoveAt(@, i0)]
  BY <1>0
<1>2. /\ buckets[s0] \in Seq(Entry)
      /\ buckets' \in [0..Slots - 1 -> Seq(Entry)]
      /\ \A s \in 0..Slots - 1 :
           buckets'[s] = IF s = s0 THEN RemoveAt(buckets[s0], i0) ELSE buckets[s]
  BY <1>1, RemoveAtKeeps DEF WheelInv, TypeOK
<1>3. ASSUME NEW s \in 0..Slots - 1, NEW i \in DOMAIN buckets'[s]
      PROVE  \E j \in DOMAIN buckets[s] : buckets'[s][i] = buckets[s][j]
  <2>1. CASE s # s0
    BY <1>2, <2>1
  <2>2. CASE s = s0
    <3>1. buckets'[s] = RemoveAt(buckets[s0], i0) /\ i \in DOMAIN RemoveAt(buckets[s0], i0)
      BY <1>2, <2>2
    <3>2. /\ RemoveAt(buckets[s0], i0) \in Seq(Entry)
          /\ Len(RemoveAt(buckets[s0], i0)) = Len(buckets[s0]) - 1
          /\ \A j \in 1..Len(buckets[s0]) - 1 : RemoveAt(buckets[s0], i0)[j]
                = buckets[s0][IF j < i0 THEN j ELSE j + 1]
      BY <1>2, RemoveAtKeeps
    <3>3. i \in 1..Len(buckets[s0]) - 1
      BY <3>1, <3>2
    <3>4. i + 1 \in DOMAIN buckets[s0] /\ i \in DOMAIN buckets[s0]
      BY <1>2, <3>3
    <3>5. QED
      BY <2>2, <3>1, <3>2, <3>3, <3>4
  <2>3. QED
    BY <2>1, <2>2
<1>4. EntriesAhead'
  BY <1>3 DEF CancelFound, WheelInv, EntriesAhead
<1>5. QED
  BY <1>2, <1>4 DEF CancelFound, WheelInv, TypeOK, DueNowOrLater

LEMMA NextWheelInv == WheelInv /\ [Next]_vars => WheelInv'
<1> SUFFICES ASSUME WheelInv, [Next]_vars PROVE WheelInv'
  OBVIOUS
<1>0. CASE UNCHANGED vars
  BY <1>0 DEF vars, WheelInv, TypeOK, EntriesAhead, DueNowOrLater
<1>1. ASSUME NEW t \in 0..MaxTick, ScheduleAt(t) PROVE WheelInv'
  <2> DEFINE e == [id |-> nextId, at |-> FireAt(t)]
  <2>1. e \in Entry /\ e.at > currentTick
    BY <1>1, BoundsAssumption DEF WheelInv, TypeOK, ScheduleAt, Entry, Ids, FireAt
  <2>2. buckets' = [buckets EXCEPT ![SlotFor(e.at)] = Append(@, e)]
          /\ currentTick' = currentTick
    BY <1>1 DEF ScheduleAt
  <2>3. buckets' \in [0..Slots - 1 -> Seq(Entry)] /\ EntriesAhead'
    BY <2>1, <2>2, AddAhead
  <2>4. QED
    BY <1>1, <2>3 DEF ScheduleAt, WheelInv, TypeOK, DueNowOrLater
<1>2. ASSUME NEW id \in 1..nextId - 1, CancelFound(id) PROVE WheelInv'
  BY <1>2, CancelWheelInv
<1>3. ASSUME NEW id \in 1..nextId - 1, CancelMissed(id) PROVE WheelInv'
  BY <1>3 DEF CancelMissed, WheelInv, TypeOK, EntriesAhead, DueNowOrLater
<1>4. CASE Advance
  BY <1>4, AdvanceWheelInv
<1>5. CASE Fire
  BY <1>5, TailDue DEF Fire, WheelInv, TypeOK, EntriesAhead
<1>6. CASE PutBack
  BY <1>6, TailDue, AddAhead DEF PutBack, WheelInv, TypeOK
<1>7. CASE CallbackReturn \/ TickReturn
  BY <1>7 DEF CallbackReturn, TickReturn, WheelInv, TypeOK, EntriesAhead, DueNowOrLater
<1>8. QED
  BY <1>0, <1>1, <1>2, <1>3, <1>4, <1>5, <1>6, <1>7 DEF Next, Firing

\* The variables keep their types, and no tick() returns with entries in hand.
THEOREM WheelTypeCorrect == Spec => []TypeOK
<1>1. WheelInv => TypeOK
  BY DEF WheelInv
<1>2. QED
  BY <1>1, InitWheelInv, NextWheelInv, PTL DEF Spec

\* Every timer in the ring waits in the slot where tick() will look for it,
\* and its tick is still ahead, whatever callbacks do to the wheel.
THEOREM EntriesAheadCorrect == Spec => []EntriesAhead
<1>1. WheelInv => EntriesAhead
  BY DEF WheelInv
<1>2. QED
  BY <1>1, InitWheelInv, NextWheelInv, PTL DEF Spec

\* A callback runs at the tick its timer was set for, neither early nor late.
THEOREM FiresAtItsTick == Spec => [][Fire => Head(due).at = currentTick]_vars
<1>1. WheelInv /\ [Next]_vars => [Fire => Head(due).at = currentTick]_vars
  <2>1. ASSUME WheelInv, Fire PROVE Head(due).at = currentTick
    <3>1. Head(due).at \in Nat /\ currentTick \in Nat /\ Head(due).at >= currentTick
      BY <2>1, TailDue DEF Fire, WheelInv, TypeOK, Entry
    <3>2. QED
      BY <2>1, <3>1 DEF Fire
  <2>2. QED
    BY <2>1
<1>2. QED
  BY <1>1, InitWheelInv, NextWheelInv, PTL DEF Spec
-----------------------------------------------------------------------------
(***************************************************************************)
(* The wheel takes only steps of the timer service.                        *)
(***************************************************************************)

\* No entry is there twice: not within a bucket, not within the vector of
\* tick(), not in both (two buckets never share one, by their slots); and
\* the ids ahead are not given out.
Distinct ==
  /\ \A i, j \in DOMAIN due : due[i] = due[j] => i = j
  /\ \A s \in 0..Slots - 1 : \A i, j \in DOMAIN buckets[s] :
       buckets[s][i] = buckets[s][j] => i = j
  /\ \A k \in DOMAIN due : \A s \in 0..Slots - 1 : \A i \in DOMAIN buckets[s] :
       due[k] # buckets[s][i]
  /\ \A e \in Pending : e.id < nextId

DistinctInv == WheelInv /\ Distinct

\* What is pending, by position.
PendingByPlace ==
  /\ Pending \subseteq Entry
  /\ \A e : e \in Pending <=>
       \/ \E i \in DOMAIN due : due[i] = e
       \/ \E s \in 0..Slots - 1 : \E i \in DOMAIN buckets[s] : buckets[s][i] = e

LEMMA PendingMembers == WheelInv => PendingByPlace
<1> SUFFICES ASSUME WheelInv PROVE PendingByPlace
  OBVIOUS
<1>1. \A e : e \in Pending <=>
              \/ \E i \in DOMAIN due : due[i] = e
              \/ \E s \in 0..Slots - 1 : \E i \in DOMAIN buckets[s] : buckets[s][i] = e
  BY DEF Pending, Range, WheelInv, TypeOK
<1>2. \A i \in DOMAIN due : due[i] \in Entry
  BY DEF WheelInv, TypeOK
<1>3. \A s \in 0..Slots - 1 : \A i \in DOMAIN buckets[s] : buckets[s][i] \in Entry
  BY DEF WheelInv, TypeOK
<1>4. QED
  BY <1>1, <1>2, <1>3 DEF PendingByPlace

LEMMA PendingMembersAfter == WheelInv' => PendingByPlace'
BY PendingMembers, PTL

\* An entry that is nowhere yet is added to one bucket.
LEMMA AddDistinct ==
  ASSUME DistinctInv, WheelInv', NEW e \in Entry,
         buckets' = [buckets EXCEPT ![SlotFor(e.at)] = Append(@, e)],
         \A s \in 0..Slots - 1 : \A i \in DOMAIN buckets[s] : buckets[s][i] # e
  PROVE  /\ \A s \in 0..Slots - 1 : \A i, j \in DOMAIN buckets'[s] :
              buckets'[s][i] = buckets'[s][j] => i = j
         /\ \A s \in 0..Slots - 1 : \A i \in DOMAIN buckets'[s] :
              buckets'[s][i] = e \/ \E j \in DOMAIN buckets[s] : buckets[s][j] = buckets'[s][i]
         /\ \A s \in 0..Slots - 1 : \A i \in DOMAIN buckets[s] :
              \E j \in DOMAIN buckets'[s] : buckets'[s][j] = buckets[s][i]
         /\ \E s \in 0..Slots - 1 : \E i \in DOMAIN buckets'[s] : buckets'[s][i] = e
<1> DEFINE s0 == SlotFor(e.at)
<1>1. s0 \in 0..Slots - 1
  BY SlotType DEF Entry
<1>2. \A s \in 0..Slots - 1 : buckets[s] \in Seq(Entry)
  BY DEF DistinctInv, WheelInv, TypeOK
<1>3. \A s \in 0..Slots - 1 :
        buckets'[s] = IF s = s0 THEN Append(buckets[s], e) ELSE buckets[s]
  BY <1>1 DEF DistinctInv, WheelInv, TypeOK
<1> HIDE DEF s0
<1>4. ASSUME NEW s \in 0..Slots - 1
      PROVE  /\ \A i \in DOMAIN buckets'[s] :
                  \/ buckets'[s][i] = e /\ s = s0 /\ i = Len(buckets[s]) + 1
                  \/ i \in DOMAIN buckets[s] /\ buckets'[s][i] = buckets[s][i]
             /\ \A i \in DOMAIN buckets[s] :
                  i \in DOMAIN buckets'[s] /\ buckets'[s][i] = buckets[s][i]
             /\ s = s0 => /\ Len(buckets[s]) + 1 \in DOMAIN buckets'[s]
                          /\ buckets'[s][Len(buckets[s]) + 1] = e
  <2>1. buckets[s] \in Seq(Entry)
    BY <1>2
  <2>2. CASE s = s0
    <3>1. buckets'[s] = Append(buckets[s], e)
      BY <1>3, <2>2
    <3>2. QED
      BY <2>1, <3>1, <2>2
  <2>3. CASE s # s0
    BY <1>3, <2>3
  <2>4. QED
    BY <2>2, <2>3
<1>5. ASSUME NEW s \in 0..Slots - 1, NEW i \in DOMAIN buckets'[s],
             NEW j \in DOMAIN buckets'[s], buckets'[s][i] = buckets'[s][j]
      PROVE  i = j
  BY <1>4, <1>5 DEF DistinctInv, Distinct
<1>6. QED
  BY <1>1, <1>4, <1>5

LEMMA InitDistinctInv == Init => DistinctInv
BY InitWheelInv DEF Init, DistinctInv, Distinct, Pending, Range

\* The service sees: nothing at the start.
LEMMA InitTimers == Init => Timers!Init
BY DEF Init, Timers!Init, Pending, Range

LEMMA ScheduleTimers ==
  ASSUME DistinctInv, WheelInv', NEW t \in 0..MaxTick, ScheduleAt(t)
  PROVE  Distinct' /\ Timers!Next
<1> DEFINE e == [id |-> nextId, at |-> FireAt(t)]
<1>1. e \in Entry /\ e.at > currentTick /\ e.id = nextId /\ nextId \in 1..MaxTimers
  BY BoundsAssumption DEF DistinctInv, WheelInv, TypeOK, ScheduleAt, Entry, Ids, FireAt
<1>2. buckets' = [buckets EXCEPT ![SlotFor(e.at)] = Append(@, e)]
  BY DEF ScheduleAt
<1>3. e \notin Pending
  BY <1>1 DEF DistinctInv, Distinct
<1> HIDE DEF e
<1>4. \A s \in 0..Slots - 1 : \A i \in DOMAIN buckets[s] : buckets[s][i] # e
  BY <1>3, PendingMembers DEF DistinctInv, PendingByPlace
<1>5. Pending' = Pending \cup {e}
  <2>1. /\ \A s \in 0..Slots - 1 : \A i \in DOMAIN buckets'[s] :
              buckets'[s][i] = e \/ \E j \in DOMAIN buckets[s] : buckets[s][j] = buckets'[s][i]
        /\ \A s \in 0..Slots - 1 : \A i \in DOMAIN buckets[s] :
              \E j \in DOMAIN buckets'[s] : buckets'[s][j] = buckets[s][i]
        /\ \E s \in 0..Slots - 1 : \E i \in DOMAIN buckets'[s] : buckets'[s][i] = e
    BY <1>1, <1>2, <1>4, AddDistinct
  <2>2. due' = due
    BY DEF ScheduleAt
  <2>3. \A x : x \in Pending' => x \in Pending \/ x = e
    BY <2>1, <2>2, PendingMembers, PendingMembersAfter DEF DistinctInv, PendingByPlace
  <2>4. \A x : x \in Pending \/ x = e => x \in Pending'
    BY <2>1, <2>2, PendingMembers, PendingMembersAfter DEF DistinctInv, PendingByPlace
  <2>5. QED
    BY <2>3, <2>4
<1>6. Distinct'
  <2>1. \A x \in Pending' : x.id < nextId'
    BY <1>1, <1>5, PendingMembers DEF DistinctInv, Distinct, ScheduleAt, Entry, Ids, PendingByPlace
  <2>2. \A k \in DOMAIN due : due[k] # e
    BY <1>3, PendingMembers DEF DistinctInv, PendingByPlace
  <2>3. due' = due
    BY DEF ScheduleAt
  <2>4. QED
    BY <1>1, <1>2, <1>4, <2>1, <2>2, <2>3, AddDistinct DEF DistinctInv, Distinct
<1>7. Timers!Set(nextId, e.at)
  <2>1. e = [id |-> nextId, at |-> e.at]
    BY DEF e
  <2>2. (1..nextId - 1)' = (1..nextId - 1) \cup {nextId}
    BY <1>1 DEF ScheduleAt
  <2>3. nextId \notin 1..nextId - 1
    BY <1>1
  <2>4. QED
    BY <1>1, <1>5, <2>1, <2>2, <2>3 DEF ScheduleAt, Timers!Set
<1>8. e.at \in {x.at : x \in Pending'}
  BY <1>5
<1>9. QED
  BY <1>1, <1>6, <1>7, <1>8 DEF Timers!Next, Ids

LEMMA CancelTimers ==
  ASSUME DistinctInv, WheelInv', NEW id \in 1..nextId - 1, CancelFound(id)
  PROVE  Distinct' /\ Timers!Next
<1>1. PICK s0 \in 0..Slots - 1 : \E i \in DOMAIN buckets[s0] :
        buckets' = [buckets EXCEPT ![s0] = RemoveAt(@, i)]
  BY DEF CancelFound, DistinctInv, WheelInv, TypeOK
<1>2. PICK i0 \in DOMAIN buckets[s0] :
        buckets' = [buckets EXCEPT ![s0] = RemoveAt(@, i0)]
  BY <1>1
<1> DEFINE q == buckets[s0]
           e == q[i0]
           From(i) == IF i < i0 THEN i ELSE i + 1
<1>3. q \in Seq(Entry) /\ i0 \in 1..Len(q) /\ Len(q) \in Nat
  BY DEF DistinctInv, WheelInv, TypeOK
<1>4. \A s \in 0..Slots - 1 :
        buckets'[s] = IF s = s0 THEN RemoveAt(q, i0) ELSE buckets[s]
  BY <1>2 DEF DistinctInv, WheelInv, TypeOK
<1>5. /\ DOMAIN buckets'[s0] = 1..Len(q) - 1
      /\ \A i \in 1..Len(q) - 1 : buckets'[s0][i] = q[From(i)] /\ From(i) \in DOMAIN q \ {i0}
      /\ \A i, j \in 1..Len(q) - 1 : From(i) = From(j) => i = j
  <2>1. /\ RemoveAt(q, i0) \in Seq(Entry)
        /\ Len(RemoveAt(q, i0)) = Len(q) - 1
        /\ \A j \in 1..Len(q) - 1 : RemoveAt(q, i0)[j] = q[From(j)]
    BY <1>3, RemoveAtKeeps
  <2>2. buckets'[s0] = RemoveAt(q, i0)
    BY <1>4
  <2>3. QED
    BY <1>3, <2>1, <2>2
<1>6. ASSUME NEW j \in DOMAIN q \ {i0} PROVE \E i \in 1..Len(q) - 1 : From(i) = j
  <2>1. CASE j < i0
    BY <1>3, <2>1
  <2>2. CASE ~(j < i0)
    <3>1. j - 1 \in 1..Len(q) - 1 /\ From(j - 1) = j
      BY <1>3, <2>2
    <3>2. QED
      BY <3>1
  <2>3. QED
    BY <2>1, <2>2
<1> HIDE DEF From
<1>7. /\ \A i, j \in DOMAIN q : q[i] = q[j] => i = j
      /\ \A s \in 0..Slots - 1 : s # s0 => \A i \in DOMAIN buckets[s] : buckets[s][i] # e
      /\ \A k \in DOMAIN due : due[k] # e
  BY DEF DistinctInv, Distinct, WheelInv, EntriesAhead
<1>8. Pending' = Pending \ {e}
  <2>1. ASSUME NEW x PROVE x \in Pending' => x \in Pending \ {e}
    <3>1. CASE \E k \in DOMAIN due' : due'[k] = x
      BY <3>1, <1>7, PendingMembers DEF DistinctInv, CancelFound, PendingByPlace
    <3>2. CASE \E s \in 0..Slots - 1 : \E i \in DOMAIN buckets'[s] : buckets'[s][i] = x
      <4>1. PICK s \in 0..Slots - 1 : \E i \in DOMAIN buckets'[s] : buckets'[s][i] = x
        BY <3>2
      <4>2. CASE s = s0
        <5>1. \E j \in DOMAIN q \ {i0} : q[j] = x
          BY <1>5, <4>1, <4>2
        <5>2. QED
          BY <5>1, <1>7, PendingMembers DEF DistinctInv, PendingByPlace
      <4>3. CASE s # s0
        BY <4>1, <4>3, <1>4, <1>7, PendingMembers DEF DistinctInv, PendingByPlace
      <4>4. QED
        BY <4>2, <4>3
    <3>3. QED
      BY <3>1, <3>2, PendingMembersAfter DEF PendingByPlace
  <2>2. ASSUME NEW x \in Pending \ {e} PROVE x \in Pending'
    <3>1. CASE \E k \in DOMAIN due : due[k] = x
      BY <3>1, PendingMembersAfter DEF CancelFound, PendingByPlace
    <3>2. CASE \E s \in 0..Slots - 1 : \E i \in DOMAIN buckets[s] : buckets[s][i] = x
      <4>1. PICK s \in 0..Slots - 1 : \E i \in DOMAIN buckets[s] : buckets[s][i] = x
        BY <3>2
      <4>2. CASE s = s0
        <5>1. PICK j \in DOMAIN q \ {i0} : q[j] = x
          BY <4>1, <4>2
        <5>2. \E i \in DOMAIN buckets'[s0] : buckets'[s0][i] = x
          BY <1>5, <1>6, <5>1
        <5>3. QED
          BY <5>2, PendingMembersAfter DEF PendingByPlace
      <4>3. CASE s # s0
        BY <4>1, <4>3, <1>4, PendingMembersAfter DEF PendingByPlace
      <4>4. QED
        BY <4>2, <4>3
    <3>3. QED
      BY <3>1, <3>2, PendingMembers DEF DistinctInv, PendingByPlace
  <2>3. QED
    BY <2>1, <2>2
<1>9. e \in Pending
  BY PendingMembers DEF DistinctInv, PendingByPlace
<1>10. Timers!Cancel(e)
  BY <1>8, <1>9 DEF Timers!Cancel, CancelFound
<1>11. Distinct'
  <2>1. ASSUME NEW s \in 0..Slots - 1, NEW i \in DOMAIN buckets'[s],
               NEW j \in DOMAIN buckets'[s], buckets'[s][i] = buckets'[s][j]
        PROVE  i = j
    <3>1. CASE s = s0
      BY <2>1, <3>1, <1>5, <1>7
    <3>2. CASE s # s0
      BY <2>1, <3>2, <1>4 DEF DistinctInv, Distinct
    <3>3. QED
      BY <3>1, <3>2
  <2>2. ASSUME NEW k \in DOMAIN due, NEW s \in 0..Slots - 1, NEW i \in DOMAIN buckets'[s]
        PROVE  due[k] # buckets'[s][i]
    <3>1. CASE s = s0
      BY <3>1, <1>5 DEF DistinctInv, Distinct
    <3>2. CASE s # s0
      BY <3>2, <1>4 DEF DistinctInv, Distinct
    <3>3. QED
      BY <3>1, <3>2
  <2>3. QED
    BY <1>8, <2>1, <2>2 DEF DistinctInv, Distinct, CancelFound
<1>12. QED
  BY <1>9, <1>10, <1>11 DEF Timers!Next

LEMMA AdvanceTimers ==
  ASSUME DistinctInv, WheelInv', Advance
  PROVE  Distinct' /\ Timers!Next
<1> DEFINE s0 == SlotFor(currentTick + 1)
<1>1. s0 \in 0..Slots - 1 /\ due = <<>> /\ currentTick \in Nat
  <2>1. currentTick + 1 \in Nat
    BY DEF DistinctInv, WheelInv, TypeOK
  <2>2. QED
    BY <2>1, SlotType DEF DistinctInv, WheelInv, TypeOK, Advance
<1>2. \A s \in 0..Slots - 1 : buckets'[s] = IF s = s0 THEN <<>> ELSE buckets[s]
  BY <1>1 DEF DistinctInv, WheelInv, TypeOK, Advance
<1>3. due' = buckets[s0]
  BY DEF Advance
<1> HIDE DEF s0
<1>4. Pending' = Pending
  <2>1. \A x : x \in Pending' <=> x \in Pending
    BY <1>1, <1>2, <1>3, PendingMembers, PendingMembersAfter DEF DistinctInv, PendingByPlace
  <2>2. QED
    BY <2>1
<1>5. Distinct'
  <2>1. \A s \in 0..Slots - 1 : s # s0 => \A i \in DOMAIN buckets[s] :
          \A k \in DOMAIN buckets[s0] : buckets[s0][k] # buckets[s][i]
    BY <1>1 DEF DistinctInv, WheelInv, EntriesAhead
  <2>2. \A k \in DOMAIN due' : \A s \in 0..Slots - 1 : \A i \in DOMAIN buckets'[s] :
          due'[k] # buckets'[s][i]
    BY <1>2, <1>3, <2>1
  <2>3. \A i, j \in DOMAIN due' : due'[i] = due'[j] => i = j
    BY <1>1, <1>3 DEF DistinctInv, Distinct
  <2>4. \A s \in 0..Slots - 1 : \A i, j \in DOMAIN buckets'[s] :
          buckets'[s][i] = buckets'[s][j] => i = j
    BY <1>2 DEF DistinctInv, Distinct
  <2>5. QED
    BY <1>4, <2>2, <2>3, <2>4 DEF DistinctInv, Distinct, Advance
<1>6. \A e \in Pending : e.at > currentTick
  BY <1>1, PendingMembers DEF DistinctInv, WheelInv, EntriesAhead, PendingByPlace
<1>7. Timers!Tick
  BY <1>4, <1>6 DEF Timers!Tick, Advance
<1>8. QED
  BY <1>5, <1>7 DEF Timers!Next

\* Head and tail of a non-empty vector make up the vector.
LEMMA HeadAndTail ==
  ASSUME WheelInv, due # <<>>
  PROVE  /\ 1 \in DOMAIN due /\ Head(due) = due[1]
         /\ \A i \in DOMAIN Tail(due) : i + 1 \in DOMAIN due /\ Tail(due)[i] = due[i + 1]
         /\ \A i \in DOMAIN due : i = 1 \/ (i - 1 \in DOMAIN Tail(due) /\ Tail(due)[i - 1] = due[i])
         /\ \A i \in DOMAIN Tail(due) : i \in Nat /\ i > 0
BY DEF WheelInv, TypeOK

LEMMA FireTimers ==
  ASSUME DistinctInv, WheelInv', Fire
  PROVE  Distinct' /\ Timers!Next
<1> DEFINE e == Head(due)
<1>1. due # <<>> /\ due' = Tail(due) /\ UNCHANGED <<currentTick, nextId, buckets>>
  BY DEF Fire
<1>2. e = due[1] /\ 1 \in DOMAIN due
  BY <1>1, HeadAndTail DEF DistinctInv
<1>3. ASSUME NEW i \in DOMAIN due'
      PROVE  i + 1 \in DOMAIN due /\ due'[i] = due[i + 1] /\ due'[i] # e
  BY <1>1, <1>2, HeadAndTail DEF DistinctInv, Distinct
<1>4. ASSUME NEW i \in DOMAIN due, due[i] # e PROVE \E j \in DOMAIN due' : due'[j] = due[i]
  BY <1>1, <1>2, <1>4, HeadAndTail DEF DistinctInv
<1>5. \A s \in 0..Slots - 1 : \A i \in DOMAIN buckets[s] : buckets[s][i] # e
  BY <1>2 DEF DistinctInv, Distinct
<1> HIDE DEF e
<1>6. Pending' = Pending \ {e}
  <2>1. \A x : x \in Pending' => x \in Pending \ {e}
    BY <1>1, <1>3, <1>5, PendingMembers, PendingMembersAfter DEF DistinctInv, PendingByPlace
  <2>2. \A x : x \in Pending \ {e} => x \in Pending'
    BY <1>1, <1>4, PendingMembers, PendingMembersAfter DEF DistinctInv, PendingByPlace
  <2>3. QED
    BY <2>1, <2>2
<1>7. e \in Pending /\ e.at = currentTick
  <2>1. e.at >= currentTick /\ e \in Entry
    BY <1>1, TailDue DEF e, DistinctInv
  <2>2. e.at <= currentTick
    BY DEF Fire, e
  <2>3. currentTick \in Nat /\ e.at \in Nat
    BY <2>1 DEF Entry, DistinctInv, WheelInv, TypeOK
  <2>4. QED
    BY <1>2, <2>1, <2>2, <2>3, PendingMembers DEF DistinctInv, PendingByPlace
<1>8. Timers!Fire(e)
  BY <1>1, <1>6, <1>7 DEF Fire, Timers!Fire
<1>9. Distinct'
  <2>1. ASSUME NEW i \in DOMAIN due', NEW j \in DOMAIN due', due'[i] = due'[j]
        PROVE  i = j
    <3>1. i + 1 = j + 1
      BY <1>3, <2>1 DEF DistinctInv, Distinct
    <3>2. i \in Nat /\ j \in Nat
      BY <1>1, HeadAndTail DEF DistinctInv
    <3>3. QED
      BY <3>1, <3>2
  <2>2. QED
    BY <1>1, <1>3, <1>6, <2>1 DEF DistinctInv, Distinct
<1>10. QED
  BY <1>7, <1>8, <1>9 DEF Timers!Next, Timers!Firing

LEMMA PutBackTimers ==
  ASSUME DistinctInv, WheelInv', PutBack
  PROVE  Distinct' /\ UNCHANGED Timers!vars
<1> DEFINE e == Head(due)
<1>1. /\ due # <<>> /\ due' = Tail(due) /\ UNCHANGED <<currentTick, nextId>>
      /\ buckets' = [buckets EXCEPT ![SlotFor(e.at)] = Append(@, e)]
  BY DEF PutBack
<1>2. e = due[1] /\ 1 \in DOMAIN due /\ e \in Entry
  BY <1>1, HeadAndTail, TailDue DEF DistinctInv
<1>3. ASSUME NEW i \in DOMAIN due'
      PROVE  i + 1 \in DOMAIN due /\ due'[i] = due[i + 1] /\ due'[i] # e
  BY <1>1, <1>2, HeadAndTail DEF DistinctInv, Distinct
<1>4. ASSUME NEW i \in DOMAIN due, due[i] # e PROVE \E j \in DOMAIN due' : due'[j] = due[i]
  BY <1>1, <1>2, <1>4, HeadAndTail DEF DistinctInv
<1>5. \A s \in 0..Slots - 1 : \A i \in DOMAIN buckets[s] : buckets[s][i] # e
  BY <1>2 DEF DistinctInv, Distinct
<1> HIDE DEF e
<1>6. Pending' = Pending
  <2>1. /\ \A s \in 0..Slots - 1 : \A i \in DOMAIN buckets'[s] :
              buckets'[s][i] = e \/ \E j \in DOMAIN buckets[s] : buckets[s][j] = buckets'[s][i]
        /\ \A s \in 0..Slots - 1 : \A i \in DOMAIN buckets[s] :
              \E j \in DOMAIN buckets'[s] : buckets'[s][j] = buckets[s][i]
        /\ \E s \in 0..Slots - 1 : \E i \in DOMAIN buckets'[s] : buckets'[s][i] = e
    BY <1>1, <1>2, <1>5, AddDistinct
  <2>2. \A x : x \in Pending' => x \in Pending
    BY <1>2, <1>3, <2>1, PendingMembers, PendingMembersAfter DEF DistinctInv, PendingByPlace
  <2>3. \A x : x \in Pending => x \in Pending'
    BY <1>4, <2>1, PendingMembers, PendingMembersAfter DEF DistinctInv, PendingByPlace
  <2>4. QED
    BY <2>2, <2>3
<1>7. Distinct'
  <2>1. ASSUME NEW i \in DOMAIN due', NEW j \in DOMAIN due', due'[i] = due'[j]
        PROVE  i = j
    <3>1. i + 1 = j + 1
      BY <1>3, <2>1 DEF DistinctInv, Distinct
    <3>2. i \in Nat /\ j \in Nat
      BY <1>1, HeadAndTail DEF DistinctInv
    <3>3. QED
      BY <3>1, <3>2
  <2>2. \A s \in 0..Slots - 1 : \A i, j \in DOMAIN buckets'[s] :
          buckets'[s][i] = buckets'[s][j] => i = j
    BY <1>1, <1>2, <1>5, AddDistinct
  <2>3. ASSUME NEW k \in DOMAIN due', NEW s \in 0..Slots - 1, NEW i \in DOMAIN buckets'[s]
        PROVE  due'[k] # buckets'[s][i]
    BY <1>1, <1>2, <1>3, <1>5, AddDistinct DEF DistinctInv, Distinct
  <2>4. QED
    BY <1>1, <1>6, <2>1, <2>2, <2>3 DEF DistinctInv, Distinct
<1>8. QED
  BY <1>1, <1>6, <1>7 DEF PutBack, Timers!vars

LEMMA NextTimers ==
  ASSUME DistinctInv, [Next]_vars
  PROVE  DistinctInv' /\ [Timers!Next]_(Timers!vars)
<1>0. WheelInv'
  BY NextWheelInv DEF DistinctInv
<1>1. CASE UNCHANGED <<currentTick, nextId, buckets, due, pc>>
  BY <1>0, <1>1 DEF DistinctInv, Distinct, Pending, Timers!vars
<1>7. CASE CallbackReturn
  <2>1. Distinct' /\ Pending' = Pending
    BY <1>7 DEF DistinctInv, Distinct, Pending, CallbackReturn
  <2>2. Timers!Return
    BY <1>7, <2>1 DEF CallbackReturn, Timers!Return
  <2>3. QED
    BY <1>0, <2>1, <2>2 DEF DistinctInv, Timers!Next, Timers!Firing
<1>8. CASE TickReturn
  <2>1. Distinct' /\ Pending' = Pending
    BY <1>8 DEF DistinctInv, Distinct, Pending, TickReturn
  <2>2. UNCHANGED Timers!vars
    BY <1>8, <2>1 DEF TickReturn, Timers!vars
  <2>3. QED
    BY <1>0, <2>1, <2>2 DEF DistinctInv
<1>2. ASSUME NEW t \in 0..MaxTick, ScheduleAt(t)
      PROVE  DistinctInv' /\ [Timers!Next]_(Timers!vars)
  BY <1>0, <1>2, ScheduleTimers DEF DistinctInv
<1>3. ASSUME NEW id \in 1..nextId - 1, CancelFound(id)
      PROVE  DistinctInv' /\ [Timers!Next]_(Timers!vars)
  BY <1>0, <1>3, CancelTimers DEF DistinctInv
<1>4. CASE Advance
  BY <1>0, <1>4, AdvanceTimers DEF DistinctInv
<1>5. CASE Fire
  BY <1>0, <1>5, FireTimers DEF DistinctInv
<1>6. CASE PutBack
  BY <1>0, <1>6, PutBackTimers DEF DistinctInv
<1>9. QED
  BY <1>1, <1>2, <1>3, <1>4, <1>5, <1>6, <1>7, <1>8
  DEF Next, Firing, vars, CancelMissed

\* Every behaviour of the wheel is one of the timer service: a timer fires
\* at most once, at its tick, and the clock never passes a timer that is
\* still pending.
THEOREM WheelImplementsTimers == Spec => Timers!Init /\ [][Timers!Next]_(Timers!vars)
BY InitDistinctInv, InitTimers, NextTimers, PTL DEF Spec
=============================================================================
