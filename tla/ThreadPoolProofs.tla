-------------------------- MODULE ThreadPoolProofs --------------------------
(***************************************************************************)
(* Theorems about ThreadPool, for every finite set of workers and callers  *)
(* and every set of tasks.                                                 *)
(***************************************************************************)
EXTENDS ThreadPool, FiniteSetTheorems, TLAPS

\* A worker holds a task exactly while it is busy.
TaskInHand == \A w \in Workers : w \in Busy <=> task[w] # NoTask

\* The count and the type of the variables hold each other up: that
\* activeTasks_ never falls below zero is known only because it counts.
TypeInv == TypeOK /\ CountExact /\ TaskInHand

\* Busy is finite, so its cardinality is a number that moves by one.
LEMMA BusyFinite ==
  ASSUME TypeOK
  PROVE  IsFiniteSet(Busy) /\ Cardinality(Busy) \in Nat
<1>1. IsFiniteSet(Busy)
  BY WorkersAssumption, FS_Subset DEF Busy
<1>2. QED
  BY <1>1, FS_CardinalityType

LEMMA InitTypeInv == Init => TypeInv
<1> SUFFICES ASSUME Init PROVE TypeInv
  OBVIOUS
<1>1. TypeOK
  <2>1. /\ tasks \in Seq(Tasks)
        /\ activeTasks \in Nat /\ shutdown \in BOOLEAN
        /\ workers \in SUBSET Workers /\ completed \in SUBSET Tasks
    <3>1. <<>> \in Seq(Tasks) /\ 0 \in Nat
      OBVIOUS
    <3>2. QED
      BY <3>1, Zenon DEF Init
  <2>2. joining \in [Callers -> SUBSET Workers]
    BY DEF Init
  <2>3. task \in [Workers -> Tasks \cup {NoTask}]
    BY DEF Init
  <2>4. /\ pc \in [Threads -> WorkerPCs \cup CallerPCs]
        /\ \A w \in Workers : pc[w] \in WorkerPCs
        /\ \A c \in Callers : pc[c] \in CallerPCs
    BY ThreadsAssumption DEF Init, Threads, WorkerPCs, CallerPCs
  <2>5. QED
    BY <2>1, <2>2, <2>3, <2>4 DEF TypeOK
<1>2. Busy = {}
  BY DEF Init, Busy, Threads
<1>3. CountExact
  BY <1>2, FS_EmptySet DEF Init, CountExact
<1>4. TaskInHand
  BY <1>2 DEF Init, TaskInHand
<1>5. QED
  BY <1>1, <1>3, <1>4 DEF TypeInv

\* A step that changes neither the count, nor the queue, nor who is busy.
LEMMA CountKept ==
  ASSUME CountExact, TaskInHand,
         UNCHANGED <<activeTasks, tasks, task>>, Busy' = Busy
  PROVE  CountExact' /\ TaskInHand'
BY DEF CountExact, TaskInHand

LEMMA PushTypeInv ==
  ASSUME TypeInv, NEW t \in Threads, NEW k \in Tasks,
         NEW from \in {"idle", "run"}, NEW to \in {"notify", "notifyFromTask"},
         t \in Callers => to = "notify" /\ from = "idle",
         t \in Workers => to = "notifyFromTask" /\ from = "run",
         Push(t, k, from, to)
  PROVE  TypeInv'
<1>1. TypeOK'
  BY ThreadsAssumption DEF TypeInv, TypeOK, Push, At, Threads, WorkerPCs, CallerPCs
<1>2. Busy' = Busy
  BY ThreadsAssumption DEF TypeInv, TypeOK, Push, At, Threads, Busy
<1>3. Len(tasks') = Len(tasks) + 1
  BY DEF TypeInv, TypeOK, Push
<1>4. CountExact'
  BY <1>2, <1>3, BusyFinite DEF TypeInv, TypeOK, CountExact, Push
<1>5. TaskInHand'
  BY <1>2 DEF TypeInv, TaskInHand, Push
<1>6. QED
  BY <1>1, <1>4, <1>5 DEF TypeInv

LEMMA NotifyTypeInv ==
  ASSUME TypeInv, NEW t \in Threads,
         NEW from, NEW to,
         t \in Callers => to \in {"idle", "swap"} /\ from \notin {"blocked"},
         t \in Workers => to = "run" /\ from = "notifyFromTask",
         NotifyOne(t, from, to)
  PROVE  TypeInv'
<1>1. TypeOK'
  BY ThreadsAssumption DEF TypeInv, TypeOK, NotifyOne, Threads, WorkerPCs, CallerPCs
<1>2. Busy' = Busy
  BY ThreadsAssumption DEF TypeInv, TypeOK, NotifyOne, Threads, Busy
<1>3. QED
  BY <1>1, <1>2, CountKept DEF TypeInv, NotifyOne

\* A thread that moves between two places neither or both of which are busy,
\* and nothing else.
LEMMA MoveTypeInv ==
  ASSUME TypeInv, NEW t \in Threads, NEW from, NEW to,
         At(t, from, to),
         UNCHANGED <<tasks, activeTasks, shutdown, task>>,
         (completed \in SUBSET Tasks)', (workers \in SUBSET Workers)',
         (joining \in [Callers -> SUBSET Workers])',
         t \in Callers => to \in CallerPCs,
         t \in Workers => to \in WorkerPCs,
         to \in {"run", "notifyFromTask", "finish"}
            <=> from \in {"run", "notifyFromTask", "finish"}
  PROVE  TypeInv'
<1>1. TypeOK'
  BY ThreadsAssumption DEF TypeInv, TypeOK, At, Threads
<1>2. Busy' = Busy
  BY ThreadsAssumption DEF TypeInv, TypeOK, At, Threads, Busy
<1>3. QED
  BY <1>1, <1>2, CountKept DEF TypeInv

LEMMA TakeTypeInv ==
  ASSUME TypeInv, NEW w \in Workers, WorkerTake(w)
  PROVE  TypeInv'
<1>1. Head(tasks) \in Tasks /\ Tail(tasks) \in Seq(Tasks)
         /\ Len(tasks) \in Nat /\ Len(Tail(tasks)) = Len(tasks) - 1
  BY DEF TypeInv, TypeOK, WorkerTake
<1>2. TypeOK'
  BY <1>1, ThreadsAssumption DEF TypeInv, TypeOK, WorkerTake, At, Threads, WorkerPCs
<1>3. Busy' = Busy \cup {w} /\ w \notin Busy
  BY ThreadsAssumption DEF TypeInv, TypeOK, WorkerTake, At, Threads, Busy
<1>4. Cardinality(Busy') = Cardinality(Busy) + 1
  BY <1>3, BusyFinite, FS_AddElement DEF TypeInv
<1>5. CountExact'
  BY <1>1, <1>4, BusyFinite DEF TypeInv, TypeOK, CountExact, WorkerTake
<1>6. TaskInHand'
  BY <1>1, <1>3, NoTaskAssumption DEF TypeInv, TypeOK, TaskInHand, WorkerTake
<1>7. QED
  BY <1>2, <1>5, <1>6 DEF TypeInv

LEMMA FinishTypeInv ==
  ASSUME TypeInv, NEW w \in Workers, WorkerFinish(w)
  PROVE  TypeInv'
<1>1. Busy' = Busy \ {w} /\ w \in Busy
  BY ThreadsAssumption DEF TypeInv, TypeOK, WorkerFinish, Threads, Busy, WorkerPCs, CallerPCs
<1>2. Cardinality(Busy') = Cardinality(Busy) - 1 /\ Cardinality(Busy') \in Nat
  BY <1>1, BusyFinite, FS_RemoveElement, FS_CardinalityType DEF TypeInv
<1>3. CountExact' /\ activeTasks' \in Nat
  BY <1>2, BusyFinite DEF TypeInv, TypeOK, CountExact, WorkerFinish
<1>4. TypeOK'
  <2>1. /\ pc' \in [Threads -> WorkerPCs \cup CallerPCs]
        /\ \A v \in Workers : pc'[v] \in WorkerPCs
        /\ \A c \in Callers : pc'[c] \in CallerPCs
    BY ThreadsAssumption DEF TypeInv, TypeOK, WorkerFinish, Threads, WorkerPCs, CallerPCs
  <2>2. QED
    BY <1>3, <2>1 DEF TypeInv, TypeOK, WorkerFinish
<1>5. TaskInHand'
  BY <1>1 DEF TypeInv, TypeOK, TaskInHand, WorkerFinish
<1>6. QED
  BY <1>3, <1>4, <1>5 DEF TypeInv

LEMMA NotifyAllTypeInv ==
  ASSUME TypeInv, NEW c \in Callers, ShutdownNotifyAll(c)
  PROVE  TypeInv'
<1>1. /\ pc' \in [Threads -> WorkerPCs \cup CallerPCs]
      /\ \A v \in Workers : pc'[v] \in WorkerPCs
      /\ \A d \in Callers : pc'[d] \in CallerPCs
  BY ThreadsAssumption DEF TypeInv, TypeOK, ShutdownNotifyAll, Threads, WorkerPCs, CallerPCs
<1>2. TypeOK'
  BY <1>1 DEF TypeInv, TypeOK, ShutdownNotifyAll
<1>3. Busy' = Busy
  BY ThreadsAssumption DEF TypeInv, TypeOK, ShutdownNotifyAll, Threads, Busy
<1>4. QED
  BY <1>2, <1>3, CountKept DEF TypeInv, ShutdownNotifyAll

LEMMA NextTypeInv == TypeInv /\ [Next]_vars => TypeInv'
<1> SUFFICES ASSUME TypeInv, [Next]_vars PROVE TypeInv'
  OBVIOUS
<1> USE DEF Threads
<1>0. CASE UNCHANGED vars
  BY <1>0 DEF vars, TypeInv, TypeOK, CountExact, TaskInHand, Busy
<1>1. ASSUME NEW w \in Workers, NEW k \in Tasks, EnqueueFromTask(w, k) PROVE TypeInv'
  BY <1>1, PushTypeInv, ThreadsAssumption DEF EnqueueFromTask
<1>2. ASSUME NEW c \in Callers, NEW k \in Tasks, Enqueue(c, k) PROVE TypeInv'
  BY <1>2, PushTypeInv, ThreadsAssumption DEF Enqueue
<1>3. ASSUME NEW w \in Workers, EnqueueFromTaskNotify(w) PROVE TypeInv'
  BY <1>3, NotifyTypeInv, ThreadsAssumption DEF EnqueueFromTaskNotify
<1>4. ASSUME NEW c \in Callers, EnqueueNotify(c) PROVE TypeInv'
  BY <1>4, NotifyTypeInv, ThreadsAssumption DEF EnqueueNotify
<1>5. ASSUME NEW w \in Workers, WorkerBlock(w) \/ WorkerExit(w) PROVE TypeInv'
  <2>1. UNCHANGED <<tasks, activeTasks, shutdown, workers, joining, task, completed>>
    BY <1>5 DEF WorkerBlock, WorkerExit
  <2>2. PICK to \in {"blocked", "exited"} : At(w, "wait", to)
    BY <1>5 DEF WorkerBlock, WorkerExit
  <2>3. QED
    BY <2>1, <2>2, MoveTypeInv, ThreadsAssumption DEF TypeInv, TypeOK, WorkerPCs
<1>6. ASSUME NEW w \in Workers, WorkerTake(w) PROVE TypeInv'
  BY <1>6, TakeTypeInv
<1>7. ASSUME NEW w \in Workers, WorkerRan(w) PROVE TypeInv'
  <2>1. At(w, "run", "finish")
    BY <1>7 DEF WorkerRan
  <2>2. task[w] \in Tasks
    BY <2>1 DEF At, TypeInv, TypeOK, TaskInHand, Busy
  <2>3. QED
    BY <1>7, <2>1, <2>2, MoveTypeInv, ThreadsAssumption
    DEF WorkerRan, TypeInv, TypeOK, WorkerPCs
<1>8. ASSUME NEW w \in Workers, WorkerFinish(w) PROVE TypeInv'
  BY <1>8, FinishTypeInv
<1>9. ASSUME NEW t \in Threads, SpuriousWakeup(t) PROVE TypeInv'
  <2>1. CASE At(t, "blocked", "wait")
    <3>1. t \in Workers /\ t \notin Callers
      BY <2>1, ThreadsAssumption DEF At, TypeInv, TypeOK, CallerPCs
    <3>2. QED
      BY <1>9, <2>1, <3>1, MoveTypeInv DEF SpuriousWakeup, TypeInv, TypeOK, WorkerPCs
  <2>2. CASE At(t, "waitBlocked", "waitForAll")
    <3>1. t \in Callers /\ t \notin Workers
      BY <2>2, ThreadsAssumption DEF At, TypeInv, TypeOK, WorkerPCs
    <3>2. QED
      BY <1>9, <2>2, <3>1, MoveTypeInv DEF SpuriousWakeup, TypeInv, TypeOK, CallerPCs
  <2>3. QED
    BY <1>9, <2>1, <2>2 DEF SpuriousWakeup
<1>10. ASSUME NEW c \in Callers, ShutdownFlag(c) PROVE TypeInv'
  <2>1. Busy' = Busy
    BY <1>10, ThreadsAssumption DEF ShutdownFlag, At, TypeInv, TypeOK, Busy
  <2>2. TypeOK'
    BY <1>10, ThreadsAssumption DEF ShutdownFlag, At, TypeInv, TypeOK, CallerPCs
  <2>3. QED
    BY <1>10, <2>1, <2>2, CountKept DEF ShutdownFlag, TypeInv
<1>11. ASSUME NEW c \in Callers, ShutdownNotifyAll(c) PROVE TypeInv'
  BY <1>11, NotifyAllTypeInv
<1>12. ASSUME NEW c \in Callers, ShutdownSwap(c) PROVE TypeInv'
  BY <1>12, MoveTypeInv, ThreadsAssumption
  DEF ShutdownSwap, TypeInv, TypeOK, CallerPCs
<1>13. ASSUME NEW c \in Callers, ShutdownJoined(c) PROVE TypeInv'
  BY <1>13, MoveTypeInv, ThreadsAssumption
  DEF ShutdownJoined, TypeInv, TypeOK, CallerPCs
<1>14. ASSUME NEW c \in Callers,
              WaitForAllCall(c) \/ WaitForAllBlock(c) \/ WaitForAllReturn(c)
       PROVE  TypeInv'
  <2>1. UNCHANGED <<tasks, activeTasks, shutdown, workers, joining, task, completed>>
    BY <1>14 DEF WaitForAllCall, WaitForAllBlock, WaitForAllReturn
  <2>2. PICK from \in {"idle", "waitForAll"},
             to \in {"idle", "waitForAll", "waitBlocked"} : At(c, from, to)
    BY <1>14 DEF WaitForAllCall, WaitForAllBlock, WaitForAllReturn
  <2>3. QED
    BY <2>1, <2>2, MoveTypeInv, ThreadsAssumption DEF TypeInv, TypeOK, CallerPCs
<1>15. QED
  BY <1>0, <1>1, <1>2, <1>3, <1>4, <1>5, <1>6, <1>7, <1>8, <1>9, <1>10,
     <1>11, <1>12, <1>13, <1>14
  DEF Next, WorkerStep, CallerStep, Call

\* The variables keep their types: the counter of tasks in particular never
\* wraps below zero, although enqueue() and the workers change it in
\* critical sections far apart.
THEOREM TypeCorrect == Spec => []TypeOK
<1>1. TypeInv => TypeOK
  BY DEF TypeInv
<1>2. QED
  BY <1>1, InitTypeInv, NextTypeInv, PTL DEF Spec

\* activeTasks_ counts exactly the tasks queued or in a worker's hands.
THEOREM CountCorrect == Spec => []CountExact
<1>1. TypeInv => CountExact
  BY DEF TypeInv
<1>2. QED
  BY <1>1, InitTypeInv, NextTypeInv, PTL DEF Spec
-----------------------------------------------------------------------------
(***************************************************************************)
(* The wake-ups and the end of the pool.  Each of these holds on top of    *)
(* TypeInv.                                                                *)
(***************************************************************************)

\* Nobody is busy and nothing is queued when the count is zero.
LEMMA IdleMeansDone ==
  ASSUME TypeInv, Idle
  PROVE  Busy = {} /\ tasks = <<>> /\ Accepted = completed
<1>1. tasks = <<>> /\ Len(tasks) = 0
  BY DEF Idle
<1>2. Cardinality(Busy) = 0
  BY <1>1, BusyFinite DEF TypeInv, TypeOK, CountExact, Idle
<1>3. Busy = {}
  BY <1>2, BusyFinite, FS_EmptySet DEF TypeInv
<1>4. \A w \in Workers : task[w] = NoTask
  BY <1>3 DEF TypeInv, TaskInHand
<1>5. Range(tasks) = {}
  BY <1>1 DEF Range
<1>6. QED
  BY <1>1, <1>3, <1>4, <1>5 DEF Accepted

LEMMA InitSleepers == Init => NoSleeperAfterShutdown
BY DEF Init, NoSleeperAfterShutdown

LEMMA NextSleepers ==
  TypeInv /\ NoSleeperAfterShutdown /\ [Next]_vars => NoSleeperAfterShutdown'
<1> SUFFICES ASSUME TypeInv, NoSleeperAfterShutdown, [Next]_vars
             PROVE  NoSleeperAfterShutdown'
  OBVIOUS
<1> USE ThreadsAssumption DEF TypeInv, TypeOK, NoSleeperAfterShutdown, Threads
<1>0. CASE UNCHANGED vars
  BY <1>0 DEF vars
<1>1. ASSUME NEW w \in Workers, NEW k \in Tasks, EnqueueFromTask(w, k)
      PROVE  NoSleeperAfterShutdown'
  BY <1>1 DEF EnqueueFromTask, Push, At
<1>2. ASSUME NEW c \in Callers, NEW k \in Tasks, Enqueue(c, k)
      PROVE  NoSleeperAfterShutdown'
  BY <1>2 DEF Enqueue, Push, At
<1>3. ASSUME NEW w \in Workers, EnqueueFromTaskNotify(w)
      PROVE  NoSleeperAfterShutdown'
  BY <1>3 DEF EnqueueFromTaskNotify, NotifyOne
<1>4. ASSUME NEW c \in Callers, EnqueueNotify(c) PROVE NoSleeperAfterShutdown'
  BY <1>4 DEF EnqueueNotify, NotifyOne
<1>5. ASSUME NEW w \in Workers,
             WorkerBlock(w) \/ WorkerExit(w) \/ WorkerTake(w) \/ WorkerRan(w)
      PROVE  NoSleeperAfterShutdown'
  BY <1>5 DEF WorkerBlock, WorkerExit, WorkerTake, WorkerRan, At
<1>6. ASSUME NEW w \in Workers, WorkerFinish(w) PROVE NoSleeperAfterShutdown'
  BY <1>6 DEF WorkerFinish
<1>7. ASSUME NEW t \in Threads, SpuriousWakeup(t) PROVE NoSleeperAfterShutdown'
  BY <1>7 DEF SpuriousWakeup, At
<1>8. ASSUME NEW c \in Callers, ShutdownFlag(c) PROVE NoSleeperAfterShutdown'
  BY <1>8 DEF ShutdownFlag, At
<1>9. ASSUME NEW c \in Callers, ShutdownNotifyAll(c) PROVE NoSleeperAfterShutdown'
  BY <1>9 DEF ShutdownNotifyAll
<1>10. ASSUME NEW c \in Callers, ShutdownSwap(c) \/ ShutdownJoined(c)
       PROVE  NoSleeperAfterShutdown'
  BY <1>10 DEF ShutdownSwap, ShutdownJoined, At
<1>11. ASSUME NEW c \in Callers,
              WaitForAllCall(c) \/ WaitForAllBlock(c) \/ WaitForAllReturn(c)
       PROVE  NoSleeperAfterShutdown'
  BY <1>11 DEF WaitForAllCall, WaitForAllBlock, WaitForAllReturn, At
<1>12. QED
  BY <1>0, <1>1, <1>2, <1>3, <1>4, <1>5, <1>6, <1>7, <1>8, <1>9, <1>10, <1>11
  DEF Next, WorkerStep, CallerStep, Call

\* Nobody sleeps through shutdown(): a worker that blocks on condition_ before
\* the flag goes up still has the notify_all of shutdown() ahead of it.
THEOREM SleepersCorrect == Spec => []NoSleeperAfterShutdown
BY InitTypeInv, NextTypeInv, InitSleepers, NextSleepers, PTL DEF Spec
-----------------------------------------------------------------------------
LEMMA InitWaiters == Init => NoWaiterOverlooked
BY ThreadsAssumption DEF Init, NoWaiterOverlooked, Threads

LEMMA NextWaiters ==
  TypeInv /\ NoWaiterOverlooked /\ [Next]_vars => NoWaiterOverlooked'
<1> SUFFICES ASSUME TypeInv, NoWaiterOverlooked, [Next]_vars
             PROVE  NoWaiterOverlooked'
  OBVIOUS
<1> USE ThreadsAssumption DEF TypeOK, NoWaiterOverlooked, Threads, Idle
<1>0. CASE UNCHANGED vars
  BY <1>0 DEF vars
<1>1. ASSUME NEW w \in Workers, NEW k \in Tasks, EnqueueFromTask(w, k)
      PROVE  NoWaiterOverlooked'
  BY <1>1 DEF EnqueueFromTask, Push, At, TypeInv
<1>2. ASSUME NEW c \in Callers, NEW k \in Tasks, Enqueue(c, k)
      PROVE  NoWaiterOverlooked'
  BY <1>2 DEF Enqueue, Push, At, TypeInv
<1>3. ASSUME NEW w \in Workers, EnqueueFromTaskNotify(w) PROVE NoWaiterOverlooked'
  BY <1>3 DEF EnqueueFromTaskNotify, NotifyOne, TypeInv
<1>4. ASSUME NEW c \in Callers, EnqueueNotify(c) PROVE NoWaiterOverlooked'
  BY <1>4 DEF EnqueueNotify, NotifyOne, TypeInv
<1>5. ASSUME NEW w \in Workers, WorkerBlock(w) \/ WorkerExit(w) \/ WorkerRan(w)
      PROVE  NoWaiterOverlooked'
  BY <1>5 DEF WorkerBlock, WorkerExit, WorkerRan, At, TypeInv
<1>6. ASSUME NEW w \in Workers, WorkerTake(w) PROVE NoWaiterOverlooked'
  <2>1. Len(tasks) > 0 /\ activeTasks > 0
    BY <1>6, BusyFinite DEF WorkerTake, TypeInv, CountExact
  <2>2. QED
    BY <1>6, <2>1 DEF WorkerTake, TypeInv
<1>7. ASSUME NEW w \in Workers, WorkerFinish(w) PROVE NoWaiterOverlooked'
  BY <1>7 DEF WorkerFinish, TypeInv
<1>8. ASSUME NEW t \in Threads, SpuriousWakeup(t) PROVE NoWaiterOverlooked'
  BY <1>8 DEF SpuriousWakeup, At, TypeInv
<1>9. ASSUME NEW c \in Callers, ShutdownNotifyAll(c) PROVE NoWaiterOverlooked'
  BY <1>9 DEF ShutdownNotifyAll, TypeInv
<1>10. ASSUME NEW c \in Callers,
              ShutdownFlag(c) \/ ShutdownSwap(c) \/ ShutdownJoined(c)
       PROVE  NoWaiterOverlooked'
  BY <1>10 DEF ShutdownFlag, ShutdownSwap, ShutdownJoined, At, TypeInv
<1>11. ASSUME NEW c \in Callers,
              WaitForAllCall(c) \/ WaitForAllBlock(c) \/ WaitForAllReturn(c)
       PROVE  NoWaiterOverlooked'
  BY <1>11 DEF WaitForAllCall, WaitForAllBlock, WaitForAllReturn, At, TypeInv
<1>12. QED
  BY <1>0, <1>1, <1>2, <1>3, <1>4, <1>5, <1>6, <1>7, <1>8, <1>9, <1>10, <1>11
  DEF Next, WorkerStep, CallerStep, Call

\* A caller blocked in waitForAll() always has a task whose end will wake it:
\* the worker that makes the pool idle never overlooks it.
THEOREM WaitersCorrect == Spec => []NoWaiterOverlooked
BY InitTypeInv, NextTypeInv, InitWaiters, NextWaiters, PTL DEF Spec

LEMMA ReturnsDoneStep ==
  TypeInv /\ [Next]_vars =>
    [\A c \in Callers :
       pc[c] = "waitForAll" /\ pc'[c] = "idle" => Accepted = completed]_vars
<1> SUFFICES ASSUME TypeInv, [Next]_vars, NEW c \in Callers,
                    pc[c] = "waitForAll", pc'[c] = "idle"
             PROVE  Accepted = completed
  OBVIOUS
<1>1. WaitForAllReturn(c)
  <2> USE ThreadsAssumption DEF TypeInv, TypeOK, Threads
  <2>1. ~UNCHANGED vars
    BY DEF vars
  <2>2. \A w \in Workers : ~WorkerStep(w)
    BY DEF WorkerStep, WorkerBlock, WorkerExit, WorkerTake, WorkerRan,
           WorkerFinish, EnqueueFromTaskNotify, NotifyOne, At
  <2>3. \A w \in Workers, k \in Tasks : ~EnqueueFromTask(w, k)
    BY DEF EnqueueFromTask, Push, At
  <2>4. \A t \in Threads : ~SpuriousWakeup(t)
    BY DEF SpuriousWakeup, At
  <2>5. \A d \in Callers : ~Call(d)
    BY DEF Call, Enqueue, Push, ShutdownFlag, WaitForAllCall, At
  <2>6. ASSUME NEW d \in Callers, CallerStep(d) PROVE WaitForAllReturn(c)
    BY <2>6 DEF CallerStep, EnqueueNotify, NotifyOne, ShutdownNotifyAll,
       ShutdownSwap, ShutdownJoined, WaitForAllBlock, WaitForAllReturn, At
  <2>7. QED
    BY <2>1, <2>2, <2>3, <2>4, <2>5, <2>6 DEF Next
<1>2. QED
  BY <1>1, IdleMeansDone DEF WaitForAllReturn

\* waitForAll() returns only when every task accepted so far has run, and not
\* merely when the queue is empty.
THEOREM WaitForAllCorrect == Spec => WaitForAllReturnsDone
BY InitTypeInv, NextTypeInv, ReturnsDoneStep, PTL DEF Spec, WaitForAllReturnsDone
-----------------------------------------------------------------------------
\* Where the worker threads are accounted for, and what an ended one implies:
\* the strengthening of ShutdownComplete that every step preserves.
EndedLast ==
  /\ \A c \in Callers : pc[c] \in {"notifyAll", "swap", "join"} => shutdown
  /\ \A c \in Callers : pc[c] # "join" => joining[c] = {}
  /\ \A w \in Workers :
       w \in workers \/ (\E c \in Callers : w \in joining[c]) \/ pc[w] = "exited"
  /\ \A w \in Workers : pc[w] = "exited" => shutdown /\ tasks = <<>>

LEMMA InitEndedLast == Init => EndedLast
BY ThreadsAssumption DEF Init, EndedLast, Threads

LEMMA NextEndedLast == TypeInv /\ EndedLast /\ [Next]_vars => EndedLast'
<1> SUFFICES ASSUME TypeInv, EndedLast, [Next]_vars PROVE EndedLast'
  OBVIOUS
<1> USE ThreadsAssumption DEF TypeInv, TypeOK, EndedLast, Threads
<1>0. CASE UNCHANGED vars
  BY <1>0 DEF vars
<1>1. ASSUME NEW w \in Workers, NEW k \in Tasks, EnqueueFromTask(w, k)
      PROVE  EndedLast'
  BY <1>1 DEF EnqueueFromTask, Push, At
<1>2. ASSUME NEW c \in Callers, NEW k \in Tasks, Enqueue(c, k) PROVE EndedLast'
  BY <1>2 DEF Enqueue, Push, At
<1>3. ASSUME NEW w \in Workers, EnqueueFromTaskNotify(w) PROVE EndedLast'
  BY <1>3 DEF EnqueueFromTaskNotify, NotifyOne
<1>4. ASSUME NEW c \in Callers, EnqueueNotify(c) PROVE EndedLast'
  BY <1>4 DEF EnqueueNotify, NotifyOne
<1>5. ASSUME NEW w \in Workers, WorkerBlock(w) \/ WorkerExit(w) \/ WorkerRan(w)
      PROVE  EndedLast'
  BY <1>5 DEF WorkerBlock, WorkerExit, WorkerRan, At
<1>6. ASSUME NEW w \in Workers, WorkerTake(w) PROVE EndedLast'
  BY <1>6 DEF WorkerTake, At
<1>7. ASSUME NEW w \in Workers, WorkerFinish(w) PROVE EndedLast'
  BY <1>7 DEF WorkerFinish
<1>8. ASSUME NEW t \in Threads, SpuriousWakeup(t) PROVE EndedLast'
  BY <1>8 DEF SpuriousWakeup, At
<1>9. ASSUME NEW c \in Callers, ShutdownFlag(c) PROVE EndedLast'
  BY <1>9 DEF ShutdownFlag, At
<1>10. ASSUME NEW c \in Callers, ShutdownNotifyAll(c) PROVE EndedLast'
  BY <1>10 DEF ShutdownNotifyAll
<1>11. ASSUME NEW c \in Callers, ShutdownSwap(c) PROVE EndedLast'
  BY <1>11 DEF ShutdownSwap, At
<1>12. ASSUME NEW c \in Callers, ShutdownJoined(c) PROVE EndedLast'
  BY <1>12 DEF ShutdownJoined, At
<1>13. ASSUME NEW c \in Callers,
              WaitForAllCall(c) \/ WaitForAllBlock(c) \/ WaitForAllReturn(c)
       PROVE  EndedLast'
  BY <1>13 DEF WaitForAllCall, WaitForAllBlock, WaitForAllReturn, At
<1>14. QED
  BY <1>0, <1>1, <1>2, <1>3, <1>4, <1>5, <1>6, <1>7, <1>8, <1>9, <1>10, <1>11,
     <1>12, <1>13
  DEF Next, WorkerStep, CallerStep, Call

LEMMA EndedLastComplete == TypeInv /\ EndedLast => ShutdownComplete
<1> SUFFICES ASSUME TypeInv, EndedLast,
                    workers = {}, \A c \in Callers : joining[c] = {}
             PROVE  (\A w \in Workers : pc[w] = "exited") /\ Accepted = completed
  BY DEF ShutdownComplete
<1>1. \A w \in Workers : pc[w] = "exited"
  BY DEF EndedLast
<1>2. Busy = {}
  BY <1>1 DEF Busy
<1>3. tasks = <<>>
  BY <1>1, WorkersAssumption DEF EndedLast
<1>4. activeTasks = 0
  BY <1>2, <1>3, FS_EmptySet DEF TypeInv, CountExact
<1>5. QED
  BY <1>1, <1>3, <1>4, IdleMeansDone DEF Idle

\* Graceful termination: once the list of workers has been taken over and
\* joined, every worker has ended and every task ever accepted has run.
THEOREM ShutdownCorrect == Spec => []ShutdownComplete
BY InitTypeInv, NextTypeInv, InitEndedLast, NextEndedLast, EndedLastComplete, PTL
DEF Spec
-----------------------------------------------------------------------------
LEMMA WakeupsFinite ==
  IsFiniteSet(WakeupsInFlight) /\ Cardinality(WakeupsInFlight) \in Nat
<1>1. IsFiniteSet(Threads)
  BY WorkersAssumption, ThreadsAssumption, FS_Union DEF Threads
<1>2. WakeupsInFlight \subseteq Threads
  BY DEF WakeupsInFlight, Threads
<1>3. QED
  BY <1>1, <1>2, FS_Subset, FS_CardinalityType

\* A step after which there are no fewer wake-ups and no more tasks.
LEMMA StrandedKept ==
  ASSUME TypeOK, NoStrandedTask,
         (\E w \in Workers : pc'[w] = "blocked") => \E w \in Workers : pc[w] = "blocked",
         tasks' = tasks,
         WakeupsInFlight \subseteq WakeupsInFlight', IsFiniteSet(WakeupsInFlight')
  PROVE  NoStrandedTask'
<1>1. Cardinality(WakeupsInFlight) <= Cardinality(WakeupsInFlight')
  BY FS_Subset
<1>2. Cardinality(WakeupsInFlight') \in Nat /\ Cardinality(WakeupsInFlight) \in Nat
  BY WakeupsFinite, FS_CardinalityType
<1>3. Len(tasks) \in Nat
  BY DEF TypeOK
<1>4. QED
  BY <1>1, <1>2, <1>3 DEF NoStrandedTask

LEMMA InitStranded == Init => NoStrandedTask
BY DEF Init, NoStrandedTask, Threads

\* enqueue() adds a task and owes a notification for it.
LEMMA PushStranded ==
  ASSUME TypeInv, NoStrandedTask, NEW t \in Threads, NEW k \in Tasks,
         NEW from \in {"idle", "run"}, NEW to \in {"notify", "notifyFromTask"},
         Push(t, k, from, to)
  PROVE  NoStrandedTask'
<1>1. WakeupsInFlight' = WakeupsInFlight \cup {t} /\ t \notin WakeupsInFlight
  BY ThreadsAssumption DEF Push, At, TypeInv, TypeOK, WakeupsInFlight, Threads
<1>2. Cardinality(WakeupsInFlight') = Cardinality(WakeupsInFlight) + 1
  BY <1>1, WakeupsFinite, FS_AddElement
<1>3. Len(tasks) \in Nat /\ Len(tasks') = Len(tasks) + 1
  BY DEF Push, TypeInv, TypeOK
<1>4. (\E w \in Workers : pc'[w] = "blocked") => \E w \in Workers : pc[w] = "blocked"
  BY ThreadsAssumption DEF Push, At, TypeInv, TypeOK, Threads
<1>5. QED
  BY <1>2, <1>3, <1>4, WakeupsFinite DEF NoStrandedTask

\* notify_one() turns the notification owed into a worker that is awake.
LEMMA NotifyStranded ==
  ASSUME TypeInv, NoStrandedTask, NEW t \in Threads,
         NEW from \in {"notify", "notifyFromTask"}, NEW to \in {"idle", "run"},
         NotifyOne(t, from, to)
  PROVE  NoStrandedTask'
<1> USE ThreadsAssumption DEF TypeInv, TypeOK, Threads, NotifyOne
<1>1. CASE \A w \in Workers : pc'[w] # "blocked"
  BY <1>1 DEF NoStrandedTask
<1>2. ASSUME NEW v \in Workers, pc'[v] = "blocked" PROVE NoStrandedTask'
  <2>1. pc[v] = "blocked"
    BY <1>2
  <2>2. PICK w \in Workers : /\ pc[w] = "blocked"
                             /\ pc' = [pc EXCEPT ![t] = to, ![w] = "wait"]
    BY <2>1
  <2>3. /\ WakeupsInFlight' = (WakeupsInFlight \ {t}) \cup {w}
        /\ t \in WakeupsInFlight /\ w \notin WakeupsInFlight
    BY <2>2 DEF WakeupsInFlight
  <2> DEFINE Rest == WakeupsInFlight \ {t}
  <2> HIDE DEF Rest
  <2>4. /\ IsFiniteSet(Rest)
        /\ Cardinality(Rest) = Cardinality(WakeupsInFlight) - 1
    BY <2>3, WakeupsFinite, FS_RemoveElement DEF Rest
  <2>5. w \notin Rest /\ WakeupsInFlight' = Rest \cup {w}
    BY <2>3 DEF Rest
  <2>6. Cardinality(WakeupsInFlight') = Cardinality(Rest) + 1
    BY <2>4, <2>5, FS_AddElement
  <2>7. Cardinality(WakeupsInFlight') = Cardinality(WakeupsInFlight)
    BY <2>4, <2>6, WakeupsFinite
  <2>8. QED
    BY <2>1, <2>7 DEF NoStrandedTask
<1>3. QED
  BY <1>1, <1>2

LEMMA TakeStranded ==
  ASSUME TypeInv, NoStrandedTask, NEW w \in Workers, WorkerTake(w)
  PROVE  NoStrandedTask'
<1>1. WakeupsInFlight' = WakeupsInFlight \ {w} /\ w \in WakeupsInFlight
  BY ThreadsAssumption DEF WorkerTake, At, TypeInv, TypeOK, WakeupsInFlight, Threads
<1>2. Cardinality(WakeupsInFlight') = Cardinality(WakeupsInFlight) - 1
  BY <1>1, WakeupsFinite, FS_RemoveElement
<1>3. Len(tasks) \in Nat /\ Len(tasks') = Len(tasks) - 1
  BY DEF WorkerTake, TypeInv, TypeOK
<1>4. (\E v \in Workers : pc'[v] = "blocked") => \E v \in Workers : pc[v] = "blocked"
  BY ThreadsAssumption DEF WorkerTake, At, TypeInv, TypeOK, Threads
<1>5. QED
  BY <1>2, <1>3, <1>4, WakeupsFinite DEF NoStrandedTask

LEMMA NextStranded == TypeInv /\ NoStrandedTask /\ [Next]_vars => NoStrandedTask'
<1> SUFFICES ASSUME TypeInv, NoStrandedTask, [Next]_vars PROVE NoStrandedTask'
  OBVIOUS
<1>f. IsFiniteSet(WakeupsInFlight')
  <2>1. IsFiniteSet(Threads)
    BY WorkersAssumption, ThreadsAssumption, FS_Union DEF Threads
  <2>2. WakeupsInFlight' \subseteq Threads
    BY DEF WakeupsInFlight, Threads
  <2>3. QED
    BY <2>1, <2>2, FS_Subset
<1>t. TypeOK
  BY DEF TypeInv
<1> DEFINE Kept == /\ tasks' = tasks
                   /\ WakeupsInFlight \subseteq WakeupsInFlight'
                   /\ \A w \in Workers : pc'[w] = "blocked" => pc[w] = "blocked"
<1>k. Kept => NoStrandedTask'
  BY <1>f, <1>t, StrandedKept
<1> HIDE DEF Kept
<1>0. CASE UNCHANGED vars
  BY <1>0, <1>k DEF vars, Kept, WakeupsInFlight
<1>1. ASSUME NEW w \in Workers, NEW k \in Tasks, EnqueueFromTask(w, k)
      PROVE  NoStrandedTask'
  BY <1>1, PushStranded DEF EnqueueFromTask, Threads
<1>2. ASSUME NEW c \in Callers, NEW k \in Tasks, Enqueue(c, k) PROVE NoStrandedTask'
  BY <1>2, PushStranded DEF Enqueue, Threads
<1>3. ASSUME NEW w \in Workers, EnqueueFromTaskNotify(w) PROVE NoStrandedTask'
  BY <1>3, NotifyStranded DEF EnqueueFromTaskNotify, Threads
<1>4. ASSUME NEW c \in Callers, EnqueueNotify(c) PROVE NoStrandedTask'
  BY <1>4, NotifyStranded DEF EnqueueNotify, Threads
<1>5. ASSUME NEW w \in Workers, WorkerBlock(w) PROVE NoStrandedTask'
  <2>1. Len(tasks') = 0
    BY <1>5 DEF WorkerBlock
  <2>2. Cardinality(WakeupsInFlight') \in Nat
    BY <1>f, FS_CardinalityType
  <2>3. QED
    BY <2>1, <2>2 DEF NoStrandedTask
<1>6. ASSUME NEW w \in Workers, WorkerExit(w) PROVE NoStrandedTask'
  <2>1. Len(tasks') = 0
    BY <1>6 DEF WorkerExit
  <2>2. Cardinality(WakeupsInFlight') \in Nat
    BY <1>f, FS_CardinalityType
  <2>3. QED
    BY <2>1, <2>2 DEF NoStrandedTask
<1>7. ASSUME NEW w \in Workers, WorkerTake(w) PROVE NoStrandedTask'
  BY <1>7, TakeStranded
<1> USE ThreadsAssumption DEF TypeOK, Threads, WakeupsInFlight
<1>8. ASSUME NEW w \in Workers, WorkerRan(w) \/ WorkerFinish(w) PROVE NoStrandedTask'
  BY <1>8, <1>t, <1>k DEF WorkerRan, WorkerFinish, At, Kept
<1>9. ASSUME NEW t \in Threads, SpuriousWakeup(t) PROVE NoStrandedTask'
  BY <1>9, <1>t, <1>k DEF SpuriousWakeup, At, Kept
<1>10. ASSUME NEW c \in Callers, ShutdownNotifyAll(c) PROVE NoStrandedTask'
  BY <1>10, <1>t, <1>k DEF ShutdownNotifyAll, Kept
<1>11. ASSUME NEW c \in Callers,
              ShutdownFlag(c) \/ ShutdownSwap(c) \/ ShutdownJoined(c)
       PROVE  NoStrandedTask'
  BY <1>11, <1>t, <1>k DEF ShutdownFlag, ShutdownSwap, ShutdownJoined, At, Kept
<1>12. ASSUME NEW c \in Callers,
              WaitForAllCall(c) \/ WaitForAllBlock(c) \/ WaitForAllReturn(c)
       PROVE  NoStrandedTask'
  BY <1>12, <1>t, <1>k DEF WaitForAllCall, WaitForAllBlock, WaitForAllReturn, At, Kept
<1>13. QED
  BY <1>0, <1>1, <1>2, <1>3, <1>4, <1>5, <1>6, <1>7, <1>8, <1>9, <1>10, <1>11,
     <1>12
  DEF Next, WorkerStep, CallerStep, Call

\* No lost wake-up: while a worker sleeps on condition_, each queued task has a
\* wake-up under way, although enqueue() notifies after releasing the mutex.
THEOREM WakeupsCorrect == Spec => []NoStrandedTask
BY InitTypeInv, NextTypeInv, InitStranded, NextStranded, PTL DEF Spec
-----------------------------------------------------------------------------
(***************************************************************************)
(* Every step of ThreadPool is a step of TaskExecutor or changes nothing   *)
(* that TaskExecutor can see, for every number of workers, callers and     *)
(* tasks: push is Submit, taking a task is Start, the end of its run is    *)
(* Finish, the flag of shutdown() is Close, and the mutex, the condition   *)
(* variables and the joins are invisible.                                  *)
(***************************************************************************)
\* The workers that are running a task, and the tasks they run.
Runners == {w \in Workers : pc[w] \in {"run", "notifyFromTask"}}
Running == {task[w] : w \in Runners}

\* A task is in one place at a time: at one position of the queue, in the
\* hands of one worker, or completed.
Once ==
  /\ \A i, j \in DOMAIN tasks : tasks[i] = tasks[j] => i = j
  /\ \A i \in DOMAIN tasks :
       tasks[i] \notin completed /\ \A w \in Workers : tasks[i] # task[w]
  /\ \A v, w \in Workers : task[v] = task[w] /\ task[v] # NoTask => v = w

OnceInv == TypeInv /\ Once

\* No more tasks run than there are workers, and one fewer if a worker waits.
LEMMA RunningBound ==
  ASSUME TypeInv, NEW w \in Workers, w \notin Runners
  PROVE  Cardinality(Running) < Cardinality(Workers)
<1>1. Runners \subseteq Workers \ {w}
  BY DEF Runners
<1>2. /\ IsFiniteSet(Workers \ {w})
      /\ Cardinality(Workers \ {w}) = Cardinality(Workers) - 1
      /\ Cardinality(Workers) \in Nat
  BY WorkersAssumption, FS_RemoveElement, FS_CardinalityType
<1>3. IsFiniteSet(Runners) /\ Cardinality(Runners) <= Cardinality(Workers \ {w})
  BY <1>1, <1>2, FS_Subset
<1>4. [v \in Runners |-> task[v]] \in Surjection(Runners, Running)
  BY DEF Surjection, Running
<1>5. IsFiniteSet(Running) /\ Cardinality(Running) <= Cardinality(Runners)
  BY <1>3, <1>4, FS_Surjection
<1>6. Cardinality(Running) \in Nat /\ Cardinality(Runners) \in Nat
  BY <1>3, <1>5, FS_CardinalityType
<1>7. QED
  BY <1>2, <1>3, <1>5, <1>6, FS_CardinalityType

\* The cardinality of which the executor speaks is that of FiniteSets.
LEMMA SameCardinality == \A S : Executor!Cardinality(S) = Cardinality(S)
BY Zenon DEF Executor!Cardinality, Cardinality

LEMMA InitOnce == Init => OnceInv /\ Executor!Init
<1> SUFFICES ASSUME Init PROVE OnceInv /\ Executor!Init
  OBVIOUS
<1>1. OnceInv
  BY InitTypeInv DEF Init, OnceInv, Once
<1>2. Executor!Init
  BY ThreadsAssumption DEF Init, Executor!Init, Threads
<1>3. QED
  BY <1>1, <1>2

\* What the executor has accepted, the pool has accepted.
LEMMA AcceptedMapped ==
  ASSUME TypeInv
  PROVE  Executor!Accepted \subseteq Accepted
BY DEF TypeInv, TypeOK, TaskInHand, Busy, Accepted, Executor!Accepted, Range

LEMMA PushOnce ==
  ASSUME OnceInv, NEW t \in Threads, NEW k \in Tasks,
         NEW from, NEW to, Push(t, k, from, to),
         from \in {"run", "notifyFromTask"} <=> to \in {"run", "notifyFromTask"}
  PROVE  Once' /\ Executor!Next
<1> USE DEF OnceInv, TypeInv, TypeOK, Push
<1>1. k \notin completed /\ (\A w \in Workers : k # task[w])
        /\ \A i \in DOMAIN tasks : tasks[i] # k
  BY NoTaskAssumption DEF Accepted, Range
<1>2. /\ DOMAIN tasks' = DOMAIN tasks \cup {Len(tasks) + 1}
      /\ \A i \in DOMAIN tasks : tasks'[i] = tasks[i]
      /\ tasks'[Len(tasks) + 1] = k
  OBVIOUS
<1>3. Once'
  BY <1>1, <1>2 DEF Once
<1>4. Runners' = Runners
  BY DEF At, Runners, Threads
<1>5. Executor!Submit(k)
  <2>1. k \notin Executor!Accepted
    BY AcceptedMapped
  <2>2. Running' = Running
    BY <1>4 DEF Running
  <2>3. QED
    BY <2>1, <2>2 DEF Executor!Submit, Running, Runners
<1>6. QED
  BY <1>3, <1>5 DEF Executor!Next

LEMMA TakeOnce ==
  ASSUME OnceInv, NEW w \in Workers, WorkerTake(w)
  PROVE  Once' /\ Executor!Next
<1> USE DEF OnceInv, TypeInv, TypeOK, WorkerTake
<1>1. /\ 1 \in DOMAIN tasks /\ Head(tasks) = tasks[1] /\ Head(tasks) # NoTask
      /\ \A i \in DOMAIN tasks' : i + 1 \in DOMAIN tasks /\ tasks'[i] = tasks[i + 1]
      /\ \A i \in DOMAIN tasks' : i \in Nat /\ i # 0
  BY NoTaskAssumption
<1>2. \A v \in Workers : task'[v] = IF v = w THEN tasks[1] ELSE task[v]
  BY <1>1
<1>3. Once'
  <2>1. \A i, j \in DOMAIN tasks' : tasks'[i] = tasks'[j] => i = j
    BY <1>1 DEF Once
  <2>2. \A i \in DOMAIN tasks' : tasks'[i] \notin completed'
          /\ \A v \in Workers : tasks'[i] # task'[v]
    BY <1>1, <1>2 DEF Once
  <2>3. \A u, v \in Workers : task'[u] = task'[v] /\ task'[u] # NoTask => u = v
    BY <1>1, <1>2 DEF Once
  <2>4. QED
    BY <2>1, <2>2, <2>3 DEF Once
<1>4. Runners' = Runners \cup {w} /\ w \notin Runners
  BY DEF At, Runners, Threads
<1>5. Running' = Running \cup {Head(tasks)}
  BY <1>1, <1>2, <1>4 DEF Running
<1>6. Executor!Start
  <2>1. Executor!Cardinality(Running) < Cardinality(Workers)
    BY <1>4, RunningBound, SameCardinality
  <2>2. QED
    BY <1>5, <2>1 DEF Executor!Start, Running, Runners
<1>7. QED
  BY <1>3, <1>6 DEF Executor!Next

LEMMA RanOnce ==
  ASSUME OnceInv, NEW w \in Workers, WorkerRan(w)
  PROVE  Once' /\ Executor!Next
<1> USE DEF OnceInv, TypeInv, TypeOK, WorkerRan
<1>1. task[w] \in Tasks
  BY DEF At, TaskInHand, Busy
<1>2. Once'
  BY <1>1 DEF Once
<1>3. Runners' = Runners \ {w} /\ w \in Runners
  BY DEF At, Runners, Threads
<1>4. Running' = Running \ {task[w]} /\ task[w] \in Running
  BY <1>1, <1>3, NoTaskAssumption DEF Running, Runners, Once
<1>5. Executor!Finish(task[w])
  BY <1>4 DEF Executor!Finish, Running, Runners
<1>6. Executor!Next
  <2>1. PICK k \in Tasks : Executor!Finish(k)
    BY <1>1, <1>5 DEF Executor!Finish
  <2>2. QED
    BY <2>1 DEF Executor!Next
<1>7. QED
  BY <1>2, <1>6

LEMMA FinishOnce ==
  ASSUME OnceInv, NEW w \in Workers, WorkerFinish(w)
  PROVE  Once' /\ UNCHANGED Executor!vars
<1> USE DEF OnceInv, TypeInv, TypeOK, WorkerFinish
<1>1. \A v \in Workers : task'[v] = IF v = w THEN NoTask ELSE task[v]
  OBVIOUS
<1>2. Once'
  BY <1>1, NoTaskAssumption DEF Once
<1>3. Runners' = Runners /\ w \notin Runners
  BY ThreadsAssumption DEF Runners, Threads
<1>4. Running' = Running
  BY <1>1, <1>3 DEF Running
<1>5. QED
  BY <1>2, <1>4 DEF Executor!vars, Running, Runners

\* A step that moves threads only, none of them into or out of a task.
LEMMA MoveOnce ==
  ASSUME OnceInv, UNCHANGED <<tasks, shutdown, task, completed>>,
         Runners' = Runners
  PROVE  Once' /\ UNCHANGED Executor!vars
<1>1. Once'
  BY DEF OnceInv, Once
<1>2. Running' = Running
  BY DEF Running
<1>3. QED
  BY <1>1, <1>2 DEF Executor!vars, Running, Runners

LEMMA NextOnce ==
  ASSUME OnceInv, [Next]_vars
  PROVE  OnceInv' /\ [Executor!Next]_(Executor!vars)
<1>i. TypeInv'
  BY NextTypeInv DEF OnceInv
<1> DEFINE Goal == Once' /\ [Executor!Next]_(Executor!vars)
<1>s. SUFFICES Goal
  BY <1>i DEF OnceInv
<1>0. CASE UNCHANGED vars
  BY <1>0, MoveOnce DEF vars, Runners
<1>1. ASSUME NEW w \in Workers, NEW k \in Tasks, EnqueueFromTask(w, k) PROVE Goal
  BY <1>1, PushOnce DEF EnqueueFromTask, Threads
<1>2. ASSUME NEW c \in Callers, NEW k \in Tasks, Enqueue(c, k) PROVE Goal
  BY <1>2, PushOnce DEF Enqueue, Threads
<1>3. ASSUME NEW w \in Workers, WorkerTake(w) PROVE Goal
  BY <1>3, TakeOnce
<1>4. ASSUME NEW w \in Workers, WorkerRan(w) PROVE Goal
  BY <1>4, RanOnce
<1>5. ASSUME NEW w \in Workers, WorkerFinish(w) PROVE Goal
  BY <1>5, FinishOnce
<1>6. ASSUME NEW w \in Workers,
             WorkerBlock(w) \/ WorkerExit(w) \/ EnqueueFromTaskNotify(w)
      PROVE  Goal
  <2>1. Runners' = Runners
    BY <1>6, ThreadsAssumption
    DEF WorkerBlock, WorkerExit, EnqueueFromTaskNotify, NotifyOne, At, Runners,
        OnceInv, TypeInv, TypeOK, Threads
  <2>2. QED
    BY <1>6, <2>1, MoveOnce DEF WorkerBlock, WorkerExit, EnqueueFromTaskNotify, NotifyOne
<1>7. ASSUME NEW c \in Callers, ShutdownFlag(c) PROVE Goal
  <2>1. Runners' = Runners
    BY <1>7, ThreadsAssumption
    DEF ShutdownFlag, At, Runners, OnceInv, TypeInv, TypeOK, Threads
  <2>2. Running' = Running /\ Once'
    BY <1>7, <2>1 DEF ShutdownFlag, Running, OnceInv, Once
  <2>3. Executor!Close
    BY <1>7, <2>2 DEF ShutdownFlag, Executor!Close, Running, Runners
  <2>4. QED
    BY <2>2, <2>3 DEF Executor!Next
<1>8. ASSUME NEW c \in Callers, CallerStep(c) \/ WaitForAllCall(c) PROVE Goal
  <2>1. UNCHANGED <<tasks, shutdown, task, completed>>
    BY <1>8 DEF CallerStep, EnqueueNotify, NotifyOne, ShutdownNotifyAll, ShutdownSwap,
       ShutdownJoined, WaitForAllBlock, WaitForAllReturn, WaitForAllCall
  <2>2. Runners' = Runners
    BY <1>8, ThreadsAssumption
    DEF CallerStep, EnqueueNotify, NotifyOne, ShutdownNotifyAll, ShutdownSwap,
        ShutdownJoined, WaitForAllBlock, WaitForAllReturn, WaitForAllCall, At,
        Runners, OnceInv, TypeInv, TypeOK, Threads
  <2>3. QED
    BY <2>1, <2>2, MoveOnce
<1>9. ASSUME NEW t \in Threads, SpuriousWakeup(t) PROVE Goal
  <2>1. Runners' = Runners
    BY <1>9 DEF SpuriousWakeup, At, Runners, OnceInv, TypeInv, TypeOK, Threads
  <2>2. QED
    BY <1>9, <2>1, MoveOnce DEF SpuriousWakeup
<1>10. QED
  BY <1>0, <1>1, <1>2, <1>3, <1>4, <1>5, <1>6, <1>7, <1>8, <1>9
  DEF Next, WorkerStep, Call

\* The pool takes only steps of the executor: it starts each accepted task
\* once, in the order of acceptance, at most one per worker at a time, drops
\* none, and accepts none after shutdown().
THEOREM PoolImplementsExecutor ==
  Spec => Executor!Init /\ [][Executor!Next]_(Executor!vars)
BY InitOnce, NextOnce, PTL DEF Spec
==============================================================================
