---------------------------- MODULE TaskExecutor ----------------------------
(***************************************************************************)
(* What a pool of worker threads promises the code that hands it tasks:    *)
(* a task that was accepted is started exactly once, in the order in which *)
(* tasks were accepted, on one of at most MaxParallel threads, and then    *)
(* runs to its end; closing the executor refuses new tasks and drops none  *)
(* of the old ones.  Mutexes, condition variables and thread loops are     *)
(* what an implementation adds.                                            *)
(***************************************************************************)
EXTENDS Naturals, Sequences, FiniteSets

CONSTANTS Tasks,        \* the tasks that can be submitted, each at most once
          MaxParallel   \* how many tasks run at the same time

VARIABLES pending,      \* accepted and not started, oldest first
          running,      \* started and not finished
          finished,     \* run to the end: the future of the task is ready
          closed        \* no further task is accepted

vars == <<pending, running, finished, closed>>

Accepted == {pending[i] : i \in DOMAIN pending} \cup running \cup finished

Init ==
  /\ pending = <<>>
  /\ running = {}
  /\ finished = {}
  /\ closed = FALSE

Submit(t) ==
  /\ ~closed
  /\ t \notin Accepted
  /\ pending' = Append(pending, t)
  /\ UNCHANGED <<running, finished, closed>>

Start ==
  /\ pending # <<>>
  /\ Cardinality(running) < MaxParallel
  /\ running' = running \cup {Head(pending)}
  /\ pending' = Tail(pending)
  /\ UNCHANGED <<finished, closed>>

Finish(t) ==
  /\ t \in running
  /\ running' = running \ {t}
  /\ finished' = finished \cup {t}
  /\ UNCHANGED <<pending, closed>>

Close ==
  /\ closed' = TRUE
  /\ UNCHANGED <<pending, running, finished>>

Next ==
  \/ \E t \in Tasks : Submit(t) \/ Finish(t)
  \/ Start
  \/ Close

Fairness == WF_vars(Start) /\ \A t \in Tasks : WF_vars(Finish(t))

Spec == Init /\ [][Next]_vars /\ Fairness
=============================================================================
