----------------------------- MODULE TaskBoard -----------------------------
(***************************************************************************)
(* What a Thread_Pool promises: tasks start in the order in which they     *)
(* were submitted, each once, at most PoolSize of them at a time, and a    *)
(* stop() returns only when everything it owes has been executed.  It owes *)
(* the tasks submitted before it and those submitted by running tasks; a   *)
(* task another thread submits while stop() is under way is taken, but may *)
(* never run.  ThreadPool.tla refines this module.                         *)
(***************************************************************************)
EXTENDS Naturals, Sequences, FiniteSets

CONSTANTS Tasks,      \* the tasks that may be submitted
          Submitter,  \* Submitter[t]: the client or the task that submits t
          PoolSize    \* number of tasks that may run at a time

VARIABLES pending,   \* submitted and not started, oldest first
          active,    \* started and not finished
          finished,  \* finished
          owed,      \* tasks stop() has to wait for
          stopping,  \* stop() has begun
          closed     \* stop() has returned

vars == <<pending, active, finished, owed, stopping, closed>>

Init == /\ pending = <<>>
        /\ active = {}
        /\ finished = {}
        /\ owed = {}
        /\ stopping = FALSE
        /\ closed = FALSE

Known == {pending[i] : i \in DOMAIN pending} \cup active \cup finished

Submit(t) ==
  /\ t \notin Known
  /\ Submitter[t] \in Tasks => Submitter[t] \in active
  /\ pending' = Append(pending, t)
  /\ owed' = IF stopping /\ Submitter[t] \notin Tasks THEN owed ELSE owed \cup {t}
  /\ UNCHANGED <<active, finished, stopping, closed>>

Start == /\ ~closed
         /\ pending # <<>>
         /\ Cardinality(active) < PoolSize
         /\ active' = active \cup {Head(pending)}
         /\ pending' = Tail(pending)
         /\ UNCHANGED <<finished, owed, stopping, closed>>

\* A task finishes when it has submitted what it submits.
Finish(t) == /\ t \in active
             /\ {u \in Tasks : Submitter[u] = t} \subseteq Known
             /\ active' = active \ {t}
             /\ finished' = finished \cup {t}
             /\ UNCHANGED <<pending, owed, stopping, closed>>

StopBegins == /\ stopping' = TRUE
              /\ UNCHANGED <<pending, active, finished, owed, closed>>

StopReturns == /\ stopping
               /\ active = {}
               /\ owed \subseteq finished
               /\ closed' = TRUE
               /\ UNCHANGED <<pending, active, finished, owed, stopping>>

Next == \/ \E t \in Tasks : Submit(t) \/ Finish(t)
        \/ Start
        \/ StopBegins
        \/ StopReturns

Spec == Init /\ [][Next]_vars
=============================================================================
