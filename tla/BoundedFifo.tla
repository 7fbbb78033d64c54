---------------------------- MODULE BoundedFifo ----------------------------
(***************************************************************************)
(* What a BlockingQueue promises its clients: a first-in first-out buffer  *)
(* of bounded size that can be closed.  One step is one call taking its    *)
(* effect; there are no locks, condition variables or sleeping threads.    *)
(* BlockingQueue.tla refines this module, and so does LockFreeQueue.tla,   *)
(* which is never closed and whose pop() is a pop_for that does not wait.  *)
(***************************************************************************)
EXTENDS Naturals, Sequences

CONSTANTS Producers,        \* threads that call push()
          PopConsumers,     \* threads that call pop()
          PopForConsumers,  \* threads that call pop_for()
          Capacity,         \* capacity_
          Thrown,           \* pop() threw "Queue stopped"
          NoValue           \* pop_for() returned std::nullopt

VARIABLES items,   \* the values accepted and not yet handed out, oldest first
          todo,    \* todo[p]: calls of push() that p has not completed
          got,     \* got[c]: what the last completed call of c returned
          closed   \* stop() has been called

vars == <<items, todo, got, closed>>

Takers == PopConsumers \cup PopForConsumers

Init == /\ items = <<>>
        /\ todo \in [Producers -> Nat]
        /\ got = [c \in Takers |-> NoValue]
        /\ closed = FALSE

\* An open queue with room accepts a value; values of p are numbered by todo[p].
Put(p) == /\ ~closed
          /\ Len(items) < Capacity
          /\ todo[p] > 0
          /\ items' = Append(items, <<p, todo[p]>>)
          /\ todo' = [todo EXCEPT ![p] = @ - 1]
          /\ UNCHANGED <<got, closed>>

\* A closed queue drops the value, and push() returns as if it had kept it.
Drop(p) == /\ closed
           /\ todo[p] > 0
           /\ todo' = [todo EXCEPT ![p] = @ - 1]
           /\ UNCHANGED <<items, got, closed>>

\* An open queue hands out its oldest value, to one consumer.
Get(c) == /\ ~closed
          /\ items # <<>>
          /\ got' = [got EXCEPT ![c] = Head(items)]
          /\ items' = Tail(items)
          /\ UNCHANGED <<todo, closed>>

\* pop() fails only on a closed queue.
Refuse(c) == /\ c \in PopConsumers
             /\ closed
             /\ got' = [got EXCEPT ![c] = Thrown]
             /\ UNCHANGED <<items, todo, closed>>

\* pop_for() comes back with nothing only if the queue is empty or closed.
Miss(c) == /\ c \in PopForConsumers
           /\ closed \/ items = <<>>
           /\ got' = [got EXCEPT ![c] = NoValue]
           /\ UNCHANGED <<items, todo, closed>>

Close == /\ closed' = TRUE
         /\ UNCHANGED <<items, todo, got>>

Next == \/ \E p \in Producers : Put(p) \/ Drop(p)
        \/ \E c \in Takers : Get(c) \/ Refuse(c) \/ Miss(c)
        \/ Close

Spec == Init /\ [][Next]_vars
=============================================================================
