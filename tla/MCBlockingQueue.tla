-------------------------- MODULE MCBlockingQueue --------------------------
(* Instances of BlockingQueue for TLC. *)
EXTENDS BlockingQueue, TLC

CONSTANTS p1, p2, c1, t1

\* Two producers push three values through one slot to a pop() caller who wants
\* two of them and a pop_for() caller who takes at most one: as in test_basic
\* and test_with_timeout, with the 300 and 90 values cut to three.
MCBudget == p1 :> 2 @@ p2 :> 1 @@ c1 :> 2 @@ t1 :> 1
=============================================================================
