-------------------------- MODULE MCConcurrentLru --------------------------
(* Instances of ConcurrentLru for TLC. *)
EXTENDS ConcurrentLru

CONSTANTS k1, k2, k3, k4, n1, n2, n3, n4, t1, t2

\* Three keys compete for one stripe, the fourth has the other to itself.
MCStripeOf == k1 :> 1 @@ k2 :> 1 @@ k3 :> 1 @@ k4 :> 2

\* Nodes and threads are interchangeable.
Symmetry == Permutations(Nodes) \cup Permutations(Threads)
=============================================================================
