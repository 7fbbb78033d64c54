------------------------- MODULE MCLockFreeQueue ---------------------------
(* Instances of LockFreeQueue for TLC. *)
EXTENDS LockFreeQueue, TLC

CONSTANTS p1, p2, c1, c2, n1, n2, n3, n4

\* Contention on fresh addresses, with weak compare-and-swaps that fail, and one
\* producer with one consumer whose nodes may come back at the same address.
MCSetups ==
  {[calls |-> p1 :> 2 @@ p2 :> 1 @@ c1 :> 1 @@ c2 :> 1, recycle |-> FALSE, failures |-> 1],
   [calls |-> p1 :> 3 @@ p2 :> 0 @@ c1 :> 3 @@ c2 :> 0, recycle |-> TRUE, failures |-> 0]}
=============================================================================
