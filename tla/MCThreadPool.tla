--------------------------- MODULE MCThreadPool ----------------------------
(* Instances of ThreadPool for TLC. *)
EXTENDS ThreadPool, TLC

CONSTANTS w1, w2, a, b, k1, k2, k3, k4

\* Client a enqueues two tasks and client b one; the first of them enqueues a
\* fourth task while it is executed.
MCSubmitter == k1 :> a @@ k2 :> a @@ k3 :> b @@ k4 :> k1
=============================================================================
