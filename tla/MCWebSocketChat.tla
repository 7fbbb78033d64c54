-------------------------- MODULE MCWebSocketChat --------------------------
(* Instances of WebSocketChat for TLC. *)
EXTENDS WebSocketChat, TLC

CONSTANTS ann, bob, cyd

\* One peer sends twice, one once, one only listens.
MCMessages == ann :> 2 @@ bob :> 1 @@ cyd :> 0
=============================================================================
