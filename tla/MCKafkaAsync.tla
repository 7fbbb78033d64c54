--------------------------- MODULE MCKafkaAsync ----------------------------
(* Instances of KafkaAsync for TLC: the bounds are in the configurations. *)
EXTENDS KafkaAsync
=============================================================================
