-------------------------- MODULE MCKafkaEventBus --------------------------
(* Instances of KafkaEventBus for TLC.                                     *)
EXTENDS KafkaEventBus

============================================================================
