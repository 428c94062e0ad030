-------------------------- MODULE MCKafkaProducer --------------------------
(* An instance of KafkaProducer for TLC.                                    *)
EXTENDS KafkaProducer
=============================================================================
