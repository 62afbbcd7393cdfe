-------------------------- MODULE MCKafkaTransport --------------------------
(***************************************************************************)
(* Instances of KafkaTransport for TLC: an atomic and a plain consumer group *)
(* of one topic.                                                             *)
(***************************************************************************)
EXTENDS KafkaTransport

CONSTANTS atomic, plain
=============================================================================
