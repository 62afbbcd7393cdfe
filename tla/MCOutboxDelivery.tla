-------------------------- MODULE MCOutboxDelivery --------------------------
(***************************************************************************)
(* Instances of OutboxDelivery for TLC: an atomic and a plain consumer on    *)
(* one topic, and a row on a topic nobody subscribes to.                     *)
(***************************************************************************)
EXTENDS OutboxDelivery, TLC

CONSTANTS atomic, plain, w1, w2

\* A row for both consumers; the second row's topic has no subscriber.
WithUnrouted == <<{atomic, plain}, {}>>
=============================================================================
