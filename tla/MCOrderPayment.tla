--------------------------- MODULE MCOrderPayment ---------------------------
(***************************************************************************)
(* Instances of OrderPayment for TLC: two payment intents.                   *)
(***************************************************************************)
EXTENDS OrderPayment

CONSTANTS w1, w2
=============================================================================
