----------------------- MODULE MCSubscriptionBilling -----------------------
(* A small instance of SubscriptionBilling: one staff request at a time    *)
(* beside the two jobs, the second of which has two instances.             *)
EXTENDS SubscriptionBilling, TLC

CONSTANTS r1, d1, d2, a1

=============================================================================
