------------------------------ MODULE MCPayment ------------------------------
(***************************************************************************)
(* Instances of PaymentLifecycle for TLC: one provider of each capability    *)
(* and the webhook events it may send.                                       *)
(***************************************************************************)
EXTENDS PaymentLifecycle, TLC

CONSTANTS c1, c2, evCaptured, evOther

\* No webhooks are sent.
KindsNone == << >>

\* Paymob-like: the capture callback and one kind that moves nothing.
KindsPayTime == (evCaptured :> "captured") @@ (evOther :> "other")

\* Stripe-like: the capture event and a failed attempt reported before it.
KindsFailed == (evCaptured :> "captured") @@ (evOther :> "failed")

\* A failed attempt only.
KindsFailedOnly == evOther :> "failed"

\* A card provider that captures on request, a wallet whose payment is the
\* capture, and cash that an operator confirms.
CardOnly == {[settlesAtPayTime |-> FALSE, deliversWebhooks |-> TRUE]}

PayTimeOnly == {[settlesAtPayTime |-> TRUE, deliversWebhooks |-> TRUE]}

CashOnly == {[settlesAtPayTime |-> TRUE, deliversWebhooks |-> FALSE]}

CardOrCash == CardOnly \cup CashOnly

CardOrWallet == CardOnly \cup PayTimeOnly

CallerSymmetry == Permutations(Callers)
=============================================================================
