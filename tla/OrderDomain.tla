----------------------------- MODULE OrderDomain -----------------------------
(***************************************************************************)
(* The order aggregate's lifecycle: its statuses and the validated           *)
(* transition table, shared by the modules in which orders take part.        *)
(***************************************************************************)

\* "none" stands for an order that has not been created.
Transitions ==
  [none                  |-> {},
   placed                |-> {"paid", "cancelled"},
   paid                  |-> {"refunded"},
   refunded              |-> {},
   created               |-> {"confirmed", "cancelled"},
   confirmed             |-> {"awaiting_payment", "held", "cancelled"},
   held                  |-> {"resumed", "cancelled"},
   resumed               |-> {"awaiting_payment"},
   awaiting_payment      |-> {"payment_requested", "cancelled"},
   payment_requested     |-> {"payment_received", "payment_failed", "cancelled"},
   payment_failed        |-> {"payment_requested", "cancelled"},
   payment_received      |-> {"ready_for_fulfillment"},
   ready_for_fulfillment |-> {"fulfillment_requested"},
   fulfillment_requested |-> {"fulfilled", "partially_fulfilled"},
   partially_fulfilled   |-> {"fulfilled"},
   fulfilled             |-> {"delivered"},
   delivered             |-> {"return_requested", "closed"},
   return_requested      |-> {"returned"},
   returned              |-> {"refund_requested", "closed"},
   refund_requested      |-> {"closed"},
   cancelled             |-> {"closed"},
   closed                |-> {}]

OrderStatuses == DOMAIN Transitions

CanTransition(from, to) == to \in Transitions[from]
=============================================================================
