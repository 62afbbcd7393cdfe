SPECIFICATION Spec
CONSTANTS
  w1 = w1  w2 = w2  NoPayment = 0
  Intents = {1, 2}
  Shoppers = {w1}
  Staff = {w2}
  AdvanceTargets = {"confirmed", "awaiting_payment", "payment_requested", "payment_failed",
                    "ready_for_fulfillment", "refunded", "closed"}
  MaxAttempts = 2
  MaxCrashes = 0
INVARIANTS RefundedMeansReturned
CHECK_DEADLOCK FALSE
