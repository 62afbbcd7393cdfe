SPECIFICATION Spec
CONSTANTS
  s1 = s1  o1 = o1  o2 = o2  w1 = w1  w2 = w2
  NoSession = NoSession  NoOrder = NoOrder
  References = {o1, o2, "note"}
  Products = {"p", "c"}
  Tracked = {"p", "c"}
  Deny = {"p"}
  Locations = {"a", "b", "z"}
  Registered = {"a", "b"}
  InitialStock <- LastUnit
  Sessions = {s1}
  Coded = {s1}
  CustomerOf <- Ann
  Customers = {"ann", "bob"}
  Keys = {o1, o2, "desk"}
  MultiUse = FALSE
  UsageLimits = {1}
  Lines <- ThreeLines
  Orders = {o1, o2}
  Workers = {w1, w2}
  Quantities = {1}
  AdvanceTargets = {"confirmed", "awaiting_payment", "payment_requested",
                    "payment_received", "ready_for_fulfillment"}
  MaxEvents = 1
SYMMETRY Symmetry
INVARIANTS
  TypeOK
  StockSound
  PromisedIsHeld
  UsageWithinLimits
PROPERTIES
  OnHandKept
  SessionOrderFinal
  RedemptionsKept
CHECK_DEADLOCK FALSE
