SPECIFICATION Spec
CONSTANTS
  c1 = c1  c2 = c2
  evCaptured = evCaptured  evOther = evOther
  NoKey = NoKey  NoRef = NoRef  NoCaller = NoCaller  NoEvent = NoEvent
  ProviderRef = "pi"
  Amount = 2
  AuthAmounts = {3}
  RefundAmounts = {1, 2}
  Keys = {"k"}
  Refs = {"pi"}
  Events = {}
  KindOf <- KindsNone
  Callers = {c1, c2}
  Capabilities <- CardOrCash
  AdvanceTargets = {"processing", "cancelled", "closed"}
  Openings = {"created", "requires_payment"}
  MaxAttempts = 2
  MaxVersion = 8
  MaxCrashes = 1
SYMMETRY CallerSymmetry
INVARIANTS
  SingleCharge
  StatusMatchesCharge
  RefundsCovered
  OneRefundPerKey
  CompletionAnnouncedOnce
PROPERTIES
  LedgerSpec
CHECK_DEADLOCK FALSE
