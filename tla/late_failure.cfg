SPECIFICATION Spec
CONSTANTS
  c1 = c1  c2 = c2
  evCaptured = evCaptured  evOther = evOther
  NoKey = NoKey  NoRef = NoRef  NoCaller = NoCaller  NoEvent = NoEvent
  ProviderRef = "pi"
  Amount = 2
  AuthAmounts = {2}
  RefundAmounts = {}
  Keys = {}
  Refs = {"pi"}
  Events = {evCaptured, evOther}
  KindOf <- KindsFailed
  Callers = {c1, c2}
  Capabilities <- CardOnly
  AdvanceTargets = {"processing"}
  Openings = {"created"}
  MaxAttempts = 2
  MaxVersion = 9
  MaxCrashes = 1
SYMMETRY CallerSymmetry
INVARIANTS
  SettleableOnceCaptured
CHECK_DEADLOCK FALSE
