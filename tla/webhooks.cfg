SPECIFICATION FairSpec
CONSTANTS
  c1 = c1  c2 = c2
  evCaptured = evCaptured  evOther = evOther
  NoKey = NoKey  NoRef = NoRef  NoCaller = NoCaller  NoEvent = NoEvent
  ProviderRef = "pi"
  Amount = 2
  AuthAmounts = {2}
  RefundAmounts = {}
  Keys = {}
  Refs = {"pi"}
  Events = {evCaptured, evOther}
  KindOf <- KindsPayTime
  Callers = {c1, c2}
  Capabilities <- CardOrWallet
  AdvanceTargets = {"processing"}
  Openings = {"created"}
  MaxAttempts = 2
  MaxVersion = 10
  MaxCrashes = 1
INVARIANTS
  TypeOK
  SingleCharge
  ChargeIsReal
  SettleableOnceCaptured
PROPERTIES
  CaptureIsSettled
CHECK_DEADLOCK FALSE
