SPECIFICATION FairSpec
CONSTANTS
  c1 = c1  p1 = p1  p2 = p2
  Default <- DefaultC
  Environment <- EnvironmentC
  MultiplierNum = 3
  MultiplierDen = 2
  Percentile = "p75"
  Stats <- StatsC
  NoEstimate = NoEstimate
  Content <- ContentC
  MaxMessages = 1
  FeeOverride <- FeeOverrideC
  Call = {c1}
  Poll = {p1, p2}
  Mode = {"direct", "thread"}
  Faults = {"error", "reconnect", "expiry", "stop", "thread"}
INVARIANTS SettingsUsable AppliedWasSigned FeeOfOwnSettings FeeWithinBounds
PROPERTIES NoRollback PublishedInForce
CHECK_DEADLOCK FALSE
