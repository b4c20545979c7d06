SPECIFICATION Spec
CONSTANTS
  a1 = a1  a2 = a2  a3 = a3
  Address = {a1, a2, a3}
  PR = {42}
  AdminVec <- AdminVecC
  ThresholdArg = {0, 1, 2}
  MaxNonce = 3
  MaxProposals = 2
INVARIANT ThresholdReachedExecutes
CHECK_DEADLOCK FALSE
