SPECIFICATION Spec
CONSTANTS
  a1 = a1  a2 = a2  a3 = a3
  Address = {a1, a2, a3}
  PR = {42}
  AdminVec <- AdminVecC
  ThresholdArg = {0, 1, 3}
  MaxNonce = 2
  MaxProposals = 3
INVARIANTS TypeOK ThresholdInRange NonceCountsExecutions
PROPERTIES ExecutionNeedsQuorum ChangeOnlyByExecution
CHECK_DEADLOCK FALSE
