SPECIFICATION Spec
CONSTANTS
  p1 = p1  p2 = p2  c1 = c1  c2 = c2  c3 = c3  k1 = k1  k3 = k3
  Process = {p1, p2}
  Call = {c1, c3}
  Conn = {k1, k3}
  ProcOf <- ProcOfC
  NoConn = NoConn
  Faults = {"network"}
  MaxRetries = 1
  MaxCalls = 1
INVARIANT SequentialNonceGuarantee
CHECK_DEADLOCK FALSE
