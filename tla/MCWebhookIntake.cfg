SPECIFICATION FairSpec
CONSTANTS
  p1 = p1  p2 = p2  s1 = s1  s2 = s2  i1 = i1  e1 = e1  e2 = e2
  n1 = n1  n2 = n2  n3 = n3
  Process = {p1, p2}
  Slot = {s1, s2}
  ProcOf <- ProcOfC
  Request <- RequestC
  Ip = {i1}
  Event = {e1, e2}
  Name = {n1, n2, n3}
  Missing = Missing
  Secret = TRUE
  Production = TRUE
  PublicMax = 1
  AuthMax = 2
  Window = 2
  Faults = {"redis", "reply", "resend", "crash"}
INVARIANTS BurstBounded JobIdentifiesEvent
PROPERTY LimitLifted
CHECK_DEADLOCK FALSE
