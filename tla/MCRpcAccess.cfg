SPECIFICATION Spec
CONSTANTS
  p1 = p1  p2 = p2  c1 = c1  c2 = c2
  Proc = {p1, p2}
  Network = {"testnet", "mainnet"}
  Call = {c1, c2}
  Owner <- OwnerC
  None = None
  Faults = {"redis", "node", "restart"}
INVARIANTS OwnNetwork ClearedAreGone
CHECK_DEADLOCK FALSE
