CONSTANTS
  d1 = d1  d2 = d2
  Key = {topo}
  Topology = {topo}
  Drainer = {d1, d2}
  Caller = {c1}
  NoKey = NoKey
  LeaseSecs = 1
  Window = 1
  MaxRecoveries = 2
  MaxEpoch = 3
  MaxRetries = 1
SPECIFICATION Spec
INVARIANTS PendingIsEligible
CHECK_DEADLOCK FALSE
