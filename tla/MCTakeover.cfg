CONSTANTS
  d1 = d1  d2 = d2  p1 = p1  p2 = p2  settings = settings  auth = auth
  Key = {topo, flush}
  Topology = {topo}
  Drainer = {d1, d2}
  Caller = {c1}
  NoKey = NoKey
  LeaseSecs = 1
  Window = 1
  MaxRecoveries = 2
  MaxEpoch = 3
  MaxRetries = 1
  Instance = {p1, p2}
  File = {settings, auth}
  Batches <- Whole
  NoInstance = NoInstance  Dead = Dead
  MayStall = TRUE
  MaxCommit = 2
  MaxDeath = 1
  MaxFault = 2
SPECIFICATION MCSpec
INVARIANTS TypeOK CompletedDelivered LastCommitStands
PROPERTIES ModelSticks TopologyPublishFenced
SYMMETRY Twins
CHECK_DEADLOCK FALSE
