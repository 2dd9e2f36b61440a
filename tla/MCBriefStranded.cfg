CONSTANTS
  chain = chain  newer = newer  body = body  claims = claims  inferences = inferences  links = links
  p1 = p1  p2 = p2  w1 = w1  w2 = w2
  Job = {chain}
  Chain = {chain}
  Earlier <- MCEarlierNone
  Task = {body, claims, inferences, links}
  Brief = {body, claims, inferences, links}
  Proc = {p1, p2}
  Worker = {w1, w2}
  NoTask = NoTask
  NoOwner = NoOwner
  JobOf <- MCJobOf
  Deps <- MCDeps
  Priority <- MCPriority
  Ancestors <- MCAncestors
  Root <- MCRoot
  ProcOf <- MCProcOf
  Crashable = {}
  LeaseSecs = 1
  StaleSecs = 0
  Window = 3
  MaxRecoveries = 2
  StopBatchSize = 1
SPECIFICATION Spec
INVARIANTS NoStrandedChain
SYMMETRY Slots
CHECK_DEADLOCK FALSE
