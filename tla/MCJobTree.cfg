CONSTANTS
  root = root  child = child  leaf = leaf  t1 = t1  t2 = t2
  p1 = p1  w1 = w1
  Job = {root, child, leaf}
  Task = {t1, t2}
  Brief = {t1}
  Proc = {p1}
  Worker = {w1}
  NoTask = NoTask
  NoOwner = NoOwner
  JobOf <- MCJobOf
  Deps <- MCDeps
  Priority <- MCPriority
  Chain = {}
  Earlier <- MCEarlier
  Ancestors <- MCAncestors
  Root <- MCRoot
  ProcOf <- MCProcOf
  Crashable = {p1}
  LeaseSecs = 1
  StaleSecs = 0
  Window = 1
  MaxRecoveries = 2
  StopBatchSize = 1
SPECIFICATION FairSpec
INVARIANTS StoppedTreeQuiet RetiredInert
PROPERTIES CancelIsFinal NoneRunsForever
CHECK_DEADLOCK FALSE
