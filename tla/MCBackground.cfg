CONSTANTS
  i1 = i1  m1 = m1  m2 = m2
  Memory = {m1, m2}
  Text = {1, 2}
  Indexer = {i1}
  Chunk = 2
  Moves <- FreshTexts
  FirstGen = 1
  MaxRows = 3
  MaxGen = 1
  live = live  fast = fast  summ = summ  bg = bg  acct = acct  shared = shared
  wa = wa  wb = wb  wc = wc
  Writes = {wa, wb, wc}
  Bad = {wb}
  Writing <- AllOrNone
  QueueCap = 2
  BatchCap = 2
  Chain = {live, fast, bg}
  Summary = {summ}
  Interactive = {live, fast}
  Staged = {live, fast}
  Routes = 2
  Configured = {1, 2}
  Account = {acct, shared}
  AccountOf <- MCAccountOf
  SummaryAccount = acct
  Family = {"big", "small"}
  FamilyOf <- MCFamilyOf
  Limit = 1
  RouteLimit <- MCRouteLimit
  PerRouteMax = 2
  PrimaryRetries = 1
  SharedExtra = 1
  LastRouteRetries = 1
  StageCap = 4
  SummaryMax = 2
  OwnBackoff = 1
  SummaryMaxBackoff = 1
  MaxRetryAfter = 2
  Failures <- MCFailures
  Revocable = {live}
  Together <- Pairs
SPECIFICATION MCSpec
INVARIANTS TypeOK LockNamesPending DurableWork RemovalDurable
INVARIANTS GateCounts BudgetKept RetryAfterShared RepliesTrue
PROPERTIES EventuallyServed RefinesRecall
PROPERTIES InteractiveFirst EveryCallEnds EveryWriteAnswered
CHECK_DEADLOCK FALSE
