CONSTANTS
  body = body  claims = claims  inferences = inferences
  c1 = c1  c2 = c2  i1 = i1  i2 = i2  m1 = m1
  open = open  again = again  w1 = w1  w2 = w2
  Stage = {body, claims, inferences}
  Deps <- MCDeps
  Client = {c1, c2}
  NoClaim = NoClaim
  MaxAttempts = 2
  MaxRecoveries = 2
  Opener = {open, again}
  Reload = {again}
  Slot = {w1, w2}
  BriefStage = {"claims", "inferences", "links"}
  Failing = {"inferences"}
  MaxRun = 2
  MaxCut = 1
SPECIFICATION MCSpec
INVARIANTS NoClaimSkew JobRowTrue DisplayedUnlessCut DisplayedCommitted WideLocks
PROPERTIES GuardedAreSerial PublicationForward OldRunsQuiet
SYMMETRY Symmetry
CHECK_DEADLOCK FALSE
