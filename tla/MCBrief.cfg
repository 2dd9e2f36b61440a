CONSTANTS
  open = open  again = again  w1 = w1  w2 = w2
  Opener = {open, again}
  Reload = {again}
  Slot = {w1, w2}
  BriefStage = {"body", "claims", "inferences", "links"}
  Failing = {"inferences"}
  MaxRun = 2
  MaxCut = 1
SPECIFICATION BriefSpec
INVARIANT RootsReadCaptured
CHECK_DEADLOCK FALSE
