CONSTANTS
  settings = settings  auth = auth
  Instance = {p1}
  File = {settings, auth}
  Batches <- Whole
  NoInstance = NoInstance  Dead = Dead
  MayStall = FALSE
  MaxCommit = 1
  MaxDeath = 1
  MaxFault = 0
SPECIFICATION ConfigSpec
INVARIANT AllOrNothing
CHECK_DEADLOCK FALSE
