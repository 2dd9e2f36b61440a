CONSTANTS
  settings = settings  auth = auth
  Instance = {p1, p2}
  File = {settings, auth}
  Batches <- One
  NoInstance = NoInstance  Dead = Dead
  MayStall = FALSE
  MaxCommit = 3
  MaxDeath = 0
  MaxFault = 0
SPECIFICATION ConfigSpec
INVARIANT OneHolder
CHECK_DEADLOCK FALSE
