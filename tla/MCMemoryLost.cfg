CONSTANTS
  i1 = i1    m1 = m1  
  Memory = {m1}
  Text = {1}
  Indexer = {i1}
  Chunk = 2
  Moves <- Reactivation
  FirstGen = 1
  MaxRows = 4
  MaxGen = 1
SPECIFICATION Spec
INVARIANTS DurableWork
CHECK_DEADLOCK FALSE
