CONSTANTS
  Item = {a, b}
  U32Max = 8
  UsizeMax = 18
  Mode1 = 2
  Mode2 = 4
  Mode3 = 7
  MaxBatch = 4
  Batches <- MCBatches
  Lists <- MCLists
SPECIFICATION Spec
INVARIANTS
  TypeOK
  CountExact
PROPERTY RefinesAppendList
CHECK_DEADLOCK FALSE
