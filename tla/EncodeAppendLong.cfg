CONSTANTS
  Item = {a, b}
  U32Max = 5
  UsizeMax = 18
  Mode1 = 2
  Mode2 = 4
  Mode3 = 5
  MaxBatch = 6
  Batches <- MCBatches
  Lists <- MCLists
SPECIFICATION Spec
INVARIANT CountExact
CHECK_DEADLOCK FALSE
