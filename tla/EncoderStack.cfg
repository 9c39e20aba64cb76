CONSTANTS
  MaxLen = 4
  MaxBits = 20
  MaxStack = 20
  Key <- MCKey
  Cases <- OnlySkipped

SPECIFICATION StackSpec

INVARIANT
  SkippedNotEncoded

CHECK_DEADLOCK FALSE
