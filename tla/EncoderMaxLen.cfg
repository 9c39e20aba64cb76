CONSTANTS
  MaxLen = 4
  MaxBits = 20
  Key <- MCKey
  Cases <- EncodedAsCases

SPECIFICATION Spec

INVARIANT
  MaxLenIsBound

CHECK_DEADLOCK FALSE
