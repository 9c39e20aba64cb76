CONSTANTS
  Values <- MCValues
  Tails <- MCTails
  Wires <- MCWires
SPECIFICATION Spec
INVARIANTS
  TypeOK
  RoundTrip
  Canonical
  LengthExact
CHECK_DEADLOCK FALSE
