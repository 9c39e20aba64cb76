CONSTANTS
  Inputs <- MCInputs
  Sizes <- MCSizes
SPECIFICATION Spec
INVARIANTS
  TypeOK
  GivenInOrder
PROPERTY
  RefinesSlice
