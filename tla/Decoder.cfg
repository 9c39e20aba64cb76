CONSTANTS
  UsizeMax = 600
  U64Max = 3
  MaxPrealloc = 2
  MaxCalls = 1
  Types <- MCTypes
  Roots <- MCRoots
  Inputs <- MCInputs
  Wrappings <- MCWrappings
  Sources = {"slice", "io"}
SPECIFICATION Spec
INVARIANTS
  TypeOK
  DepthExact
  MemAccounted
  PreallocBounded
  NoLeak
  RoundTrip
  CountedExact
  DecodesExactly
CHECK_DEADLOCK FALSE
