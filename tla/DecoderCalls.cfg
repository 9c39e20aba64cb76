CONSTANTS
  UsizeMax = 600
  U64Max = 3
  MaxPrealloc = 2
  MaxCalls = 2
  Types <- MCTypes
  Roots <- MCRoots
  Inputs <- MCInputs
  Wrappings <- MCWrappings
  Sources = {"slice", "io"}
SPECIFICATION FairSpec
INVARIANTS
  NestingBounded
  MemAccounted
  NoLeak
  CountedExact
PROPERTY Termination
CHECK_DEADLOCK FALSE
