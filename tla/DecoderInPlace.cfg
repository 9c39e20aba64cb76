CONSTANTS
  UsizeMax = 600
  U64Max = 3
  MaxPrealloc = 2
  MaxCalls = 1
  Types <- MCTypes
  Roots <- MCRoots
  Inputs <- MCInputs
  Wrappings <- MCWrappings
  Sources = {"slice", "io"}
SPECIFICATION Spec
INVARIANT NoLeak
CHECK_DEADLOCK FALSE
