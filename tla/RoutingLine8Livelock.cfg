SPECIFICATION Spec
CONSTANTS
  NumPhys = 8
  AllToAll = FALSE
  Edges <- Line
  NumVirtual = 8
  Programs <- LivelockProgram
  InitialLayouts <- PlacedLayout
  ExtendedSetSize = 20
  SwapBound = 3
PROPERTIES
  Termination
