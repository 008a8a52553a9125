SPECIFICATION Spec
CONSTANTS
  NumPhys = 3
  AllToAll = FALSE
  Edges <- LatePair
  NumVirtual = 4
  Programs <- ShortPrograms
INVARIANTS
  TypeOK
  Injective
  FillsChip
  HeaviestCoupled
PROPERTIES
  PlacedStays
  ReturnsPlacement
