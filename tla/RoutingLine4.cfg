SPECIFICATION Spec
CONSTANTS
  NumPhys = 6
  AllToAll = FALSE
  Edges <- LineAndTwo
  NumVirtual = 3
  Programs <- MixedPrograms
  InitialLayouts <- AnyLayout
  ExtendedSetSize = 1
  SwapBound = 3
INVARIANTS
  TypeOK
  LayoutInverse
  WireFollowsProgram
  FrontReady
  FinalPassIdle
  Complete
  NoNeedlessSwap
PROPERTIES
  TwoQOnCoupledPair
  ExecutesProgram
  Termination
