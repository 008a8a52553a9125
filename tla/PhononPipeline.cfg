SPECIFICATION Spec
CONSTANTS
  Register <- TwoQubits
  Params = {"a"}
  Turn = 4
  Statements <- GatesAndBlocks
  Admissible <- StraightOrBlocks
  MaxStatements = 4
  MaxNesting = 2
INVARIANTS
  TypeOK
  ModuleSaysSource
  AcceptsLinear
  MeaningKept
  OptimizedLinear
  LoweredKept
