SPECIFICATION Spec
CONSTANTS
  Register <- TwoQubits
  Params = {"a"}
  Turn = 4
  Statements <- LoopOfH
  Admissible <- AnyProgram
  MaxStatements = 3
  MaxNesting = 1
INVARIANTS
  MeaningKept
