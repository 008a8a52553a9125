SPECIFICATION Spec
CONSTANTS
  Qubits = {0, 1}
  Turn = 4
  InputOps <- TwoQubitOps
  MaxLength = 5
INVARIANTS
  Faithful
  SizeTellsChange
