SPECIFICATION Spec
CONSTANTS
  Qubits = {0, 1}
  Turn = 4
  InputOps <- U1qOps
  MaxLength = 2
INVARIANTS
  PassesThrough
