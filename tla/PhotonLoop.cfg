SPECIFICATION Spec
CONSTANTS
  Register <- ThreeQubits
  Params = {"a"}
  Turn = 16
  Field = 12289
  Zeta = 5860
  Literals <- MCLiterals
  Identifiers = {"i"}
  NoValue = NoValue
  MaxStatements = 6
  MaxNesting = 3
  Following <- Loop
  FollowingL <- NoTexts
  MaxLines = 6
INVARIANTS
  ModuleSaysProgram
