SPECIFICATION Spec
CONSTANTS
  Register <- ThreeQubits
  Params = {"a"}
  Turn = 16
  Field = 12289
  Zeta = 5860
  Literals <- MCLiterals
  Identifiers = {"i"}
  NoValue = NoValue
  MaxStatements = 6
  MaxNesting = 3
  Following <- Families
  FollowingL <- Texts
  MaxLines = 6
INVARIANTS
  TypeOK
  ModuleSaysProgram
  LibraryKeepsPromises
  ScopedFunctions
  AcceptedMeasuresLast
  ParsedSaysText
  ArtifactSaysProgram
