SPECIFICATION Spec
CONSTANTS
  Qubits = {0, 1}
  Turn = 8
  Field = 12289
  Zeta = 4134
  Chips <- RootChips
  Routed <- RoutedModules
INVARIANTS
  RecipesExact
  CompiledEquivalent
  EffectKept
  ChipAccepts
  StopsAtFixedPoint
