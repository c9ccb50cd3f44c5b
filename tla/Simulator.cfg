SPECIFICATION Spec
CONSTANTS
  A = A
  B = B
  None = None
  Symbol = {A, B}
  Row <- SomeRows
  Samples = {0, 100}
  MaxSymbols = 3
  MaxRows = 3
  MaxSpins = 52
INVARIANTS
  MixedStakesJump
  CalmIffUniform
PROPERTIES
  SignatureSettles
CHECK_DEADLOCK FALSE
