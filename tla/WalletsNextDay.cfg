SPECIFICATION Spec
CONSTANTS
  Wallet = {w1, w2}
  None = None
  Amount = {1, 2}
  MaxOperations = 4
  MaxDay = 1
SYMMETRY Symmetry
INVARIANT
  RefusedOnlyWhenExhausted
CHECK_DEADLOCK FALSE
