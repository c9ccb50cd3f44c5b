SPECIFICATION Spec
CONSTANTS
  Wallet = {w1, w2}
  None = None
  Amount <- EitherSign
  MaxOperations = 5
  MaxDay = 1
SYMMETRY Symmetry
INVARIANTS
  BooksBalance
  SpendingWithinLimit
  NoDebitOverdraws
CHECK_DEADLOCK FALSE
