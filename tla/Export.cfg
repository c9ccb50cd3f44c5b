SPECIFICATION Spec
CONSTANTS
  Session = {s1, s2}
  Writer = {w1, w2, w3, w4}
  None = None
  Limit = {0, 3}
  MaxLimit = 2
  MaxClock = 2
  MaxRestarts = 1
SYMMETRY Symmetry
INVARIANTS
  TypeOK
  PagesAreTheLog
  NothingStoredIsMissed
  RepeatsOnlyAfterLateCommit
CHECK_DEADLOCK FALSE
