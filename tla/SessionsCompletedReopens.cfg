SPECIFICATION Spec
CONSTANTS
  Session = {s1}
  Request = {r1, r2, r3, r4, r5}
  None = None
  Exclusive = FALSE
  Postgres = FALSE
  TicksPerSecond = 2
  MaxClock = 0
  MaxRestarts = 0
SYMMETRY Symmetry
INVARIANT
  CompletedIsFinal
CHECK_DEADLOCK FALSE
