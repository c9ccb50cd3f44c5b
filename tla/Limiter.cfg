SPECIFICATION Spec
CONSTANTS
  Client = {c1, c2}
  Key = {k1}
  None = None
  MaxRequests = 2
  WindowSeconds = 2
  TicksPerSecond = 2
  MaxClock = 13
SYMMETRY Symmetry
INVARIANTS
  TypeOK
  AtMostTwoWindowsWorth
  CountIsExact
PROPERTY
  RetryAfterHonest
CHECK_DEADLOCK FALSE
