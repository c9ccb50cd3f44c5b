SPECIFICATION Spec
CONSTANTS
  Session = {s1, s2}
  Request = {r1, r2, r3, r4}
  None = None
  Exclusive = FALSE
  Postgres = FALSE
  TicksPerSecond = 2
  MaxClock = 2
  MaxRestarts = 1
SYMMETRY Symmetry
INVARIANTS
  TypeOK
  NoShortcutToCompleted
  StateIsExplained
  LogsAgree
  CountersCoverSessions
  ListingSkewBelowASecond
CHECK_DEADLOCK FALSE
