SPECIFICATION FairSpec
CONSTANTS
  Session = {s1}
  Request = {r1, r2, r3, r4}
  None = None
  Exclusive = TRUE
  Postgres = TRUE
  TicksPerSecond = 2
  MaxClock = 0
  MaxRestarts = 1
INVARIANT
  ExperiencesAreLegalMoves
PROPERTY
  RequestsFinish
CHECK_DEADLOCK FALSE
