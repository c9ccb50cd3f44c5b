SPECIFICATION Spec
CONSTANTS
  Session = {s1, s2}
  Request = {r1, r2, r3, r4, r5}
  None = None
  Exclusive = TRUE
  Postgres = FALSE
  TicksPerSecond = 2
  MaxClock = 2
  MaxRestarts = 1
SYMMETRY Symmetry
INVARIANTS
  CompletedIsFinal
  ExperiencesFormTrajectory
  ListingReplaysGame
PROPERTY
  ImplementsLifecycle
CHECK_DEADLOCK FALSE
