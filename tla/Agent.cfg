SPECIFICATION FairSpec
CONSTANTS
  None = None
  MaxRetries = 2
  Threshold = 2
  MaxSteps = 4
  MaxFaults = 4
  MaxRestarts = 1
INVARIANTS
  TypeOK
  GivesUpOnlyAfterRetries
  EffectsAccounted
PROPERTY
  Ends
CHECK_DEADLOCK FALSE
