SPECIFICATION Spec
CONSTANTS
  None = None
  Profiles <- AllProfiles
  Stakes = {50, 1000}
  Likeness = {0, 10}
  CostPerSpin = 1
  Window = 2
  MaxSteps = 3
  NumEpisodes = 3
INVARIANTS
  TypeOK
PROPERTIES
  OnlyRecentBetsShrinkStakes
  ModestGrowth
  TrainingEnds
CHECK_DEADLOCK FALSE
