------------------------------ MODULE MCTraining ------------------------------
(***************************************************************************)
(* Instances of Training for TLC: the profiles of                          *)
(* agents/strategic_planner/profiles, in cents.                            *)
(***************************************************************************)
EXTENDS Training

Conservative == [minBet |-> 50, maxBet |-> 200]
Aggressive   == [minBet |-> 500, maxBet |-> 5000]

MixedAdaptive == [minBet |-> 100, maxBet |-> 2000]

AllProfiles == {Conservative, Aggressive, MixedAdaptive}
=============================================================================
