-------------------------------- MODULE Reward --------------------------------
(***************************************************************************)
(* The reward of controller/src/rl_feedback_loop/reward.rs and what the    *)
(* play handler of cli/src/server.rs feeds it.  Money is counted in cents  *)
(* and a human-likeness score in tenths, so that one tenth of a score is   *)
(* worth LikenessWeight cents.                                             *)
(***************************************************************************)
EXTENDS Integers

CONSTANT None   \* no value

\* LIKENESS_WEIGHT = 0.3, by which the code multiplies whatever
\* HUMAN_LIKENESS_WEIGHT is configured to be.
LikenessWeight == 3

Least(x, y) == IF x <= y THEN x ELSE y
Most(x, y)  == IF x <= y THEN y ELSE x

\* A score clamped to [0, 1].
Score(likeness) == Least(Most(likeness, 0), 10)

\* Mutant: the likeness counts in full, as in compute_reward.
ComponentsUnweighted(payout, stake, cost, likeness, done) ==
  [payout_reward    |-> payout - stake,
   cost_penalty     |-> -Most(cost, 0),
   likeness_bonus   |-> 10 * Score(likeness),
   completion_bonus |-> IF done /\ payout > 0 THEN 100 ELSE 0]

\* compute_reward_components
Components(payout, stake, cost, likeness, done) ==
  [payout_reward    |-> payout - stake,
   cost_penalty     |-> -Most(cost, 0),
   likeness_bonus   |-> LikenessWeight * Score(likeness),
   completion_bonus |-> IF done /\ payout > 0 THEN 100 ELSE 0]

SumReward(c) ==
  c.payout_reward + c.cost_penalty + c.likeness_bonus + c.completion_bonus

\* compute_reward_safe: whatever the move, it is not the end of the episode.
RewardSafe(payout, stake, cost, likeness) ==
  SumReward(Components(payout, stake, cost, likeness, FALSE))

\* compute_reward: refuses a cost or a likeness that is out of range, and counts
\* the likeness in full.  Only tests call it.
ComputeReward(payout, stake, cost, likeness) ==
  IF cost < 0 \/ likeness \notin 0..10 THEN None
  ELSE (payout - stake) - cost + 10 * likeness

\* simulate_result: a spin pays nothing, other actions have no payout.
Payout(action) == IF action = "Spin" THEN 0 ELSE None

\* The reward of a play, with 0 for a payout or stake that is not there and
\* 0.5 for a likeness that is not given.
PlayReward(action, amount, likeness, cost) ==
  RewardSafe(IF Payout(action) = None THEN 0 ELSE Payout(action),
             IF amount = None THEN 0 ELSE amount,
             cost,
             Score(IF likeness = None THEN 5 ELSE likeness))
=============================================================================
