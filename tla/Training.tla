------------------------------- MODULE Training -------------------------------
(***************************************************************************)
(* The training loop of agents/rl_model_runner (train.ts, infer.ts,        *)
(* adapt.ts): episodes played one after the other through orchestrate(),   *)
(* each followed by an adaptation of the stakes to the rewards the server  *)
(* gave.  How a play gets through to the server is the subject of          *)
(* Orchestrator and Gateway; here it is answered, or fails for good.       *)
(***************************************************************************)
EXTENDS StateEngine, Reward, Sequences

CONSTANTS
  Profiles,     \* the profiles training may start from
  Stakes,       \* the amounts randomAction may draw: 0.50 to 10.00
  Likeness,     \* the likeness scores, in tenths, a step may get
  CostPerSpin,  \* config.cost_per_spin
  Window,       \* adaptProfile: the experiences it looks at
  MaxSteps,     \* orchestrate: maxSteps
  NumEpisodes   \* config.numEpisodes

MinBet == 50
MaxBet == 10000

ASSUME TrainingAssumption ==
  /\ Profiles \subseteq [minBet : Nat, maxBet : Nat]
  /\ \A p \in Profiles : MinBet <= p.minBet /\ p.maxBet <= MaxBet
  /\ Stakes \subseteq MinBet..1000
  /\ Likeness \subseteq 0..10
  /\ CostPerSpin \in Int
  /\ Window \in Nat \ {0}
  /\ MaxSteps \in Nat
  /\ NumEpisodes \in Nat
  /\ None \notin Int

VARIABLES
  profile,      \* the stakes of the current episode
  episode,      \* episodes completed: policy.episodeCount
  session,      \* the state of the episode's session
  experiences,  \* what the server has recorded of the session
  files,        \* JSONL files written
  phase         \* what the loop is doing, or how it ended

vars == <<profile, episode, session, experiences, files, phase>>

NewEpisode(n) == IF n < NumEpisodes THEN "playing" ELSE "trained"

Init ==
  /\ profile \in Profiles
  /\ episode = 0
  /\ session = "Initialized"
  /\ experiences = <<>>
  /\ files = 0
  /\ phase = NewEpisode(0)

-----------------------------------------------------------------------------
(* infer *)

Plan(state) ==
  CASE state \in {"Idle", "Initialized"}              -> "PlaceBet"
    [] state \in {"Probing", "Playing", "Evaluating"} -> "Spin"
    [] state = "Completed"                            -> "CashOut"

\* plan gives no amount, and runStep then bets the profile's minBet.
Planned == [action : {Plan(session)},
            amount : {IF Plan(session) = "PlaceBet" THEN profile.minBet ELSE None}]

Random == [action : {"PlaceBet"}, amount : Stakes]
            \cup [action : {"Spin", "CashOut"}, amount : {None}]

\* Epsilon is 1 in the first episode, so no action is planned; it decays with
\* each episode but not below 0.05, so any may be random.
Infer == IF episode = 0 THEN Random ELSE Random \cup Planned

-----------------------------------------------------------------------------
(* One episode: orchestrate *)

\* runStep always plays once before the loop looks whether to go on.
EpisodeOver ==
  experiences # <<>> /\ (session = "Completed" \/ Len(experiences) >= MaxSteps)

Play ==
  /\ phase = "playing"
  /\ ~EpisodeOver
  /\ \E p \in Infer, likeness \in Likeness :
       /\ Transition(session, Target(p.action))
       /\ session' = Target(p.action)
       /\ experiences' = Append(experiences,
            [stake    |-> p.amount,
             likeness |-> likeness,
             reward   |-> PlayReward(p.action, p.amount, likeness, CostPerSpin)])
  /\ UNCHANGED <<profile, episode, files, phase>>

\* Mutant: after a refusal the episode is begun again.
RefusedBeginsAgain ==
  /\ phase = "playing"
  /\ ~EpisodeOver
  /\ \E p \in Infer : ~Transition(session, Target(p.action))
  /\ session' = "Initialized"
  /\ experiences' = <<>>
  /\ UNCHANGED <<profile, episode, files, phase>>

\* The server answers STATE_ERROR, which is not retried: the error leaves
\* orchestrate and the loop, and later episodes are not run.
Refused ==
  /\ phase = "playing"
  /\ ~EpisodeOver
  /\ \E p \in Infer : ~Transition(session, Target(p.action))
  /\ phase' = "refused"
  /\ UNCHANGED <<profile, episode, session, experiences, files>>

\* The retries of a call are used up.
CallFails ==
  /\ phase = "playing"
  /\ ~EpisodeOver
  /\ phase' = "failed"
  /\ UNCHANGED <<profile, episode, session, experiences, files>>

-----------------------------------------------------------------------------
(* Between episodes *)

\* Mutant: all of the episode counts.
RecentAll(exps) == exps

\* The last Window experiences.
Recent(exps) == SubSeq(exps, Len(exps) - Window + 1, Len(exps))

\* The sum of the rewards of a sequence of experiences.
TotalReward(exps) ==
  LET sum[i \in 0..Len(exps)] == IF i = 0 THEN 0 ELSE sum[i - 1] + exps[i].reward
  IN  sum[Len(exps)]

\* The factor 1 + 0.05 * mean within [0.85, 1.15], as a multiple of
\* 1 / (2000 * n): rewards are in cents.
Factor(exps) ==
  LET n   == Len(exps)
      sum == TotalReward(exps)
  IN  IF sum > 0 THEN Least(2300 * n, 2000 * n + sum)
                 ELSE Most(1700 * n, 2000 * n + sum)

\* toFixed(2) of stake * factor: the nearest cent, either of two equally near.
Scaled(stake, exps) ==
  LET exact == stake * Factor(exps)
      unit  == 2000 * Len(exps)
  IN  {cents \in {exact \div unit, exact \div unit + 1} :
         /\ 2 * (exact - cents * unit) <= unit
         /\ 2 * (cents * unit - exact) <= unit}

\* Mutant: no floor.
AdaptProfileFreely(base, exps) ==
  IF Len(exps) < Window THEN {base}
  ELSE [minBet : Scaled(base.minBet, Recent(exps)),
        maxBet : {Least(MaxBet, b) : b \in Scaled(base.maxBet, Recent(exps))}]

\* adaptProfile: a floor for minBet, a ceiling for maxBet.
AdaptProfile(base, exps) ==
  IF Len(exps) < Window THEN {base}
  ELSE [minBet : {Most(MinBet, b) : b \in Scaled(base.minBet, Recent(exps))},
        maxBet : {Least(MaxBet, b) : b \in Scaled(base.maxBet, Recent(exps))}]

\* The export fails without the episode failing, and then there is nothing to
\* learn from or to write.  A new episode has a new session.
FinishEpisode ==
  /\ phase = "playing"
  /\ EpisodeOver
  /\ \E exported \in {experiences, <<>>} :
       /\ profile' \in AdaptProfile(profile, exported)
       /\ files' = IF exported = <<>> THEN files ELSE files + 1
  /\ episode' = episode + 1
  /\ phase' = NewEpisode(episode + 1)
  /\ session' = "Initialized"
  /\ experiences' = <<>>

\* exportToJsonl throws, after profile and policy have been adapted: the error
\* leaves the loop.
WriteFails ==
  /\ phase = "playing"
  /\ EpisodeOver
  /\ profile' \in AdaptProfile(profile, experiences)
  /\ episode' = episode + 1
  /\ phase' = "failed"
  /\ UNCHANGED <<session, experiences, files>>

Next == Play \/ Refused \/ CallFails \/ FinishEpisode \/ WriteFails

\* Calls are answered or fail, and the loop goes on.
Fairness == WF_vars(Next)

Spec == Init /\ [][Next]_vars /\ Fairness

-----------------------------------------------------------------------------
(* Properties *)

ExperienceSet == [stake : Stakes \cup {None} \cup Nat, likeness : Likeness, reward : Int]

\* minBet keeps its floor and maxBet its ceiling; minBet has no ceiling and maxBet
\* no floor, though the comment of adaptProfile promises both for both.
TypeOK ==
  /\ profile.minBet \in Nat /\ profile.minBet >= MinBet
  /\ profile.maxBet \in Nat /\ profile.maxBet <= MaxBet
  /\ profile = [minBet |-> profile.minBet, maxBet |-> profile.maxBet]
  /\ episode \in 0..NumEpisodes
  /\ session \in GameState
  /\ experiences \in Seq(ExperienceSet)
  /\ Len(experiences) <= Most(1, MaxSteps)
  /\ files \in 0..episode
  /\ phase \in {"playing", "trained", "refused", "failed"}

(* Stakes shrink only because of what was staked in the last Window steps of an
   episode, or of a likeness near zero there: the stakes that were lost before
   are forgotten, however high, once the agent has spun for a window. *)
OnlyRecentBetsShrinkStakes ==
  [][profile'.minBet < profile.minBet \/ profile'.maxBet < profile.maxBet =>
       \E i \in DOMAIN experiences :
         /\ i > Len(experiences) - Window
         /\ \/ experiences[i].stake # None
            \/ LikenessWeight * experiences[i].likeness < CostPerSpin]_vars

\* No more than the likeness bonus, to the cent.
Modest(old, new) == 2000 * new <= (2000 + 10 * LikenessWeight) * old + 1000

(* No episode raises the stakes by more than the likeness bonus of its steps is
   worth, a factor of 1.015: nothing is ever paid out, and the completion bonus
   that reward.rs and the guide describe is never granted, so the growth of 15%
   the adaptation allows is out of reach. *)
ModestGrowth ==
  [][/\ Modest(profile.minBet, profile'.minBet)
     /\ Modest(profile.maxBet, profile'.maxBet)]_vars

(* The loop ends, with all episodes run or with the first error. *)
TrainingEnds == <>(phase # "playing")
=============================================================================
