---------------------------- MODULE TrainingProofs ----------------------------
(***************************************************************************)
(* Theorems about Reward and Training, for any stakes, likeness scores,    *)
(* costs, windows and numbers of steps and episodes.                       *)
(***************************************************************************)
EXTENDS Training, SequenceTheorems, WellFoundedInduction, TLAPS

LEMMA ScoreBounds ==
  ASSUME NEW likeness \in Int
  PROVE  Score(likeness) \in 0..10 /\ Score(Score(likeness)) = Score(likeness)
BY DEF Score, Least, Most

\* The stake of a play, with nothing for one that is not given.
Staked(amount) == IF amount = None THEN 0 ELSE amount

\* What the server pays a play is nothing, so that its reward is what its
\* likeness is worth less the stake and the cost.
LEMMA PlayRewardValue ==
  ASSUME NEW action, NEW amount \in Int \cup {None},
         NEW likeness \in Int \cup {None}, NEW cost \in Int, None \notin Int
  PROVE  \E bonus \in 0..10 :
           PlayReward(action, amount, likeness, cost) =
             0 - Staked(amount) + (-Most(cost, 0)) + LikenessWeight * bonus
<1> DEFINE given == IF likeness = None THEN 5 ELSE likeness
           bonus == Score(Score(given))
<1>1. given \in Int
  OBVIOUS
<1>2. bonus \in 0..10
  BY <1>1, ScoreBounds
<1>3. Staked(amount) \in Int /\ Most(cost, 0) \in Int
  BY DEF Staked, Most
<1>4. (IF Payout(action) = None THEN 0 ELSE Payout(action)) = 0
  BY DEF Payout
<1>5. PlayReward(action, amount, likeness, cost)
        = RewardSafe(0, Staked(amount), cost, Score(given))
  BY <1>4 DEF PlayReward, Staked
<1>6. RewardSafe(0, Staked(amount), cost, Score(given))
        = 0 - Staked(amount) + (-Most(cost, 0)) + LikenessWeight * bonus + 0
  BY DEF RewardSafe, SumReward, Components
<1> HIDE DEF bonus, given
<1>7. LikenessWeight * bonus \in Int
  BY <1>2 DEF LikenessWeight
<1>8. 0 - Staked(amount) + (-Most(cost, 0)) + LikenessWeight * bonus + 0
        = 0 - Staked(amount) + (-Most(cost, 0)) + LikenessWeight * bonus
  BY <1>3, <1>7
<1>9. QED
  BY <1>2, <1>5, <1>6, <1>8

(* The reward of a play is at most what a perfect likeness is worth, less the
   stake: the play handler of cli/src/server.rs pays a spin nothing, so that
   every stake costs reward whatever the outcome of the game was. *)
THEOREM StakesOnlyCost ==
  ASSUME NEW action, NEW amount \in Int \cup {None},
         NEW likeness \in Int \cup {None}, NEW cost \in Int, None \notin Int
  PROVE  PlayReward(action, amount, likeness, cost)
           <= 10 * LikenessWeight - Staked(amount)
<1>1. PICK bonus \in 0..10 :
        PlayReward(action, amount, likeness, cost) =
          0 - Staked(amount) + (-Most(cost, 0)) + LikenessWeight * bonus
  BY PlayRewardValue
<1>2. Staked(amount) \in Int /\ Most(cost, 0) \in Nat
  BY DEF Staked, Most
<1>3. LikenessWeight * bonus <= 10 * LikenessWeight /\ LikenessWeight * bonus \in Int
  BY DEF LikenessWeight
<1>4. QED
  BY <1>1, <1>2, <1>3 DEF LikenessWeight

(* The two rewards of reward.rs part on every input both accept by seven tenths
   of the likeness: compute_reward does not weigh it, though the formula at the
   head of the file does, so neither can stand in for the other. *)
THEOREM RewardsPartByLikeness ==
  ASSUME NEW payout \in Int, NEW stake \in Int, NEW cost \in Nat,
         NEW likeness \in 0..10
  PROVE  ComputeReward(payout, stake, cost, likeness)
           = RewardSafe(payout, stake, cost, likeness)
               + (10 - LikenessWeight) * likeness
<1>1. Score(likeness) = likeness /\ Most(cost, 0) = cost
  BY DEF Score, Least, Most
<1>2. RewardSafe(payout, stake, cost, likeness)
        = (payout - stake) + (-cost) + 3 * likeness + 0
  BY <1>1 DEF RewardSafe, SumReward, Components, LikenessWeight
<1>3. ComputeReward(payout, stake, cost, likeness)
        = (payout - stake) - cost + 10 * likeness
  BY DEF ComputeReward
<1>4. QED
  BY <1>2, <1>3 DEF LikenessWeight

-----------------------------------------------------------------------------
(* Totals of rewards *)

LEMMA LeastOf ==
  ASSUME NEW T \in SUBSET Nat, T # {}
  PROVE  \E m \in T : \A k \in T : m <= k
<1> DEFINE R == OpToRel(<, Nat)
<1>1. IsWellFoundedOn(R, Nat)
  BY NatLessThanWellFounded, Zenon
<1>2. \A k, m \in T : k < m => <<k, m>> \in R
  BY DEF OpToRel
<1> HIDE DEF R
<1>3. PICK m \in T : \A k \in T : ~ (<<k, m>> \in R)
  BY <1>1, WFMin
<1>4. \A k \in T : ~ (k < m) /\ k \in Nat /\ m \in Nat
  BY <1>2, <1>3
<1>5. QED
  BY <1>4

\* f gives the sum of the first i rewards, for i up to n.
IsSum(exps, n, f) ==
  f = [i \in 0..n |-> IF i = 0 THEN 0 ELSE f[i - 1] + exps[i].reward]

\* The equation of TotalReward has a solution: were there a least length for which
\* it has none, the solution for one reward less could be continued.
LEMMA SumExists ==
  ASSUME NEW exps, NEW n \in Nat
  PROVE  \E f : IsSum(exps, n, f)
<1> DEFINE T == {k \in Nat : ~ \E f : IsSum(exps, k, f)}
<1>1. SUFFICES ASSUME T # {} PROVE FALSE
  OBVIOUS
<1>2. PICK m \in T : \A k \in T : m <= k
  BY <1>1, LeastOf
<1>3. m \in Nat /\ ~ \E f : IsSum(exps, m, f)
  OBVIOUS
<1>4. m # 0
  <2>1. ASSUME m = 0 PROVE IsSum(exps, m, [i \in 0..0 |-> 0])
    BY <2>1 DEF IsSum
  <2>2. QED
    BY <1>3, <2>1
<1>5. m - 1 \in Nat /\ ~(m <= m - 1)
  BY <1>3, <1>4
<1>6. m - 1 \notin T
  BY <1>2, <1>5
<1>7. PICK f : IsSum(exps, m - 1, f)
  BY <1>5, <1>6
<1> DEFINE g == [i \in 0..m |-> IF i = m THEN f[m - 1] + exps[m].reward ELSE f[i]]
<1>8. ASSUME NEW i \in 0..m
      PROVE  g[i] = IF i = 0 THEN 0 ELSE g[i - 1] + exps[i].reward
  <2>1. CASE i = m
    BY <1>3, <1>4, <1>5, <2>1
  <2>2. CASE i # m
    <3>1. i \in 0..(m - 1) /\ i \in 0..m /\ (i # 0 => i - 1 \in 0..m /\ i - 1 # m)
      BY <1>3, <2>2
    <3>2. f[i] = IF i = 0 THEN 0 ELSE f[i - 1] + exps[i].reward
      BY <1>7, <3>1 DEF IsSum
    <3>3. QED
      BY <2>2, <3>1, <3>2
  <2>3. QED
    BY <2>1, <2>2
<1>9. IsSum(exps, m, g)
  <2>1. g = [i \in 0..m |-> g[i]]
    OBVIOUS
  <2>2. [i \in 0..m |-> g[i]]
          = [i \in 0..m |-> IF i = 0 THEN 0 ELSE g[i - 1] + exps[i].reward]
    BY <1>8
  <2> HIDE DEF g
  <2>3. QED
    BY <2>1, <2>2 DEF IsSum
<1>10. QED
  BY <1>3, <1>9

LEMMA TotalIsSum ==
  ASSUME NEW exps, Len(exps) \in Nat
  PROVE  \E f : IsSum(exps, Len(exps), f) /\ TotalReward(exps) = f[Len(exps)]
<1> DEFINE n == Len(exps)
           f == CHOOSE h : IsSum(exps, n, h)
<1>1. IsSum(exps, n, f)
  BY SumExists
<1>2. TotalReward(exps) = f[n]
  BY DEF TotalReward, IsSum
<1>3. QED
  BY <1>1, <1>2

\* Bounds of each reward bound the total.
LEMMA TotalBounds ==
  ASSUME NEW exps, Len(exps) \in Nat,
         \A i \in 1..Len(exps) : exps[i].reward \in Int
  PROVE  /\ TotalReward(exps) \in Int
         /\ (\A i \in 1..Len(exps) : exps[i].reward <= 10 * LikenessWeight)
              => TotalReward(exps) <= 10 * LikenessWeight * Len(exps)
         /\ (\A i \in 1..Len(exps) : exps[i].reward >= 0) => TotalReward(exps) >= 0
<1> DEFINE n == Len(exps)
           AllModest == \A i \in 1..n : exps[i].reward <= 30
           NoneLost  == \A i \in 1..n : exps[i].reward >= 0
<1>1. PICK f : IsSum(exps, n, f) /\ TotalReward(exps) = f[n]
  BY TotalIsSum
<1>2. \A i \in 1..n : exps[i].reward \in Int
  OBVIOUS
<1> HIDE DEF n
<1>3. n \in Nat
  BY DEF n
<1> DEFINE Bounded(k) == /\ f[k] \in Int
                         /\ AllModest => f[k] <= 30 * k
                         /\ NoneLost => f[k] >= 0
           T == {k \in Nat : k <= n /\ ~Bounded(k)}
<1>4. T = {}
  <2> SUFFICES ASSUME T # {} PROVE FALSE
    OBVIOUS
  <2>1. T \in SUBSET Nat
    OBVIOUS
  <2>2. PICK m \in T : \A k \in T : m <= k
    BY <2>1, LeastOf
  <2>3. m \in Nat /\ m <= n /\ m \in 0..n /\ ~Bounded(m)
    BY <1>3
  <2>4. f[m] = IF m = 0 THEN 0 ELSE f[m - 1] + exps[m].reward
    BY <1>1, <2>3 DEF IsSum
  <2>5. m # 0
    BY <2>3, <2>4
  <2>6. m - 1 \in Nat /\ m - 1 <= n /\ ~(m <= m - 1) /\ m \in 1..n
    BY <1>3, <2>3, <2>5
  <2>7. Bounded(m - 1)
    BY <2>2, <2>6
  <2>8. f[m] = f[m - 1] + exps[m].reward /\ f[m - 1] \in Int /\ exps[m].reward \in Int
    BY <1>2, <2>4, <2>5, <2>6, <2>7
  <2>9. AllModest => f[m] <= 30 * m
    <3>1. AllModest => f[m - 1] <= 30 * (m - 1) /\ exps[m].reward <= 30
      BY <2>6, <2>7
    <3>2. QED
      BY <2>3, <2>8, <3>1
  <2>10. NoneLost => f[m] >= 0
    <3>1. NoneLost => f[m - 1] >= 0 /\ exps[m].reward >= 0
      BY <2>6, <2>7
    <3>2. QED
      BY <2>8, <3>1
  <2>11. Bounded(m)
    BY <2>8, <2>9, <2>10
  <2> HIDE DEF Bounded
  <2>12. QED
    BY <2>3, <2>11
<1>5. Bounded(n)
  BY <1>3, <1>4
<1>6. 10 * LikenessWeight = 30
  BY DEF LikenessWeight
<1>7. QED
  BY <1>1, <1>5, <1>6 DEF n

-----------------------------------------------------------------------------
(* The adaptation of one stake *)

\* What bounds of the total are for the factor, a multiple of 1 / (2000 * n).
LEMMA FactorBounds ==
  ASSUME NEW exps, Len(exps) \in Nat, TotalReward(exps) \in Int
  PROVE  /\ Factor(exps) \in Nat
         /\ TotalReward(exps) <= 30 * Len(exps) => Factor(exps) <= 2030 * Len(exps)
         /\ TotalReward(exps) >= 0 => Factor(exps) >= 2000 * Len(exps)
BY DEF Factor, Least, Most

LEMMA Quotient ==
  ASSUME NEW a \in Nat, NEW d \in Nat \ {0}
  PROVE  a \div d \in Nat
OBVIOUS

LEMMA Cancel ==
  ASSUME NEW n \in Nat \ {0}, NEW x \in Int, NEW y \in Int, n * x <= n * y
  PROVE  x <= y
<1>1. SUFFICES ASSUME x > y PROVE FALSE
  OBVIOUS
<1>2. x - y >= 1 /\ x - y \in Int
  BY <1>1
<1>3. n * (x - y) >= 1
  BY <1>2
<1>4. n * (x - y) = n * x - n * y
  OBVIOUS
<1>5. n * x \in Int /\ n * y \in Int
  OBVIOUS
<1>6. QED
  BY <1>3, <1>4, <1>5

LEMMA TimesMonotone ==
  ASSUME NEW c \in Nat, NEW x \in Int, NEW y \in Int, x <= y
  PROVE  c * x <= c * y
<1>1. c * (y - x) >= 0
  OBVIOUS
<1>2. c * (y - x) = c * y - c * x
  OBVIOUS
<1>3. QED
  BY <1>1, <1>2

\* A stake is scaled to the nearest cent: at most the likeness bonus up, and not
\* down when nothing was lost.
LEMMA ScaledBounds ==
  ASSUME NEW exps, Len(exps) \in Nat \ {0}, TotalReward(exps) \in Int,
         NEW stake \in Nat, NEW cents \in Scaled(stake, exps)
  PROVE  /\ cents \in Nat
         /\ TotalReward(exps) <= 30 * Len(exps) => 2000 * cents <= 2030 * stake + 1000
         /\ TotalReward(exps) >= 0 => stake <= cents
<1> DEFINE n == Len(exps)
           factor == Factor(exps)
           exact == stake * factor
           unit == 2000 * n
<1>1. n \in Nat /\ n # 0 /\ n \in Nat \ {0}
  OBVIOUS
<1>2. /\ factor \in Nat
      /\ TotalReward(exps) <= 30 * n => factor <= 2030 * n
      /\ TotalReward(exps) >= 0 => factor >= 2000 * n
  BY FactorBounds
<1>3. /\ cents = exact \div unit \/ cents = exact \div unit + 1
      /\ 2 * (exact - cents * unit) <= unit
      /\ 2 * (cents * unit - exact) <= unit
  BY DEF Scaled
<1> HIDE DEF n, factor
<1>4. exact \in Nat /\ unit \in Nat \ {0}
  BY <1>1, <1>2
<1>5. exact \div unit \in Nat
  <2> HIDE DEF exact, unit
  <2>1. QED
    BY <1>4, Quotient
<1>6. cents \in Nat
  <2> HIDE DEF exact, unit
  <2>1. QED
    BY <1>3, <1>5
<1>7. ASSUME TotalReward(exps) <= 30 * n
      PROVE  2000 * cents <= 2030 * stake + 1000
  <2>1. stake * factor <= stake * (2030 * n)
    BY <1>1, <1>2, <1>7, TimesMonotone
  <2>2. stake * (2030 * n) = n * (2030 * stake)
    BY <1>1
  <2>3. cents * unit = n * (2000 * cents)
    BY <1>1, <1>6
  <2>4. n * (2000 * cents) \in Int /\ n * (2030 * stake) \in Int /\ exact \in Int
    BY <1>1, <1>4, <1>6
  <2>5. n * (2000 * cents) <= n * (2030 * stake) + 1000 * n
    <3> DEFINE a == n * (2000 * cents)
               b == n * (2030 * stake)
    <3>1. 2 * (a - exact) <= 2000 * n /\ exact <= b
      BY <1>3, <2>1, <2>2, <2>3
    <3>2. a \in Int /\ b \in Int /\ exact \in Int
      BY <2>4
    <3> HIDE DEF a, b, exact
    <3>3. a <= b + 1000 * n
      BY <1>1, <3>1, <3>2
    <3>4. QED
      BY <3>3 DEF a, b
  <2>6. n * (2030 * stake) + 1000 * n = n * (2030 * stake + 1000)
    BY <1>1
  <2>7. QED
    BY <1>1, <1>6, <2>5, <2>6, Cancel
<1>8. ASSUME TotalReward(exps) >= 0
      PROVE  stake <= cents
  <2>1. stake * (2000 * n) <= stake * factor
    BY <1>1, <1>2, <1>8, TimesMonotone
  <2>2. stake * (2000 * n) = n * (2000 * stake) /\ cents * unit = n * (2000 * cents)
    BY <1>1, <1>6
  <2>3. n * (2000 * cents) \in Int /\ n * (2000 * stake) \in Int /\ exact \in Int
    BY <1>1, <1>4, <1>6
  <2>4. n * (2000 * stake) <= n * (2000 * cents) + 1000 * n
    <3> DEFINE a == n * (2000 * cents)
               b == n * (2000 * stake)
    <3>1. 2 * (exact - a) <= 2000 * n /\ b <= exact
      BY <1>3, <2>1, <2>2
    <3>2. a \in Int /\ b \in Int /\ exact \in Int
      BY <2>3
    <3> HIDE DEF a, b, exact
    <3>3. b <= a + 1000 * n
      BY <1>1, <3>1, <3>2
    <3>4. QED
      BY <3>3 DEF a, b
  <2>5. n * (2000 * cents) + 1000 * n = n * (2000 * cents + 1000)
    BY <1>1, <1>6
  <2>6. 2000 * stake <= 2000 * cents + 1000
    BY <1>1, <1>6, <2>4, <2>5, Cancel
  <2>7. QED
    BY <1>6, <2>6
<1>9. QED
  BY <1>6, <1>7, <1>8 DEF n

-----------------------------------------------------------------------------
(* What is recorded of a play *)

\* A reward is at most the full likeness bonus, and nothing is lost without a
\* stake by a step whose likeness is worth the cost.
Rewarded(e) ==
  /\ e.reward <= 10 * LikenessWeight
  /\ e.stake = None /\ LikenessWeight * e.likeness >= CostPerSpin => e.reward >= 0

TrainingInv ==
  /\ TypeOK
  /\ phase = "playing" => episode < NumEpisodes
  /\ \A i \in DOMAIN experiences : Rewarded(experiences[i])

LEMMA PlayIsRewarded ==
  ASSUME NEW action, NEW amount \in Nat \cup {None}, NEW likeness \in Likeness
  PROVE  LET e == [stake |-> amount, likeness |-> likeness,
                   reward |-> PlayReward(action, amount, likeness, CostPerSpin)]
         IN  e.reward \in Int /\ Rewarded(e)
<1> DEFINE reward == PlayReward(action, amount, likeness, CostPerSpin)
           bonus == Score(Score(likeness))
<1>1. likeness \in 0..10 /\ likeness # None /\ CostPerSpin \in Int /\ None \notin Int
  BY TrainingAssumption
<1>2. Score(likeness) = likeness
  BY <1>1 DEF Score, Least, Most
<1>3. (IF Payout(action) = None THEN 0 ELSE Payout(action)) = 0
  BY DEF Payout
<1>4. reward = RewardSafe(0, Staked(amount), CostPerSpin, likeness)
  BY <1>1, <1>2, <1>3 DEF PlayReward, Staked
<1>5. reward = (0 - Staked(amount)) + (-Most(CostPerSpin, 0))
                 + LikenessWeight * likeness + 0
  BY <1>2, <1>4 DEF RewardSafe, SumReward, Components
<1>6. Staked(amount) \in Nat /\ (amount = None => Staked(amount) = 0)
  BY DEF Staked
<1>7. Most(CostPerSpin, 0) \in Nat /\ Most(CostPerSpin, 0) \in {CostPerSpin, 0}
  BY <1>1 DEF Most
<1> HIDE DEF reward
<1>8. reward \in Int /\ reward <= 30
  BY <1>1, <1>5, <1>6, <1>7 DEF LikenessWeight
<1>9. ASSUME amount = None, LikenessWeight * likeness >= CostPerSpin
      PROVE  reward >= 0
  BY <1>1, <1>5, <1>6, <1>7, <1>9 DEF LikenessWeight
<1>10. 10 * LikenessWeight = 30
  BY DEF LikenessWeight
<1>11. QED
  BY <1>8, <1>9, <1>10 DEF Rewarded, reward

\* The last Window experiences.
LEMMA RecentProperties ==
  ASSUME NEW exps \in Seq(ExperienceSet), Len(exps) >= Window
  PROVE  /\ Len(exps) \in Nat /\ DOMAIN exps = 1..Len(exps)
         /\ Recent(exps) \in Seq(ExperienceSet)
         /\ Len(Recent(exps)) = Window
         /\ \A i \in 1..Window :
              /\ Len(exps) - Window + i \in 1..Len(exps)
              /\ Recent(exps)[i] = exps[Len(exps) - Window + i]
<1> DEFINE n == Len(exps)
           first == n - Window + 1
<1>1. n \in Nat /\ DOMAIN exps = 1..n /\ exps \in [1..n -> ExperienceSet]
  BY LenProperties
<1>2. Window \in Nat /\ Window # 0
  BY TrainingAssumption
<1>3. Recent(exps) = SubSeq(exps, first, n)
  BY DEF Recent
<1> HIDE DEF n
<1>4. n >= Window
  BY DEF n
<1>5. first \in Int /\ n \in Int /\ n - first + 1 = Window /\ first <= n
      /\ \A i \in first..n : i \in 1..n
  BY <1>1, <1>2, <1>4
<1>6. \A i \in first..n : exps[i] \in ExperienceSet
  BY <1>1, <1>5
<1> HIDE DEF first
<1>7. /\ SubSeq(exps, first, n) \in Seq(ExperienceSet)
      /\ Len(SubSeq(exps, first, n)) = IF first <= n THEN n - first + 1 ELSE 0
      /\ \A i \in 1..(n - first + 1) : SubSeq(exps, first, n)[i] = exps[first + i - 1]
  BY <1>5, <1>6, SubSeqProperties
<1>8. \A i \in 1..Window : first + i - 1 = n - Window + i /\ n - Window + i \in 1..n
  BY <1>1, <1>2, <1>4 DEF first
<1>9. QED
  BY <1>1, <1>3, <1>5, <1>7, <1>8 DEF n

\* What adaptProfile makes of a profile and what a server has recorded.
LEMMA AdaptBounds ==
  ASSUME NEW base \in [minBet : Nat, maxBet : Nat],
         base.minBet >= MinBet, base.maxBet <= MaxBet,
         NEW exps \in Seq(ExperienceSet), \A i \in DOMAIN exps : Rewarded(exps[i]),
         NEW new \in AdaptProfile(base, exps)
  PROVE  /\ new \in [minBet : Nat, maxBet : Nat]
         /\ new.minBet >= MinBet /\ new.maxBet <= MaxBet
         /\ Modest(base.minBet, new.minBet) /\ Modest(base.maxBet, new.maxBet)
         /\ new.minBet < base.minBet \/ new.maxBet < base.maxBet =>
              \E i \in DOMAIN exps :
                /\ i > Len(exps) - Window
                /\ \/ exps[i].stake # None
                   \/ LikenessWeight * exps[i].likeness < CostPerSpin
<1>1. Window \in Nat /\ Window # 0 /\ CostPerSpin \in Int
      /\ \A l \in Likeness : l \in Int
  BY TrainingAssumption
<1>2. Len(exps) \in Nat /\ base.minBet \in Nat /\ base.maxBet \in Nat
  BY LenProperties
<1>3. CASE Len(exps) < Window
  <2>1. new = base
    BY <1>3 DEF AdaptProfile
  <2>2. \A x \in Nat : Modest(x, x)
    BY DEF Modest, LikenessWeight
  <2>3. QED
    BY <1>2, <2>1, <2>2
<1>4. CASE Len(exps) >= Window
  <2> DEFINE recent == Recent(exps)
             from == Len(exps) - Window
  <2>1. /\ DOMAIN exps = 1..Len(exps)
        /\ recent \in Seq(ExperienceSet) /\ Len(recent) = Window
        /\ \A i \in 1..Window : from + i \in 1..Len(exps) /\ recent[i] = exps[from + i]
    BY <1>4, RecentProperties
  <2> HIDE DEF recent
  <2>2. \A i \in 1..Window : /\ recent[i] \in ExperienceSet
                             /\ Rewarded(recent[i])
    BY <2>1, ElementOfSeq
  <2>3. \A i \in 1..Window : /\ recent[i].reward \in Int
                             /\ recent[i].reward <= 10 * LikenessWeight
    BY <2>2 DEF ExperienceSet, Rewarded
  <2>4. TotalReward(recent) \in Int /\ TotalReward(recent) <= 30 * Window
    <3>1. /\ TotalReward(recent) \in Int
          /\ TotalReward(recent) <= 10 * LikenessWeight * Len(recent)
      BY <1>1, <2>1, <2>3, TotalBounds
    <3>2. QED
      BY <1>1, <2>1, <3>1 DEF LikenessWeight
  <2>5. PICK low \in Scaled(base.minBet, recent), high \in Scaled(base.maxBet, recent) :
          new = [minBet |-> Most(MinBet, low), maxBet |-> Least(MaxBet, high)]
    <3>1. new \in [minBet : {Most(MinBet, b) : b \in Scaled(base.minBet, recent)},
                   maxBet : {Least(MaxBet, b) : b \in Scaled(base.maxBet, recent)}]
      BY <1>1, <1>2, <1>4 DEF AdaptProfile, recent
    <3>2. QED
      BY <3>1
  <2>6. /\ low \in Nat /\ high \in Nat
        /\ 2000 * low <= 2030 * base.minBet + 1000
        /\ 2000 * high <= 2030 * base.maxBet + 1000
        /\ TotalReward(recent) >= 0 => base.minBet <= low /\ base.maxBet <= high
    <3>1. Len(recent) \in Nat \ {0} /\ TotalReward(recent) <= 30 * Len(recent)
      BY <1>1, <2>1, <2>4
    <3>2. /\ low \in Nat
          /\ 2000 * low <= 2030 * base.minBet + 1000
          /\ TotalReward(recent) >= 0 => base.minBet <= low
      BY <1>2, <2>4, <3>1, ScaledBounds
    <3>3. /\ high \in Nat
          /\ 2000 * high <= 2030 * base.maxBet + 1000
          /\ TotalReward(recent) >= 0 => base.maxBet <= high
      BY <1>2, <2>4, <3>1, ScaledBounds
    <3>4. QED
      BY <3>2, <3>3
  <2>7. /\ new.minBet = Most(MinBet, low) /\ new.maxBet = Least(MaxBet, high)
        /\ new = [minBet |-> new.minBet, maxBet |-> new.maxBet]
    BY <2>5
  <2>8. /\ new.minBet \in Nat /\ new.minBet >= MinBet /\ new.minBet \in {MinBet, low}
        /\ new.minBet >= low
        /\ new.maxBet \in Nat /\ new.maxBet <= MaxBet /\ new.maxBet <= high
        /\ new.maxBet \in {MaxBet, high}
    BY <2>6, <2>7 DEF Most, Least, MinBet, MaxBet
  <2>9. Modest(base.minBet, new.minBet) /\ Modest(base.maxBet, new.maxBet)
    <3>1. \A x, y \in Nat : Modest(x, y) <=> 2000 * y <= 2030 * x + 1000
      BY DEF Modest, LikenessWeight
    <3>2. base.minBet >= 50 /\ new.minBet \in {50, low}
      BY <2>8 DEF MinBet
    <3>3. 2000 * new.minBet <= 2030 * base.minBet + 1000
      <4>1. base.minBet \in Nat /\ 2000 * low <= 2030 * base.minBet + 1000
        BY <1>2, <2>6
      <4>2. CASE new.minBet = 50
        BY <3>2, <4>1, <4>2
      <4>3. CASE new.minBet = low
        BY <4>1, <4>3
      <4>4. QED
        BY <3>2, <4>2, <4>3
    <3>4. 2000 * new.maxBet <= 2030 * base.maxBet + 1000
      <4>1. /\ base.maxBet \in Nat /\ new.maxBet \in Nat /\ high \in Nat
            /\ 2000 * high <= 2030 * base.maxBet + 1000 /\ new.maxBet <= high
        BY <1>2, <2>6, <2>8
      <4>2. QED
        BY <4>1
    <3>5. QED
      BY <1>2, <2>8, <3>1, <3>3, <3>4
  <2>10. ASSUME \A i \in DOMAIN exps : i > from =>
                  /\ exps[i].stake = None
                  /\ ~(LikenessWeight * exps[i].likeness < CostPerSpin)
         PROVE  new.minBet >= base.minBet /\ new.maxBet >= base.maxBet
    <3>1. \A i \in 1..Window : recent[i].reward >= 0
      <4> SUFFICES ASSUME NEW i \in 1..Window PROVE recent[i].reward >= 0
        OBVIOUS
      <4>1. from + i \in DOMAIN exps /\ from + i > from /\ recent[i] = exps[from + i]
        BY <1>1, <1>2, <2>1
      <4>2. recent[i].stake = None /\ ~(LikenessWeight * recent[i].likeness < CostPerSpin)
        BY <2>10, <4>1
      <4>3. recent[i].likeness \in Likeness /\ recent[i].likeness \in Int
        <5>1. recent[i].likeness \in Likeness
          BY <2>2 DEF ExperienceSet
        <5>2. QED
          BY <1>1, <5>1
      <4>4. LikenessWeight * recent[i].likeness >= CostPerSpin
        BY <1>1, <4>2, <4>3 DEF LikenessWeight
      <4>5. QED
        BY <2>2, <4>2, <4>4 DEF Rewarded
    <3>2. TotalReward(recent) >= 0
      BY <1>1, <2>1, <2>3, <3>1, TotalBounds
    <3>3. base.minBet <= low /\ base.maxBet <= high
      BY <2>6, <3>2
    <3>4. new.minBet >= base.minBet
      <4>1. base.minBet \in Nat /\ low \in Nat /\ new.minBet \in Nat
        BY <1>2, <2>6, <2>8
      <4>2. QED
        BY <2>8, <3>3, <4>1
    <3>5. new.maxBet >= base.maxBet
      <4>1. base.maxBet \in Nat /\ base.maxBet <= MaxBet /\ MaxBet \in Nat
        BY <1>2 DEF MaxBet
      <4>2. new.maxBet = MaxBet \/ new.maxBet = high
        BY <2>8
      <4>3. QED
        BY <3>3, <4>1, <4>2
    <3>6. QED
      BY <3>4, <3>5
  <2>11. new \in [minBet : Nat, maxBet : Nat]
    BY <2>7, <2>8
  <2>12. ASSUME new.minBet < base.minBet \/ new.maxBet < base.maxBet
         PROVE  \E i \in DOMAIN exps :
                  /\ i > from
                  /\ \/ exps[i].stake # None
                     \/ LikenessWeight * exps[i].likeness < CostPerSpin
    <3>1. ~(new.minBet >= base.minBet /\ new.maxBet >= base.maxBet)
      BY <1>2, <2>8, <2>12
    <3>2. QED
      BY <2>10, <3>1
  <2>13. QED
    BY <2>8, <2>9, <2>11, <2>12
<1>5. QED
  BY <1>1, <1>2, <1>3, <1>4

-----------------------------------------------------------------------------
(* The steps *)

LEMMA TrainingInit == Init => TrainingInv
<1> SUFFICES ASSUME Init PROVE TrainingInv
  OBVIOUS
<1>1. /\ profile \in [minBet : Nat, maxBet : Nat]
      /\ profile.minBet >= MinBet /\ profile.maxBet <= MaxBet
      /\ NumEpisodes \in Nat /\ MaxSteps \in Nat
  BY TrainingAssumption DEF Init
<1>2. experiences = <<>> /\ Len(<<>>) = 0
  BY DEF Init
<1>3. Most(1, MaxSteps) \in Nat
  BY <1>1 DEF Most
<1>4. experiences \in Seq(ExperienceSet) /\ Len(experiences) <= Most(1, MaxSteps)
  BY <1>2, <1>3
<1>5. session \in GameState /\ episode \in 0..NumEpisodes /\ files \in 0..episode
  BY <1>1 DEF Init, GameState
<1>6. /\ phase \in {"playing", "trained", "refused", "failed"}
      /\ phase = "playing" => episode < NumEpisodes
  BY <1>1 DEF Init, NewEpisode
<1>7. profile = [minBet |-> profile.minBet, maxBet |-> profile.maxBet]
      /\ profile.minBet \in Nat /\ profile.maxBet \in Nat
  BY <1>1
<1>8. TypeOK
  BY <1>1, <1>4, <1>5, <1>6, <1>7 DEF TypeOK
<1>9. QED
  BY <1>2, <1>6, <1>8 DEF TrainingInv

LEMMA InferTypes ==
  ASSUME TypeOK, NEW p \in Infer
  PROVE  p.amount \in Stakes \cup {None} \cup Nat /\ p.amount \in Nat \cup {None}
         /\ Target(p.action) \in GameState
<1>1. /\ p.action \in {"PlaceBet", "Spin", "CashOut"}
      /\ p.amount \in Stakes \cup {None} \cup Nat
  <2>1. CASE p \in Random
    BY <2>1 DEF Random
  <2>2. CASE p \in Planned
    <3>1. Plan(session) \in {"PlaceBet", "Spin", "CashOut"}
      BY DEF Plan, TypeOK, GameState
    <3>2. p.action = Plan(session)
          /\ p.amount = (IF Plan(session) = "PlaceBet" THEN profile.minBet ELSE None)
      BY <2>2 DEF Planned
    <3>3. QED
      BY <3>1, <3>2 DEF TypeOK
  <2>3. QED
    BY <2>1, <2>2 DEF Infer
<1>2. Stakes \subseteq Nat
  BY TrainingAssumption DEF MinBet
<1>3. Target(p.action) \in GameState
  BY <1>1 DEF Target, GameState
<1>4. QED
  BY <1>1, <1>2, <1>3

LEMMA PlayNext ==
  ASSUME TrainingInv, Play
  PROVE  TrainingInv'
<1>1. TypeOK /\ phase = "playing" /\ ~EpisodeOver
      /\ UNCHANGED <<profile, episode, files, phase>>
  BY DEF Play, TrainingInv
<1>2. PICK p \in Infer, likeness \in Likeness :
        /\ session' = Target(p.action)
        /\ experiences' = Append(experiences,
             [stake    |-> p.amount,
              likeness |-> likeness,
              reward   |-> PlayReward(p.action, p.amount, likeness, CostPerSpin)])
  BY DEF Play
<1> DEFINE e == [stake    |-> p.amount,
                 likeness |-> likeness,
                 reward   |-> PlayReward(p.action, p.amount, likeness, CostPerSpin)]
<1>3. p.amount \in Stakes \cup {None} \cup Nat /\ p.amount \in Nat \cup {None}
      /\ Target(p.action) \in GameState
  BY <1>1, InferTypes
<1>4. e.reward \in Int /\ Rewarded(e)
  BY <1>3, PlayIsRewarded
<1>5. e \in ExperienceSet
  BY <1>3, <1>4 DEF ExperienceSet
<1>6. experiences \in Seq(ExperienceSet) /\ experiences' = Append(experiences, e)
  BY <1>1, <1>2 DEF TypeOK
<1> HIDE DEF e
<1>7. /\ experiences' \in Seq(ExperienceSet) /\ Len(experiences) \in Nat
      /\ Len(experiences') = Len(experiences) + 1
      /\ DOMAIN experiences = 1..Len(experiences)
      /\ DOMAIN experiences' = 1..(Len(experiences) + 1)
      /\ experiences'[Len(experiences) + 1] = e
      /\ \A i \in 1..Len(experiences) : experiences'[i] = experiences[i]
  BY <1>5, <1>6, AppendProperties, LenProperties
<1>8. \A i \in DOMAIN experiences' : Rewarded(experiences'[i])
  <2>1. \A i \in DOMAIN experiences' : i \in DOMAIN experiences \/ i = Len(experiences) + 1
    BY <1>7
  <2>2. QED
    BY <1>4, <1>7, <2>1 DEF TrainingInv
<1>9. Len(experiences') <= Most(1, MaxSteps)
  <2>1. MaxSteps \in Nat
    BY TrainingAssumption
  <2>2. Len(experiences) = 0 \/ Len(experiences) < MaxSteps
    <3>1. experiences = <<>> \/ ~(Len(experiences) >= MaxSteps)
      BY <1>1 DEF EpisodeOver
    <3>2. QED
      BY <1>7, <2>1, <3>1
  <2>3. QED
    BY <1>7, <2>1, <2>2 DEF Most
<1>10. TypeOK'
  BY <1>1, <1>2, <1>3, <1>7, <1>9 DEF TypeOK
<1>11. QED
  BY <1>1, <1>8, <1>10 DEF TrainingInv

LEMMA EndNext ==
  ASSUME TrainingInv, Refused \/ CallFails
  PROVE  TrainingInv'
BY DEF TrainingInv, TypeOK, Refused, CallFails

\* What the end of an episode does to the stakes.
LEMMA FinishAdapts ==
  ASSUME TrainingInv, FinishEpisode \/ WriteFails
  PROVE  /\ profile' \in [minBet : Nat, maxBet : Nat]
         /\ profile'.minBet >= MinBet /\ profile'.maxBet <= MaxBet
         /\ Modest(profile.minBet, profile'.minBet)
         /\ Modest(profile.maxBet, profile'.maxBet)
         /\ profile'.minBet < profile.minBet \/ profile'.maxBet < profile.maxBet =>
              \E i \in DOMAIN experiences :
                /\ i > Len(experiences) - Window
                /\ \/ experiences[i].stake # None
                   \/ LikenessWeight * experiences[i].likeness < CostPerSpin
<1>1. /\ profile \in [minBet : Nat, maxBet : Nat]
      /\ profile.minBet >= MinBet /\ profile.maxBet <= MaxBet
      /\ experiences \in Seq(ExperienceSet)
      /\ \A i \in DOMAIN experiences : Rewarded(experiences[i])
  BY DEF TrainingInv, TypeOK
<1>2. PICK exported \in {experiences, <<>>} : profile' \in AdaptProfile(profile, exported)
  BY DEF FinishEpisode, WriteFails
<1>3. CASE exported = experiences
  BY <1>1, <1>2, <1>3, AdaptBounds
<1>4. CASE exported = <<>>
  <2>1. <<>> \in Seq(ExperienceSet) /\ \A i \in DOMAIN <<>> : FALSE
    OBVIOUS
  <2>2. profile' \in AdaptProfile(profile, <<>>)
    BY <1>2, <1>4
  <2>3. /\ profile' \in [minBet : Nat, maxBet : Nat]
        /\ profile'.minBet >= MinBet /\ profile'.maxBet <= MaxBet
        /\ Modest(profile.minBet, profile'.minBet)
        /\ Modest(profile.maxBet, profile'.maxBet)
        /\ ~(profile'.minBet < profile.minBet \/ profile'.maxBet < profile.maxBet)
    BY <1>1, <2>1, <2>2, AdaptBounds
  <2>4. QED
    BY <2>3
<1>5. QED
  BY <1>2, <1>3, <1>4

LEMMA FinishNext ==
  ASSUME TrainingInv, FinishEpisode
  PROVE  TrainingInv'
<1>1. /\ TypeOK /\ phase = "playing" /\ episode < NumEpisodes
      /\ files' = files \/ files' = files + 1
      /\ episode' = episode + 1
      /\ phase' = NewEpisode(episode + 1)
      /\ session' = "Initialized"
      /\ experiences' = <<>>
  BY DEF FinishEpisode, TrainingInv
<1>2. /\ NumEpisodes \in Nat /\ MaxSteps \in Nat
      /\ episode \in 0..NumEpisodes /\ files \in 0..episode
  BY <1>1, TrainingAssumption DEF TypeOK
<1>3. episode' \in 0..NumEpisodes /\ files' \in 0..episode'
  BY <1>1, <1>2
<1>4. /\ phase' \in {"playing", "trained", "refused", "failed"}
      /\ phase' = "playing" => episode' < NumEpisodes
  BY <1>1 DEF NewEpisode
<1>5. experiences' \in Seq(ExperienceSet) /\ Len(experiences') <= Most(1, MaxSteps)
  <2>1. Most(1, MaxSteps) \in Nat /\ Len(<<>>) = 0 /\ <<>> \in Seq(ExperienceSet)
    BY <1>2 DEF Most
  <2>2. QED
    BY <1>1, <2>1
<1>6. /\ profile'.minBet \in Nat /\ profile'.maxBet \in Nat
      /\ profile'.minBet >= MinBet /\ profile'.maxBet <= MaxBet
      /\ profile' = [minBet |-> profile'.minBet, maxBet |-> profile'.maxBet]
  BY FinishAdapts
<1>7. session' \in GameState
  BY <1>1 DEF GameState
<1>8. TypeOK'
  BY <1>3, <1>4, <1>5, <1>6, <1>7 DEF TypeOK
<1>9. QED
  BY <1>1, <1>4, <1>8 DEF TrainingInv

LEMMA WriteNext ==
  ASSUME TrainingInv, WriteFails
  PROVE  TrainingInv'
<1>1. /\ TypeOK /\ episode < NumEpisodes /\ episode' = episode + 1
      /\ phase' = "failed"
      /\ UNCHANGED <<session, experiences, files>>
      /\ \A i \in DOMAIN experiences : Rewarded(experiences[i])
  BY DEF WriteFails, TrainingInv
<1>2. /\ NumEpisodes \in Nat
      /\ episode \in 0..NumEpisodes /\ files \in 0..episode
  BY <1>1, TrainingAssumption DEF TypeOK
<1>3. episode' \in 0..NumEpisodes /\ files' \in 0..episode'
  BY <1>1, <1>2
<1>4. /\ profile'.minBet \in Nat /\ profile'.maxBet \in Nat
      /\ profile'.minBet >= MinBet /\ profile'.maxBet <= MaxBet
      /\ profile' = [minBet |-> profile'.minBet, maxBet |-> profile'.maxBet]
  BY FinishAdapts
<1>5. TypeOK'
  BY <1>1, <1>3, <1>4 DEF TypeOK
<1>6. QED
  BY <1>1, <1>5 DEF TrainingInv

LEMMA TrainingNext ==
  ASSUME TrainingInv, [Next]_vars
  PROVE  TrainingInv'
<1>1. CASE UNCHANGED vars
  BY <1>1 DEF vars, TrainingInv, TypeOK
<1>2. CASE Next
  BY <1>2, PlayNext, EndNext, FinishNext, WriteNext DEF Next
<1>3. QED
  BY <1>1, <1>2

\* Only the end of an episode changes the stakes.
LEMMA StakesChange ==
  ASSUME [Next]_vars, ~FinishEpisode, ~WriteFails
  PROVE  profile' = profile
BY DEF Next, vars, Play, Refused, CallFails

(* Whatever is learnt in however many episodes, minBet keeps its floor and maxBet
   its ceiling, an episode ends with its steps, and a file is written at most once
   an episode (adapt.ts, train.ts). *)
THEOREM TrainingTypes == Spec => []TypeOK
<1>1. TrainingInv => TypeOK
  BY DEF TrainingInv
<1>2. QED
  BY TrainingInit, TrainingNext, <1>1, PTL DEF Spec

(* adaptProfile never raises a stake by more than the likeness bonus is worth,
   1.5%, for any window and any rewards of the server: the total of a window is
   at most Window times the bonus. *)
THEOREM GrowthIsModest == Spec => ModestGrowth
<1> DEFINE Step == /\ Modest(profile.minBet, profile'.minBet)
                   /\ Modest(profile.maxBet, profile'.maxBet)
<1>1. ASSUME TrainingInv, [Next]_vars PROVE Step
  <2>1. CASE FinishEpisode \/ WriteFails
    BY <1>1, <2>1, FinishAdapts
  <2>2. CASE ~FinishEpisode /\ ~WriteFails
    <3>1. profile' = profile /\ profile.minBet \in Nat /\ profile.maxBet \in Nat
      BY <1>1, <2>2, StakesChange DEF TrainingInv, TypeOK
    <3>2. \A x \in Nat : Modest(x, x)
      BY DEF Modest, LikenessWeight
    <3>3. QED
      BY <3>1, <3>2
  <2>3. QED
    BY <2>1, <2>2
<1>2. TrainingInv /\ [Next]_vars => [Step]_vars
  BY <1>1
<1>3. QED
  BY TrainingInit, TrainingNext, <1>2, PTL DEF Spec, ModestGrowth

(* adaptProfile lowers a stake only after a bet, or a likeness not worth the cost,
   among the last Window steps: what was lost before them is forgotten. *)
THEOREM OnlyRecentBetsCount == Spec => OnlyRecentBetsShrinkStakes
<1> DEFINE Shrinks == profile'.minBet < profile.minBet \/ profile'.maxBet < profile.maxBet
           Recently == \E i \in DOMAIN experiences :
                         /\ i > Len(experiences) - Window
                         /\ \/ experiences[i].stake # None
                            \/ LikenessWeight * experiences[i].likeness < CostPerSpin
<1>1. ASSUME TrainingInv, [Next]_vars PROVE Shrinks => Recently
  <2>1. CASE FinishEpisode \/ WriteFails
    BY <1>1, <2>1, FinishAdapts
  <2>2. CASE ~FinishEpisode /\ ~WriteFails
    <3>1. profile' = profile /\ profile.minBet \in Nat /\ profile.maxBet \in Nat
      BY <1>1, <2>2, StakesChange DEF TrainingInv, TypeOK
    <3>2. QED
      BY <3>1
  <2>3. QED
    BY <2>1, <2>2
<1>2. TrainingInv /\ [Next]_vars => [Shrinks => Recently]_vars
  BY <1>1
<1>3. QED
  BY TrainingInit, TrainingNext, <1>2, PTL DEF Spec, OnlyRecentBetsShrinkStakes
=============================================================================
