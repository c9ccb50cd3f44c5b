--------------------------- MODULE SimulatorProofs ---------------------------
(***************************************************************************)
(* Theorems about Simulator for any rows, samples and numbers of spins.    *)
(***************************************************************************)
EXTENDS Simulator, FiniteSetTheorems, SequenceTheorems, WellFoundedInduction, TLAPS

-----------------------------------------------------------------------------
(* The stakes *)

\* The lesser and the greater of two numbers.
LEMMA MinMaxOfTwo ==
  ASSUME NEW a \in Int, NEW b \in Int
  PROVE  /\ Min({a, b}) = IF a <= b THEN a ELSE b
         /\ Max({a, b}) = IF a >= b THEN a ELSE b
<1>1. ASSUME NEW x \in {a, b}, \A y \in {a, b} : x <= y
      PROVE  x = IF a <= b THEN a ELSE b
  BY <1>1
<1>2. \E x \in {a, b} : \A y \in {a, b} : x <= y
  OBVIOUS
<1>3. ASSUME NEW x \in {a, b}, \A y \in {a, b} : x >= y
      PROVE  x = IF a >= b THEN a ELSE b
  BY <1>3
<1>4. \E x \in {a, b} : \A y \in {a, b} : x >= y
  OBVIOUS
<1>5. Min({a, b}) = IF a <= b THEN a ELSE b
  BY <1>1, <1>2 DEF Min
<1>6. Max({a, b}) = IF a >= b THEN a ELSE b
  BY <1>3, <1>4 DEF Max
<1>7. QED
  BY <1>5, <1>6

\* The 20 spins of an aggressive phase start at the twentieth at the earliest, so
\* the second tier is reached.
LEMMA TierOfPhase ==
  ASSUME NEW k \in Nat, (k \div 20) % 2 # 0
  PROVE  k \div 10 \in Nat /\ k \div 10 >= 2
<1>1. k >= 20
  <2>1. SUFFICES ASSUME k < 20 PROVE FALSE
    OBVIOUS
  <2>2. k \div 20 = 0
    BY <2>1
  <2>3. QED
    BY <2>2
<1>2. QED
  BY <1>1

\* What a mixed player may stake.
LEMMA MixedStake ==
  ASSUME NEW k \in Nat, NEW r \in Samples
  PROVE  LET s == NextStake("MixedAdaptive", k, r)
         IN  s \in Int /\ (s <= 700 \/ s >= 10000)
<1>1. r \in 0..100
  BY SimulatorAssumption DEF SimulatorAssumption
<1>2. ConservativeStake(r) \in Int /\ ConservativeStake(r) <= 700
  <2> DEFINE drawn == 500 + 2 * r
  <2>1. drawn \in Int /\ drawn >= 10 /\ drawn <= 700
    BY <1>1
  <2>2. ConservativeStake(r) = Max({drawn, 10})
    BY DEF ConservativeStake
  <2> HIDE DEF drawn
  <2>3. Max({drawn, 10}) = drawn
    BY <2>1, MinMaxOfTwo
  <2>4. QED
    BY <2>1, <2>2, <2>3
<1>3. ASSUME (k \div 20) % 2 # 0
      PROVE  AggressiveStake(k, r) \in Int /\ AggressiveStake(k, r) >= 10000
  <2> DEFINE tier  == k \div 10
             drawn == 5000 + tier * 2500 + 50 * r
  <2>1. tier \in Nat /\ tier >= 2
    BY <1>3, TierOfPhase
  <2>2. AggressiveStake(k, r) = Min({drawn, 100000})
    BY DEF AggressiveStake
  <2> HIDE DEF tier
  <2>3. drawn \in Int /\ drawn >= 10000
    BY <1>1, <2>1
  <2> HIDE DEF drawn
  <2>4. Min({drawn, 100000}) \in {drawn, 100000}
    BY <2>3, MinMaxOfTwo
  <2>5. QED
    BY <2>2, <2>3, <2>4
<1>4. QED
  BY <1>2, <1>3 DEF NextStake

\* The last stake is one of those.
StakeInv == spins \in Nat /\ MixedStakesJump

(* A mixed player's stakes leave a gap between 0.70 and 10 dollars, whatever the
   samples and however long it plays (next_stake, mixed_adaptive). *)
THEOREM MixedNeverStartsLow == Spec => []MixedStakesJump
<1>1. Init => StakeInv
  BY DEF Init, StakeInv, MixedStakesJump
<1>2. StakeInv /\ [Next]_vars => StakeInv'
  <2> SUFFICES ASSUME StakeInv, [Next]_vars PROVE StakeInv'
    OBVIOUS
  <2>1. CASE Spin
    <3>1. PICK r \in Samples : stake' = NextStake(profile, spins, r)
      BY <2>1 DEF Spin
    <3>2. spins' \in Nat /\ profile' = profile
      BY <2>1 DEF Spin, StakeInv
    <3>3. profile = "MixedAdaptive" => stake' <= 700 \/ stake' >= 10000
      BY <3>1, MixedStake DEF StakeInv
    <3>4. QED
      BY <3>2, <3>3 DEF StakeInv, MixedStakesJump
  <2>2. CASE Save
    BY <2>2 DEF Save, StakeInv, MixedStakesJump
  <2>3. CASE UNCHANGED vars
    BY <2>3 DEF vars, StakeInv, MixedStakesJump
  <2>4. QED
    BY <2>1, <2>2, <2>3 DEF Next
<1>3. StakeInv => MixedStakesJump
  BY DEF StakeInv
<1>4. QED
  BY <1>1, <1>2, <1>3, PTL DEF Spec

-----------------------------------------------------------------------------
(* Sums over finite sets *)

\* A set of naturals has a least element: what every induction here rests on.
LEMMA LeastOf ==
  ASSUME NEW T \in SUBSET Nat, T # {}
  PROVE  \E m \in T : \A k \in T : m <= k
<1> DEFINE R == OpToRel(<, Nat)
<1>1. IsWellFoundedOn(R, Nat)
  BY NatLessThanWellFounded, Zenon
<1>2. \A k, m \in T : k < m => <<k, m>> \in R
  BY DEF OpToRel
<1> HIDE DEF R
<1>3. PICK m \in T : \A k \in T : ~ (<<k, m>> \in R)
  BY <1>1, WFMin
<1>4. \A k \in T : ~ (k < m) /\ k \in Nat /\ m \in Nat
  BY <1>2, <1>3
<1>5. QED
  BY <1>4

\* Among subsets of a finite set there is one that no removal of an element
\* leads from to another.
LEMMA LeastSubset ==
  ASSUME NEW S, IsFiniteSet(S), NEW Bad \in SUBSET SUBSET S, Bad # {}
  PROVE  \E m \in Bad : /\ IsFiniteSet(m)
                        /\ \A x \in m : m \ {x} \notin Bad
<1> DEFINE Sizes == {Cardinality(s) : s \in Bad}
<1>1. \A s \in Bad : IsFiniteSet(s) /\ Cardinality(s) \in Nat
  BY FS_Subset, FS_CardinalityType
<1>2. PICK n \in Sizes : \A k \in Sizes : n <= k
  <2>1. Sizes \in SUBSET Nat /\ Sizes # {}
    BY <1>1
  <2> HIDE DEF Sizes
  <2>2. QED
    BY <2>1, LeastOf
<1>3. PICK m \in Bad : Cardinality(m) = n
  BY <1>2
<1>4. ASSUME NEW x \in m, m \ {x} \in Bad PROVE FALSE
  <2>1. Cardinality(m \ {x}) = Cardinality(m) - 1
    BY <1>1, <1>3, FS_RemoveElement
  <2>2. Cardinality(m) <= Cardinality(m \ {x})
    BY <1>2, <1>3, <1>4
  <2>3. QED
    BY <1>1, <1>3, <2>1, <2>2
<1>5. QED
  BY <1>1, <1>4

\* The element a fold over a set takes first.
First(s) == CHOOSE x \in s : TRUE

\* The sum of g over s, given the sums over smaller sets.
NextSum(g, h, s) == IF s = {} THEN 0 ELSE g[First(s)] + h[s \ {First(s)}]

\* h gives the sum of g over each subset of S.
IsSumOf(S, g, h) == h = [s \in SUBSET S |-> NextSum(g, h, s)]

\* h does so for those of up to k elements.
IsSumUpTo(S, g, h, k) ==
  \A s \in SUBSET S : Cardinality(s) <= k => h[s] = NextSum(g, h, s)

\* Sums over sets of k elements give those of k + 1.
LEMMA SumStep ==
  ASSUME NEW S, IsFiniteSet(S), NEW g, NEW h, NEW k \in Nat, IsSumUpTo(S, g, h, k)
  PROVE  \E j : IsSumUpTo(S, g, j, k + 1)
<1> DEFINE j == [s \in SUBSET S |->
                   IF Cardinality(s) <= k THEN h[s] ELSE NextSum(g, h, s)]
<1>1. ASSUME NEW s \in SUBSET S, Cardinality(s) <= k + 1
      PROVE  j[s] = NextSum(g, j, s)
  <2>1. j[s] = NextSum(g, h, s)
    BY <1>1 DEF IsSumUpTo
  <2>2. ASSUME s # {}
        PROVE  j[s \ {First(s)}] = h[s \ {First(s)}]
    <3> DEFINE t == s \ {First(s)}
    <3>1. First(s) \in s
      BY <2>2 DEF First
    <3>2. IsFiniteSet(s) /\ Cardinality(s) \in Nat
      BY FS_Subset, FS_CardinalityType
    <3>3. Cardinality(t) = Cardinality(s) - 1
      BY <3>1, <3>2, FS_RemoveElement
    <3>4. t \in SUBSET S /\ Cardinality(t) <= k
      BY <1>1, <3>2, <3>3
    <3> HIDE DEF t
    <3>5. j[t] = h[t]
      BY <3>4
    <3>6. QED
      BY <3>5 DEF t
  <2> HIDE DEF j
  <2>3. QED
    BY <2>1, <2>2 DEF NextSum
<1> HIDE DEF j
<1>2. IsSumUpTo(S, g, j, k + 1)
  BY <1>1 DEF IsSumUpTo
<1>3. QED
  BY <1>2

\* The sums over the subsets of a finite set exist.
LEMMA SumsExist ==
  ASSUME NEW S, IsFiniteSet(S), NEW g
  PROVE  \E h : IsSumOf(S, g, h)
<1> DEFINE Reached(k) == \E h : IsSumUpTo(S, g, h, k)
           T == {k \in Nat : ~ Reached(k)}
<1>1. Reached(0)
  <2> DEFINE z == [s \in SUBSET S |-> 0]
  <2>1. ASSUME NEW s \in SUBSET S, Cardinality(s) <= 0 PROVE s = {}
    BY <2>1, FS_Subset, FS_CardinalityType, FS_EmptySet
  <2>2. \A s \in SUBSET S : z[s] = 0
    OBVIOUS
  <2> HIDE DEF z
  <2>3. IsSumUpTo(S, g, z, 0)
    BY <2>1, <2>2 DEF IsSumUpTo, NextSum
  <2>4. QED
    BY <2>3
<1>2. ASSUME NEW k \in Nat, Reached(k) PROVE Reached(k + 1)
  BY <1>2, SumStep
<1> HIDE DEF Reached
<1>3. \A k \in Nat : Reached(k)
  <2>1. SUFFICES ASSUME T # {} PROVE FALSE
    OBVIOUS
  <2>2. PICK m \in T : \A k \in T : m <= k
    BY <2>1, LeastOf
  <2>3. m # 0 /\ m \in Nat
    BY <1>1
  <2>4. m - 1 \in Nat /\ m - 1 \notin T
    BY <2>2, <2>3
  <2>5. Reached((m - 1) + 1)
    BY <1>2, <2>4
  <2>6. QED
    BY <2>3, <2>5
<1>4. PICK h : IsSumUpTo(S, g, h, Cardinality(S))
  BY <1>3, FS_CardinalityType DEF Reached
<1> DEFINE j == [s \in SUBSET S |-> h[s]]
<1>5. \A s \in SUBSET S : s \ {First(s)} \in SUBSET S /\ Cardinality(s) <= Cardinality(S)
  BY FS_Subset
<1>6. ASSUME NEW s \in SUBSET S PROVE j[s] = NextSum(g, j, s)
  <2>1. h[s] = NextSum(g, h, s)
    BY <1>4, <1>5 DEF IsSumUpTo
  <2>2. j[s] = h[s] /\ j[s \ {First(s)}] = h[s \ {First(s)}]
    BY <1>5
  <2> HIDE DEF j
  <2>3. QED
    BY <2>1, <2>2 DEF NextSum
<1>7. j = [s \in SUBSET S |-> NextSum(g, j, s)]
  BY <1>6
<1>8. QED
  BY <1>7 DEF IsSumOf

\* Taking out the first element takes one term out of the sum.
LEMMA SumOfRest ==
  ASSUME NEW S, IsFiniteSet(S), NEW g, NEW h, IsSumOf(S, g, h)
  PROVE  /\ h[{}] = 0
         /\ \A s \in (SUBSET S) \ {{}} :
              \E x \in s : /\ s \ {x} \in SUBSET S
                           /\ h[s] = g[x] + h[s \ {x}]
                           /\ Cardinality(s) = Cardinality(s \ {x}) + 1
<1>1. \A s \in SUBSET S : h[s] = NextSum(g, h, s)
  BY DEF IsSumOf
<1>2. h[{}] = 0
  BY <1>1 DEF NextSum
<1>3. ASSUME NEW s \in (SUBSET S) \ {{}}
      PROVE  \E x \in s : /\ s \ {x} \in SUBSET S
                          /\ h[s] = g[x] + h[s \ {x}]
                          /\ Cardinality(s) = Cardinality(s \ {x}) + 1
  <2> DEFINE x == First(s)
  <2>1. x \in s
    BY DEF First
  <2>2. h[s] = g[x] + h[s \ {x}]
    BY <1>1 DEF NextSum
  <2>3. IsFiniteSet(s) /\ Cardinality(s) \in Nat
    BY FS_Subset, FS_CardinalityType
  <2> HIDE DEF x
  <2>4. Cardinality(s \ {x}) = Cardinality(s) - 1
    BY <2>1, <2>3, FS_RemoveElement
  <2>5. Cardinality(s) = Cardinality(s \ {x}) + 1
    BY <2>3, <2>4
  <2>6. s \ {x} \in SUBSET S
    OBVIOUS
  <2>7. QED
    BY <2>1, <2>2, <2>5, <2>6
<1>4. QED
  BY <1>2, <1>3

\* A sum of naturals is zero exactly if each of them is.
LEMMA SumOfNaturals ==
  ASSUME NEW S, IsFiniteSet(S), NEW g, NEW h, IsSumOf(S, g, h),
         \A x \in S : g[x] \in Nat
  PROVE  h[S] \in Nat /\ (h[S] = 0 <=> \A x \in S : g[x] = 0)
<1> DEFINE Good(s) == h[s] \in Nat /\ (h[s] = 0 <=> \A x \in s : g[x] = 0)
           Bad == {s \in SUBSET S : ~ Good(s)}
<1>1. SUFFICES ASSUME Bad # {} PROVE FALSE
  OBVIOUS
<1>2. PICK s \in Bad : \A x \in s : s \ {x} \notin Bad
  BY <1>1, LeastSubset
<1>3. s # {}
  BY SumOfRest
<1>4. PICK x \in s : s \ {x} \in SUBSET S /\ h[s] = g[x] + h[s \ {x}]
  BY <1>3, SumOfRest
<1>5. Good(s \ {x})
  BY <1>2, <1>4
<1>6. h[s \ {x}] \in Nat /\ g[x] \in Nat
  BY <1>5
<1>7. h[s] \in Nat /\ (h[s] = 0 <=> g[x] = 0 /\ h[s \ {x}] = 0)
  BY <1>4, <1>6
<1>8. (\A y \in s : g[y] = 0) <=> g[x] = 0 /\ \A y \in s \ {x} : g[y] = 0
  OBVIOUS
<1>9. Good(s)
  BY <1>5, <1>7, <1>8
<1>10. QED
  BY <1>9

\* A sum of equal terms is their number times one of them.
LEMMA SumOfEquals ==
  ASSUME NEW S, IsFiniteSet(S), NEW g, NEW h, IsSumOf(S, g, h),
         NEW c \in Int, \A x \in S : g[x] = c
  PROVE  h[S] = Cardinality(S) * c
<1> DEFINE Good(s) == h[s] = Cardinality(s) * c
           Bad == {s \in SUBSET S : ~ Good(s)}
<1>1. SUFFICES ASSUME Bad # {} PROVE FALSE
  OBVIOUS
<1>2. PICK s \in Bad : \A x \in s : s \ {x} \notin Bad
  BY <1>1, LeastSubset
<1>3. s # {}
  <2>1. h[{}] = 0 /\ Cardinality({}) = 0
    BY SumOfRest, FS_EmptySet
  <2>2. Good({})
    BY <2>1
  <2>3. QED
    BY <2>2
<1>4. PICK x \in s : /\ s \ {x} \in SUBSET S
                     /\ h[s] = g[x] + h[s \ {x}]
                     /\ Cardinality(s) = Cardinality(s \ {x}) + 1
  BY <1>3, SumOfRest
<1>5. h[s] = c + Cardinality(s \ {x}) * c
  BY <1>2, <1>4
<1>6. Cardinality(s \ {x}) \in Nat
  BY <1>4, FS_Subset, FS_CardinalityType
<1>7. \A n \in Nat : c + n * c = (n + 1) * c
  OBVIOUS
<1>8. Good(s)
  BY <1>4, <1>5, <1>6, <1>7
<1>9. QED
  BY <1>8

\* How often x occurs among the elements i of I.
Occurrences(flat, I, x) == Cardinality({i \in I : flat[i] = x})

\* The occurrences of the elements of a set are the elements of I that show one.
LEMMA SumOfOccurrences ==
  ASSUME NEW S, IsFiniteSet(S), NEW g, NEW h, IsSumOf(S, g, h),
         NEW I, IsFiniteSet(I), NEW flat,
         \A x \in S : g[x] = Occurrences(flat, I, x)
  PROVE  h[S] = Cardinality({i \in I : flat[i] \in S})
<1> DEFINE Showing(s) == {i \in I : flat[i] \in s}
           Good(s) == h[s] = Cardinality(Showing(s))
           Bad == {s \in SUBSET S : ~ Good(s)}
<1>1. SUFFICES ASSUME Bad # {} PROVE FALSE
  OBVIOUS
<1>2. PICK s \in Bad : \A x \in s : s \ {x} \notin Bad
  BY <1>1, LeastSubset
<1>3. s # {}
  BY SumOfRest, FS_EmptySet
<1>4. PICK x \in s : s \ {x} \in SUBSET S /\ h[s] = g[x] + h[s \ {x}]
  BY <1>3, SumOfRest
<1> DEFINE X == {i \in I : flat[i] = x}
           Y == Showing(s \ {x})
<1>5. h[s] = Cardinality(X) + Cardinality(Y)
  BY <1>2, <1>4 DEF Occurrences
<1>6. IsFiniteSet(X) /\ IsFiniteSet(Y)
  BY FS_Subset
<1>7. X \cap Y = {} /\ X \cup Y = Showing(s)
  OBVIOUS
<1> HIDE DEF X, Y, Showing
<1>8. Cardinality(X \cup Y) = Cardinality(X) + Cardinality(Y)
  <2>1. Cardinality(X \cap Y) = 0
    BY <1>7, FS_EmptySet
  <2>2. Cardinality(X) \in Nat /\ Cardinality(Y) \in Nat
    BY <1>6, FS_CardinalityType
  <2>3. Cardinality(X \cup Y) = Cardinality(X) + Cardinality(Y) - Cardinality(X \cap Y)
    BY <1>6, FS_Union
  <2>4. QED
    BY <2>1, <2>2, <2>3
<1>9. Good(s)
  BY <1>5, <1>7, <1>8
<1>10. QED
  BY <1>9

-----------------------------------------------------------------------------
(* Rows put together *)

\* f gives the first i rows put together, for i up to n.
IsFlat(seqs, n, f) ==
  f = [i \in 1..n |-> IF i = 1 THEN seqs[i] ELSE f[i - 1] \o seqs[i]]

\* The equation of FlattenSeq has a solution.
LEMMA FlatExists ==
  ASSUME NEW seqs, NEW n \in Nat
  PROVE  \E f : IsFlat(seqs, n, f)
<1> DEFINE T == {k \in Nat : ~ \E f : IsFlat(seqs, k, f)}
<1>1. SUFFICES ASSUME T # {} PROVE FALSE
  OBVIOUS
<1>2. PICK m \in T : \A k \in T : m <= k
  BY <1>1, LeastOf
<1>3. m \in Nat /\ ~ \E f : IsFlat(seqs, m, f)
  OBVIOUS
<1>4. m # 0
  <2>1. ASSUME m = 0 PROVE IsFlat(seqs, m, [i \in 1..0 |-> 0])
    BY <2>1 DEF IsFlat
  <2>2. QED
    BY <1>3, <2>1
<1>5. m - 1 \in Nat /\ ~(m <= m - 1)
  BY <1>3, <1>4
<1>6. m - 1 \notin T
  BY <1>2, <1>5
<1>7. PICK f : IsFlat(seqs, m - 1, f)
  BY <1>5, <1>6
<1> DEFINE g == [i \in 1..m |-> IF i # m THEN f[i]
                                ELSE IF i = 1 THEN seqs[i] ELSE f[i - 1] \o seqs[i]]
<1>8. ASSUME NEW i \in 1..m
      PROVE  g[i] = IF i = 1 THEN seqs[i] ELSE g[i - 1] \o seqs[i]
  <2>1. i # 1 => i - 1 \in 1..m /\ i - 1 # m
    BY <1>3
  <2>2. CASE i = m
    BY <2>1, <2>2
  <2>3. CASE i # m
    <3>1. i \in 1..(m - 1)
      BY <1>3, <2>3
    <3>2. f[i] = IF i = 1 THEN seqs[i] ELSE f[i - 1] \o seqs[i]
      BY <1>7, <3>1 DEF IsFlat
    <3>3. QED
      BY <2>1, <2>3, <3>2
  <2>4. QED
    BY <2>2, <2>3
<1>9. g = [i \in 1..m |-> IF i = 1 THEN seqs[i] ELSE g[i - 1] \o seqs[i]]
  <2>1. DOMAIN g = 1..m /\ g = [i \in 1..m |-> g[i]]
    OBVIOUS
  <2> HIDE DEF g
  <2>2. QED
    BY <1>8, <2>1
<1> HIDE DEF g
<1>10. IsFlat(seqs, m, g)
  BY <1>9 DEF IsFlat
<1>11. QED
  BY <1>3, <1>10

\* FlattenSeq reads the last value of it.
LEMMA FlattenIsFlat ==
  ASSUME NEW seqs, Len(seqs) \in Nat, Len(seqs) # 0
  PROVE  \E f : IsFlat(seqs, Len(seqs), f) /\ FlattenSeq(seqs) = f[Len(seqs)]
<1> DEFINE n == Len(seqs)
           f == CHOOSE g : IsFlat(seqs, n, g)
<1>1. IsFlat(seqs, n, f)
  BY FlatExists
<1>2. FlattenSeq(seqs) = f[n]
  BY DEF FlattenSeq, IsFlat
<1>3. QED
  BY <1>1, <1>2

\* The first n of both are the same rows.
Agree(seqs, more, n) ==
  \A i \in 1..n : seqs[i] = more[i] /\ seqs[i] \in Seq(Symbol)

\* Those are put together alike, into a sequence of symbols.
LEMMA FlatAlike ==
  ASSUME NEW seqs, NEW more, NEW n \in Nat, NEW m \in Nat, n <= m,
         NEW f, IsFlat(seqs, n, f), NEW g, IsFlat(more, m, g),
         Agree(seqs, more, n)
  PROVE  \A i \in 1..n : f[i] = g[i] /\ f[i] \in Seq(Symbol)
<1> DEFINE Good(i) == f[i] = g[i] /\ f[i] \in Seq(Symbol)
           T == {i \in 1..n : ~ Good(i)}
<1>1. SUFFICES ASSUME T # {} PROVE FALSE
  OBVIOUS
<1>2. PICK i \in T : \A k \in T : i <= k
  <2>1. T \in SUBSET Nat
    OBVIOUS
  <2> HIDE DEF T
  <2>2. QED
    BY <1>1, <2>1, LeastOf
<1>3. i \in 1..n /\ i \in 1..m /\ ~ Good(i)
  OBVIOUS
<1>4. /\ f[i] = IF i = 1 THEN seqs[i] ELSE f[i - 1] \o seqs[i]
      /\ g[i] = IF i = 1 THEN more[i] ELSE g[i - 1] \o more[i]
  BY <1>3 DEF IsFlat
<1>5. i # 1
  BY <1>3, <1>4 DEF Agree
<1>6. i - 1 \in 1..n /\ ~(i <= i - 1)
  BY <1>3, <1>5
<1>7. Good(i - 1)
  BY <1>2, <1>6
<1>8. seqs[i] = more[i] /\ seqs[i] \in Seq(Symbol)
  BY <1>3 DEF Agree
<1>9. f[i - 1] \o seqs[i] \in Seq(Symbol)
  BY <1>7, <1>8, ConcatProperties
<1>10. Good(i)
  BY <1>4, <1>5, <1>7, <1>8, <1>9
<1>11. QED
  BY <1>3, <1>10

Rows == Seq(Row)

\* Rows of symbols put together are a sequence of symbols.
LEMMA FlattenType ==
  ASSUME NEW seqs \in Rows
  PROVE  FlattenSeq(seqs) \in Seq(Symbol)
<1>1. Len(seqs) \in Nat /\ \A i \in 1..Len(seqs) : seqs[i] \in Seq(Symbol)
  BY SimulatorAssumption, ElementOfSeq, LenProperties DEF SimulatorAssumption, Rows
<1>2. CASE Len(seqs) = 0
  <2>1. seqs = <<>>
    BY <1>2, EmptySeq DEF Rows
  <2>2. FlattenSeq(seqs) = <<>>
    BY <1>2, <2>1 DEF FlattenSeq
  <2>3. QED
    BY <2>2, EmptySeq
<1>3. CASE Len(seqs) # 0
  <2> DEFINE n == Len(seqs)
  <2>1. PICK f : IsFlat(seqs, n, f) /\ FlattenSeq(seqs) = f[n]
    BY <1>1, <1>3, FlattenIsFlat
  <2>2. n \in Nat /\ n <= n /\ n \in 1..n
    BY <1>1, <1>3
  <2> HIDE DEF n
  <2>3. Agree(seqs, seqs, n)
    BY <1>1 DEF n, Agree
  <2>4. f[n] \in Seq(Symbol)
    BY <2>1, <2>2, <2>3, FlatAlike
  <2>5. QED
    BY <2>1, <2>4
<1>4. QED
  BY <1>2, <1>3

\* One more row is put behind the others.
LEMMA FlattenAppend ==
  ASSUME NEW seqs \in Rows, NEW row \in Row
  PROVE  FlattenSeq(Append(seqs, row)) = FlattenSeq(seqs) \o row
<1> DEFINE more == Append(seqs, row)
           n == Len(seqs)
<1>1. /\ Len(seqs) \in Nat
      /\ \A i \in 1..Len(seqs) : seqs[i] \in Seq(Symbol)
      /\ row \in Seq(Symbol)
  BY SimulatorAssumption, ElementOfSeq, LenProperties DEF SimulatorAssumption, Rows
<1>2. /\ Len(more) = n + 1
      /\ \A i \in 1..n : more[i] = seqs[i]
      /\ more[n + 1] = row
  BY AppendProperties DEF Rows
<1>3. n \in Nat /\ \A i \in 1..n : seqs[i] \in Seq(Symbol)
  BY <1>1
<1> HIDE DEF more
<1>4. PICK g : IsFlat(more, n + 1, g) /\ FlattenSeq(more) = g[n + 1]
  BY <1>2, <1>3, FlattenIsFlat
<1>5. g[n + 1] = IF n = 0 THEN row ELSE g[n] \o row
  <2>1. n + 1 \in 1..(n + 1) /\ (n + 1 = 1 <=> n = 0) /\ (n + 1) - 1 = n
    BY <1>3
  <2>2. g[n + 1] = IF n + 1 = 1 THEN more[n + 1] ELSE g[(n + 1) - 1] \o more[n + 1]
    BY <1>4, <2>1 DEF IsFlat
  <2>3. QED
    BY <1>2, <2>1, <2>2
<1>6. CASE n = 0
  <2>1. seqs = <<>>
    BY <1>6, EmptySeq DEF Rows
  <2>2. FlattenSeq(seqs) = <<>>
    BY <1>6, <2>1 DEF FlattenSeq
  <2>3. <<>> \o row = row
    BY <1>1, ConcatEmptySeq
  <2>4. FlattenSeq(more) = FlattenSeq(seqs) \o row
    BY <1>4, <1>5, <1>6, <2>2, <2>3
  <2>5. QED
    BY <2>4 DEF more
<1>7. CASE n # 0
  <2>1. PICK f : IsFlat(seqs, n, f) /\ FlattenSeq(seqs) = f[n]
    BY <1>3, <1>7, FlattenIsFlat
  <2>2. n \in 1..n
    BY <1>3, <1>7
  <2>3. Agree(seqs, more, n)
    BY <1>2, <1>3 DEF Agree
  <2>4. f[n] = g[n]
    <3> DEFINE m == n + 1
    <3>1. n \in Nat /\ m \in Nat /\ n <= m
      BY <1>3
    <3>2. IsFlat(seqs, n, f) /\ IsFlat(more, m, g)
      BY <1>4, <2>1
    <3> HIDE DEF n, m
    <3>3. \A i \in 1..n : f[i] = g[i]
      BY <2>3, <3>1, <3>2, FlatAlike
    <3>4. QED
      BY <2>2, <3>3
  <2>5. FlattenSeq(more) = f[n] \o row
    BY <1>4, <1>5, <1>7, <2>4
  <2>6. FlattenSeq(more) = FlattenSeq(seqs) \o row
    BY <2>1, <2>5
  <2>7. QED
    BY <2>6 DEF more
<1>8. QED
  BY <1>6, <1>7

-----------------------------------------------------------------------------
(* Signatures *)

\* A signature of max_symbols symbols is that of any continuation of the rows.
LEMMA FullSignatureStays ==
  ASSUME NEW seqs \in Rows, NEW row \in Row,
         Len(Signature(seqs, MaxSymbols)) = MaxSymbols
  PROVE  Signature(Append(seqs, row), MaxSymbols) = Signature(seqs, MaxSymbols)
<1> DEFINE flat == FlattenSeq(seqs)
           n == MaxSymbols
<1>1. n \in Nat /\ row \in Seq(Symbol)
  BY SimulatorAssumption DEF SimulatorAssumption
<1>2. flat \in Seq(Symbol) /\ FlattenSeq(Append(seqs, row)) = flat \o row
  BY FlattenType, FlattenAppend
<1>3. /\ Signature(seqs, n) = SubSeq(flat, 1, Min({n, Len(flat)}))
      /\ Signature(Append(seqs, row), n)
           = SubSeq(flat \o row, 1, Min({n, Len(flat \o row)}))
  BY <1>2 DEF Signature
<1>4. Len(Signature(seqs, n)) = n
  OBVIOUS
<1> HIDE DEF flat, n
<1>5. /\ Len(flat) \in Nat /\ Len(row) \in Nat
      /\ Len(flat \o row) = Len(flat) + Len(row)
      /\ flat \o row \in Seq(Symbol)
  BY <1>1, <1>2, ConcatProperties, LenProperties
<1>6. n <= Len(flat)
  <2> DEFINE m == Min({n, Len(flat)})
  <2>1. m \in Nat /\ m <= Len(flat)
    BY <1>1, <1>5, MinMaxOfTwo
  <2>2. Len(SubSeq(flat, 1, m)) = m
    <3> HIDE DEF m
    <3>1. \A i \in 1..m : flat[i] \in Symbol
      BY <1>2, <1>5, <2>1, ElementOfSeq
    <3>2. Len(SubSeq(flat, 1, m)) = IF 1 <= m THEN m - 1 + 1 ELSE 0
      BY <2>1, <3>1, SubSeqProperties
    <3>3. QED
      BY <2>1, <3>2
  <2>3. n = m
    BY <1>3, <1>4, <2>2
  <2> HIDE DEF m
  <2>4. QED
    BY <2>1, <2>3
<1>7. Min({n, Len(flat)}) = n /\ Min({n, Len(flat \o row)}) = n
  <2> DEFINE m == Len(flat \o row)
  <2>1. m \in Nat /\ n <= m
    BY <1>1, <1>5, <1>6
  <2> HIDE DEF m
  <2>2. Min({n, Len(flat)}) = n /\ Min({n, m}) = n
    BY <1>1, <1>5, <1>6, <2>1, MinMaxOfTwo
  <2>3. QED
    BY <2>2 DEF m
<1>8. SubSeq(flat \o row, 1, n) = SubSeq(flat, 1, n)
  <2>1. CASE n = 0
    BY <2>1, SubSeqEmpty
  <2>2. CASE n # 0
    <3>1. 1 \in 1..Len(flat) /\ n \in 1..Len(flat)
      BY <1>1, <1>5, <1>6, <2>2
    <3>2. QED
      BY <1>1, <1>2, <3>1, SubSeqOfConcat1
  <2>3. QED
    BY <2>1, <2>2
<1>9. QED
  BY <1>3, <1>7, <1>8 DEF n

\* A full signature in the store is that of the rows recorded by now.
FullIsCurrent ==
  store # None /\ Len(store.rng_signature) = MaxSymbols =>
    store.rng_signature = Signature(rows, MaxSymbols)

SignatureInv == rows \in Rows /\ FullIsCurrent

LEMMA SignatureInit == Init => SignatureInv
<1>1. <<>> \in Seq(Row)
  BY EmptySeq
<1>2. QED
  BY <1>1 DEF Init, SignatureInv, FullIsCurrent, Rows

LEMMA SignatureNext == SignatureInv /\ [Next]_vars => SignatureInv'
<1> SUFFICES ASSUME SignatureInv, [Next]_vars PROVE SignatureInv'
  OBVIOUS
<1>1. CASE Spin
  <2>1. store' = store
    BY <1>1 DEF Spin
  <2>2. CASE rows' = rows
    BY <2>1, <2>2 DEF SignatureInv, FullIsCurrent
  <2>3. CASE rows' # rows
    <3>1. PICK row \in Row : rows' = Append(rows, row)
      BY <1>1, <2>3 DEF Spin
    <3>2. rows' \in Rows
      BY <3>1, AppendProperties DEF SignatureInv, Rows
    <3>3. FullIsCurrent'
      BY <2>1, <3>1, FullSignatureStays DEF SignatureInv, FullIsCurrent
    <3>4. QED
      BY <3>2, <3>3 DEF SignatureInv
  <2>4. QED
    BY <2>2, <2>3
<1>2. CASE Save
  <2>1. store'.rng_signature = Signature(rows, MaxSymbols) /\ rows' = rows
    BY <1>2 DEF Save
  <2>2. QED
    BY <2>1 DEF SignatureInv, FullIsCurrent
<1>3. CASE UNCHANGED vars
  BY <1>3 DEF vars, SignatureInv, FullIsCurrent
<1>4. QED
  BY <1>1, <1>2, <1>3 DEF Next

(* A full signature is never replaced by another one, wherever later extractions
   cut the rows (rng_signature_digest, FingerprintStore::save). *)
THEOREM SignaturesSettle == Spec => SignatureSettles
<1> DEFINE Step == /\ store # None
                   /\ Len(store.rng_signature) = MaxSymbols
                   => store'.rng_signature = store.rng_signature
<1>1. SignatureInv /\ [Next]_vars => [Step]_vars
  <2> SUFFICES ASSUME SignatureInv, Next PROVE Step
    BY DEF vars
  <2>1. CASE Spin
    BY <2>1 DEF Spin
  <2>2. CASE Save
    <3>1. store'.rng_signature = Signature(rows, MaxSymbols)
      BY <2>2 DEF Save
    <3>2. QED
      BY <3>1 DEF SignatureInv, FullIsCurrent
  <2>3. QED
    BY <2>1, <2>2 DEF Next
<1>2. Spec => [][Step]_vars
  BY SignatureInit, SignatureNext, <1>1, PTL DEF Spec
<1>3. QED
  BY <1>2 DEF SignatureSettles

-----------------------------------------------------------------------------
(* Frequencies *)

\* The frequencies of rows: for each symbol that shows, its occurrences among all
\* symbols that showed.
LEMMA FrequenciesOfRows ==
  ASSUME NEW seqs \in Rows
  PROVE  LET flat == FlattenSeq(seqs)
             f == SymbolFrequencies(seqs)
             n == Len(flat)
         IN  /\ n \in Nat
             /\ IsFiniteSet(DOMAIN f)
             /\ DOMAIN f # {} => n > 0
             /\ \A i \in 1..n : flat[i] \in DOMAIN f
             /\ \A s \in DOMAIN f : f[s] = [num |-> Occurrences(flat, 1..n, s), den |-> n]
             /\ \A s \in DOMAIN f : Occurrences(flat, 1..n, s) \in Nat
<1> DEFINE flat == FlattenSeq(seqs)
           f == SymbolFrequencies(seqs)
           n == Len(flat)
           U == ToSet(flat)
<1>1. f = [s \in U |-> [num |-> Cardinality({i \in DOMAIN flat : flat[i] = s}), den |-> n]]
  BY DEF SymbolFrequencies, SymbolCounts
<1>2. flat \in Seq(Symbol)
  BY FlattenType
<1> HIDE DEF f, flat
<1>3. n \in Nat /\ DOMAIN flat = 1..n
  BY <1>2, LenProperties
<1> HIDE DEF n
<1>4. IsFiniteSet(1..n)
  BY <1>3, FS_Interval
<1>5. U = {flat[i] : i \in 1..n}
  BY <1>3 DEF ToSet
<1> HIDE DEF U
<1>6. IsFiniteSet(U)
  <2> DEFINE shown == [i \in 1..n |-> flat[i]]
  <2>1. shown \in Surjection(1..n, U)
    BY <1>5 DEF Surjection
  <2> HIDE DEF shown
  <2>2. QED
    BY <1>4, <2>1, FS_Surjection
<1>7. U # {} => n > 0
  BY <1>3, <1>5
<1>8. ASSUME NEW s \in U PROVE Occurrences(flat, 1..n, s) \in Nat
  <2>1. IsFiniteSet({i \in 1..n : flat[i] = s})
    BY <1>4, FS_Subset
  <2>2. QED
    BY <2>1, FS_CardinalityType DEF Occurrences
<1>9. DOMAIN f = U
  BY <1>1
<1>10. \A s \in U : f[s] = [num |-> Occurrences(flat, 1..n, s), den |-> n]
  BY <1>1, <1>3 DEF Occurrences
<1>11. QED
  BY <1>3, <1>5, <1>6, <1>7, <1>8, <1>9, <1>10 DEF f, flat, n

\* The sum of the numerators, as CalmIffUniform takes it.
NumeratorSum(f) == MapThenSumSet(LAMBDA s : f[s].num, DOMAIN f)

\* It adds up the numerators.
LEMMA SumOfNumerators ==
  ASSUME NEW f, IsFiniteSet(DOMAIN f)
  PROVE  \E h : /\ IsSumOf(DOMAIN f, [s \in DOMAIN f |-> f[s].num], h)
                /\ NumeratorSum(f) = h[DOMAIN f]
<1> DEFINE S == DOMAIN f
           g == [s \in S |-> f[s].num]
           IsIter(j) == j = [s \in SUBSET S |->
                               IF s = {} THEN 0
                               ELSE f[CHOOSE x \in s : TRUE].num
                                      + j[s \ {CHOOSE x \in s : TRUE}]]
           h == CHOOSE j : IsIter(j)
<1>1. NumeratorSum(f) = h[S]
  BY DEF NumeratorSum, MapThenSumSet, MapThenFoldSet
<1>2. \A s \in SUBSET S : s # {} => First(s) \in S /\ g[First(s)] = f[First(s)].num
  BY DEF First
<1>3. ASSUME NEW j PROVE IsIter(j) <=> IsSumOf(S, g, j)
  BY <1>2, Zenon DEF IsSumOf, NextSum, First
<1> HIDE DEF IsIter
<1>4. \E j : IsIter(j)
  BY <1>3, SumsExist
<1>5. IsSumOf(S, g, h)
  BY <1>3, <1>4
<1>6. QED
  BY <1>1, <1>5

\* How far, times both denominators, a frequency is from that of equally frequent
\* symbols.
Gap(f, total, s) == Cardinality(DOMAIN f) * f[s].num - total

\* The sum of the squares of these, as Volatility takes it.
SquareSum(f, total) ==
  MapThenSumSet(LAMBDA s : Gap(f, total, s) * Gap(f, total, s), DOMAIN f)

\* It adds up the squares.
LEMMA SumOfSquares ==
  ASSUME NEW f, IsFiniteSet(DOMAIN f), NEW total
  PROVE  \E h : /\ IsSumOf(DOMAIN f,
                           [s \in DOMAIN f |-> Gap(f, total, s) * Gap(f, total, s)], h)
                /\ SquareSum(f, total) = h[DOMAIN f]
<1> DEFINE S == DOMAIN f
           Square(s) == Gap(f, total, s) * Gap(f, total, s)
           g == [s \in S |-> Square(s)]
           IsIter(j) == j = [s \in SUBSET S |->
                               IF s = {} THEN 0
                               ELSE Square(CHOOSE x \in s : TRUE)
                                      + j[s \ {CHOOSE x \in s : TRUE}]]
           h == CHOOSE j : IsIter(j)
<1>1. SquareSum(f, total) = h[S]
  BY DEF SquareSum, MapThenSumSet, MapThenFoldSet
<1> HIDE DEF Square
<1>2. \A s \in SUBSET S : s # {} => First(s) \in S /\ g[First(s)] = Square(First(s))
  BY DEF First
<1>3. ASSUME NEW j PROVE IsIter(j) <=> IsSumOf(S, g, j)
  BY <1>2, Zenon DEF IsSumOf, NextSum, First
<1> HIDE DEF IsIter
<1>4. \E j : IsIter(j)
  BY <1>3, SumsExist
<1>5. IsSumOf(S, g, h)
  BY <1>3, <1>4
<1>6. QED
  BY <1>1, <1>5 DEF Square

\* The numerators of the frequencies of rows add up to the denominator.
LEMMA NumeratorsAddUp ==
  ASSUME NEW seqs \in Rows, NEW f, f = SymbolFrequencies(seqs)
  PROVE  NumeratorSum(f) = Len(FlattenSeq(seqs))
<1> DEFINE flat == FlattenSeq(seqs)
           n == Len(flat)
           S == DOMAIN f
<1>1. /\ n \in Nat
      /\ IsFiniteSet(S)
      /\ \A i \in 1..n : flat[i] \in S
      /\ \A s \in S : f[s] = [num |-> Occurrences(flat, 1..n, s), den |-> n]
  BY FrequenciesOfRows
<1> HIDE DEF flat, n
<1>2. PICK h : /\ IsSumOf(S, [s \in S |-> f[s].num], h)
               /\ NumeratorSum(f) = h[S]
  BY <1>1, SumOfNumerators
<1> DEFINE g == [s \in S |-> f[s].num]
<1>3. \A s \in S : g[s] = Occurrences(flat, 1..n, s)
  BY <1>1
<1>4. IsSumOf(S, g, h)
  BY <1>2
<1> HIDE DEF g
<1>5. IsFiniteSet(1..n) /\ Cardinality(1..n) = n
  BY <1>1, FS_Interval
<1>6. h[S] = Cardinality({i \in 1..n : flat[i] \in S})
  BY <1>1, <1>3, <1>4, <1>5, SumOfOccurrences
<1>7. {i \in 1..n : flat[i] \in S} = 1..n
  BY <1>1
<1>8. NumeratorSum(f) = n
  BY <1>2, <1>5, <1>6, <1>7
<1>9. QED
  BY <1>8 DEF n, flat

\* Natural numbers are equal if some multiple of them is.
LEMMA Cancel ==
  ASSUME NEW k \in Nat \ {0}, NEW a \in Nat, NEW b \in Nat, k * a = k * b
  PROVE  a = b
<1>1. k * (a - b) = 0
  OBVIOUS
<1>2. QED
  BY <1>1

\* A square is a natural number, and zero only if its root is.
LEMMA Squares ==
  ASSUME NEW a \in Int
  PROVE  a * a \in Nat /\ (a * a = 0 <=> a = 0)
OBVIOUS

\* A product of positive numbers is positive.
LEMMA Products ==
  ASSUME NEW a \in Nat \ {0}, NEW b \in Nat \ {0}
  PROVE  a * b \in Nat \ {0}
<1>1. a * b \in Nat
  OBVIOUS
<1>2. a * b # 0
  OBVIOUS
<1>3. QED
  BY <1>1, <1>2

\* The gaps are all zero exactly if the frequencies are all equal.
LEMMA NoGapsIffEqual ==
  ASSUME NEW f, NEW n \in Nat, IsFiniteSet(DOMAIN f), DOMAIN f # {},
         \A s \in DOMAIN f : f[s].num \in Nat,
         NumeratorSum(f) = n
  PROVE  (\A s \in DOMAIN f : Gap(f, n, s) = 0)
           <=> \A s, t \in DOMAIN f : f[s].num = f[t].num
<1> DEFINE S == DOMAIN f
           k == Cardinality(S)
           g == [s \in S |-> f[s].num]
<1>1. k \in Nat \ {0}
  BY FS_CardinalityType, FS_EmptySet
<1>2. \A s \in S : g[s] = f[s].num /\ f[s].num \in Nat
  OBVIOUS
<1>3. PICK h : IsSumOf(S, g, h) /\ n = h[S]
  BY SumOfNumerators
<1>4. \A s \in S : Gap(f, n, s) = k * f[s].num - n
  BY DEF Gap
<1> HIDE DEF g, k
<1>5. ASSUME \A s \in S : Gap(f, n, s) = 0, NEW s \in S, NEW t \in S
      PROVE  f[s].num = f[t].num
  <2> DEFINE a == f[s].num
             b == f[t].num
  <2>1. a \in Nat /\ b \in Nat /\ k * a - n = 0 /\ k * b - n = 0
    BY <1>2, <1>4, <1>5
  <2> HIDE DEF a, b
  <2>2. k * a \in Int /\ k * b \in Int
    BY <1>1, <2>1
  <2>3. k * a = k * b
    BY <2>1, <2>2
  <2>4. a = b
    BY <1>1, <2>1, <2>3, Cancel
  <2>5. QED
    BY <2>4 DEF a, b
<1>6. ASSUME \A s, t \in S : f[s].num = f[t].num, NEW s \in S
      PROVE  Gap(f, n, s) = 0
  <2> DEFINE c == f[s].num
  <2>1. c \in Int /\ \A t \in S : g[t] = c
    BY <1>2, <1>6
  <2> HIDE DEF c
  <2>2. n = k * c
    BY <1>3, <2>1, SumOfEquals DEF k
  <2>3. Gap(f, n, s) = k * c - n
    BY <1>4 DEF c
  <2>4. QED
    BY <1>1, <2>1, <2>2, <2>3
<1>7. QED
  BY <1>5, <1>6

\* The volatility of the frequencies of rows is zero exactly if all are equal.
LEMMA CalmFrequencies ==
  ASSUME NEW seqs \in Rows
  PROVE  LET f == SymbolFrequencies(seqs)
         IN  Volatility(f).num = 0 <=> \A s, t \in DOMAIN f : f[s] = f[t]
<1> DEFINE flat == FlattenSeq(seqs)
           f == SymbolFrequencies(seqs)
           n == Len(flat)
           S == DOMAIN f
           k == Cardinality(S)
<1>1. /\ n \in Nat
      /\ IsFiniteSet(S)
      /\ S # {} => n > 0
      /\ \A s \in S : f[s].den = n /\ f[s].num \in Nat
      /\ \A s, t \in S : f[s] = f[t] <=> f[s].num = f[t].num
  <2>1. /\ n \in Nat
        /\ IsFiniteSet(S)
        /\ S # {} => n > 0
        /\ \A s \in S : f[s] = [num |-> Occurrences(flat, 1..n, s), den |-> n]
        /\ \A s \in S : Occurrences(flat, 1..n, s) \in Nat
    BY FrequenciesOfRows
  <2> HIDE DEF f, flat, n
  <2>2. QED
    BY <2>1
<1> HIDE DEF f, flat, n
<1>2. NumeratorSum(f) = n
  BY NumeratorsAddUp DEF f, flat, n
<1>3. CASE S = {}
  <2>1. k = 0
    BY <1>3, FS_EmptySet
  <2>2. Volatility(f).num = 0
    BY <2>1 DEF Volatility
  <2>3. QED
    BY <1>3, <2>2 DEF f
<1>4. CASE S # {}
  <2> DEFINE total == (CHOOSE q \in Range(f) : TRUE).den
             sum == SquareSum(f, total)
             unit == k * k * k * total * total
  <2>1. total = n
    <3>1. \E q \in Range(f) : TRUE
      BY <1>4 DEF Range
    <3>2. \A q \in Range(f) : q.den = n
      BY <1>1 DEF Range
    <3>3. QED
      BY <3>1, <3>2
  <2>2. k \in Nat \ {0}
    BY <1>1, <1>4, FS_CardinalityType, FS_EmptySet
  <2>3. Volatility(f).num = Min({100 * sum, unit})
    BY <2>2 DEF Volatility, SquareSum, Gap, MapThenSumSet, MapThenFoldSet
  <2> HIDE DEF total
  <2> DEFINE g == [s \in S |-> Gap(f, total, s) * Gap(f, total, s)]
  <2>4. PICK h : IsSumOf(S, g, h) /\ sum = h[S]
    BY <1>1, SumOfSquares
  <2> HIDE DEF k, sum
  <2>5. unit \in Nat \ {0}
    <3>1. total \in Nat \ {0}
      BY <1>1, <1>4, <2>1
    <3>2. k * k \in Nat \ {0}
      BY <2>2, Products
    <3>3. k * k * k \in Nat \ {0}
      BY <2>2, <3>2, Products
    <3>4. k * k * k * total \in Nat \ {0}
      BY <3>1, <3>3, Products
    <3>5. QED
      BY <3>1, <3>4, Products
  <2>6. \A s \in S : Gap(f, total, s) \in Int
    BY <1>1, <2>1, <2>2 DEF Gap, k
  <2>7. \A s \in S : g[s] \in Nat /\ (g[s] = 0 <=> Gap(f, total, s) = 0)
    BY <2>6, Squares
  <2> HIDE DEF g, unit
  <2>8. sum \in Nat /\ (sum = 0 <=> \A s \in S : g[s] = 0)
    BY <1>1, <2>4, <2>7, SumOfNaturals
  <2>9. Min({100 * sum, unit}) = 0 <=> sum = 0
    <3> DEFINE m == 100 * sum
    <3>1. m \in Nat /\ (m = 0 <=> sum = 0)
      BY <2>8
    <3> HIDE DEF m
    <3>2. Min({m, unit}) = 0 <=> m = 0
      BY <2>5, <3>1, MinMaxOfTwo
    <3>3. QED
      BY <3>1, <3>2 DEF m
  <2>10. Volatility(f).num = 0 <=> \A s \in S : Gap(f, n, s) = 0
    BY <2>1, <2>3, <2>7, <2>8, <2>9
  <2>11. Volatility(f).num = 0 <=> \A s, t \in S : f[s].num = f[t].num
    BY <1>1, <1>2, <1>4, <2>10, NoGapsIffEqual
  <2>12. QED
    BY <1>1, <2>11 DEF f
<1>5. QED
  BY <1>3, <1>4

\* What is stored was extracted from rows of the game.
Extracted ==
  store # None =>
    \E seqs \in Rows :
      /\ store.symbol_map = SymbolFrequencies(seqs)
      /\ store.statistical_profile.volatility = Volatility(SymbolFrequencies(seqs))

LEMMA ExtractedNext == SignatureInv /\ Extracted /\ [Next]_vars => Extracted'
<1> SUFFICES ASSUME SignatureInv, Extracted, [Next]_vars PROVE Extracted'
  OBVIOUS
<1>1. CASE Spin
  BY <1>1 DEF Spin, Extracted
<1>2. CASE Save
  <2> DEFINE f == SymbolFrequencies(rows)
  <2>1. /\ store'.symbol_map = f
        /\ store'.statistical_profile = StatisticalProfile(f, totals.stake, totals.payout)
    BY <1>2 DEF Save
  <2> HIDE DEF f
  <2>2. store'.statistical_profile.volatility = Volatility(f)
    BY <2>1 DEF StatisticalProfile
  <2>3. rows \in Rows
    BY DEF SignatureInv
  <2>4. QED
    BY <2>1, <2>2, <2>3 DEF Extracted, f
<1>3. CASE UNCHANGED vars
  BY <1>3 DEF vars, Extracted
<1>4. QED
  BY <1>1, <1>2, <1>3 DEF Next

(* Whatever rows were recorded, the stored frequencies add up to one, and the
   stored volatility is zero exactly if they are all equal
   (build_statistical_profile). *)
THEOREM CalmIsUniform == Spec => []CalmIffUniform
<1>1. Init => Extracted
  BY DEF Init, Extracted
<1>2. Extracted => CalmIffUniform
  <2> SUFFICES ASSUME Extracted, store # None
               PROVE  CalmIffUniform
    BY DEF CalmIffUniform
  <2>1. PICK seqs \in Rows :
          /\ store.symbol_map = SymbolFrequencies(seqs)
          /\ store.statistical_profile.volatility = Volatility(SymbolFrequencies(seqs))
    BY DEF Extracted
  <2> DEFINE f == store.symbol_map
             n == Len(FlattenSeq(seqs))
  <2>2. f = SymbolFrequencies(seqs)
    BY <2>1
  <2>3. store.statistical_profile.volatility = Volatility(SymbolFrequencies(seqs))
    BY <2>1
  <2> HIDE DEF f, n
  <2>4. NumeratorSum(f) = n
    BY <2>2, NumeratorsAddUp DEF n
  <2>5. \A s \in DOMAIN f : f[s].den = n
    BY <2>2, FrequenciesOfRows DEF n
  <2>6. Volatility(SymbolFrequencies(seqs)).num = 0 <=> \A s, t \in DOMAIN f : f[s] = f[t]
    BY <2>2, CalmFrequencies
  <2>7. store.statistical_profile.volatility.num = 0
          <=> \A s, t \in DOMAIN f : f[s] = f[t]
    BY <2>3, <2>6
  <2>8. \A s \in DOMAIN f : f[s].den = NumeratorSum(f)
    BY <2>4, <2>5
  <2>9. QED
    BY <2>7, <2>8 DEF CalmIffUniform, NumeratorSum, f
<1>3. QED
  BY SignatureInit, SignatureNext, ExtractedNext, <1>1, <1>2, PTL DEF Spec
=============================================================================
