------------------------------- MODULE Simulator -------------------------------
(***************************************************************************)
(* A simulated player and the fingerprint of the game it plays: the stakes *)
(* of controller/src/simulator_human_proxy/mod.rs, and the extraction and  *)
(* the store of controller/src/fingerprinter.  Nothing in the repository   *)
(* but their tests calls them yet; the driver here calls them the way      *)
(* their docs describe: spin after spin, and a fingerprint now and then of *)
(* all the rows recorded so far.                                           *)
(***************************************************************************)
EXTENDS Fingerprint

CONSTANTS
  None,        \* no value
  Symbol,      \* the symbols of the game
  Row,         \* the rows of symbols a spin may show
  Samples,     \* random samples, in hundredths
  MaxSymbols,  \* max_symbols of rng_signature_digest
  MaxRows,     \* bound: rows recorded
  MaxSpins     \* bound: spins of a session

ASSUME SimulatorAssumption ==
  /\ Row \subseteq Seq(Symbol)
  /\ Samples \subseteq 0..100
  /\ {MaxSymbols, MaxRows, MaxSpins} \subseteq Nat

VARIABLES
  profile,   \* the BehaviourProfile of the player
  spins,     \* spin_count
  stake,     \* the last stake, in thousandths of a dollar
  rows,      \* the rows recorded
  totals,    \* total_stake and total_payout of these
  store      \* the FingerprintStore's entry for the game

vars == <<profile, spins, stake, rows, totals, store>>

BehaviourProfile == {"Conservative", "Aggressive", "MixedAdaptive"}

Init ==
  /\ profile \in BehaviourProfile
  /\ spins = 0
  /\ stake = None
  /\ rows = <<>>
  /\ totals = [stake |-> 0, payout |-> 0]
  /\ store = None

-----------------------------------------------------------------------------
(* simulator_human_proxy *)

ConservativeStake(r) == Max({500 + 2 * r, 10})

\* Mutant: tiers are counted within the aggressive phase.
AggressiveStakeOfPhase(spin_count, r) ==
  Min({5000 + ((spin_count % 20) \div 10) * 2500 + 50 * r, 100000})

AggressiveStake(spin_count, r) ==
  Min({5000 + (spin_count \div 10) * 2500 + 50 * r, 100000})

\* next_stake: a mixed player changes its strategy every 20 spins.
NextStake(p, spin_count, r) ==
  IF \/ p = "Conservative"
     \/ p = "MixedAdaptive" /\ (spin_count \div 20) % 2 = 0
  THEN ConservativeStake(r)
  ELSE AggressiveStake(spin_count, r)

-----------------------------------------------------------------------------
(* The driver *)

\* A spin: the player stakes, the game shows a row and pays its length.  The
\* first rows are recorded.
Spin ==
  /\ spins < MaxSpins
  /\ \E r \in Samples : stake' = NextStake(profile, spins, r)
  /\ spins' = spins + 1
  /\ IF Len(rows) < MaxRows
     THEN \E row \in Row :
            /\ rows' = Append(rows, row)
            /\ totals' = [stake |-> totals.stake + stake',
                          payout |-> totals.payout + 1000 * Len(row)]
     ELSE UNCHANGED <<rows, totals>>
  /\ UNCHANGED <<profile, store>>

\* The fingerprint of the rows so far replaces the one in the store.
Save ==
  /\ store' = LET frequencies == SymbolFrequencies(rows)
              IN  [rng_signature       |-> Signature(rows, MaxSymbols),
                   symbol_map          |-> frequencies,
                   statistical_profile |->
                     StatisticalProfile(frequencies, totals.stake, totals.payout)]
  /\ UNCHANGED <<profile, spins, stake, rows, totals>>

Next == Spin \/ Save

Spec == Init /\ [][Next]_vars

-----------------------------------------------------------------------------
(* Properties *)

(* A mixed player's stakes leave a gap of more than nine dollars: the tiers of
   its aggressive phases count the spins of the cautious ones as well, so it
   never stakes what an aggressive player begins with. *)
MixedStakesJump ==
  profile = "MixedAdaptive" /\ stake # None => stake <= 700 \/ stake >= 10000

(* Once a fingerprint was taken of max_symbols symbols, all later ones of the
   game have the same signature, wherever the rows were cut. *)
SignatureSettles ==
  [][/\ store # None
     /\ Len(store.rng_signature) = MaxSymbols
     => store'.rng_signature = store.rng_signature]_vars

(* A stored profile is without volatility exactly if all symbols seen were
   equally frequent, a single one included; the frequencies add up to one. *)
CalmIffUniform ==
  store # None =>
    LET f == store.symbol_map
    IN  /\ store.statistical_profile.volatility.num = 0 <=>
             \A s, t \in DOMAIN f : f[s] = f[t]
        /\ \A s \in DOMAIN f :
             f[s].den = MapThenSumSet(LAMBDA t : f[t].num, DOMAIN f)
=============================================================================
