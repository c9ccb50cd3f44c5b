----------------------------- MODULE Fingerprint -----------------------------
(***************************************************************************)
(* The extraction of a game fingerprint of                                 *)
(* controller/src/fingerprinter/extraction.rs, as operators over the rows  *)
(* of symbols of a game's spins.  Ratios are kept as fractions.            *)
(***************************************************************************)
EXTENDS Integers, SequencesExt

SymbolCounts(rows) ==
  LET flat == FlattenSeq(rows)
  IN  [s \in ToSet(flat) |-> Cardinality({i \in DOMAIN flat : flat[i] = s})]

\* extract_symbol_frequencies: the share of each symbol among all that showed.
SymbolFrequencies(rows) ==
  LET counts == SymbolCounts(rows)
  IN  [s \in DOMAIN counts |-> [num |-> counts[s], den |-> Len(FlattenSeq(rows))]]

\* Mutant: the symbols that came last.
SignatureOfLast(rows, max_symbols) ==
  LET flat == FlattenSeq(rows)
      from == Len(flat) - Min({max_symbols, Len(flat)})
  IN  SubSeq(flat, from + 1, Len(flat))

\* rng_signature_digest: the first symbols, row ends forgotten.  The hash of
\* them stands for them here.
Signature(rows, max_symbols) ==
  LET flat == FlattenSeq(rows)
  IN  SubSeq(flat, 1, Min({max_symbols, Len(flat)}))

\* total_payout / total_stake within [0, 10], and 0 if nothing was staked.
RtpRatio(total_stake, total_payout) ==
  IF total_stake > 0
  THEN [num |-> Min({Max({total_payout, 0}), 10 * total_stake}), den |-> total_stake]
  ELSE [num |-> 0, den |-> 1]

\* Mutant: deviations of counts from one take the place of frequencies.
VolatilityOfCounts(frequencies) ==
  LET kinds == Cardinality(DOMAIN frequencies)
      gap(s) == frequencies[s].num - 1
      sum   == MapThenSumSet(LAMBDA s : gap(s) * gap(s), DOMAIN frequencies)
  IN  IF kinds = 0 THEN [num |-> 0, den |-> 1]
      ELSE [num |-> sum, den |-> kinds]

\* The square of the volatility: the standard deviation of the frequencies from
\* 1 / kinds, ten times and at most 1.
Volatility(frequencies) ==
  LET kinds == Cardinality(DOMAIN frequencies)
      total == (CHOOSE f \in Range(frequencies) : TRUE).den
      gap(s) == kinds * frequencies[s].num - total
      sum   == 100 * MapThenSumSet(LAMBDA s : gap(s) * gap(s), DOMAIN frequencies)
      unit  == kinds * kinds * kinds * total * total
  IN  IF kinds = 0 THEN [num |-> 0, den |-> 1]
      ELSE [num |-> Min({sum, unit}), den |-> unit]

\* build_statistical_profile
StatisticalProfile(frequencies, total_stake, total_payout) ==
  [rtp_ratio  |-> RtpRatio(total_stake, total_payout),
   volatility |-> Volatility(frequencies)]
=============================================================================
