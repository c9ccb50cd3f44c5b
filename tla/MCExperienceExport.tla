-------------------------- MODULE MCExperienceExport --------------------------
(***************************************************************************)
(* Instances of ExperienceExport for TLC: inserts and sessions are         *)
(* interchangeable.                                                        *)
(***************************************************************************)
EXTENDS ExperienceExport, TLC

Symmetry == Permutations(Writer) \cup Permutations(Session)
=============================================================================
