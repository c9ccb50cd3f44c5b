--------------------------- MODULE MCOrchestrator ---------------------------
(***************************************************************************)
(* Instances of Orchestrator for TLC: the constants are given in the .cfg  *)
(* files.                                                                  *)
(***************************************************************************)
EXTENDS Orchestrator
=============================================================================
