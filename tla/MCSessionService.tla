-------------------------- MODULE MCSessionService --------------------------
(***************************************************************************)
(* Instances of SessionService for TLC: the sets are given in the .cfg     *)
(* files; requests and sessions are interchangeable.                       *)
(***************************************************************************)
EXTENDS SessionService, TLC

Symmetry == Permutations(Request) \cup Permutations(Session)
=============================================================================
