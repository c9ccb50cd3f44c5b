---------------------------- MODULE MCRateLimiter ----------------------------
(***************************************************************************)
(* Instances of RateLimiter for TLC: the sets are given in the .cfg files; *)
(* clients and keys are interchangeable.                                   *)
(***************************************************************************)
EXTENDS RateLimiter, TLC

Symmetry == Permutations(Client) \cup Permutations(Key)
=============================================================================
