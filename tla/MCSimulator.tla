------------------------------ MODULE MCSimulator ------------------------------
(***************************************************************************)
(* An instance of Simulator for TLC: rows of different lengths, an empty   *)
(* one among them.                                                         *)
(***************************************************************************)
EXTENDS Simulator

CONSTANTS A, B

SomeRows == {<<>>, <<A>>, <<A, B>>, <<B, B>>}
=============================================================================
