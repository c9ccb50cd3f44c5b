---------------------------- MODULE MCWalletStore ----------------------------
(***************************************************************************)
(* Instances of WalletStore for TLC.                                       *)
(***************************************************************************)
EXTENDS WalletStore, TLC

EitherSign == {-1, 0, 1, 2}

Symmetry == Permutations(Wallet)
=============================================================================
