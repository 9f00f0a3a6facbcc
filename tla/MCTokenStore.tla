----------------------------- MODULE MCTokenStore -----------------------------
(* Small instances of TokenStore for TLC.                                   *)
EXTENDS TokenStore, TLC

Symmetry == Permutations(Process)
=============================================================================
