--------------------------- MODULE MCApprovalGate ---------------------------
(* Small instances of ApprovalGate for TLC.  Threads and fingerprints are  *)
(* interchangeable, so safety is checked up to their permutation.          *)
EXTENDS ApprovalGate, TLC

Symmetry == Permutations(Proc) \union Permutations(Fingerprint)
=============================================================================
