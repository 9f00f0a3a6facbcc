--------------------------- MODULE MCOwnerConsole ---------------------------
(* Small instances of OwnerConsole for TLC.                                 *)
EXTENDS OwnerConsole, TLC

Symmetry == Permutations(Console) \union Permutations(Approval)
=============================================================================
