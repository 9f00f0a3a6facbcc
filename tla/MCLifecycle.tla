----------------------------- MODULE MCLifecycle -----------------------------
(* Small instances of Lifecycle for TLC. The other services are            *)
(* interchangeable.                                                        *)
EXTENDS Lifecycle, TLC

Symmetry == Permutations(Service \ {Rest})
=============================================================================
