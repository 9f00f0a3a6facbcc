----------------------------- MODULE MCEventBus -----------------------------
(* Small instances of EventLog for TLC.  Threads are interchangeable.      *)
EXTENDS EventLog, TLC

Symmetry == Permutations(Thread)
=============================================================================
