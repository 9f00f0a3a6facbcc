------------------------ MODULE MCTaskOrchestrator ------------------------
(* Small instances of the orchestrator for TLC, with and without the       *)
(* approval gate; the .cfg files bound the number of tasks, attempts and   *)
(* runs.                                                                   *)
EXTENDS OrchestratedApproval
=============================================================================
