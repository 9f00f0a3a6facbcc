----------------------------- MODULE MCScheduler -----------------------------
(* Small instances of Scheduler for TLC.  One thread both runs pending     *)
(* tasks and controls the worker, as main.py does.                         *)
EXTENDS Scheduler
=============================================================================
