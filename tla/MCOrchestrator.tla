-------------------------- MODULE MCOrchestrator --------------------------
(* Orchestrator with its startup run and two overlapping discovery runs.   *)
EXTENDS Orchestrator

CONSTANTS a1, d1, d2
=============================================================================
