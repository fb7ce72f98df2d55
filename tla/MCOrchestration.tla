-------------------------- MODULE MCOrchestration --------------------------
(* The instances of Orchestration that TLC checks.                         *)
EXTENDS Orchestration
=============================================================================
