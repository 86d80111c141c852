--------------------------- MODULE MCOrchestrator ---------------------------
(***************************************************************************)
(* A small instance of Orchestrator: two pipelines at once, breakers that  *)
(* open after two failures, and the list of a single machine, where the    *)
(* first and the last URL of Layer 3 are localhost's.                      *)
(***************************************************************************)
EXTENDS Orchestrator

CONSTANTS local, remote

MCOrder == <<local, remote, local>>
=============================================================================
