--------------------------- MODULE MCOrchestrator ---------------------------
(* Instances of Orchestrator for TLC. *)
EXTENDS Orchestrator, TLC

CONSTANT MaxRecorded   \* bound: histories longer than this are not extended

ClientSymmetry == Permutations(Clients)

(* A handoff that is no pass counts twice: the bound admits the five passes *)
(* that land a run, and detours in shorter histories.                       *)
Detours == {i \in DOMAIN handoffs : handoffs[i].outcome # "pass"}

ShortHistory == Len(handoffs) + Cardinality(Detours) <= MaxRecorded
=============================================================================
