----------------------------- MODULE FeatureRun -----------------------------
(***************************************************************************)
(* What the feature pipeline promises about one run, free of the HTTP      *)
(* handler and of the database: a run walks the five phases, every handoff *)
(* is one atomic step, and the circuit breaker closes the run at the       *)
(* MaxRetries-th fail of a gate or at the MaxHops-th handoff.  A closed    *)
(* run never moves again.                                                  *)
(***************************************************************************)
EXTENDS Integers

CONSTANTS Gates, MaxHops, MaxRetries

VARIABLES phase, status, hops, fails

vars == <<phase, status, hops, fails>>

(* The pipeline, in order: PHASES of orchestrator.rs. *)
Phases == {"spec", "test", "code", "review", "ops"}

NextPhase == [spec |-> "test", test |-> "code", code |-> "review", review |-> "ops"]

Init ==
  /\ phase = "spec"
  /\ status = "absent"
  /\ hops = 0
  /\ fails = [g \in Gates |-> 0]

Start ==
  /\ status = "absent"
  /\ status' = "active"
  /\ UNCHANGED <<phase, hops, fails>>

(* A handoff that leaves the run open does so only below the hop cap. *)
StaysOpen == status' = IF hops + 1 >= MaxHops THEN "escalated" ELSE "active"

Hop == status = "active" /\ hops' = hops + 1

Pass ==
  /\ Hop
  /\ \/ phase = "ops" /\ status' = "landed" /\ phase' = phase
     \/ phase # "ops" /\ StaysOpen /\ phase' = NextPhase[phase]
  /\ fails' = fails

Fail(g) ==
  /\ Hop
  /\ fails' = [fails EXCEPT ![g] = @ + 1]
  /\ \/ fails[g] + 1 >= MaxRetries /\ status' = "escalated" /\ phase' = phase
     \/ fails[g] + 1 < MaxRetries /\ StaysOpen /\ phase' = "code"

TestDrift == Hop /\ StaysOpen /\ phase' = "test" /\ fails' = fails

Escalate == Hop /\ status' = "escalated" /\ UNCHANGED <<phase, fails>>

Next ==
  \/ Start \/ Pass \/ TestDrift \/ Escalate
  \/ \E g \in Gates : Fail(g)

Spec == Init /\ [][Next]_vars
=============================================================================
