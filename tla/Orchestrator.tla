---------------------------- MODULE Orchestrator ----------------------------
(***************************************************************************)
(* The feature-run pipeline of crates/api/src/orchestrator.rs: one row of  *)
(* feature_runs, its role_handoffs, and any number of record_handoff       *)
(* handlers in flight.  No handler opens a transaction, so each SQL        *)
(* statement is a step of its own and others run in between.  A handler    *)
(* may stop after any statement (its connection goes away, or the next     *)
(* statement fails): Abort.                                                *)
(***************************************************************************)
EXTENDS Integers, Sequences, FiniteSets

CONSTANTS
  Clients,      \* callers of the API; each has at most one request in flight
  Editors,      \* the callers with Edit reach on the run's Case
  Admins,       \* the platform admins
  Gates,        \* the gate names callers put into a handoff
  MaxHops,      \* MAX_HOPS
  MaxRetries,   \* MAX_RETRIES_PER_GATE
  MaxAborts     \* bound: handlers cut off between their INSERT and their UPDATE

ASSUME ClientsAssumption == Editors \subseteq Clients /\ Admins \subseteq Clients
ASSUME CapsAssumption == MaxHops \in Nat \ {0} /\ MaxRetries \in Nat \ {0}
ASSUME GatesAssumption == Gates # {}
ASSUME AbortsAssumption == MaxAborts \in Nat

VARIABLES
  run,          \* the feature_runs row; status "absent" before start_run
  handoffs,     \* its role_handoffs rows, in insertion order
  handler,      \* per client, the locals of its record_handoff call
  caseAlive,    \* the run's Case still exists
  aborts        \* how many handlers were cut off there so far

vars == <<run, handoffs, handler, caseAlive, aborts>>

Phases == {"spec", "test", "code", "review", "ops"}
Roles == {"architect", "tester", "coder", "reviewer", "ops"}
Outcomes == {"pass", "fail", "test-drift", "escalate"}
Closed == {"landed", "escalated"}

role_for_phase == [spec |-> "architect", test |-> "tester", code |-> "coder",
                   review |-> "reviewer", ops |-> "ops"]

next_phase == [spec |-> "test", test |-> "code", code |-> "review", review |-> "ops"]

Run == [status : {"absent", "active"} \cup Closed, phase : Phases, linked : BOOLEAN]

Handoff == [role : Roles, gate : Gates, outcome : Outcomes, retries : Nat, hops : Nat]

(* The locals of a handler: the phase it read, its input, and its counts. *)
Handler == [pc : {"idle", "hops", "fails", "insert", "update"},
            phase : Phases, gate : Gates, outcome : Outcomes, retries : Nat, hops : Nat]

(* A finished handler keeps no locals: any fixed record stands for them. *)
NoGate == CHOOSE g \in Gates : TRUE
Idle == [pc |-> "idle", phase |-> "spec", gate |-> NoGate, outcome |-> "pass",
         retries |-> 0, hops |-> 0]

InFlight(c) == handler[c].pc # "idle"

-----------------------------------------------------------------------------
(* The decision of record_handoff, a function of what the handler has read. *)

(* The handoff closes the run whatever the hop count. *)
NewStatusOfOutcome(d) ==
  CASE d.outcome = "escalate" -> "escalated"
    [] d.outcome = "pass" /\ d.phase = "ops" -> "landed"
    [] d.outcome = "fail" /\ d.retries >= MaxRetries -> "escalated"
    [] OTHER -> "active"

(* Mutants of the hop cap: one handoff too early, one too late. *)
new_status_Early(d) ==
  IF NewStatusOfOutcome(d) = "active" /\ d.hops + 1 >= MaxHops
  THEN "escalated" ELSE NewStatusOfOutcome(d)

new_status_Late(d) ==
  IF NewStatusOfOutcome(d) = "active" /\ d.hops > MaxHops
  THEN "escalated" ELSE NewStatusOfOutcome(d)

(* The hop cap is independent of the outcome. *)
new_status(d) ==
  IF NewStatusOfOutcome(d) = "active" /\ d.hops >= MaxHops
  THEN "escalated" ELSE NewStatusOfOutcome(d)

(* Mutant: a fail moves on to the review instead of back to the code. *)
new_phase_FailForward(d) ==
  CASE d.outcome = "pass" /\ d.phase # "ops" -> next_phase[d.phase]
    [] d.outcome = "fail" /\ d.retries < MaxRetries -> "review"
    [] d.outcome = "test-drift" -> "test"
    [] OTHER -> d.phase

new_phase(d) ==
  CASE d.outcome = "pass" /\ d.phase # "ops" -> next_phase[d.phase]
    [] d.outcome = "fail" /\ d.retries < MaxRetries -> "code"
    [] d.outcome = "test-drift" -> "test"
    [] OTHER -> d.phase

(* What the second SELECT of the circuit breaker counts. *)
FailsAt(hs, g) == {i \in DOMAIN hs : hs[i].gate = g /\ hs[i].outcome = "fail"}
FailCount(hs, g) == Cardinality(FailsAt(hs, g))

-----------------------------------------------------------------------------
Init ==
  /\ run = [status |-> "absent", phase |-> "spec", linked |-> FALSE]
  /\ handoffs = <<>>
  /\ handler = [c \in Clients |-> Idle]
  /\ caseAlive = TRUE
  /\ aborts = 0

(* Edit reach on the Case, which must exist. *)
reach_action(c) == caseAlive /\ c \in Editors \cup Admins

(* require_run_authority: Edit reach on a Case that exists, or, for a run   *)
(* without a Case, a platform admin.                                        *)
Authorised(c, linked) ==
  IF linked THEN reach_action(c) ELSE c \in Admins

(* start_run: one INSERT; a bad case_id is refused by the foreign key. *)
StartRun(c, linked) ==
  /\ run.status = "absent"
  /\ Authorised(c, linked)
  /\ run' = [status |-> "active", phase |-> "spec", linked |-> linked]
  /\ UNCHANGED <<handoffs, handler, caseAlive, aborts>>

(* record_handoff reads the run and answers 404/422 unless the caller has   *)
(* authority, the run is active and the role owns the phase.                *)
BeginHandoff(c, role, gate, outcome) ==
  /\ ~InFlight(c)
  /\ run.status = "active"
  /\ Authorised(c, run.linked)
  /\ role = role_for_phase[run.phase]
  /\ handler' = [handler EXCEPT ![c] = [Idle EXCEPT !.pc = "hops", !.phase = run.phase,
                                                    !.gate = gate, !.outcome = outcome]]
  /\ UNCHANGED <<run, handoffs, caseAlive, aborts>>

(* Mutant: the run is updated without its handoff. *)
CountHops_NoInsert(c) ==
  /\ handler[c].pc = "hops"
  /\ handler' = [handler EXCEPT
       ![c].hops = Len(handoffs) + 1,
       ![c].pc = IF handler[c].outcome = "fail" THEN "fails" ELSE "update"]
  /\ UNCHANGED <<run, handoffs, caseAlive, aborts>>

(* this_hop is the row count plus one; only a fail counts its gate's fails. *)
CountHops(c) ==
  /\ handler[c].pc = "hops"
  /\ handler' = [handler EXCEPT
       ![c].hops = Len(handoffs) + 1,
       ![c].pc = IF handler[c].outcome = "fail" THEN "fails" ELSE "insert"]
  /\ UNCHANGED <<run, handoffs, caseAlive, aborts>>

CountFails(c) ==
  /\ handler[c].pc = "fails"
  /\ handler' = [handler EXCEPT ![c].retries = FailCount(handoffs, handler[c].gate) + 1,
                                ![c].pc = "insert"]
  /\ UNCHANGED <<run, handoffs, caseAlive, aborts>>

(* Mutant: the phase lands in the role column. *)
Entry_PhaseAsRole(d) == [role |-> d.phase, gate |-> d.gate, outcome |-> d.outcome,
                         retries |-> d.retries, hops |-> d.hops]

(* The row a handler inserts; its kind and attempt columns follow from these. *)
Entry(d) == [role |-> role_for_phase[d.phase], gate |-> d.gate, outcome |-> d.outcome,
             retries |-> d.retries, hops |-> d.hops]

InsertHandoff(c) ==
  /\ handler[c].pc = "insert"
  /\ handoffs' = Append(handoffs, Entry(handler[c]))
  /\ handler' = [handler EXCEPT ![c].pc = "update"]
  /\ UNCHANGED <<run, caseAlive, aborts>>

(* UPDATE feature_runs ... WHERE id: unconditional, whatever the row holds. *)
(* What follows writes the audit table and reads the answer: not modelled.  *)
UpdateRun(c) ==
  /\ handler[c].pc = "update"
  /\ run' = [run EXCEPT !.phase = new_phase(handler[c]), !.status = new_status(handler[c])]
  /\ handler' = [handler EXCEPT ![c] = Idle]
  /\ UNCHANGED <<handoffs, caseAlive, aborts>>

(* The handler is dropped, or its next statement fails: it ends here.  Only *)
(* between its INSERT and its UPDATE does that leave a trace.               *)
Abort(c) ==
  /\ InFlight(c)
  /\ \/ handler[c].pc # "update" /\ aborts' = aborts
     \/ handler[c].pc = "update" /\ aborts < MaxAborts /\ aborts' = aborts + 1
  /\ handler' = [handler EXCEPT ![c] = Idle]
  /\ UNCHANGED <<run, handoffs, caseAlive>>

(* Deleting the Case sets feature_runs.case_id to null. *)
DeleteCase ==
  /\ caseAlive
  /\ caseAlive' = FALSE
  /\ run' = [run EXCEPT !.linked = FALSE]
  /\ UNCHANGED <<handoffs, handler, aborts>>

HandlerStep(c) ==
  CountHops(c) \/ CountFails(c) \/ InsertHandoff(c) \/ UpdateRun(c)

Next ==
  \/ \E c \in Clients :
       \/ \E linked \in BOOLEAN : StartRun(c, linked)
       \/ \E role \in Roles, gate \in Gates, outcome \in Outcomes :
            BeginHandoff(c, role, gate, outcome)
       \/ HandlerStep(c)
       \/ Abort(c)
  \/ DeleteCase

Spec == Init /\ [][Next]_vars

(* Every statement of a handler that is not cut off is executed in the end. *)
FairSpec == Spec /\ \A c \in Clients : WF_vars(HandlerStep(c))

-----------------------------------------------------------------------------
(* The run row, its handoffs and the locals of the handlers have their types. *)
TypeOK ==
  /\ run \in Run
  /\ handoffs \in Seq(Handoff)
  /\ handler \in [Clients -> Handler]
  /\ caseAlive \in BOOLEAN
  /\ aborts \in 0..MaxAborts

(* Handoff number i was preceded by a pass of that role. *)
PassedBefore(role, i) ==
  \E j \in 1..(i - 1) : handoffs[j].role = role /\ handoffs[j].outcome = "pass"

(* "The chain order is enforced, not hoped": however handlers interleave    *)
(* and wherever they are cut off, no reviewer handoff is recorded before a  *)
(* coder passed, no ops handoff before a reviewer passed, and a run that    *)
(* lands has an ops pass in its history.                                    *)
ChainOrder ==
  /\ \A i \in DOMAIN handoffs :
       /\ handoffs[i].role = "reviewer" => PassedBefore("coder", i)
       /\ handoffs[i].role = "ops" => PassedBefore("reviewer", i)
  /\ run.status = "landed" => PassedBefore("ops", Len(handoffs) + 1)

(* The phase the handler of a recorded handoff had read. *)
PhaseOfRole == [architect |-> "spec", tester |-> "test", coder |-> "code",
                reviewer |-> "review", ops |-> "ops"]
AsRead(e) == [phase |-> PhaseOfRole[e.role], outcome |-> e.outcome,
              retries |-> e.retries, hops |-> e.hops]

(* The run row is the start state or the decision of one recorded handoff:  *)
(* the history explains every phase and every closing, because the handoff  *)
(* is inserted before the run is updated.                                   *)
RunJustified ==
  \/ run.status = "absent"
  \/ run.status = "active" /\ run.phase = "spec"
  \/ \E i \in DOMAIN handoffs : LET d == AsRead(handoffs[i]) IN
       run.phase = new_phase(d) /\ run.status = new_status(d)

(* The breaker never trips early: an escalated run has an explicit escalate *)
(* handoff, MaxHops handoffs, or MaxRetries fails of one gate on record.    *)
NoPrematureEscalation ==
  run.status = "escalated" =>
    \/ \E i \in DOMAIN handoffs : handoffs[i].outcome = "escalate"
    \/ Len(handoffs) >= MaxHops
    \/ \E g \in Gates : FailCount(handoffs, g) >= MaxRetries

(* The circuit breaker of one handler at a time: never more than MaxHops    *)
(* handoffs, never more than MaxRetries fails of a gate, and an open run    *)
(* that nobody is moving is strictly below both caps.                       *)
Breaker ==
  /\ Len(handoffs) <= MaxHops
  /\ \A g \in Gates : FailCount(handoffs, g) <= MaxRetries
  /\ run.status = "active" /\ (\A c \in Clients : ~InFlight(c)) =>
       /\ Len(handoffs) < MaxHops
       /\ \A g \in Gates : FailCount(handoffs, g) < MaxRetries

(* "A closed run refuses further handoffs": once landed or escalated, the   *)
(* run keeps its phase and its status.                                      *)
ClosedIsFinal ==
  [][run.status \in Closed => run'.status = run.status /\ run'.phase = run.phase]_run

(* A handoff that is recorded but not yet applied to the run row. *)
Applied ==
  IF \E c \in Clients : handler[c].pc = "update"
  THEN SubSeq(handoffs, 1, Len(handoffs) - 1) ELSE handoffs

FR == INSTANCE FeatureRun WITH
  phase <- run.phase, status <- run.status, hops <- Len(Applied),
  fails <- [g \in Gates |-> FailCount(Applied, g)]

(* One handler at a time implements the atomic pipeline of FeatureRun. *)
ImplementsFeatureRun == FR!Spec

(* A run that has used up its hops is closed in the end. *)
CapClosesRun == Len(handoffs) >= MaxHops ~> run.status \in Closed
=============================================================================
