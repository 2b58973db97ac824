------------------------- MODULE OrchestratorProofs -------------------------
(***************************************************************************)
(* Proofs about Orchestrator for every set of clients, every pair of caps  *)
(* and any number of cut-off handlers.                                     *)
(***************************************************************************)
EXTENDS Orchestrator, FiniteSetTheorems, TLAPS

(* What a handler inserts is a role_handoffs row. *)
LEMMA EntryType ==
  ASSUME NEW d \in Handler
  PROVE  Entry(d) \in Handoff
BY DEF Entry, Handler, Handoff, role_for_phase, Phases, Roles, Outcomes

(* A finished handler is well typed. *)
LEMMA IdleType == Idle \in Handler
<1>1. NoGate \in Gates
  BY GatesAssumption DEF NoGate
<1> QED
  BY <1>1 DEF Idle, Handler, Phases, Outcomes

(* A handler's decision is a legal phase and status of a started run. *)
LEMMA DecisionType ==
  ASSUME NEW d \in Handler
  PROVE  /\ new_phase(d) \in Phases
         /\ new_status(d) \in {"active"} \cup Closed
<1>1. new_phase(d) \in Phases
  BY DEF new_phase, next_phase, Handler, Phases
<1>2. new_status(d) \in {"active"} \cup Closed
  BY DEF new_status, NewStatusOfOutcome, Closed
<1> QED
  BY <1>1, <1>2

(* A gate's fails are counted by a natural number ... *)
LEMMA FailCountType ==
  ASSUME NEW hs \in Seq(Handoff), NEW g
  PROVE  IsFiniteSet(FailsAt(hs, g)) /\ FailCount(hs, g) \in Nat
<1>1. IsFiniteSet(1..Len(hs))
  BY FS_Interval
<1>2. FailsAt(hs, g) \subseteq 1..Len(hs)
  BY DEF FailsAt
<1> QED
  BY <1>1, <1>2, FS_Subset, FS_CardinalityType DEF FailCount

(* ... which one more row raises by one or leaves alone. *)
LEMMA FailCountAppend ==
  ASSUME NEW hs \in Seq(Handoff), NEW e \in Handoff, NEW g
  PROVE  FailCount(Append(hs, e), g) =
           IF e.gate = g /\ e.outcome = "fail"
           THEN FailCount(hs, g) + 1 ELSE FailCount(hs, g)
<1> DEFINE n == Len(hs) + 1
<1>a. IsFiniteSet(FailsAt(hs, g))
  BY FailCountType
<1>b. n \notin FailsAt(hs, g)
  BY DEF FailsAt
<1>1. IsFiniteSet(FailsAt(hs, g)) /\ n \notin FailsAt(hs, g)
  BY <1>a, <1>b
<1>2. CASE e.gate = g /\ e.outcome = "fail"
  <2>1. FailsAt(Append(hs, e), g) = FailsAt(hs, g) \cup {n}
    BY <1>2 DEF FailsAt
  <2>2. Cardinality(FailsAt(hs, g) \cup {n}) = Cardinality(FailsAt(hs, g)) + 1
    BY <1>1, FS_AddElement
  <2> QED
    BY <1>2, <2>1, <2>2 DEF FailCount
<1>3. CASE ~(e.gate = g /\ e.outcome = "fail")
  <2>1. FailsAt(Append(hs, e), g) = FailsAt(hs, g)
    BY <1>3 DEF FailsAt
  <2> QED
    BY <1>3, <2>1 DEF FailCount
<1> QED
  BY <1>2, <1>3

(* Types hold before the run is started. *)
LEMMA TypeInit == Init => TypeOK
BY IdleType, AbortsAssumption DEF Init, TypeOK, Run, Phases

(* Every step of every handler keeps the types. *)
LEMMA TypeStep == TypeOK /\ [Next]_vars => TypeOK'
<1> SUFFICES ASSUME TypeOK, [Next]_vars PROVE TypeOK'
  OBVIOUS
<1>1. CASE UNCHANGED vars
  BY <1>1 DEF TypeOK, vars
<1>2. ASSUME NEW c \in Clients, NEW linked \in BOOLEAN, StartRun(c, linked)
      PROVE TypeOK'
  BY <1>2 DEF TypeOK, StartRun, Run, Phases
<1>3. ASSUME NEW c \in Clients, NEW role \in Roles, NEW gate \in Gates,
             NEW outcome \in Outcomes, BeginHandoff(c, role, gate, outcome)
      PROVE TypeOK'
  BY <1>3, IdleType DEF TypeOK, BeginHandoff, Run, Handler
<1>4. ASSUME NEW c \in Clients, CountHops(c)
      PROVE TypeOK'
  BY <1>4 DEF TypeOK, CountHops, Handler
<1>5. ASSUME NEW c \in Clients, CountFails(c)
      PROVE TypeOK'
  <2>1. FailCount(handoffs, handler[c].gate) \in Nat
    BY FailCountType DEF TypeOK
  <2> QED
    BY <1>5, <2>1 DEF TypeOK, CountFails, Handler
<1>6. ASSUME NEW c \in Clients, InsertHandoff(c)
      PROVE TypeOK'
  <2>1. Entry(handler[c]) \in Handoff
    BY EntryType DEF TypeOK
  <2>2. handoffs' \in Seq(Handoff)
    BY <1>6, <2>1 DEF TypeOK, InsertHandoff
  <2>3. handler' \in [Clients -> Handler]
    BY <1>6 DEF TypeOK, InsertHandoff, Handler
  <2> QED
    BY <1>6, <2>2, <2>3 DEF TypeOK, InsertHandoff
<1>7. ASSUME NEW c \in Clients, UpdateRun(c)
      PROVE TypeOK'
  BY <1>7, IdleType, DecisionType DEF TypeOK, UpdateRun, Run
<1>8. ASSUME NEW c \in Clients, Abort(c)
      PROVE TypeOK'
  BY <1>8, IdleType, AbortsAssumption DEF TypeOK, Abort
<1>9. CASE DeleteCase
  BY <1>9 DEF TypeOK, DeleteCase, Run
<1> QED
  BY <1>1, <1>2, <1>3, <1>4, <1>5, <1>6, <1>7, <1>8, <1>9 DEF Next, HandlerStep

(* The rows, the locals and the flags keep their types in every step. *)
THEOREM TypeCorrect == Spec => []TypeOK
BY TypeInit, TypeStep, PTL DEF Spec

-----------------------------------------------------------------------------
(***************************************************************************)
(* The history explains the run: the inductive invariant behind ChainOrder,*)
(* RunJustified and NoPrematureEscalation.  It follows a phase from the    *)
(* row it was read from into the handler, and a handoff from the handler   *)
(* into the history, so that neither can outrun the rows it rests on.      *)
(***************************************************************************)

(* The history holds what a phase needs before a role may act in it. *)
PhaseEarned(p) ==
  /\ p = "review" => PassedBefore("coder", Len(handoffs) + 1)
  /\ p = "ops" => PassedBefore("reviewer", Len(handoffs) + 1)

(* A handler never counts more than there is, and what it is about to       *)
(* apply to the run is on record.                                           *)
HandlerSound(d) ==
  /\ d.pc # "idle" => PhaseEarned(d.phase)
  /\ d.hops <= Len(handoffs) + 1
  /\ d.outcome = "fail" => d.retries <= FailCount(handoffs, d.gate) + 1
  /\ d.pc = "update" =>
       /\ \E i \in DOMAIN handoffs : handoffs[i] = Entry(d)
       /\ d.hops <= Len(handoffs)
       /\ d.outcome = "fail" => d.retries <= FailCount(handoffs, d.gate)

HistoryInv ==
  /\ TypeOK
  /\ \A c \in Clients : HandlerSound(handler[c])
  /\ PhaseEarned(run.phase)
  /\ run.status = "absent" => run.phase = "spec"
  /\ ChainOrder
  /\ RunJustified
  /\ NoPrematureEscalation

(* The invariant holds before the run is started. *)
LEMMA HistoryInit == Init => HistoryInv
<1> SUFFICES ASSUME Init PROVE HistoryInv
  OBVIOUS
<1>1. TypeOK
  BY TypeInit
<1>2. \A c \in Clients : HandlerSound(handler[c])
  BY DEF Init, HandlerSound, Idle
<1> QED
  BY <1>1, <1>2 DEF Init, HistoryInv, PhaseEarned, ChainOrder, RunJustified,
                    NoPrematureEscalation

(* What was recorded stays recorded when a row is added. *)
LEMMA HistoryGrows ==
  ASSUME handoffs \in Seq(Handoff), NEW e \in Handoff, handoffs' = Append(handoffs, e)
  PROVE  /\ Len(handoffs') = Len(handoffs) + 1
         /\ \A i \in DOMAIN handoffs : i \in DOMAIN handoffs' /\ handoffs'[i] = handoffs[i]
         /\ Len(handoffs') \in DOMAIN handoffs' /\ handoffs'[Len(handoffs')] = e
         /\ \A i \in DOMAIN handoffs' : i \in DOMAIN handoffs \/ i = Len(handoffs')
BY DEF Handoff

(* What a handler was sure of stays true as handoffs are added. *)
LEMMA EarnedStaysEarned ==
  ASSUME handoffs \in Seq(Handoff), NEW e \in Handoff,
         handoffs' = handoffs \/ handoffs' = Append(handoffs, e),
         NEW p, PhaseEarned(p)
  PROVE  PhaseEarned(p)'
<1>1. CASE handoffs' = handoffs
  BY <1>1 DEF PhaseEarned, PassedBefore
<1>2. CASE handoffs' = Append(handoffs, e)
  <2> USE <1>2, HistoryGrows
  <2>1. ASSUME NEW r, PassedBefore(r, Len(handoffs) + 1)
        PROVE PassedBefore(r, Len(handoffs) + 1)'
    BY <2>1 DEF PassedBefore
  <2> QED
    BY <2>1 DEF PhaseEarned
<1> QED
  BY <1>1, <1>2

(* A step that adds no row leaves every fact about the history alone. *)
LEMMA HistorySame ==
  ASSUME handoffs' = handoffs
  PROVE  /\ \A p : PhaseEarned(p)' <=> PhaseEarned(p)
         /\ \A r, i : PassedBefore(r, i)' <=> PassedBefore(r, i)
         /\ \A d : HandlerSound(d)' <=> HandlerSound(d)
BY DEF PhaseEarned, PassedBefore, HandlerSound, FailCount, FailsAt

(* The handlers and the row stay sound while no row is added and the run    *)
(* does not move: the steps that only read, begin or stop a handler.        *)
LEMMA QuietStep ==
  ASSUME HistoryInv, TypeOK', handoffs' = handoffs,
         run'.phase = run.phase, run'.status = run.status,
         \A c \in Clients : HandlerSound(handler'[c])
  PROVE  HistoryInv'
<1>1. \A c \in Clients : HandlerSound(handler[c])'
  BY HistorySame
<1>2. PhaseEarned(run.phase)'
  BY HistorySame DEF HistoryInv
<1>3. ChainOrder'
  BY HistorySame DEF HistoryInv, ChainOrder
<1>4. RunJustified'
  BY DEF HistoryInv, RunJustified
<1>5. NoPrematureEscalation'
  BY DEF HistoryInv, NoPrematureEscalation, FailCount, FailsAt
<1> QED
  BY <1>1, <1>2, <1>3, <1>4, <1>5 DEF HistoryInv

(* A finished handler claims nothing about the history. *)
LEMMA IdleSound ==
  ASSUME TypeOK
  PROVE  HandlerSound(Idle)
BY DEF HandlerSound, Idle, TypeOK

(* The INSERT records what its handler is about to decide. *)
LEMMA HistoryInsert ==
  ASSUME HistoryInv, TypeOK', NEW c \in Clients, InsertHandoff(c)
  PROVE  HistoryInv'
<1> DEFINE d == handler[c]
           e == Entry(d)
<1>1. d \in Handler /\ e \in Handoff /\ handoffs \in Seq(Handoff)
  BY EntryType DEF HistoryInv, TypeOK
<1>2. handoffs' = Append(handoffs, e) /\ run' = run /\ d.pc = "insert"
  BY DEF InsertHandoff
<1>3. \A x \in Clients : handler'[x] = IF x = c THEN [d EXCEPT !.pc = "update"] ELSE handler[x]
  BY DEF InsertHandoff, HistoryInv, TypeOK
<1>4. /\ e.role = role_for_phase[d.phase] /\ e.gate = d.gate /\ e.outcome = d.outcome
      /\ e.retries = d.retries /\ e.hops = d.hops
  BY DEF Entry
<1> HIDE DEF e
<1>5. \A p : PhaseEarned(p) => PhaseEarned(p)'
  BY <1>1, <1>2, EarnedStaysEarned
<1>6. \A g : /\ FailCount(handoffs, g) \in Nat
             /\ FailCount(handoffs, g)' =
                  IF e.gate = g /\ e.outcome = "fail"
                  THEN FailCount(handoffs, g) + 1 ELSE FailCount(handoffs, g)
  BY <1>1, <1>2, FailCountType, FailCountAppend
<1>7. ASSUME NEW x \in Clients, NEW r, r = handler'[x]
      PROVE  HandlerSound(r)'
  <2>1. HandlerSound(handler[x]) /\ HandlerSound(d) /\ handler[x] \in Handler
    BY DEF HistoryInv, TypeOK
  <2>2. /\ Len(handoffs') = Len(handoffs) + 1 /\ Len(handoffs) \in Nat
        /\ \A i \in DOMAIN handoffs : i \in DOMAIN handoffs' /\ handoffs'[i] = handoffs[i]
        /\ Len(handoffs') \in DOMAIN handoffs' /\ handoffs'[Len(handoffs')] = e
    BY <1>1, <1>2, HistoryGrows
  <2>3. CASE x = c
    <3>1. /\ r.pc = "update" /\ r.phase = d.phase /\ r.gate = d.gate
          /\ r.outcome = d.outcome /\ r.retries = d.retries /\ r.hops = d.hops
      BY <1>1, <1>3, <1>7, <2>3 DEF Handler
    <3>2. Entry(r) = e
      BY <3>1 DEF Entry, e
    <3>3. PhaseEarned(r.phase)'
      BY <1>2, <1>5, <2>1, <3>1 DEF HandlerSound
    <3>4. /\ r.hops <= Len(handoffs') /\ r.hops <= Len(handoffs') + 1
          /\ \E i \in DOMAIN handoffs' : handoffs'[i] = Entry(r)
      BY <1>1, <2>1, <2>2, <3>1, <3>2 DEF HandlerSound, Handler
    <3>5. r.outcome = "fail" => /\ r.retries <= FailCount(handoffs, r.gate)'
                                /\ r.retries <= FailCount(handoffs, r.gate)' + 1
      <4>1. r.outcome = "fail" => FailCount(handoffs, r.gate)' = FailCount(handoffs, r.gate) + 1
        BY <1>4, <1>6, <3>1
      <4> QED
        BY <1>1, <1>6, <2>1, <3>1, <4>1 DEF HandlerSound, Handler
    <3> QED
      BY <3>3, <3>4, <3>5 DEF HandlerSound
  <2>4. CASE x # c
    <3>1. r = handler[x]
      BY <1>3, <1>7, <2>4
    <3>2. FailCount(handoffs, r.gate)' >= FailCount(handoffs, r.gate) /\ FailCount(handoffs, r.gate)' \in Nat
      BY <1>6
    <3> QED
      BY <1>5, <1>6, <2>1, <2>2, <3>1, <3>2 DEF HandlerSound, Handler
  <2> QED
    BY <2>3, <2>4
<1>8. ChainOrder'
  <2>1. PhaseEarned(d.phase)
    BY <1>2 DEF HistoryInv, HandlerSound
  <2>2. /\ e.role = "reviewer" => d.phase = "review"
        /\ e.role = "ops" => d.phase = "ops"
    BY <1>1, <1>4 DEF role_for_phase, Handler, Phases
  <2>3. \A r, i : PassedBefore(r, i) /\ i \in 1..(Len(handoffs) + 1) => PassedBefore(r, i)'
    BY <1>1, <1>2, HistoryGrows DEF PassedBefore
  <2>4. ASSUME NEW i \in DOMAIN handoffs'
        PROVE /\ handoffs'[i].role = "reviewer" => PassedBefore("coder", i)'
              /\ handoffs'[i].role = "ops" => PassedBefore("reviewer", i)'
    <3>1. CASE i \in DOMAIN handoffs
      <4>1. handoffs'[i] = handoffs[i] /\ i \in 1..(Len(handoffs) + 1)
        BY <1>1, <1>2, <3>1, HistoryGrows
      <4> QED
        BY <2>3, <3>1, <4>1 DEF HistoryInv, ChainOrder
    <3>2. CASE i = Len(handoffs')
      <4>1. handoffs'[i] = e /\ i = Len(handoffs) + 1 /\ i \in 1..(Len(handoffs) + 1)
        BY <1>1, <1>2, <3>2, HistoryGrows
      <4> QED
        BY <2>1, <2>2, <2>3, <4>1 DEF PhaseEarned
    <3> QED
      BY <1>1, <1>2, <3>1, <3>2, HistoryGrows
  <2>5. run.status = "landed" => PassedBefore("ops", Len(handoffs) + 1)'
    BY <1>1, <1>2, HistoryGrows DEF HistoryInv, ChainOrder, PassedBefore
  <2> QED
    BY <1>2, <2>4, <2>5 DEF ChainOrder
<1>9. RunJustified'
  BY <1>1, <1>2, HistoryGrows DEF HistoryInv, RunJustified
<1>10. NoPrematureEscalation'
  <2>1. \A g : FailCount(handoffs, g)' >= FailCount(handoffs, g) /\ FailCount(handoffs, g)' \in Nat
    BY <1>6
  <2> QED
    BY <1>1, <1>2, <1>6, <2>1, HistoryGrows, CapsAssumption DEF HistoryInv, NoPrematureEscalation
<1> QED
  BY <1>2, <1>5, <1>7, <1>8, <1>9, <1>10 DEF HistoryInv

(* The decision a recorded handoff stands for is the one its handler makes. *)
LEMMA DecisionOfEntry ==
  ASSUME NEW d \in Handler
  PROVE  /\ new_phase(AsRead(Entry(d))) = new_phase(d)
         /\ new_status(AsRead(Entry(d))) = new_status(d)
<1>1. /\ AsRead(Entry(d)).phase = d.phase /\ AsRead(Entry(d)).outcome = d.outcome
      /\ AsRead(Entry(d)).retries = d.retries /\ AsRead(Entry(d)).hops = d.hops
  BY DEF AsRead, Entry, PhaseOfRole, role_for_phase, Handler, Phases
<1> QED
  BY <1>1 DEF new_phase, new_status, NewStatusOfOutcome

(* The UPDATE applies a decision that is on record. *)
LEMMA HistoryUpdate ==
  ASSUME HistoryInv, TypeOK', NEW c \in Clients, UpdateRun(c)
  PROVE  HistoryInv'
<1> DEFINE d == handler[c]
<1>1. d \in Handler /\ handoffs \in Seq(Handoff) /\ HandlerSound(d) /\ d.pc = "update"
  BY DEF HistoryInv, TypeOK, UpdateRun
<1>2. /\ handoffs' = handoffs
      /\ run'.phase = new_phase(d) /\ run'.status = new_status(d)
      /\ \A x \in Clients : handler'[x] = IF x = c THEN Idle ELSE handler[x]
  BY DEF UpdateRun, HistoryInv, TypeOK, Run
<1>3. PICK i \in DOMAIN handoffs : handoffs[i] = Entry(d)
  BY <1>1 DEF HandlerSound
<1>4. handoffs[i].outcome = d.outcome /\ handoffs[i].role = role_for_phase[d.phase]
  BY <1>3 DEF Entry
<1>5. \A x \in Clients : HandlerSound(handler[x])'
  BY <1>2, IdleSound, HistorySame DEF HistoryInv
<1>6. PhaseEarned(run.phase)'
  <2>1. PhaseEarned(d.phase)
    BY <1>1 DEF HandlerSound
  <2>2. new_phase(d) = "review" => d.phase = "review" \/ (d.phase = "code" /\ d.outcome = "pass")
    BY <1>1 DEF new_phase, next_phase, Handler, Phases
  <2>3. new_phase(d) = "ops" => d.phase = "ops" \/ (d.phase = "review" /\ d.outcome = "pass")
    BY <1>1 DEF new_phase, next_phase, Handler, Phases
  <2>4. i \in 1..((Len(handoffs) + 1) - 1)
    BY <1>1
  <2>5. PhaseEarned(new_phase(d))
    BY <1>4, <2>1, <2>2, <2>3, <2>4 DEF PhaseEarned, PassedBefore, role_for_phase
  <2> QED
    BY <1>2, <2>5, HistorySame
<1>7. ChainOrder'
  <2>1. new_status(d) = "landed" => d.phase = "ops" /\ d.outcome = "pass"
    BY DEF new_status, NewStatusOfOutcome
  <2>2. i \in 1..((Len(handoffs) + 1) - 1)
    BY <1>1
  <2>3. new_status(d) = "landed" => PassedBefore("ops", Len(handoffs) + 1)
    BY <1>4, <2>1, <2>2 DEF PassedBefore, role_for_phase
  <2> QED
    BY <1>2, <2>3, HistorySame DEF HistoryInv, ChainOrder
<1>8. RunJustified'
  BY <1>1, <1>2, <1>3, DecisionOfEntry DEF RunJustified
<1>9. NoPrematureEscalation'
  <2>1. /\ d.hops <= Len(handoffs) /\ d.hops \in Nat /\ Len(handoffs) \in Nat
        /\ d.outcome = "fail" => d.retries <= FailCount(handoffs, d.gate)
        /\ d.retries \in Nat /\ FailCount(handoffs, d.gate) \in Nat /\ d.gate \in Gates
    BY <1>1, FailCountType DEF HandlerSound, Handler
  <2>2. new_status(d) = "escalated" =>
          \/ d.outcome = "escalate"
          \/ d.outcome = "fail" /\ d.retries >= MaxRetries
          \/ d.hops >= MaxHops
    BY DEF new_status, NewStatusOfOutcome
  <2>3. new_status(d) = "escalated" =>
          \/ handoffs[i].outcome = "escalate"
          \/ Len(handoffs) >= MaxHops
          \/ FailCount(handoffs, d.gate) >= MaxRetries
    BY <1>4, <2>1, <2>2, CapsAssumption
  <2> QED
    BY <1>2, <2>1, <2>3 DEF NoPrematureEscalation
<1>10. (run.status = "absent" => run.phase = "spec")'
  BY <1>1, <1>2, DecisionType DEF Closed
<1> QED
  BY <1>5, <1>6, <1>7, <1>8, <1>9, <1>10 DEF HistoryInv

(* Every step of every handler keeps the invariant. *)
LEMMA HistoryStep == HistoryInv /\ [Next]_vars => HistoryInv'
<1> SUFFICES ASSUME HistoryInv, [Next]_vars PROVE HistoryInv'
  OBVIOUS
<1>0. TypeOK /\ TypeOK'
  BY TypeStep DEF HistoryInv
<1>1. CASE UNCHANGED vars
  BY <1>0, <1>1, QuietStep DEF vars, HistoryInv
<1>2. ASSUME NEW c \in Clients, NEW linked \in BOOLEAN, StartRun(c, linked)
      PROVE HistoryInv'
  <2>1. /\ handoffs' = handoffs /\ handler' = handler
        /\ run'.phase = "spec" /\ run'.status = "active"
    BY <1>2 DEF StartRun
  <2>2. \A x \in Clients : HandlerSound(handler[x])'
    BY <2>1, HistorySame DEF HistoryInv
  <2>3. PhaseEarned(run.phase)'
    BY <2>1 DEF PhaseEarned
  <2>4. ChainOrder'
    BY <2>1, HistorySame DEF HistoryInv, ChainOrder
  <2> QED
    BY <1>0, <2>1, <2>2, <2>3, <2>4 DEF HistoryInv, RunJustified, NoPrematureEscalation
<1>3. ASSUME NEW c \in Clients, NEW role \in Roles, NEW gate \in Gates,
             NEW outcome \in Outcomes, BeginHandoff(c, role, gate, outcome)
      PROVE HistoryInv'
  <2> DEFINE d == [Idle EXCEPT !.pc = "hops", !.phase = run.phase,
                               !.gate = gate, !.outcome = outcome]
  <2>1. /\ handoffs' = handoffs /\ run' = run
        /\ \A x \in Clients : handler'[x] = IF x = c THEN d ELSE handler[x]
    BY <1>0, <1>3 DEF BeginHandoff, TypeOK
  <2>2. /\ d.pc = "hops" /\ d.phase = run.phase /\ d.hops = 0 /\ d.retries = 0
        /\ d.gate = gate
    BY DEF Idle
  <2>3. FailCount(handoffs, gate) \in Nat /\ Len(handoffs) \in Nat
    BY <1>0, FailCountType DEF TypeOK
  <2>4. HandlerSound(d)
    BY <2>2, <2>3 DEF HandlerSound, HistoryInv
  <2> QED
    BY <1>0, <2>1, <2>4, QuietStep DEF HistoryInv
<1>4. ASSUME NEW c \in Clients, CountHops(c) PROVE HistoryInv'
  <2> DEFINE d == handler'[c]
  <2>1. /\ handoffs' = handoffs /\ run' = run /\ handler[c].pc = "hops"
        /\ \A x \in Clients : x # c => handler'[x] = handler[x]
    BY <1>0, <1>4 DEF CountHops, TypeOK
  <2>2. /\ d.pc \in {"fails", "insert"} /\ d.phase = handler[c].phase
        /\ d.hops = Len(handoffs) + 1 /\ d.retries = handler[c].retries
        /\ d.gate = handler[c].gate /\ d.outcome = handler[c].outcome
    BY <1>0, <1>4 DEF CountHops, TypeOK, Handler
  <2>3. HandlerSound(d)
    BY <1>0, <2>1, <2>2 DEF HandlerSound, HistoryInv, TypeOK
  <2> QED
    BY <1>0, <2>1, <2>3, QuietStep DEF HistoryInv
<1>5. ASSUME NEW c \in Clients, CountFails(c) PROVE HistoryInv'
  <2> DEFINE d == handler'[c]
  <2>1. /\ handoffs' = handoffs /\ run' = run /\ handler[c].pc = "fails"
        /\ \A x \in Clients : x # c => handler'[x] = handler[x]
    BY <1>0, <1>5 DEF CountFails, TypeOK
  <2>2. /\ d.pc = "insert" /\ d.phase = handler[c].phase /\ d.hops = handler[c].hops
        /\ d.retries = FailCount(handoffs, handler[c].gate) + 1
        /\ d.gate = handler[c].gate /\ d.outcome = handler[c].outcome
    BY <1>0, <1>5 DEF CountFails, TypeOK, Handler
  <2>3. FailCount(handoffs, handler[c].gate) \in Nat
    BY <1>0, FailCountType DEF TypeOK
  <2>4. HandlerSound(d)
    BY <2>1, <2>2, <2>3 DEF HandlerSound, HistoryInv
  <2> QED
    BY <1>0, <2>1, <2>4, QuietStep DEF HistoryInv
<1>6. ASSUME NEW c \in Clients, InsertHandoff(c) PROVE HistoryInv'
  BY <1>0, <1>6, HistoryInsert
<1>7. ASSUME NEW c \in Clients, UpdateRun(c) PROVE HistoryInv'
  BY <1>0, <1>7, HistoryUpdate
<1>8. ASSUME NEW c \in Clients, Abort(c) PROVE HistoryInv'
  <2>1. /\ handoffs' = handoffs /\ run' = run
        /\ \A x \in Clients : handler'[x] = IF x = c THEN Idle ELSE handler[x]
    BY <1>0, <1>8 DEF Abort, TypeOK
  <2> QED
    BY <1>0, <2>1, IdleSound, QuietStep DEF HistoryInv
<1>9. CASE DeleteCase
  <2>1. /\ handoffs' = handoffs /\ handler' = handler
        /\ run'.phase = run.phase /\ run'.status = run.status
    BY <1>0, <1>9 DEF DeleteCase, TypeOK, Run
  <2> QED
    BY <1>0, <2>1, QuietStep DEF HistoryInv
<1> QED
  BY <1>1, <1>2, <1>3, <1>4, <1>5, <1>6, <1>7, <1>8, <1>9 DEF Next, HandlerStep

(* The invariant behind the three theorems that follow. *)
LEMMA HistoryInvariant == Spec => []HistoryInv
BY HistoryInit, HistoryStep, PTL DEF Spec

(* For any clients, any interleaving of their handlers and any cut-offs, a  *)
(* role acts only after the role before it passed, and only an ops pass     *)
(* lands a run (the role check of record_handoff).                          *)
THEOREM ChainOrderHolds == Spec => []ChainOrder
<1>1. HistoryInv => ChainOrder
  BY DEF HistoryInv
<1> QED
  BY <1>1, HistoryInvariant, PTL

(* The run row always follows from a recorded handoff, because              *)
(* record_handoff inserts before it updates.                                *)
THEOREM RunJustifiedHolds == Spec => []RunJustified
<1>1. HistoryInv => RunJustified
  BY DEF HistoryInv
<1> QED
  BY <1>1, HistoryInvariant, PTL

(* The stale counts of concurrent handlers can delay the circuit breaker    *)
(* but never trip it early.                                                 *)
THEOREM NoPrematureEscalationHolds == Spec => []NoPrematureEscalation
<1>1. HistoryInv => NoPrematureEscalation
  BY DEF HistoryInv
<1> QED
  BY <1>1, HistoryInvariant, PTL

-----------------------------------------------------------------------------
(***************************************************************************)
(* One handler at a time, none cut off between its INSERT and its UPDATE:  *)
(* the breaker is exact and the run refines FeatureRun.  The invariant     *)
(* says that the one handler in flight knows the true counts, and that     *)
(* only the row it has just inserted is missing from the run.              *)
(***************************************************************************)
Serial == (\A c, d \in Clients : c = d) /\ MaxAborts = 0

(* The open run, as it stands after the handoffs hs, is below both caps. *)
BelowCaps(hs) ==
  Len(hs) < MaxHops /\ \A g \in Gates : FailCount(hs, g) < MaxRetries

WithinCaps(hs) ==
  Len(hs) <= MaxHops /\ \A g \in Gates : FailCount(hs, g) <= MaxRetries

(* What the one handler in flight knows. *)
HandlerExact(d) ==
  /\ d.pc # "idle" => run.status = "active" /\ d.phase = run.phase
  /\ d.pc \in {"fails", "insert", "update"} => d.hops = Len(Applied) + 1
  /\ d.pc = "fails" => d.outcome = "fail"
  /\ d.pc \in {"insert", "update"} /\ d.outcome = "fail" =>
       d.retries = FailCount(Applied, d.gate) + 1
  /\ d.pc = "update" => handoffs = Append(Applied, Entry(d))
  /\ d.pc # "update" => Applied = handoffs

SerialInv ==
  /\ TypeOK
  /\ aborts = 0
  /\ Applied \in Seq(Handoff)
  /\ run.status = "absent" => run.phase = "spec" /\ handoffs = <<>>
  /\ WithinCaps(Applied)
  /\ run.status = "active" => BelowCaps(Applied)
  /\ \A c \in Clients : HandlerExact(handler[c])

(* With one client, Applied depends on that client alone. *)
LEMMA AppliedIs ==
  ASSUME Serial, NEW c \in Clients
  PROVE  /\ Applied = IF handler[c].pc = "update"
                      THEN SubSeq(handoffs, 1, Len(handoffs) - 1) ELSE handoffs
         /\ Applied' = IF handler'[c].pc = "update"
                       THEN SubSeq(handoffs', 1, Len(handoffs') - 1) ELSE handoffs'
<1>1. \A x \in Clients : x = c
  BY DEF Serial
<1> QED
  BY <1>1 DEF Applied

(* The handoffs without the last one are those before it was recorded. *)
LEMMA AppendFront ==
  ASSUME NEW S, NEW s \in Seq(S), NEW e \in S
  PROVE  /\ SubSeq(Append(s, e), 1, Len(Append(s, e)) - 1) = s
         /\ Append(s, e) \in Seq(S) /\ Len(Append(s, e)) = Len(s) + 1
OBVIOUS

(* Below the caps is within the caps. *)
LEMMA BelowIsWithin ==
  ASSUME NEW hs \in Seq(Handoff), BelowCaps(hs)
  PROVE  WithinCaps(hs)
<1>1. \A g : FailCount(hs, g) \in Nat
  BY FailCountType
<1> QED
  BY <1>1, CapsAssumption DEF BelowCaps, WithinCaps

(* From below the caps, one handoff reaches them at most. *)
LEMMA OneMoreIsWithin ==
  ASSUME NEW hs \in Seq(Handoff), NEW e \in Handoff, BelowCaps(hs)
  PROVE  WithinCaps(Append(hs, e))
<1>1. \A g : FailCount(hs, g) \in Nat /\ FailCount(Append(hs, e), g) <= FailCount(hs, g) + 1
  BY FailCountType, FailCountAppend
<1>2. \A g : FailCount(Append(hs, e), g) \in Nat
  BY FailCountType, FailCountAppend
<1> QED
  BY <1>1, <1>2, CapsAssumption DEF BelowCaps, WithinCaps

(* The invariant holds before the run is started. *)
LEMMA SerialInit ==
  ASSUME Serial, Init
  PROVE  SerialInv
<1>1. TypeOK
  BY TypeInit
<1>2. Applied = <<>>
  BY DEF Init, Applied, Idle
<1>3. \A g : FailCount(<<>>, g) = 0
  BY FS_EmptySet DEF FailCount, FailsAt
<1>4. WithinCaps(Applied)
  BY <1>2, <1>3, CapsAssumption DEF WithinCaps
<1>5. \A c \in Clients : HandlerExact(handler[c])
  BY <1>2 DEF Init, HandlerExact, Idle
<1> QED
  BY <1>1, <1>2, <1>4, <1>5 DEF Init, SerialInv

(* A step that neither adds a row nor moves the run. *)
LEMMA SerialQuiet ==
  ASSUME Serial, SerialInv, TypeOK', aborts' = 0, handoffs' = handoffs, NEW c \in Clients,
         run'.status = run.status, run'.phase = run.phase,
         handler[c].pc # "update", handler'[c].pc # "update",
         NEW r, r = handler'[c],
         /\ r.pc # "idle" => run.status = "active" /\ r.phase = run.phase
         /\ r.pc \in {"fails", "insert"} => r.hops = Len(handoffs) + 1
         /\ r.pc = "fails" => r.outcome = "fail"
         /\ r.pc = "insert" /\ r.outcome = "fail" => r.retries = FailCount(handoffs, r.gate) + 1
  PROVE  SerialInv' /\ Applied' = Applied
<1>1. Applied = handoffs /\ Applied' = handoffs
  BY AppliedIs
<1>2. HandlerExact(r)'
  BY <1>1 DEF HandlerExact
<1>3. \A x \in Clients : HandlerExact(handler[x])'
  BY <1>2 DEF Serial
<1> QED
  BY <1>1, <1>3 DEF SerialInv, BelowCaps, WithinCaps

(* The INSERT is not yet applied to the run. *)
LEMMA SerialInsert ==
  ASSUME Serial, SerialInv, TypeOK', NEW c \in Clients, InsertHandoff(c)
  PROVE  SerialInv' /\ Applied' = Applied
<1> DEFINE d == handler[c]
<1>1. /\ d \in Handler /\ d.pc = "insert" /\ handoffs \in Seq(Handoff)
      /\ Entry(d) \in Handoff /\ HandlerExact(d)
  BY EntryType DEF SerialInv, TypeOK, InsertHandoff
<1>2. handoffs' = Append(handoffs, Entry(d)) /\ run' = run /\ aborts' = aborts
  BY DEF InsertHandoff
<1>3. Applied = handoffs /\ Applied' = handoffs
  <2>1. handler'[c].pc = "update"
    BY <1>1 DEF InsertHandoff, SerialInv, TypeOK, Handler
  <2>2. SubSeq(handoffs', 1, Len(handoffs') - 1) = handoffs
    BY <1>1, <1>2, AppendFront
  <2> QED
    BY <1>1, <2>1, <2>2, AppliedIs
<1>4. ASSUME NEW r, r = handler'[c] PROVE HandlerExact(r)'
  <2>1. /\ r.pc = "update" /\ r.phase = d.phase /\ r.gate = d.gate
        /\ r.outcome = d.outcome /\ r.retries = d.retries /\ r.hops = d.hops
    BY <1>1, <1>4 DEF InsertHandoff, SerialInv, TypeOK, Handler
  <2>2. Entry(r) = Entry(d)
    BY <2>1 DEF Entry
  <2> QED
    BY <1>1, <1>2, <1>3, <2>1, <2>2 DEF HandlerExact
<1>5. \A x \in Clients : HandlerExact(handler[x])'
  BY <1>4 DEF Serial
<1>6. BelowCaps(Applied) /\ run.status = "active"
  BY <1>1 DEF SerialInv, HandlerExact
<1> QED
  BY <1>1, <1>2, <1>3, <1>5, <1>6 DEF SerialInv, BelowCaps, WithinCaps

(* The run takes the decision of its last row, and only below both caps     *)
(* does that decision leave the run open.                                   *)
LEMMA SerialUpdate ==
  ASSUME Serial, SerialInv, TypeOK', NEW c \in Clients, UpdateRun(c)
  PROVE  SerialInv' /\ Applied' = Append(Applied, Entry(handler[c]))
<1> DEFINE d == handler[c]
           e == Entry(d)
<1>1. /\ d \in Handler /\ d.pc = "update" /\ Applied \in Seq(Handoff)
      /\ e \in Handoff /\ HandlerExact(d)
  BY EntryType DEF SerialInv, TypeOK, UpdateRun
<1>2. /\ handoffs' = handoffs /\ aborts' = aborts /\ handler'[c] = Idle
      /\ run'.phase = new_phase(d) /\ run'.status = new_status(d)
  BY DEF UpdateRun, SerialInv, TypeOK, Run
<1> HIDE DEF e
<1>3. Applied' = Append(Applied, e) /\ Applied' = handoffs'
  BY <1>1, <1>2, AppliedIs DEF HandlerExact, Idle, e
<1>4. BelowCaps(Applied)
  BY <1>1 DEF HandlerExact, SerialInv
<1>5. WithinCaps(Applied')
  BY <1>1, <1>3, <1>4, OneMoreIsWithin
<1>6. new_status(d) = "active" => BelowCaps(Applied')
  <2> SUFFICES ASSUME new_status(d) = "active" PROVE BelowCaps(Applied')
    OBVIOUS
  <2>1. d.hops < MaxHops /\ (d.outcome = "fail" => d.retries < MaxRetries)
    BY <1>1, CapsAssumption DEF new_status, NewStatusOfOutcome, Handler
  <2>a. Len(Applied') = Len(Applied) + 1
    <3>1. Applied \in Seq(Handoff) /\ e \in Handoff
      BY <1>1
    <3>2. Len(Append(Applied, e)) = Len(Applied) + 1
      BY <3>1, AppendFront
    <3>3. Applied' = Append(Applied, e)
      BY <1>3
    <3> QED
      BY <3>2, <3>3, Zenon
  <2>b. d.hops = Len(Applied) + 1
    BY <1>1 DEF HandlerExact
  <2>2. Len(Applied') < MaxHops
    BY <2>1, <2>a, <2>b
  <2>3. e.gate = d.gate /\ e.outcome = d.outcome
    BY DEF Entry, e
  <2>4. ASSUME NEW g \in Gates PROVE FailCount(Append(Applied, e), g) < MaxRetries
    BY <1>1, <1>4, <2>1, <2>3, FailCountAppend DEF HandlerExact, BelowCaps
  <2> QED
    BY <1>3, <2>2, <2>4 DEF BelowCaps
<1>7. HandlerExact(Idle)'
  BY <1>3 DEF HandlerExact, Idle
<1>8. \A x \in Clients : HandlerExact(handler[x])'
  BY <1>2, <1>7 DEF Serial
<1>9. Applied' \in Seq(Handoff)
  BY <1>1, <1>3, AppendFront
<1>10. run'.status # "absent"
  BY <1>1, <1>2, DecisionType DEF Closed
<1> QED
  BY <1>2, <1>3, <1>5, <1>6, <1>8, <1>9, <1>10 DEF SerialInv, WithinCaps, BelowCaps, e

(* The steps of one handler at a time, as FeatureRun sees them: handing off *)
(* is the UPDATE of the run row; everything else but the start is silent.   *)
SilentStep == run'.status = run.status /\ run'.phase = run.phase /\ Applied' = Applied

StartStep == \E c \in Clients, linked \in BOOLEAN : StartRun(c, linked) /\ Applied' = Applied

HandoffStep ==
  \E c \in Clients : UpdateRun(c) /\ Applied' = Append(Applied, Entry(handler[c]))

(* Every step is silent, the start of the run, or one whole handoff. *)
LEMMA SerialStep ==
  ASSUME Serial, SerialInv, [Next]_vars
  PROVE  SerialInv' /\ (SilentStep \/ StartStep \/ HandoffStep)
<1>0. TypeOK /\ TypeOK' /\ aborts = 0
  BY TypeStep DEF SerialInv
<1>1. CASE UNCHANGED vars
  <2>1. Applied' = Applied
    BY <1>1 DEF vars, Applied
  <2>2. \A c \in Clients : HandlerExact(handler[c])'
    BY <1>1, <2>1 DEF vars, HandlerExact, SerialInv
  <2> QED
    BY <1>0, <1>1, <2>1, <2>2 DEF vars, SerialInv, SilentStep, WithinCaps, BelowCaps
<1>2. ASSUME NEW c \in Clients, NEW linked \in BOOLEAN, StartRun(c, linked)
      PROVE  SerialInv' /\ StartStep
  <2>1. /\ run.status = "absent" /\ run'.status = "active" /\ run'.phase = "spec"
        /\ handler' = handler /\ handoffs' = handoffs /\ aborts' = 0
    BY <1>0, <1>2 DEF StartRun
  <2>2. handoffs = <<>> /\ HandlerExact(handler[c])
    BY <2>1 DEF SerialInv
  <2>3. handler[c].pc = "idle"
    BY <2>1, <2>2 DEF HandlerExact
  <2>4. Applied = <<>> /\ Applied' = <<>>
    BY <2>1, <2>2, <2>3, AppliedIs
  <2>5. \A g : FailCount(<<>>, g) = 0
    BY FS_EmptySet DEF FailCount, FailsAt
  <2>6. BelowCaps(<<>>)
    BY <2>5, CapsAssumption DEF BelowCaps
  <2>7. HandlerExact(handler[c])'
    BY <2>1, <2>2, <2>3, <2>4 DEF HandlerExact
  <2>8. \A x \in Clients : HandlerExact(handler[x])'
    BY <2>7 DEF Serial
  <2> QED
    BY <1>0, <1>2, <2>1, <2>4, <2>6, <2>8 DEF SerialInv, BelowCaps, WithinCaps, StartStep
<1>3. ASSUME NEW c \in Clients, NEW role \in Roles, NEW gate \in Gates,
             NEW outcome \in Outcomes, BeginHandoff(c, role, gate, outcome)
      PROVE  SerialInv' /\ SilentStep
  <2>1. /\ handoffs' = handoffs /\ run' = run /\ aborts' = 0
        /\ handler[c].pc = "idle" /\ run.status = "active"
        /\ handler'[c].pc = "hops" /\ handler'[c].phase = run.phase
    BY <1>0, <1>3 DEF BeginHandoff, InFlight, TypeOK, Idle
  <2> QED
    BY <1>0, <2>1, SerialQuiet DEF SilentStep
<1>4. ASSUME NEW c \in Clients, CountHops(c)
      PROVE  SerialInv' /\ SilentStep
  <2>1. /\ handoffs' = handoffs /\ run' = run /\ aborts' = 0
        /\ handler[c].pc = "hops" /\ handler'[c].phase = handler[c].phase
        /\ handler'[c].hops = Len(handoffs) + 1
        /\ handler'[c].outcome = handler[c].outcome
        /\ handler'[c].pc = IF handler[c].outcome = "fail" THEN "fails" ELSE "insert"
    BY <1>0, <1>4 DEF CountHops, TypeOK, Handler
  <2>2. run.status = "active" /\ handler[c].phase = run.phase
    BY <2>1 DEF SerialInv, HandlerExact
  <2> QED
    BY <1>0, <2>1, <2>2, SerialQuiet DEF SilentStep
<1>5. ASSUME NEW c \in Clients, CountFails(c)
      PROVE  SerialInv' /\ SilentStep
  <2>1. /\ handoffs' = handoffs /\ run' = run /\ aborts' = 0
        /\ handler[c].pc = "fails" /\ handler'[c].phase = handler[c].phase
        /\ handler'[c].hops = handler[c].hops /\ handler'[c].gate = handler[c].gate
        /\ handler'[c].retries = FailCount(handoffs, handler[c].gate) + 1
        /\ handler'[c].pc = "insert"
    BY <1>0, <1>5 DEF CountFails, TypeOK, Handler
  <2>2. /\ run.status = "active" /\ handler[c].phase = run.phase
        /\ handler[c].hops = Len(handoffs) + 1
    BY <2>1 DEF SerialInv, HandlerExact
  <2> QED
    BY <1>0, <2>1, <2>2, SerialQuiet DEF SilentStep
<1>6. ASSUME NEW c \in Clients, InsertHandoff(c)
      PROVE  SerialInv' /\ SilentStep
  BY <1>0, <1>6, SerialInsert DEF SilentStep, InsertHandoff
<1>7. ASSUME NEW c \in Clients, UpdateRun(c)
      PROVE  SerialInv' /\ HandoffStep
  BY <1>0, <1>7, SerialUpdate DEF HandoffStep
<1>8. ASSUME NEW c \in Clients, Abort(c)
      PROVE  SerialInv' /\ SilentStep
  <2>1. handler[c].pc # "update" /\ aborts' = 0
    BY <1>0, <1>8 DEF Abort, Serial
  <2>2. /\ handoffs' = handoffs /\ run' = run
        /\ handler'[c] = Idle /\ Idle.pc = "idle"
    BY <1>0, <1>8 DEF Abort, TypeOK, Idle
  <2> QED
    BY <1>0, <2>1, <2>2, SerialQuiet DEF SilentStep
<1>9. ASSUME DeleteCase PROVE SerialInv' /\ SilentStep
  <2>1. /\ handoffs' = handoffs /\ handler' = handler /\ aborts' = 0
        /\ run'.phase = run.phase /\ run'.status = run.status
    BY <1>0, <1>9 DEF DeleteCase, TypeOK, Run
  <2>2. Applied' = Applied
    BY <2>1 DEF Applied
  <2>3. \A c \in Clients : HandlerExact(handler[c])'
    BY <2>1, <2>2 DEF HandlerExact, SerialInv
  <2> QED
    BY <1>0, <2>1, <2>2, <2>3 DEF SerialInv, SilentStep, WithinCaps, BelowCaps
<1> QED
  BY <1>1, <1>2, <1>3, <1>4, <1>5, <1>6, <1>7, <1>8, <1>9 DEF Next, HandlerStep

(* The invariant behind the three theorems that follow. *)
LEMMA SerialInvariant ==
  ASSUME Serial
  PROVE  Spec => []SerialInv
<1>1. Init => SerialInv
  BY SerialInit
<1>2. SerialInv /\ [Next]_vars => SerialInv'
  BY SerialStep
<1> QED
  BY <1>1, <1>2, PTL DEF Spec

(* With one handler at a time, none cut off between its INSERT and its      *)
(* UPDATE, the two SELECTs of record_handoff are an exact circuit breaker   *)
(* for every pair of caps.                                                  *)
THEOREM SerialBreaker ==
  ASSUME Serial
  PROVE  Spec => []Breaker
<1>1. SerialInv => Breaker
  <2> SUFFICES ASSUME SerialInv PROVE Breaker
    OBVIOUS
  <2>1. CASE \E c \in Clients : handler[c].pc = "update"
    <3>1. PICK c \in Clients : handler[c].pc = "update"
      BY <2>1
    <3>2. /\ handoffs = Append(Applied, Entry(handler[c])) /\ run.status = "active"
          /\ Applied \in Seq(Handoff) /\ Entry(handler[c]) \in Handoff
      BY <3>1, EntryType DEF SerialInv, HandlerExact, TypeOK
    <3>3. WithinCaps(handoffs)
      BY <3>2, OneMoreIsWithin DEF SerialInv
    <3> QED
      BY <3>1, <3>3 DEF Breaker, WithinCaps, InFlight
  <2>2. CASE ~ \E c \in Clients : handler[c].pc = "update"
    <3>1. Applied = handoffs
      BY <2>2 DEF Applied
    <3> QED
      BY <3>1 DEF SerialInv, Breaker, WithinCaps, BelowCaps
  <2> QED
    BY <2>1, <2>2
<1> QED
  BY <1>1, SerialInvariant, PTL

(* ... and a closed run never moves again. *)
THEOREM SerialClosedIsFinal ==
  ASSUME Serial
  PROVE  Spec => ClosedIsFinal
<1>1. SerialInv /\ [Next]_vars =>
        [run.status \in Closed => run'.status = run.status /\ run'.phase = run.phase]_run
  <2> SUFFICES ASSUME SerialInv, [Next]_vars, run.status \in Closed
               PROVE  run'.status = run.status /\ run'.phase = run.phase
    OBVIOUS
  <2>1. ~ StartStep
    BY DEF StartStep, StartRun, Closed
  <2>2. ~ HandoffStep
    BY DEF HandoffStep, UpdateRun, SerialInv, HandlerExact, Closed
  <2> QED
    BY <2>1, <2>2, SerialStep DEF SilentStep
<1> QED
  BY <1>1, SerialInvariant, PTL DEF Spec, ClosedIsFinal

(* One handler at a time implements FeatureRun: its Start is start_run, and *)
(* its handoffs are the UPDATEs of the run row.                             *)
THEOREM SerialRefinement ==
  ASSUME Serial
  PROVE  Spec => ImplementsFeatureRun
<1>1. Init => FR!Init
  <2> SUFFICES ASSUME Init PROVE FR!Init
    OBVIOUS
  <2>1. Applied = <<>>
    BY DEF Init, Applied, Idle
  <2>2. \A g : FailCount(<<>>, g) = 0
    BY FS_EmptySet DEF FailCount, FailsAt
  <2> QED
    BY <2>1, <2>2 DEF Init, FR!Init
<1>2. SerialInv /\ [Next]_vars => [FR!Next]_(FR!vars)
  <2> SUFFICES ASSUME SerialInv, [Next]_vars PROVE [FR!Next]_(FR!vars)
    OBVIOUS
  <2>1. CASE SilentStep
    BY <2>1 DEF SilentStep, FR!vars
  <2>2. CASE StartStep
    BY <2>2 DEF StartStep, StartRun, FR!Next, FR!Start, SerialInv
  <2>3. CASE HandoffStep
    <3>1. PICK c \in Clients : UpdateRun(c) /\ Applied' = Append(Applied, Entry(handler[c]))
      BY <2>3 DEF HandoffStep
    <3> DEFINE d == handler[c]
               e == Entry(d)
    <3>2. /\ d \in Handler /\ Applied \in Seq(Handoff) /\ e \in Handoff
          /\ d.pc = "update" /\ HandlerExact(d)
      BY <3>1, EntryType DEF SerialInv, TypeOK, UpdateRun
    <3>3. /\ run.status = "active" /\ d.phase = run.phase /\ d.hops = Len(Applied) + 1
          /\ d.outcome = "fail" => d.retries = FailCount(Applied, d.gate) + 1
      BY <3>2 DEF HandlerExact
    <3>4. run'.phase = new_phase(d) /\ run'.status = new_status(d)
      BY <3>1 DEF UpdateRun, SerialInv, TypeOK, Run
    <3>5. e.gate = d.gate /\ e.outcome = d.outcome
      BY DEF Entry
    <3> HIDE DEF e
    <3>6. Len(Append(Applied, e)) = Len(Applied) + 1
      BY <3>2, AppendFront
    <3>7. \A g : FailCount(Append(Applied, e), g) =
                 IF d.gate = g /\ d.outcome = "fail"
                 THEN FailCount(Applied, g) + 1 ELSE FailCount(Applied, g)
      BY <3>2, <3>5, FailCountAppend
    <3>8. FR!Hop
      BY <3>1, <3>3, <3>6 DEF FR!Hop, e
    <3>9. d.outcome \in Outcomes /\ d.gate \in Gates /\ d.phase \in Phases
      BY <3>2 DEF Handler
    <3>a. Applied' = Append(Applied, e)
      BY <3>1 DEF e
    <3>b. NewStatusOfOutcome(d) = "active" => FR!StaysOpen
      BY <3>3, <3>4 DEF new_status, FR!StaysOpen
    <3>c. d.outcome # "fail" =>
            [g \in Gates |-> FailCount(Applied, g)]' = [g \in Gates |-> FailCount(Applied, g)]
      BY <3>7, <3>a
    <3>10. CASE d.outcome = "pass"
      <4>1. CASE d.phase = "ops"
        <5>1. new_status(d) = "landed" /\ new_phase(d) = d.phase
          BY <3>10, <4>1 DEF new_status, NewStatusOfOutcome, new_phase
        <5> QED
          BY <3>3, <3>4, <3>8, <3>10, <3>c, <4>1, <5>1 DEF FR!Next, FR!Pass
      <4>2. CASE d.phase # "ops"
        <5>1. NewStatusOfOutcome(d) = "active" /\ new_phase(d) = FR!NextPhase[d.phase]
          BY <3>10, <4>2 DEF NewStatusOfOutcome, new_phase, next_phase, FR!NextPhase
        <5> QED
          BY <3>3, <3>4, <3>8, <3>10, <3>b, <3>c, <4>2, <5>1 DEF FR!Next, FR!Pass
      <4> QED
        BY <4>1, <4>2
    <3>11. CASE d.outcome = "fail"
      <4>1. [g \in Gates |-> FailCount(Applied, g)]' =
              [[g \in Gates |-> FailCount(Applied, g)] EXCEPT ![d.gate] = @ + 1]
        BY <3>7, <3>9, <3>11, <3>a
      <4>2. /\ [g \in Gates |-> FailCount(Applied, g)][d.gate] = FailCount(Applied, d.gate)
            /\ FailCount(Applied, d.gate) \in Nat
        BY <3>2, <3>9, FailCountType
      <4>3. CASE d.retries >= MaxRetries
        <5>1. new_status(d) = "escalated" /\ new_phase(d) = d.phase
          BY <3>2, <3>11, <4>3, CapsAssumption
          DEF new_status, NewStatusOfOutcome, new_phase, Handler
        <5>2. FR!Fail(d.gate)
          BY <3>3, <3>4, <3>8, <3>11, <4>1, <4>2, <4>3, <5>1 DEF FR!Fail
        <5> QED
          BY <3>9, <5>2 DEF FR!Next
      <4>4. CASE d.retries < MaxRetries
        <5>1. NewStatusOfOutcome(d) = "active" /\ new_phase(d) = "code"
          BY <3>2, <3>11, <4>4, CapsAssumption DEF NewStatusOfOutcome, new_phase, Handler
        <5>2. FR!Fail(d.gate)
          BY <3>3, <3>4, <3>8, <3>11, <3>b, <4>1, <4>2, <4>4, <5>1 DEF FR!Fail
        <5> QED
          BY <3>9, <5>2 DEF FR!Next
      <4> QED
        BY <3>2, <4>3, <4>4, CapsAssumption DEF Handler
    <3>12. CASE d.outcome = "test-drift"
      <4>1. NewStatusOfOutcome(d) = "active" /\ new_phase(d) = "test"
        BY <3>12 DEF NewStatusOfOutcome, new_phase
      <4> QED
        BY <3>4, <3>8, <3>12, <3>b, <3>c, <4>1 DEF FR!Next, FR!TestDrift
    <3>13. CASE d.outcome = "escalate"
      <4>1. new_status(d) = "escalated" /\ new_phase(d) = d.phase
        BY <3>13 DEF new_status, NewStatusOfOutcome, new_phase
      <4> QED
        BY <3>3, <3>4, <3>8, <3>13, <3>c, <4>1 DEF FR!Next, FR!Escalate
    <3> QED
      BY <3>9, <3>10, <3>11, <3>12, <3>13 DEF Outcomes
  <2> QED
    BY <2>1, <2>2, <2>3, SerialStep
<1> QED
  BY <1>1, <1>2, SerialInvariant, PTL DEF Spec, ImplementsFeatureRun, FR!Spec
=============================================================================
