---------------------------- MODULE ObjectsProofs ----------------------------
(***************************************************************************)
(* Proofs about Objects for every type, workflow, set of callers and set   *)
(* of request bodies, with handlers that interleave and stop at will.      *)
(***************************************************************************)
EXTENDS Objects, TLAPS

(* What validate_final accepts is data of the type. *)
LEMMA ValidIsData ==
  ASSUME NEW d, d = [f \in Fields |-> d[f]], validate_final(d)
  PROVE  d \in Data
<1>1. \A f \in Fields : d[f] \in Kind[f] \cup {Null}
  BY DEF validate_final
<1>2. \A f \in Fields : d[f] \in Values \cup {Null}
  BY <1>1, FieldsAssumption
<1>3. d \in [Fields -> Values \cup {Null}]
  BY <1>2
<1> QED
  BY <1>1, <1>3 DEF Data

(* A Case without any value is well typed. *)
LEMMA NoDataIsData == NoData \in Data
BY DEF NoData, Data

(* The data of a valid write and of a valid creation. *)
LEMMA RequestedIsData ==
  ASSUME NEW op, NEW d, NEW p, validate_final(Requested(op, d, p))
  PROVE  Requested(op, d, p) \in Data
<1>1. Requested(op, d, p) = [f \in Fields |-> Requested(op, d, p)[f]]
  BY DEF Requested, build_put_data, merge_patch
<1> QED
  BY <1>1, ValidIsData

(* What coll_create stores is of the kinds of its fields. *)
LEMMA CreatedIsData ==
  ASSUME NEW p, validate_final(build_create_data(p))
  PROVE  build_create_data(p) \in Data
<1>1. build_create_data(p) = [f \in Fields |-> build_create_data(p)[f]]
  BY DEF build_create_data
<1> QED
  BY <1>1, ValidIsData

(* A handler without a body is well typed. *)
LEMMA BareType ==
  ASSUME NEW pc \in {"idle", "write", "delete", "mirror", "event"},
         NEW v \in 0..(MaxVersion + 1)
  PROVE  /\ Bare(pc, v) \in Handler /\ Bare(pc, v).pc = pc /\ Bare(pc, v).version = v
<1>1. NoPayload \in Payloads
  BY PayloadsAssumption DEF NoPayload
<1>2. 1 \in 1..(Len(CloseChecks) + 1)
  BY WorkflowAssumption
<1> QED
  BY <1>1, <1>2, NoDataIsData DEF Bare, Handler, Writes

(* So is a finished one. *)
LEMMA IdleType == Idle \in Handler /\ Idle.pc = "idle"
BY BareType, MaxVersionAssumption DEF Idle

(* The project of a Case is of its kind: the reach edge is well typed. *)
LEMMA ParentType ==
  ASSUME NEW d \in Data
  PROVE  scope_parent(d) \in Kind["project_id"] \cup {Null}
BY FieldsAssumption DEF scope_parent, Data

-----------------------------------------------------------------------------
(* Type correctness needs the bound a handler carries to its statements. *)
Bounded(h) ==
  /\ h.pc # "idle" => h.version >= 1
  /\ h.pc \in {"write", "mirror"} => h.version <= MaxVersion

TypeInv == TypeOK /\ \A c \in Clients : Bounded(handler[c])

(* A step that ends a handler or starts another leaves the rest typed. *)
LEMMA HandlerStepType ==
  ASSUME TypeInv, NEW c \in Clients, NEW h \in Handler, Bounded(h),
         handler' = [handler EXCEPT ![c] = h]
  PROVE  handler' \in [Clients -> Handler] /\ \A x \in Clients : Bounded(handler'[x])
BY DEF TypeInv, TypeOK

(* A finished handler is within the version bound. *)
LEMMA IdleBounded == Bounded(Idle)
BY IdleType DEF Bounded

(* Types hold before the Case is created. *)
LEMMA TypeInit == Init => TypeInv
<1> SUFFICES ASSUME Init PROVE TypeInv
  OBVIOUS
<1>1. TypeOK
  BY IdleType, NoDataIsData, MaxVersionAssumption DEF Init, TypeOK, Row
<1>2. \A c \in Clients : Bounded(handler[c])
  BY IdleBounded DEF Init
<1> QED
  BY <1>1, <1>2 DEF TypeInv

(* coll_create stores what validate_final has accepted. *)
LEMMA TypeCreate ==
  ASSUME TypeInv, NEW c \in Clients, NEW p \in Payloads, Create(c, p)
  PROVE  TypeInv'
<1> DEFINE d == build_create_data(p)
           h == Bare("event", 1)
<1>1. d \in Data /\ scope_parent(d) \in Kind["project_id"] \cup {Null}
  BY CreatedIsData, ParentType DEF Create
<1>2. h \in Handler /\ h.pc = "event" /\ h.version = 1
  BY BareType, MaxVersionAssumption
<1>3. Bounded(h)
  BY <1>2 DEF Bounded
<1>4. handler' \in [Clients -> Handler] /\ \A x \in Clients : Bounded(handler'[x])
  BY <1>2, <1>3, HandlerStepType DEF Create
<1> HIDE DEF d
<1>5. row' = [alive |-> TRUE, version |-> 1, data |-> d, parent |-> scope_parent(d)]
  BY DEF Create, d
<1>6. row' \in Row
  BY <1>1, <1>5, MaxVersionAssumption DEF Row
<1>7. mirror' \in [version : 0..MaxVersion, data : Data]
  BY <1>1, MaxVersionAssumption DEF Create, d
<1>8. hist' \in Seq([op : Writes \cup {"post"}, payload : Payloads, data : Data])
  BY <1>1 DEF Create, d
<1> QED
  BY <1>4, <1>6, <1>7, <1>8 DEF TypeInv, TypeOK, Create

(* The candidate of a PUT or PATCH was accepted by validate_final. *)
LEMMA TypeBeginWrite ==
  ASSUME TypeInv, NEW c \in Clients, NEW op \in Writes, NEW p \in Payloads,
         NEW v \in 1..(row.version), v < MaxVersion, BeginWrite(c, op, p, v)
  PROVE  TypeInv'
<1> DEFINE d == Requested(op, row.data, p)
           n == IF EntersTerminal(row.data["status"], d["status"])
                THEN 1 ELSE Len(CloseChecks) + 1
           h == [pc |-> "write", op |-> op, payload |-> p, data |-> d,
                 check |-> n, version |-> v + 1]
<1>1. d \in Data
  BY RequestedIsData DEF BeginWrite
<1>2. n \in 1..(Len(CloseChecks) + 1)
  BY WorkflowAssumption
<1>3. v + 1 \in 2..MaxVersion
  BY MaxVersionAssumption DEF TypeInv, TypeOK, Row
<1>4. handler' = [handler EXCEPT ![c] = h]
  BY DEF BeginWrite
<1> HIDE DEF d, n
<1>5. h \in Handler
  BY <1>1, <1>2, <1>3, MaxVersionAssumption DEF Handler
<1>6. Bounded(h)
  BY <1>3, MaxVersionAssumption DEF Bounded
<1>7. handler' \in [Clients -> Handler] /\ \A x \in Clients : Bounded(handler'[x])
  BY <1>4, <1>5, <1>6, HandlerStepType
<1> QED
  BY <1>7 DEF TypeInv, TypeOK, BeginWrite

(* The UPDATE stores the candidate under the next version. *)
LEMMA TypeUpdateRow ==
  ASSUME TypeInv, NEW c \in Clients, UpdateRow(c)
  PROVE  TypeInv'
<1> DEFINE h == handler[c]
           g == [h EXCEPT !.pc = "mirror"]
<1>1. h \in Handler /\ h.pc = "write" /\ h.version \in 1..MaxVersion
  BY MaxVersionAssumption DEF TypeInv, TypeOK, UpdateRow, Bounded, Handler
<1>2. g \in Handler /\ Bounded(g)
  BY <1>1, MaxVersionAssumption DEF Handler, Bounded
<1>3. CASE handler' = [handler EXCEPT ![c] = Idle] /\ UNCHANGED <<row, hist>>
  <2>1. handler' \in [Clients -> Handler] /\ \A x \in Clients : Bounded(handler'[x])
    BY <1>3, IdleType, IdleBounded, HandlerStepType
  <2> QED
    BY <1>3, <2>1 DEF TypeInv, TypeOK, UpdateRow
<1>4. CASE /\ row' = [alive |-> TRUE, version |-> h.version, data |-> h.data,
                      parent |-> scope_parent(h.data)]
           /\ hist' = Append(hist, [op |-> h.op, payload |-> h.payload, data |-> h.data])
           /\ handler' = [handler EXCEPT ![c].pc = "mirror"]
  <2>1. handler' = [handler EXCEPT ![c] = g]
    BY <1>4 DEF TypeInv, TypeOK
  <2>2. handler' \in [Clients -> Handler] /\ \A x \in Clients : Bounded(handler'[x])
    BY <1>2, <2>1, HandlerStepType
  <2>3. h.data \in Data /\ h.op \in Writes /\ h.payload \in Payloads
    BY <1>1 DEF Handler
  <2>4. row' \in Row
    BY <1>1, <1>4, <2>3, ParentType DEF Row
  <2>5. hist' \in Seq([op : Writes \cup {"post"}, payload : Payloads, data : Data])
    BY <1>4, <2>3 DEF TypeInv, TypeOK
  <2> QED
    BY <2>2, <2>4, <2>5 DEF TypeInv, TypeOK, UpdateRow
<1> QED
  BY <1>3, <1>4 DEF UpdateRow

(* The upsert copies the columns of the candidate. *)
LEMMA TypeUpsertMirror ==
  ASSUME TypeInv, NEW c \in Clients, UpsertMirror(c)
  PROVE  TypeInv'
<1> DEFINE h == handler[c]
           g == [h EXCEPT !.pc = "event"]
<1>1. h \in Handler /\ h.pc = "mirror" /\ h.version \in 1..MaxVersion
  BY MaxVersionAssumption DEF TypeInv, TypeOK, UpsertMirror, Bounded, Handler
<1>2. g \in Handler /\ Bounded(g)
  BY <1>1, MaxVersionAssumption DEF Handler, Bounded
<1>3. h.data \in Data
  BY <1>1 DEF Handler
<1>4. CASE handler' = [handler EXCEPT ![c] = Idle] /\ UNCHANGED mirror
           /\ unfinished' = unfinished \cup {h.version}
  <2>1. handler' \in [Clients -> Handler] /\ \A x \in Clients : Bounded(handler'[x])
    BY <1>4, IdleType, IdleBounded, HandlerStepType
  <2>2. h.version \in 1..(MaxVersion + 1)
    BY <1>1, MaxVersionAssumption
  <2>3. unfinished' \subseteq 1..(MaxVersion + 1)
    BY <1>4, <2>2 DEF TypeInv, TypeOK
  <2> QED
    BY <1>4, <2>1, <2>3 DEF TypeInv, TypeOK, UpsertMirror
<1>5. CASE /\ mirror' = [version |-> h.version, data |-> h.data]
           /\ handler' = [handler EXCEPT ![c].pc = "event"]
           /\ UNCHANGED unfinished
  <2>1. handler' = [handler EXCEPT ![c] = g]
    BY <1>5 DEF TypeInv, TypeOK
  <2>2. handler' \in [Clients -> Handler] /\ \A x \in Clients : Bounded(handler'[x])
    BY <1>2, <2>1, HandlerStepType
  <2>3. mirror' \in [version : 0..MaxVersion, data : Data]
    BY <1>1, <1>3, <1>5
  <2> QED
    BY <1>5, <2>2, <2>3 DEF TypeInv, TypeOK, UpsertMirror
<1> QED
  BY <1>4, <1>5 DEF UpsertMirror

(* Deleting the Case clears its columns and checks. *)
LEMMA TypeDelete ==
  ASSUME TypeInv, NEW c \in Clients,
         DeleteRow(c) \/ \E v \in 1..(row.version) : BeginDelete(c, v)
  PROVE  TypeInv'
<1>1. ASSUME NEW v \in 1..(row.version), BeginDelete(c, v) PROVE TypeInv'
  <2> DEFINE g == Bare("delete", v + 1)
  <2>1. v + 1 \in 1..(MaxVersion + 1)
    BY MaxVersionAssumption DEF TypeInv, TypeOK, Row
  <2>2. g \in Handler /\ Bounded(g)
    BY <2>1, BareType, MaxVersionAssumption DEF Bounded
  <2>3. handler' \in [Clients -> Handler] /\ \A x \in Clients : Bounded(handler'[x])
    BY <1>1, <2>2, HandlerStepType DEF BeginDelete
  <2> QED
    BY <1>1, <2>3 DEF TypeInv, TypeOK, BeginDelete
<1>2. ASSUME DeleteRow(c) PROVE TypeInv'
  <2> DEFINE h == handler[c]
             g == [h EXCEPT !.pc = "event"]
  <2>1. h \in Handler /\ h.pc = "delete" /\ h.version >= 1
    BY <1>2 DEF TypeInv, TypeOK, DeleteRow, Bounded
  <2>2. g \in Handler /\ Bounded(g)
    BY <2>1 DEF Handler, Bounded
  <2>3. handler' = [handler EXCEPT ![c] = Idle] \/ handler' = [handler EXCEPT ![c] = g]
    BY <1>2 DEF DeleteRow, TypeInv, TypeOK
  <2>4. handler' \in [Clients -> Handler] /\ \A x \in Clients : Bounded(handler'[x])
    BY <2>2, <2>3, IdleType, IdleBounded, HandlerStepType
  <2>5. row' \in Row
    BY <1>2 DEF DeleteRow, TypeInv, TypeOK, Row
  <2>6. mirror' \in [version : 0..MaxVersion, data : Data] /\ checks' \subseteq Checks
    BY <1>2, NoDataIsData, MaxVersionAssumption DEF DeleteRow, TypeInv, TypeOK
  <2> QED
    BY <1>2, <2>4, <2>5, <2>6 DEF TypeInv, TypeOK, DeleteRow
<1> QED
  BY <1>1, <1>2

(* Nulling a reference keeps the columns well typed. *)
LEMMA TypeDeleteRef ==
  ASSUME TypeInv, NEW r \in Refs, DeleteRef(r)
  PROVE  TypeInv'
<1>1. row' \in Row
  BY DEF TypeInv, TypeOK, DeleteRef, Row
<1>2. mirror.data \in Data
  BY DEF TypeInv, TypeOK
<1>3. SetNull(r, mirror.data) \in Data
  BY <1>2 DEF SetNull, Data
<1>4. mirror' \in [version : 0..MaxVersion, data : Data]
  BY <1>3 DEF TypeInv, TypeOK, DeleteRef
<1> QED
  BY <1>1, <1>4 DEF TypeInv, TypeOK, DeleteRef

(* Every step of every handler keeps the types. *)
LEMMA TypeStep == TypeInv /\ [Next]_vars => TypeInv'
<1> SUFFICES ASSUME TypeInv, [Next]_vars PROVE TypeInv'
  OBVIOUS
<1>1. CASE UNCHANGED vars
  BY <1>1 DEF TypeInv, TypeOK, vars
<1>2. ASSUME NEW c \in Clients, ReadCheck(c) PROVE TypeInv'
  <2> DEFINE h == handler[c]
             g == IF CloseChecks[h.check] \in checks
                  THEN [h EXCEPT !.check = @ + 1] ELSE Idle
  <2>1. h \in Handler /\ Bounded(h)
    BY DEF TypeInv, TypeOK
  <2>2. g \in Handler /\ Bounded(g)
    BY <1>2, <2>1, IdleType, IdleBounded, WorkflowAssumption, SMTT(30) DEF Handler, Bounded, ReadCheck
  <2>3. handler' \in [Clients -> Handler] /\ \A x \in Clients : Bounded(handler'[x])
    BY <1>2, <2>2, HandlerStepType DEF ReadCheck
  <2> QED
    BY <1>2, <2>3 DEF TypeInv, TypeOK, ReadCheck
<1>3. ASSUME NEW c \in Clients, RecordEvent(c) PROVE TypeInv'
  <2>1. handler' \in [Clients -> Handler] /\ \A x \in Clients : Bounded(handler'[x])
    BY <1>3, IdleType, IdleBounded, HandlerStepType DEF RecordEvent
  <2>2. handler[c].version \in 1..(MaxVersion + 1)
    BY <1>3, MaxVersionAssumption DEF TypeInv, TypeOK, RecordEvent, Handler, Bounded
  <2> QED
    BY <1>3, <2>1, <2>2 DEF TypeInv, TypeOK, RecordEvent
<1>4. ASSUME NEW c \in Clients, Abort(c) PROVE TypeInv'
  <2>1. handler' \in [Clients -> Handler] /\ \A x \in Clients : Bounded(handler'[x])
    BY <1>4, IdleType, IdleBounded, HandlerStepType DEF Abort
  <2>2. handler[c].version \in 1..(MaxVersion + 1)
    BY <1>4, MaxVersionAssumption DEF TypeInv, TypeOK, Abort, InFlight, Handler, Bounded
  <2> QED
    BY <1>4, <2>1, <2>2 DEF TypeInv, TypeOK, Abort
<1>5. ASSUME NEW c \in Clients, NEW name \in Checks, NEW passed \in BOOLEAN,
             RecordCheck(c, name, passed)
      PROVE TypeInv'
  <2>1. checks' \subseteq Checks /\ met' \subseteq Checks
    BY <1>5 DEF TypeInv, TypeOK, RecordCheck
  <2> QED
    BY <1>5, <2>1 DEF TypeInv, TypeOK, RecordCheck
<1> QED
  BY <1>1, <1>2, <1>3, <1>4, <1>5, TypeCreate, TypeBeginWrite, TypeUpdateRow,
     TypeUpsertMirror, TypeDelete, TypeDeleteRef DEF Next

(* Rows, columns, locals and history keep their types: in particular no     *)
(* write stores data that validate_final would refuse.                      *)
THEOREM TypeCorrect == Spec => []TypeOK
<1>1. TypeInv => TypeOK
  BY DEF TypeInv
<1> QED
  BY <1>1, TypeInit, TypeStep, PTL DEF Spec
-----------------------------------------------------------------------------
(***************************************************************************)
(* Why no update is lost although the handlers read data without its       *)
(* version: a handler that may still match the row's version has read the  *)
(* data of that very version, because the version it was given had been    *)
(* issued before it read and versions only grow.                           *)
(***************************************************************************)
MayMatch(h) == h.pc = "write" /\ h.version = row.version + 1

Fresh(h) ==
  /\ h.data = Requested(h.op, row.data, h.payload)
  /\ validate(row.data["status"], h.data["status"])
  /\ EntersTerminal(row.data["status"], h.data["status"]) =>
       \A i \in 1..(h.check - 1) : CloseChecks[i] \in met

Sound(h) ==
  /\ h.pc # "idle" => row.version >= 1
  /\ h.pc \in {"write", "delete"} => h.version <= row.version + 1
  /\ MayMatch(h) => Fresh(h)
  /\ h.pc = "mirror" => /\ h.version \in 1..(row.version)
                        /\ h.data = hist[h.version].data

WriteInv ==
  /\ TypeInv
  /\ \A c \in Clients : Sound(handler[c])
  /\ NoLostUpdate
  /\ StatusPathLegal
  /\ CloseNeedsChecks
  /\ checks \subseteq met

(* A finished handler claims nothing about the Case. *)
LEMMA IdleSound == Sound(Idle)
BY IdleType DEF Sound, MayMatch

(* A handler stays sound while the Case is not written. *)
LEMMA SoundStays ==
  ASSUME NEW h, Sound(h), row'.version = row.version, row'.data = row.data,
         hist' = hist, met \subseteq met'
  PROVE  Sound(h)'
BY DEF Sound, MayMatch, Fresh

(* A step that leaves the Case and its history alone keeps the invariant. *)
LEMMA QuietStep ==
  ASSUME WriteInv, TypeInv', row'.version = row.version, row'.data = row.data,
         hist' = hist, met \subseteq met', checks' \subseteq met',
         \A c \in Clients : Sound(handler'[c])
  PROVE  WriteInv'
<1>1. ASSUME NEW c \in Clients, NEW h, h = handler'[c] PROVE Sound(h)'
  BY <1>1, SoundStays
<1>2. NoLostUpdate'
  BY DEF WriteInv, NoLostUpdate
<1>3. StatusPathLegal'
  BY DEF WriteInv, StatusPathLegal
<1>4. CloseNeedsChecks'
  BY DEF WriteInv, CloseNeedsChecks
<1> QED
  BY <1>1, <1>2, <1>3, <1>4 DEF WriteInv

(* ... and such a step changes at most one handler. *)
LEMMA OneHandler ==
  ASSUME WriteInv, TypeInv', row'.version = row.version, row'.data = row.data,
         hist' = hist, met \subseteq met', checks' \subseteq met',
         NEW c \in Clients, NEW h, Sound(h),
         handler' = [handler EXCEPT ![c] = h]
  PROVE  WriteInv'
<1>1. \A x \in Clients : Sound(handler'[x])
  BY DEF WriteInv, TypeInv, TypeOK
<1> QED
  BY <1>1, QuietStep

(* The invariant holds before the Case is created. *)
LEMMA WriteInit == Init => WriteInv
<1> SUFFICES ASSUME Init PROVE WriteInv
  OBVIOUS
<1>1. TypeInv
  BY TypeInit
<1>2. \A c \in Clients : Sound(handler[c])
  BY IdleSound DEF Init
<1>3. NoLostUpdate /\ StatusPathLegal /\ CloseNeedsChecks /\ checks \subseteq met
  BY DEF Init, NoLostUpdate, StatusPathLegal, CloseNeedsChecks
<1> QED
  BY <1>1, <1>2, <1>3 DEF WriteInv

(* coll_create makes the first version, in the initial status. *)
LEMMA WriteCreate ==
  ASSUME WriteInv, TypeInv', NEW c \in Clients, NEW p \in Payloads, Create(c, p)
  PROVE  WriteInv'
<1> DEFINE d == build_create_data(p)
<1>1. /\ row.version = 0 /\ row'.version = 1 /\ row'.data = d
      /\ hist' = <<[op |-> "post", payload |-> p, data |-> d]>> /\ d["status"] = Initial
      /\ handler' = [handler EXCEPT ![c] = Bare("event", 1)]
  BY DEF Create
<1>2. \A x \in Clients : handler[x].pc = "idle"
  BY <1>1 DEF WriteInv, Sound
<1>3. Bare("event", 1).pc = "event"
  BY BareType, MaxVersionAssumption
<1>4. \A x \in Clients : handler'[x].pc \in {"idle", "event"}
  BY <1>1, <1>2, <1>3 DEF WriteInv, TypeInv, TypeOK
<1>5. \A x \in Clients : Sound(handler[x])'
  BY <1>1, <1>4 DEF Sound, MayMatch
<1> HIDE DEF d
<1>6. Len(hist') = 1 /\ hist'[1].data = d
  BY <1>1
<1>7. NoLostUpdate'
  BY <1>1, <1>6 DEF NoLostUpdate
<1>8. StatusPathLegal'
  BY <1>1, <1>6 DEF StatusPathLegal
<1>9. CloseNeedsChecks'
  BY <1>1, <1>6 DEF CloseNeedsChecks
<1> QED
  BY <1>5, <1>7, <1>8, <1>9 DEF WriteInv, Create

(* The UPDATE appends a version made from the one before it. *)
LEMMA WriteUpdateRow ==
  ASSUME WriteInv, TypeInv', NEW c \in Clients, UpdateRow(c)
  PROVE  WriteInv'
<1> DEFINE h == handler[c]
           e == [op |-> h.op, payload |-> h.payload, data |-> h.data]
           n == row.version
<1>1. CASE ~(row.alive /\ row.version + 1 = h.version /\ RefOK(scope_parent(h.data)))
  BY <1>1, IdleSound, OneHandler DEF UpdateRow, WriteInv
<1>2. CASE row.alive /\ row.version + 1 = h.version /\ RefOK(scope_parent(h.data))
  <2>1. /\ row'.version = n + 1 /\ row'.data = h.data /\ hist' = Append(hist, e)
        /\ handler' = [handler EXCEPT ![c].pc = "mirror"] /\ met' = met
        /\ h.pc = "write" /\ h.check > Len(CloseChecks)
    BY <1>2 DEF UpdateRow
  <2>2. h \in Handler /\ n \in Nat /\ h.version = n + 1
    BY <1>2 DEF WriteInv, TypeInv, TypeOK, Row
  <2>3. Sound(h) /\ n >= 1
    BY <2>1 DEF WriteInv, Sound
  <2>4. Fresh(h)
    BY <2>1, <2>2, <2>3 DEF Sound, MayMatch
  <2>5. /\ Len(hist) = n /\ row.data = hist[n].data
        /\ hist \in Seq([op : Writes \cup {"post"}, payload : Payloads, data : Data])
    BY <2>3 DEF WriteInv, NoLostUpdate, TypeInv, TypeOK
  <2>6. e \in [op : Writes \cup {"post"}, payload : Payloads, data : Data]
    BY <2>2 DEF Handler
  <2> HIDE DEF e
  <2>7. /\ Len(hist') = n + 1 /\ hist'[n + 1] = e
        /\ \A v \in 1..n : hist'[v] = hist[v]
    BY <2>1, <2>2, <2>5, <2>6
  <2>8. e.data = h.data /\ e.op = h.op /\ e.payload = h.payload
    BY DEF e
  <2>9. ASSUME NEW v \in 2..(n + 1)
        PROVE  v \in 2..Len(hist) \/ (v = n + 1 /\ v - 1 = n /\ n \in 1..n)
    BY <2>2, <2>3, <2>5
  <2>10. NoLostUpdate'
    <3>1. ASSUME NEW v \in 2..(n + 1)
          PROVE hist'[v].data = Requested(hist'[v].op, hist'[v - 1].data, hist'[v].payload)
      <4>1. CASE v \in 2..Len(hist)
        <5>1. v \in 1..n /\ v - 1 \in 1..n
          BY <2>2, <2>5, <4>1
        <5> QED
          BY <2>7, <4>1, <5>1 DEF WriteInv, NoLostUpdate
      <4>2. CASE v = n + 1 /\ v - 1 = n /\ n \in 1..n
        BY <2>4, <2>5, <2>7, <2>8, <4>2 DEF Fresh
      <4> QED
        BY <2>9, <4>1, <4>2
    <3> QED
      BY <2>1, <2>7, <2>8, <3>1 DEF NoLostUpdate
  <2>11. StatusPathLegal'
    <3>1. ASSUME NEW v \in 2..(n + 1)
          PROVE validate(hist'[v - 1].data["status"], hist'[v].data["status"])
      <4>1. CASE v \in 2..Len(hist)
        <5>1. v \in 1..n /\ v - 1 \in 1..n
          BY <2>2, <2>5, <4>1
        <5> QED
          BY <2>7, <4>1, <5>1 DEF WriteInv, StatusPathLegal
      <4>2. CASE v = n + 1 /\ v - 1 = n /\ n \in 1..n
        BY <2>4, <2>5, <2>7, <2>8, <4>2 DEF Fresh
      <4> QED
        BY <2>9, <4>1, <4>2
    <3>2. hist'[1].data["status"] = Initial
      BY <2>2, <2>3, <2>5, <2>7, SMTT(30) DEF WriteInv, StatusPathLegal
    <3> QED
      BY <2>7, <3>1, <3>2 DEF StatusPathLegal
  <2>12. CloseNeedsChecks'
    <3>1. ASSUME NEW v \in 2..(n + 1),
                 EntersTerminal(hist'[v - 1].data["status"], hist'[v].data["status"])
          PROVE Checks \subseteq met
      <4>1. CASE v \in 2..Len(hist)
        <5>1. v \in 1..n /\ v - 1 \in 1..n
          BY <2>2, <2>5, <4>1
        <5> QED
          BY <2>7, <3>1, <4>1, <5>1 DEF WriteInv, CloseNeedsChecks
      <4>2. CASE v = n + 1 /\ v - 1 = n /\ n \in 1..n
        <5>1. EntersTerminal(row.data["status"], h.data["status"])
          BY <2>5, <2>7, <2>8, <3>1, <4>2
        <5>2. \A i \in 1..Len(CloseChecks) : i \in 1..(h.check - 1)
          BY <2>1, <2>2, WorkflowAssumption DEF Handler
        <5> QED
          BY <2>4, <5>1, <5>2 DEF Fresh, Checks
      <4> QED
        BY <2>9, <4>1, <4>2
    <3> QED
      BY <2>1, <2>7, <3>1 DEF CloseNeedsChecks
  <2>13. ASSUME NEW x \in Clients, NEW g, g = handler'[x] PROVE Sound(g)'
    <3>1. CASE x = c
      <4>1. g.pc = "mirror" /\ g.version = n + 1 /\ g.data = h.data
        BY <2>1, <2>2, <2>13, <3>1 DEF WriteInv, TypeInv, TypeOK, Handler
      <4>2. n + 1 \in 1..(n + 1) /\ n + 1 >= 1
        BY <2>2
      <4> QED
        BY <2>1, <2>7, <2>8, <4>1, <4>2 DEF Sound, MayMatch
    <3>2. CASE x # c
      <4>1. g = handler[x] /\ g \in Handler /\ Sound(g)
        BY <2>1, <2>13, <3>2 DEF WriteInv, TypeInv, TypeOK
      <4>2. g.version \in Int
        BY <4>1 DEF Handler
      <4>3. ~ MayMatch(g)'
        BY <2>1, <2>2, <4>1, <4>2 DEF Sound, MayMatch
      <4>4. g.pc \in {"write", "delete"} => g.version <= (n + 1) + 1
        BY <2>2, <4>1, <4>2 DEF Sound
      <4>5. g.pc = "mirror" => g.version \in 1..(n + 1) /\ g.data = hist'[g.version].data
        BY <2>2, <2>7, <4>1, <4>2 DEF Sound
      <4>6. row'.version = n + 1 /\ n + 1 >= 1
        BY <2>1, <2>2
      <4>7. /\ g.pc # "idle" => row'.version >= 1
            /\ g.pc \in {"write", "delete"} => g.version <= row'.version + 1
            /\ g.pc = "mirror" => /\ g.version \in 1..(row'.version)
                                  /\ g.data = hist'[g.version].data
        BY <4>4, <4>5, <4>6
      <4> QED
        BY <4>3, <4>7 DEF Sound
    <3> QED
      BY <3>1, <3>2
  <2> QED
    BY <2>10, <2>11, <2>12, <2>13 DEF WriteInv, UpdateRow
<1> QED
  BY <1>1, <1>2

(* A handler that begins has read the data of the present version. *)
LEMMA WriteBegin ==
  ASSUME WriteInv, TypeInv', NEW c \in Clients, NEW op \in Writes, NEW p \in Payloads,
         NEW v \in 1..(row.version), BeginWrite(c, op, p, v)
  PROVE  WriteInv'
<1> DEFINE d == Requested(op, row.data, p)
           n == IF EntersTerminal(row.data["status"], d["status"])
                THEN 1 ELSE Len(CloseChecks) + 1
           h == [pc |-> "write", op |-> op, payload |-> p, data |-> d,
                 check |-> n, version |-> v + 1]
<1>1. /\ row' = row /\ hist' = hist /\ met' = met /\ handler' = [handler EXCEPT ![c] = h]
      /\ validate(row.data["status"], d["status"]) /\ checks' \subseteq met'
  BY DEF BeginWrite, WriteInv
<1>2. row.version \in Nat /\ v \in Nat /\ v <= row.version /\ 1 <= v
  BY DEF WriteInv, TypeInv, TypeOK, Row
<1>3. EntersTerminal(row.data["status"], d["status"]) => n = 1
  OBVIOUS
<1> HIDE DEF d, n
<1>4. /\ h.pc = "write" /\ h.data = d /\ h.op = op /\ h.payload = p /\ h.check = n
      /\ h.version = v + 1
  OBVIOUS
<1> HIDE DEF h
<1>5. Fresh(h)
  BY <1>1, <1>3, <1>4 DEF Fresh, d
<1>6. Sound(h)
  BY <1>2, <1>4, <1>5 DEF Sound
<1> QED
  BY <1>1, <1>6, OneHandler

(* A check that is read as passed has been recorded as passed. *)
LEMMA WriteReadCheck ==
  ASSUME WriteInv, TypeInv', NEW c \in Clients, ReadCheck(c)
  PROVE  WriteInv'
<1> DEFINE h == handler[c]
           g == [h EXCEPT !.check = @ + 1]
<1>1. row' = row /\ hist' = hist /\ met' = met /\ checks \subseteq met /\ checks' = checks
  BY DEF ReadCheck, WriteInv
<1>2. CASE CloseChecks[h.check] \notin checks
  BY <1>1, <1>2, IdleSound, OneHandler DEF ReadCheck
<1>3. CASE CloseChecks[h.check] \in checks
  <2>1. h \in Handler /\ Sound(h) /\ h.pc = "write"
    BY DEF WriteInv, TypeInv, TypeOK, ReadCheck
  <2>2. /\ g.pc = "write" /\ g.data = h.data /\ g.op = h.op /\ g.payload = h.payload
        /\ g.check = h.check + 1 /\ g.version = h.version
    BY <2>1 DEF Handler
  <2>3. handler' = [handler EXCEPT ![c] = g]
    BY <1>3 DEF ReadCheck
  <2> HIDE DEF g
  <2>4. ASSUME Fresh(h) PROVE Fresh(g)
    <3>1. \A i \in 1..(g.check - 1) : i \in 1..(h.check - 1) \/ i = h.check
      BY <2>1, <2>2 DEF Handler
    <3> QED
      BY <1>1, <1>3, <2>2, <2>4, <3>1 DEF Fresh
  <2>5. Sound(g)
    BY <2>1, <2>2, <2>4 DEF Sound, MayMatch
  <2> QED
    BY <1>1, <2>3, <2>5, OneHandler
<1> QED
  BY <1>2, <1>3

(* The upsert leaves the Case and its history alone. *)
LEMMA WriteUpsertMirror ==
  ASSUME WriteInv, TypeInv', NEW c \in Clients, UpsertMirror(c)
  PROVE  WriteInv'
<1> DEFINE h == handler[c]
           g == [h EXCEPT !.pc = "event"]
<1>1. row' = row /\ hist' = hist /\ met' = met /\ checks' \subseteq met' /\ h.pc = "mirror"
  BY DEF UpsertMirror, WriteInv
<1>2. h \in Handler /\ Sound(h)
  BY DEF WriteInv, TypeInv, TypeOK
<1>3. Sound(g)
  <2>1. g.pc = "event"
    BY <1>2 DEF Handler
  <2> QED
    BY <1>1, <1>2, <2>1 DEF Sound, MayMatch
<1>4. handler' = [handler EXCEPT ![c] = Idle] \/ handler' = [handler EXCEPT ![c] = g]
  BY DEF UpsertMirror
<1> QED
  BY <1>1, <1>3, <1>4, IdleSound, OneHandler

(* A deletion changes no version either. *)
LEMMA WriteDelete ==
  ASSUME WriteInv, TypeInv', NEW c \in Clients,
         DeleteRow(c) \/ \E v \in 1..(row.version) : BeginDelete(c, v)
  PROVE  WriteInv'
<1>0. row \in Row /\ row.version \in Nat /\ checks \subseteq met
  BY DEF WriteInv, TypeInv, TypeOK, Row
<1>1. ASSUME NEW v \in 1..(row.version), BeginDelete(c, v) PROVE WriteInv'
  <2>1. v + 1 \in 0..(MaxVersion + 1)
    BY MaxVersionAssumption DEF WriteInv, TypeInv, TypeOK, Row
  <2>2. Bare("delete", v + 1).pc = "delete" /\ Bare("delete", v + 1).version = v + 1
    BY <2>1, BareType
  <2>3. Sound(Bare("delete", v + 1))
    BY <1>0, <2>2 DEF Sound, MayMatch
  <2> QED
    BY <1>0, <1>1, <2>3, OneHandler DEF BeginDelete
<1>2. ASSUME DeleteRow(c) PROVE WriteInv'
  <2> DEFINE h == handler[c]
             g == [h EXCEPT !.pc = "event"]
  <2>1. h \in Handler /\ Sound(h) /\ h.pc = "delete"
    BY <1>2 DEF WriteInv, TypeInv, TypeOK, DeleteRow
  <2>2. g.pc = "event"
    BY <2>1 DEF Handler
  <2>3. Sound(g)
    BY <2>1, <2>2 DEF Sound, MayMatch
  <2>4. handler' = [handler EXCEPT ![c] = Idle] \/ handler' = [handler EXCEPT ![c] = g]
    BY <1>2 DEF DeleteRow
  <2>5. /\ row'.version = row.version /\ row'.data = row.data /\ hist' = hist
        /\ met' = met /\ checks' \subseteq met'
    BY <1>0, <1>2 DEF DeleteRow, Row
  <2> QED
    BY <2>3, <2>4, <2>5, IdleSound, OneHandler
<1> QED
  BY <1>1, <1>2

(* Every step of every handler keeps the invariant. *)
LEMMA WriteStep == WriteInv /\ [Next]_vars => WriteInv'
<1> SUFFICES ASSUME WriteInv, [Next]_vars PROVE WriteInv'
  OBVIOUS
<1>0. TypeInv' /\ checks \subseteq met /\ \A c \in Clients : Sound(handler[c])
  BY TypeStep DEF WriteInv
<1>1. CASE UNCHANGED vars
  BY <1>0, <1>1, QuietStep DEF vars
<1>2. ASSUME NEW c \in Clients, RecordEvent(c) PROVE WriteInv'
  BY <1>0, <1>2, IdleSound, OneHandler DEF RecordEvent
<1>3. ASSUME NEW c \in Clients, Abort(c) PROVE WriteInv'
  BY <1>0, <1>3, IdleSound, OneHandler DEF Abort
<1>4. ASSUME NEW c \in Clients, NEW name \in Checks, NEW passed \in BOOLEAN,
             RecordCheck(c, name, passed)
      PROVE WriteInv'
  <2>1. checks' \subseteq met' /\ met \subseteq met'
    BY <1>0, <1>4 DEF RecordCheck
  <2> QED
    BY <1>0, <1>4, <2>1, QuietStep DEF RecordCheck
<1>5. ASSUME NEW r \in Refs, DeleteRef(r) PROVE WriteInv'
  <2>1. row'.version = row.version /\ row'.data = row.data
    BY <1>5 DEF DeleteRef, WriteInv, TypeInv, TypeOK, Row
  <2> QED
    BY <1>0, <1>5, <2>1, QuietStep DEF DeleteRef
<1> QED
  BY <1>0, <1>1, <1>2, <1>3, <1>4, <1>5, WriteCreate, WriteBegin, WriteReadCheck,
     WriteUpdateRow, WriteUpsertMirror, WriteDelete DEF Next

(* The invariant behind the three theorems that follow. *)
LEMMA WriteInvariant == Spec => []WriteInv
BY WriteInit, WriteStep, PTL DEF Spec

(* No silent clobber: each version is the version before it with exactly    *)
(* one request applied, for every interleaving of PUT, PATCH and DELETE.    *)
THEOREM NoLostUpdateHolds == Spec => []NoLostUpdate
<1>1. WriteInv => NoLostUpdate
  BY DEF WriteInv
<1> QED
  BY <1>1, WriteInvariant, PTL

(* The statuses of a Case walk its workflow, although each move is checked  *)
(* against a status read before the UPDATE.                                 *)
THEOREM StatusPathLegalHolds == Spec => []StatusPathLegal
<1>1. WriteInv => StatusPathLegal
  BY DEF WriteInv
<1> QED
  BY <1>1, WriteInvariant, PTL

(* No Case becomes terminal before each of its close checks has passed once. *)
THEOREM CloseNeedsChecksHolds == Spec => []CloseNeedsChecks
<1>1. WriteInv => CloseNeedsChecks
  BY DEF WriteInv
<1> QED
  BY <1>1, WriteInvariant, PTL
-----------------------------------------------------------------------------
(***************************************************************************)
(* The columns beside the JSON data: the cases row and the reach edge.     *)
(***************************************************************************)
ColumnsInv == WriteInv /\ MirrorIsAVersion /\ ParentIsProject

(* Data whose references exist is mirrored as it is. *)
LEMMA ColumnsOfLive ==
  ASSUME NEW d \in Data, \A f \in RefFields : RefOK(d[f])
  PROVE  Columns(d) = d
BY DEF Columns, Data

(* The columns of a version change only when an entity is deleted. *)
LEMMA ColumnsSame ==
  ASSUME live' = live
  PROVE  \A d : Columns(d)' = Columns(d)
BY DEF Columns, RefOK

(* Deleting an entity nulls exactly the columns that lose their target. *)
LEMMA ColumnsSetNull ==
  ASSUME NEW r, live' = live \ {r}, NEW d
  PROVE  SetNull(r, Columns(d)) = Columns(d)'
BY DEF Columns, SetNull, RefOK

(* Steps that touch neither row nor references keep both columns. *)
LEMMA ColumnsStay ==
  ASSUME ColumnsInv, row' = row, mirror' = mirror, live' = live, hist' = hist
  PROVE  MirrorIsAVersion' /\ ParentIsProject'
<1>1. \A d : Columns(d)' = Columns(d)
  BY ColumnsSame
<1> QED
  BY <1>1 DEF ColumnsInv, MirrorIsAVersion, ParentIsProject

(* coll_create writes row and mirror in one transaction. *)
LEMMA ColumnsCreate ==
  ASSUME ColumnsInv, NEW c \in Clients, NEW p \in Payloads, Create(c, p)
  PROVE  MirrorIsAVersion' /\ ParentIsProject'
<1> DEFINE d == build_create_data(p)
<1>1. d \in Data /\ \A f \in RefFields : RefOK(d[f])
  BY CreatedIsData DEF Create
<1>2. /\ live' = live /\ row'.alive = TRUE /\ row'.version = 1 /\ row'.data = d
      /\ row'.parent = d["project_id"] /\ mirror'.version = 1 /\ mirror'.data = d
      /\ hist' = <<[op |-> "post", payload |-> p, data |-> d]>>
  BY DEF Create, scope_parent
<1> HIDE DEF d
<1>3. Columns(d)' = d /\ hist'[1].data = d
  BY <1>1, <1>2, ColumnsOfLive, ColumnsSame
<1>4. MirrorIsAVersion'
  BY <1>2, <1>3 DEF MirrorIsAVersion
<1>5. ParentIsProject'
  BY <1>2, <1>3 DEF ParentIsProject
<1> QED
  BY <1>4, <1>5

(* The UPDATE sets the reach edge and leaves the mirror at its version. *)
LEMMA ColumnsUpdateRow ==
  ASSUME ColumnsInv, NEW c \in Clients, UpdateRow(c)
  PROVE  MirrorIsAVersion' /\ ParentIsProject'
<1> DEFINE h == handler[c]
           e == [op |-> h.op, payload |-> h.payload, data |-> h.data]
<1>1. CASE ~(row.alive /\ row.version + 1 = h.version /\ RefOK(scope_parent(h.data)))
  BY <1>1, ColumnsStay DEF UpdateRow
<1>2. CASE row.alive /\ row.version + 1 = h.version /\ RefOK(scope_parent(h.data))
  <2>1. /\ row'.alive = TRUE /\ row'.version = h.version /\ row'.data = h.data
        /\ row'.parent = scope_parent(h.data) /\ hist' = Append(hist, e)
        /\ mirror' = mirror /\ live' = live
    BY <1>2 DEF UpdateRow
  <2>2. h.data \in Data /\ e \in [op : Writes \cup {"post"}, payload : Payloads, data : Data]
    BY DEF ColumnsInv, WriteInv, TypeInv, TypeOK, Handler
  <2>3. /\ hist \in Seq([op : Writes \cup {"post"}, payload : Payloads, data : Data])
        /\ Len(hist) = row.version /\ row.version \in Nat
    BY DEF ColumnsInv, WriteInv, NoLostUpdate, TypeInv, TypeOK, Row
  <2> HIDE DEF e
  <2>4. mirror.version \in 1..(row.version) /\ mirror.data = Columns(hist[mirror.version].data)
    BY <1>2 DEF ColumnsInv, MirrorIsAVersion
  <2>5. hist'[mirror.version] = hist[mirror.version] /\ mirror.version \in 1..(row'.version)
    BY <1>2, <2>1, <2>2, <2>3, <2>4
  <2>6. MirrorIsAVersion'
    BY <2>1, <2>4, <2>5, ColumnsSame DEF MirrorIsAVersion
  <2>7. Columns(h.data)["project_id"] = scope_parent(h.data)
    BY <1>2, FieldsAssumption DEF Columns, scope_parent
  <2>8. ParentIsProject'
    BY <2>1, <2>7, ColumnsSame DEF ParentIsProject
  <2> QED
    BY <2>6, <2>8
<1> QED
  BY <1>1, <1>2

(* The upsert sets the mirror to the version of its handler. *)
LEMMA ColumnsUpsertMirror ==
  ASSUME ColumnsInv, NEW c \in Clients, UpsertMirror(c)
  PROVE  MirrorIsAVersion' /\ ParentIsProject'
<1> DEFINE h == handler[c]
           ok == /\ row.alive
                 /\ \A f \in RefFields : RefOK(h.data[f])
                 /\ cases_guard(mirror.data["status"], h.data["status"])
<1>1. CASE ~ok
  BY <1>1, ColumnsStay DEF UpsertMirror
<1>2. CASE ok
  <2>1. /\ mirror' = [version |-> h.version, data |-> h.data] /\ row' = row
        /\ live' = live /\ hist' = hist /\ h.pc = "mirror"
    BY <1>2 DEF UpsertMirror
  <2>2. h.data \in Data /\ Sound(h)
    BY DEF ColumnsInv, WriteInv, TypeInv, TypeOK, Handler
  <2>3. h.version \in 1..(row.version) /\ h.data = hist[h.version].data
    BY <2>1, <2>2 DEF Sound
  <2>a. PICK d \in Data : d = h.data
    BY <2>2
  <2>4. Columns(d)' = d
    BY <1>2, <2>1, <2>a, ColumnsOfLive, ColumnsSame
  <2>5. MirrorIsAVersion'
    BY <1>2, <2>1, <2>3, <2>4, <2>a DEF MirrorIsAVersion
  <2>6. ParentIsProject'
    BY <2>1, ColumnsSame DEF ColumnsInv, ParentIsProject
  <2> QED
    BY <2>5, <2>6
<1> QED
  BY <1>1, <1>2

(* Deleting an entity nulls the columns that refer to it. *)
LEMMA ColumnsDeleteRef ==
  ASSUME ColumnsInv, NEW r \in Refs, DeleteRef(r)
  PROVE  MirrorIsAVersion' /\ ParentIsProject'
<1>1. /\ live' = live \ {r} /\ hist' = hist
      /\ row'.alive = row.alive /\ row'.version = row.version /\ row'.data = row.data
      /\ row'.parent = (IF row.parent = r THEN Null ELSE row.parent)
      /\ mirror'.version = mirror.version /\ mirror'.data = SetNull(r, mirror.data)
  BY DEF DeleteRef, ColumnsInv, WriteInv, TypeInv, TypeOK, Row
<1>2. \A d : SetNull(r, Columns(d)) = Columns(d)'
  BY <1>1, ColumnsSetNull
<1>3. MirrorIsAVersion'
  BY <1>1, <1>2 DEF ColumnsInv, MirrorIsAVersion
<1>4. ParentIsProject'
  BY <1>1, FieldsAssumption
  DEF ColumnsInv, ParentIsProject, Columns, RefOK, RefFields
<1> QED
  BY <1>3, <1>4

(* Before the Case is created there is no mirror. *)
LEMMA ColumnsInit == Init => ColumnsInv
BY WriteInit DEF Init, ColumnsInv, MirrorIsAVersion, ParentIsProject

(* Every step of every handler keeps the columns. *)
LEMMA ColumnsStep == ColumnsInv /\ [Next]_vars => ColumnsInv'
<1> SUFFICES ASSUME ColumnsInv, [Next]_vars PROVE MirrorIsAVersion' /\ ParentIsProject'
  BY WriteStep DEF ColumnsInv
<1>1. CASE UNCHANGED vars
  BY <1>1, ColumnsStay DEF vars
<1>2. ASSUME NEW c \in Clients,
             \/ \E op \in Writes, p \in Payloads, v \in 1..(row.version) :
                  BeginWrite(c, op, p, v)
             \/ ReadCheck(c) \/ RecordEvent(c) \/ Abort(c)
             \/ \E v \in 1..(row.version) : BeginDelete(c, v)
             \/ \E name \in Checks, passed \in BOOLEAN : RecordCheck(c, name, passed)
      PROVE MirrorIsAVersion' /\ ParentIsProject'
  BY <1>2, ColumnsStay DEF BeginWrite, ReadCheck, RecordEvent, Abort, BeginDelete, RecordCheck
<1>3. ASSUME NEW c \in Clients, DeleteRow(c) PROVE MirrorIsAVersion' /\ ParentIsProject'
  <2>1. CASE UNCHANGED <<row, mirror>>
    BY <1>3, <2>1, ColumnsStay DEF DeleteRow
  <2>2. CASE row' = [row EXCEPT !.alive = FALSE] /\ mirror' = [version |-> 0, data |-> NoData]
    <3>1. row'.alive = FALSE /\ mirror'.version = 0
      BY <2>2 DEF ColumnsInv, WriteInv, TypeInv, TypeOK, Row
    <3> QED
      BY <3>1 DEF MirrorIsAVersion, ParentIsProject
  <2> QED
    BY <1>3, <2>1, <2>2 DEF DeleteRow
<1> QED
  BY <1>1, <1>2, <1>3, ColumnsCreate, ColumnsUpdateRow, ColumnsUpsertMirror,
     ColumnsDeleteRef DEF Next

(* However late its upsert, a handler leaves in the cases row one whole      *)
(* version of the Case, and none once the Case is deleted.                  *)
THEOREM MirrorIsAVersionHolds == Spec => []MirrorIsAVersion
<1>1. ColumnsInv => MirrorIsAVersion
  BY DEF ColumnsInv
<1> QED
  BY <1>1, ColumnsInit, ColumnsStep, PTL DEF Spec

(* The reach edge never points anywhere but to the project in the data. *)
THEOREM ParentIsProjectHolds == Spec => []ParentIsProject
<1>1. ColumnsInv => ParentIsProject
  BY DEF ColumnsInv
<1> QED
  BY <1>1, ColumnsInit, ColumnsStep, PTL DEF Spec

-----------------------------------------------------------------------------
(***************************************************************************)
(* The audit rows of a live Case.                                          *)
(***************************************************************************)
Owing(h) == h.pc \in {"mirror", "event"}

(* A handler that owes an audit row goes on owing it, writes it, or is      *)
(* counted as unfinished.                                                   *)
LEMMA AuditKeeps ==
  ASSUME WriteInv, AuditAccounted, NEW c \in Clients, NEW h,
         row'.alive = row.alive, row'.version = row.version,
         events \subseteq events', unfinished \subseteq unfinished',
         handler' = [handler EXCEPT ![c] = h],
         row.alive /\ Owing(handler[c]) =>
           \/ handler[c].version \in events' \cup unfinished'
           \/ Owing(h) /\ h.version = handler[c].version
  PROVE  AuditAccounted'
<1> SUFFICES ASSUME row.alive, NEW v \in 1..(row.version)
             PROVE  \/ v \in events' \cup unfinished'
                    \/ \E x \in Clients : Owing(handler'[x]) /\ handler'[x].version = v
  BY DEF AuditAccounted, Owing
<1>1. CASE v \in events \cup unfinished
  BY <1>1
<1>2. ASSUME NEW x \in Clients, Owing(handler[x]), handler[x].version = v
      PROVE  \/ v \in events' \cup unfinished'
             \/ \E y \in Clients : Owing(handler'[y]) /\ handler'[y].version = v
  <2>1. handler'[c] = h /\ (x # c => handler'[x] = handler[x])
    BY DEF WriteInv, TypeInv, TypeOK
  <2>2. CASE x = c
    BY <1>2, <2>1, <2>2
  <2>3. CASE x # c
    BY <1>2, <2>1, <2>3
  <2> QED
    BY <2>2, <2>3
<1> QED
  BY <1>1, <1>2 DEF AuditAccounted, Owing

(* Whoever writes a version owes its audit row. *)
LEMMA AuditUpdateRow ==
  ASSUME WriteInv, AuditAccounted, NEW c \in Clients, UpdateRow(c)
  PROVE  AuditAccounted'
<1> DEFINE h == handler[c]
<1>0. h.pc = "write" /\ h \in Handler /\ row.version \in Nat
  BY DEF UpdateRow, WriteInv, TypeInv, TypeOK, Row
<1>1. CASE ~(row.alive /\ row.version + 1 = h.version /\ RefOK(scope_parent(h.data)))
  <2>1. /\ row' = row /\ events' = events /\ unfinished' = unfinished
        /\ handler' = [handler EXCEPT ![c] = Idle]
    BY <1>1 DEF UpdateRow
  <2> QED
    BY <1>0, <2>1, AuditKeeps DEF Owing
<1>2. CASE row.alive /\ row.version + 1 = h.version /\ RefOK(scope_parent(h.data))
  <2>1. /\ row'.version = row.version + 1 /\ events' = events /\ unfinished' = unfinished
        /\ handler'[c].pc = "mirror" /\ handler'[c].version = row.version + 1
        /\ \A x \in Clients : x # c => handler'[x] = handler[x]
    BY <1>0, <1>2 DEF UpdateRow, WriteInv, TypeInv, TypeOK, Handler
  <2>2. ASSUME NEW v \in 1..(row.version + 1)
        PROVE  v \in 1..(row.version) \/ v = handler'[c].version
    BY <1>0, <2>1
  <2>3. ASSUME NEW v \in 1..(row.version)
        PROVE  \/ v \in events' \cup unfinished'
               \/ \E x \in Clients : handler'[x].pc \in {"mirror", "event"}
                                     /\ handler'[x].version = v
    BY <1>0, <1>2, <2>1 DEF AuditAccounted
  <2> QED
    BY <2>1, <2>2, <2>3 DEF AuditAccounted
<1> QED
  BY <1>1, <1>2

(* Every step of every handler keeps the audit rows accounted for. *)
LEMMA AuditStep == WriteInv /\ AuditAccounted /\ [Next]_vars => AuditAccounted'
<1> SUFFICES ASSUME WriteInv, AuditAccounted, [Next]_vars PROVE AuditAccounted'
  OBVIOUS
<1>1. CASE UNCHANGED vars
  BY <1>1 DEF vars, AuditAccounted
<1>2. ASSUME NEW c \in Clients, NEW p \in Payloads, Create(c, p) PROVE AuditAccounted'
  <2>1. row'.version = 1 /\ handler'[c] = Bare("event", 1)
    BY <1>2 DEF Create, WriteInv, TypeInv, TypeOK
  <2>2. handler'[c].pc = "event" /\ handler'[c].version = 1
    BY <2>1, BareType, MaxVersionAssumption
  <2> QED
    BY <2>1, <2>2 DEF AuditAccounted
<1>3. ASSUME NEW c \in Clients, NEW op \in Writes, NEW p \in Payloads,
             NEW v \in 1..(row.version), BeginWrite(c, op, p, v)
      PROVE AuditAccounted'
  BY <1>3, AuditKeeps DEF BeginWrite, InFlight, Owing
<1>4. ASSUME NEW c \in Clients, ReadCheck(c) PROVE AuditAccounted'
  BY <1>4, AuditKeeps DEF ReadCheck, Owing
<1>5. ASSUME NEW c \in Clients, UpsertMirror(c) PROVE AuditAccounted'
  <2> DEFINE h == handler[c]
             g == [h EXCEPT !.pc = "event"]
  <2>1. h \in Handler /\ row' = row /\ events' = events
    BY <1>5 DEF UpsertMirror, WriteInv, TypeInv, TypeOK
  <2>2. g.pc = "event" /\ g.version = h.version
    BY <2>1 DEF Handler
  <2>3. CASE handler' = [handler EXCEPT ![c] = Idle] /\ unfinished' = unfinished \cup {h.version}
    BY <2>1, <2>3, AuditKeeps
  <2>4. CASE handler' = [handler EXCEPT ![c].pc = "event"] /\ unfinished' = unfinished
    BY <2>1, <2>2, <2>4, AuditKeeps DEF Owing
  <2> QED
    BY <1>5, <2>3, <2>4 DEF UpsertMirror
<1>6. ASSUME NEW c \in Clients, RecordEvent(c) PROVE AuditAccounted'
  BY <1>6, AuditKeeps DEF RecordEvent
<1>7. ASSUME NEW c \in Clients, NEW v \in 1..(row.version), BeginDelete(c, v)
      PROVE AuditAccounted'
  BY <1>7, AuditKeeps DEF BeginDelete, InFlight, Owing
<1>8. ASSUME NEW c \in Clients, DeleteRow(c) PROVE AuditAccounted'
  <2>1. CASE handler' = [handler EXCEPT ![c] = Idle] /\ row' = row
    BY <1>8, <2>1, AuditKeeps DEF DeleteRow, Owing
  <2>2. CASE row' = [row EXCEPT !.alive = FALSE]
    BY <2>2 DEF AuditAccounted, WriteInv, TypeInv, TypeOK, Row
  <2> QED
    BY <1>8, <2>1, <2>2 DEF DeleteRow
<1>9. ASSUME NEW c \in Clients, NEW name \in Checks, NEW passed \in BOOLEAN,
             RecordCheck(c, name, passed)
      PROVE AuditAccounted'
  BY <1>9 DEF RecordCheck, AuditAccounted
<1>10. ASSUME NEW c \in Clients, Abort(c) PROVE AuditAccounted'
  BY <1>10, AuditKeeps DEF Abort, Owing
<1>11. ASSUME NEW r \in Refs, DeleteRef(r) PROVE AuditAccounted'
  <2>1. row'.alive = row.alive /\ row'.version = row.version
    BY <1>11 DEF DeleteRef, WriteInv, TypeInv, TypeOK, Row
  <2> QED
    BY <1>11, <2>1 DEF DeleteRef, AuditAccounted
<1> QED
  BY <1>1, <1>2, <1>3, <1>4, <1>5, <1>6, <1>7, <1>8, <1>9, <1>10, <1>11, AuditUpdateRow
  DEF Next

(* Only a handler that was cut off or refused after its UPDATE leaves a     *)
(* version of a live Case without an audit row.                             *)
THEOREM AuditAccountedHolds == Spec => []AuditAccounted
<1>1. Init => AuditAccounted
  BY DEF Init, AuditAccounted
<1> QED
  BY <1>1, WriteInvariant, AuditStep, PTL DEF Spec

(***************************************************************************)
(* The field gate looks at the payload alone, when the handler begins.  A  *)
(* handler about to write carries a payload that its caller may write, and *)
(* its data is that payload applied to what the UPDATE replaces.           *)
(***************************************************************************)
GateInv == \A c \in Clients : handler[c].pc = "write" => require_write(c, handler[c].payload)

(* Only BeginWrite makes a handler one that writes, and it asks the gate. *)
LEMMA GateStep == WriteInv /\ GateInv /\ [Next]_vars => GateInv'
<1> SUFFICES ASSUME WriteInv, GateInv, [Next]_vars PROVE GateInv'
  OBVIOUS
<1>0. handler \in [Clients -> Handler] /\ Idle.pc = "idle"
  BY IdleType DEF WriteInv, TypeInv, TypeOK
<1>1. CASE UNCHANGED handler
  BY <1>1 DEF GateInv, require_write
<1>2. ASSUME NEW c \in Clients, NEW h, handler' = [handler EXCEPT ![c] = h],
             h.pc = "write" => require_write(c, h.payload)
      PROVE GateInv'
  BY <1>0, <1>2 DEF GateInv, require_write
<1>3. ASSUME NEW c \in Clients, handler' = [handler EXCEPT ![c] = Idle] PROVE GateInv'
  BY <1>0, <1>2, <1>3
<1>4. ASSUME NEW c \in Clients, NEW pc \in {"mirror", "event"},
             handler' = [handler EXCEPT ![c].pc = pc]
      PROVE GateInv'
  <2>1. [handler[c] EXCEPT !.pc = pc].pc = pc
    BY <1>0 DEF Handler
  <2> QED
    BY <1>2, <1>4, <2>1
<1>5. ASSUME NEW c \in Clients, NEW payload \in Payloads, Create(c, payload) PROVE GateInv'
  <2>1. Bare("event", 1).pc = "event"
    BY DEF Bare
  <2> QED
    BY <1>2, <1>5, <2>1 DEF Create
<1>6. ASSUME NEW c \in Clients, NEW op \in Writes, NEW payload \in Payloads,
             NEW expected \in 1..(row.version), BeginWrite(c, op, payload, expected)
      PROVE GateInv'
  <2> DEFINE d == Requested(op, row.data, payload)
             n == IF EntersTerminal(row.data["status"], d["status"])
                  THEN 1 ELSE Len(CloseChecks) + 1
             h == [pc |-> "write", op |-> op, payload |-> payload, data |-> d,
                   check |-> n, version |-> expected + 1]
  <2>1. handler' = [handler EXCEPT ![c] = h] /\ require_write(c, payload)
    BY <1>6 DEF BeginWrite
  <2>2. h.payload = payload
    OBVIOUS
  <2> HIDE DEF h
  <2> QED
    BY <1>2, <2>1, <2>2
<1>7. ASSUME NEW c \in Clients, ReadCheck(c) PROVE GateInv'
  <2>1. LET g == [handler[c] EXCEPT !.check = @ + 1]
        IN  g.pc = handler[c].pc /\ g.payload = handler[c].payload
    BY <1>0 DEF Handler
  <2>2. CASE handler' = [handler EXCEPT ![c] = [handler[c] EXCEPT !.check = @ + 1]]
    BY <1>2, <2>1, <2>2 DEF GateInv
  <2> QED
    BY <1>3, <1>7, <2>2 DEF ReadCheck
<1>8. ASSUME NEW c \in Clients, NEW expected \in 1..(row.version), BeginDelete(c, expected)
      PROVE GateInv'
  <2>1. Bare("delete", expected + 1).pc = "delete"
    BY DEF Bare
  <2> QED
    BY <1>2, <1>8, <2>1 DEF BeginDelete
<1>9. ASSUME NEW c \in Clients, UpdateRow(c) \/ UpsertMirror(c) \/ DeleteRow(c) PROVE GateInv'
  BY <1>3, <1>4, <1>9 DEF UpdateRow, UpsertMirror, DeleteRow
<1>10. ASSUME NEW c \in Clients, RecordEvent(c) \/ Abort(c) PROVE GateInv'
  BY <1>3, <1>10 DEF RecordEvent, Abort
<1> QED
  BY <1>1, <1>5, <1>6, <1>7, <1>8, <1>9, <1>10 DEF Next, vars, RecordCheck, DeleteRef

(* Only the UPDATE takes a handler from its write to the mirror. *)
LEMMA OnlyUpdateWrites ==
  ASSUME TypeOK, [Next]_vars, NEW c \in Clients,
         handler[c].pc = "write", handler'[c].pc = "mirror"
  PROVE  UpdateRow(c)
<1>0. handler \in [Clients -> Handler] /\ Idle.pc = "idle"
  BY IdleType DEF TypeOK
<1>1. handler' # handler
  OBVIOUS
<1>2. ASSUME NEW x \in Clients, NEW h, handler' = [handler EXCEPT ![x] = h], h.pc # "mirror"
      PROVE FALSE
  BY <1>0, <1>2
<1>3. ASSUME NEW x \in Clients, NEW payload \in Payloads, Create(x, payload) PROVE FALSE
  <2>1. Bare("event", 1).pc = "event"
    BY DEF Bare
  <2> QED
    BY <1>2, <1>3, <2>1 DEF Create
<1>4. ASSUME NEW x \in Clients, NEW op \in Writes, NEW payload \in Payloads,
             NEW expected \in 1..(row.version), BeginWrite(x, op, payload, expected)
      PROVE FALSE
  BY <1>2, <1>4 DEF BeginWrite
<1>5. ASSUME NEW x \in Clients, ReadCheck(x) PROVE FALSE
  <2>1. [handler[x] EXCEPT !.check = @ + 1].pc = "write"
    BY <1>0, <1>5 DEF Handler, ReadCheck
  <2> QED
    BY <1>0, <1>2, <1>5, <2>1 DEF ReadCheck
<1>6. ASSUME NEW x \in Clients, NEW expected \in 1..(row.version), BeginDelete(x, expected)
      PROVE FALSE
  <2>1. Bare("delete", expected + 1).pc = "delete"
    BY DEF Bare
  <2> QED
    BY <1>2, <1>6, <2>1 DEF BeginDelete
<1>7. ASSUME NEW x \in Clients, UpsertMirror(x) \/ DeleteRow(x) PROVE FALSE
  <2>1. [handler[x] EXCEPT !.pc = "event"].pc = "event"
    BY <1>0 DEF Handler
  <2> QED
    BY <1>0, <1>2, <1>7, <2>1 DEF UpsertMirror, DeleteRow
<1>8. ASSUME NEW x \in Clients, RecordEvent(x) \/ Abort(x) PROVE FALSE
  BY <1>0, <1>2, <1>8 DEF RecordEvent, Abort
<1>9. ASSUME NEW x \in Clients, UpdateRow(x) PROVE UpdateRow(c)
  <2>1. x = c
    BY <1>0, <1>9 DEF UpdateRow
  <2> QED
    BY <1>9, <2>1
<1> QED
  BY <1>1, <1>3, <1>4, <1>5, <1>6, <1>7, <1>8, <1>9 DEF Next, vars, RecordCheck, DeleteRef

(* What a write that passed the gate leaves of a field above the rank. *)
LEMMA FloorStep ==
  ASSUME WriteInv, GateInv, [Next]_vars, NEW c \in Clients, NEW f \in Fields,
         handler[c].pc = "write", handler'[c].pc = "mirror", WriteFloor[f] > Rank[c]
  PROVE  \/ row'.data[f] = row.data[f]
         \/ /\ handler[c].op = "put" /\ f \in Editable \ DOMAIN handler[c].payload
            /\ row'.data[f] = Default[f]
<1> DEFINE h == handler[c]
<1>1. UpdateRow(c)
  BY OnlyUpdateWrites DEF WriteInv, TypeInv
<1>2. h \in Handler /\ handler \in [Clients -> Handler] /\ Idle.pc = "idle"
  BY IdleType DEF WriteInv, TypeInv, TypeOK
<1>3. row.version + 1 = h.version /\ row'.data = h.data
  BY <1>1, <1>2 DEF UpdateRow
<1>4. h.data = Requested(h.op, row.data, h.payload)
  BY <1>3 DEF WriteInv, Sound, MayMatch, Fresh
<1>5. f \notin DOMAIN h.payload
  <2>1. Rank[c] \in Nat /\ WriteFloor[f] \in Nat
    BY RankAssumption, FieldsAssumption
  <2> QED
    BY <2>1 DEF GateInv, require_write
<1>6. CASE h.op = "put"
  BY <1>3, <1>4, <1>5, <1>6 DEF Requested, build_put_data, OrDefault, Given
<1>7. CASE h.op # "put"
  BY <1>3, <1>4, <1>5, <1>7 DEF Requested, merge_patch
<1> QED
  BY <1>6, <1>7

(* A write changes no field above its caller's rank, although the gate of   *)
(* require_write ran earlier and on the payload alone, unless it is a PUT   *)
(* that leaves the field out and so resets it to its default.               *)
THEOREM FieldFloorHolds == Spec => FieldFloor
<1>1. Init => GateInv
  BY IdleType DEF Init, GateInv
<1>2. WriteInv /\ GateInv /\ [Next]_vars =>
      [\A c \in Clients, f \in Fields :
         handler[c].pc = "write" /\ handler'[c].pc = "mirror" /\ WriteFloor[f] > Rank[c]
           => \/ row'.data[f] = row.data[f]
              \/ /\ handler[c].op = "put" /\ f \in Editable \ DOMAIN handler[c].payload
                 /\ row'.data[f] = Default[f]]_vars
  BY FloorStep
<1> QED
  BY <1>1, <1>2, WriteInvariant, GateStep, PTL DEF Spec, FieldFloor
=============================================================================
