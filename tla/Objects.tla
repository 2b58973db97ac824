------------------------------ MODULE Objects ------------------------------
(***************************************************************************)
(* One Case served by the generic object handlers of                       *)
(* crates/api/src/objects.rs: its entity_data row, the typed cases row     *)
(* that mirrors it, its close checks and its audit rows, under any number  *)
(* of PUT, PATCH and DELETE handlers in flight.  Only coll_create opens a  *)
(* transaction; in the other handlers each SQL statement is a step of its  *)
(* own and others run in between.  Requests that a handler refuses before  *)
(* its first write change nothing and are no steps.                        *)
(***************************************************************************)
EXTENDS Integers, Sequences, FiniteSets

CONSTANTS
  Clients,      \* callers of the API; each has at most one request in flight
  Rank,         \* the rank of each caller on the Case, 0 for no reach; an admin has 4
  Creators,     \* the callers with Create reach on the projects
  Fields,       \* the settable fields of the type
  Editable,     \* those that may still be written after create
  Required,
  Default,      \* the default of a field, or Null
  Values,       \* the JSON values of fields
  Kind,         \* the values coerce_check accepts for a field
  WriteFloor,   \* the write_min rank of a field
  Null,         \* JSON null, and the value of a field that data lacks
  Payloads,     \* the JSON bodies callers send
  States,       \* the workflow: its ordered states, the last one terminal,
  Transitions,  \*   its legal moves,
  Initial,      \*   the state of a new Case,
  CloseChecks,  \*   and the checks that gate the terminal state, in order
  Refs,         \* the other entities, which fields may refer to
  MaxVersion    \* bound: writes stop at this version

ASSUME RankAssumption == Rank \in [Clients -> 0..4] /\ Creators \subseteq Clients
ASSUME FieldsAssumption ==
  /\ {"status", "assignee_id", "project_id"} \subseteq Fields
  /\ Editable \subseteq Fields /\ Required \subseteq Fields
  /\ "status" \in Required /\ "project_id" \notin Editable
  /\ Kind \in [Fields -> SUBSET Values] /\ Null \notin Values
  /\ WriteFloor \in [Fields -> Nat]
ASSUME PayloadsAssumption ==
  Payloads # {} /\ \A p \in Payloads : DOMAIN p \subseteq Fields
ASSUME WorkflowAssumption ==
  /\ Len(States) \in Nat \ {0}
  /\ Kind["status"] = {States[i] : i \in 1..Len(States)}
  /\ Transitions \in [Kind["status"] -> SUBSET Kind["status"]]
  /\ Len(CloseChecks) \in Nat
ASSUME MaxVersionAssumption == MaxVersion \in Nat \ {0}

VARIABLES
  row,          \* entity_data: alive, version, data, scope_parent_id
  mirror,       \* the cases row: its version and its columns
  checks,       \* case_close_checks: the names whose row says passed
  live,         \* the entities of Refs that still exist
  events,       \* the writes of this Case that have an audit row, by version
  handler,      \* per client, the locals of its PUT, PATCH or DELETE
  hist,         \* history: for each version, the request that made it and its data
  met,          \* history: the checks that have ever been recorded as passed
  unfinished    \* history: the writes whose handler ended before its audit row

vars == <<row, mirror, checks, live, events, handler, hist, met, unfinished>>

Checks == {CloseChecks[i] : i \in 1..Len(CloseChecks)}

Terminal == States[Len(States)]

Writes == {"put", "patch"}

Data == {d \in [Fields -> Values \cup {Null}] : \A f \in Fields : d[f] \in Kind[f] \cup {Null}}

NoData == [f \in Fields |-> Null]

Row == [alive : BOOLEAN, version : 0..MaxVersion, data : Data,
        parent : Kind["project_id"] \cup {Null}]

Handler == [pc : {"idle", "write", "delete", "mirror", "event"}, op : Writes,
            payload : Payloads, data : Data, check : 1..(Len(CloseChecks) + 1),
            version : 0..(MaxVersion + 1)]

(* A handler without a body, and a finished one, keep no other locals: any  *)
(* fixed values stand for them.                                             *)
NoPayload == CHOOSE p \in Payloads : TRUE
Bare(pc, version) == [pc |-> pc, op |-> "put", payload |-> NoPayload, data |-> NoData,
                      check |-> 1, version |-> version]
Idle == Bare("idle", 0)

InFlight(c) == handler[c].pc # "idle"

----------------------------------------------------------------------------
(* The pure parts of the handlers. *)

check_input(payload) == DOMAIN payload \subseteq Editable

(* Required fields are present and every present field is of its kind. *)
validate_final(data) ==
  \A f \in Fields : data[f] \in Kind[f] \cup (IF f \in Required THEN {} ELSE {Null})

(* The payload's value of a field; a field it lacks reads as null. *)
Given(payload, f) == IF f \in DOMAIN payload THEN payload[f] ELSE Null

OrDefault(payload, f) == IF Given(payload, f) # Null THEN Given(payload, f) ELSE Default[f]

build_create_data(payload) == [f \in Fields |-> OrDefault(payload, f)]

(* A full replace: an editable field the payload lacks gets its default. *)
build_put_data(existing, payload) ==
  [f \in Fields |-> IF f \in Editable THEN OrDefault(payload, f) ELSE existing[f]]

(* RFC 7386 on flat data: null deletes, any other value replaces. *)
merge_patch(existing, payload) ==
  [f \in Fields |-> IF f \in DOMAIN payload THEN payload[f] ELSE existing[f]]

Requested(op, existing, payload) ==
  IF op = "put" THEN build_put_data(existing, payload) ELSE merge_patch(existing, payload)

(* WorkflowCache.validate on an update. *)
validate(from, to) == to \in Kind["status"] /\ (from = to \/ to \in Transitions[from])

EntersTerminal(from, to) == to = Terminal /\ from # to

(* The gate of an action: its rank floor (Delete is not raised for Cases). *)
Floor == [Edit |-> 2, Delete |-> 3]
require_action(c, action) == Rank[c] >= Floor[action]

(* Mutant: any editor may write any field. *)
require_write_Any(c, payload) == TRUE

(* Every field the payload names is within the caller's rank. *)
require_write(c, payload) == \A f \in DOMAIN payload : Rank[c] >= WriteFloor[f]

scope_parent(data) == data["project_id"]

(* The columns of the cases row with a foreign key, which accepts null and  *)
(* what exists.                                                             *)
RefFields == {"assignee_id", "project_id"}
RefOK(r) == r = Null \/ r \in live

----------------------------------------------------------------------------
Init ==
  /\ row = [alive |-> FALSE, version |-> 0, data |-> NoData, parent |-> Null]
  /\ mirror = [version |-> 0, data |-> NoData]
  /\ checks = {} /\ live = Refs /\ events = {}
  /\ handler = [c \in Clients |-> Idle]
  /\ hist = <<>> /\ met = {} /\ unfinished = {}

(* coll_create: the row, the owner edge and the mirror in one transaction,  *)
(* then the audit row.  Ids are minted, so a deleted Case never comes back. *)
Create(c, payload) ==
  LET data == build_create_data(payload) IN
  /\ ~InFlight(c)
  /\ row.version = 0
  /\ c \in Creators
  /\ validate_final(data)
  /\ data["status"] = Initial
  /\ \A f \in RefFields : RefOK(data[f])
  /\ row' = [alive |-> TRUE, version |-> 1, data |-> data, parent |-> scope_parent(data)]
  /\ mirror' = [version |-> 1, data |-> data]
  /\ hist' = <<[op |-> "post", payload |-> payload, data |-> data]>>
  /\ handler' = [handler EXCEPT ![c] = Bare("event", 1)]
  /\ UNCHANGED <<checks, live, events, met, unfinished>>

(* item_put and item_patch up to the workflow check: the gate, the SELECT   *)
(* of data without its version, and the candidate built from it.  The       *)
(* If-Match version comes from an ETag the server has issued.               *)
BeginWrite(c, op, payload, expected) ==
  LET data == Requested(op, row.data, payload) IN
  /\ ~InFlight(c)
  /\ row.alive
  /\ require_action(c, "Edit")
  /\ check_input(payload)
  /\ validate_final(data)
  /\ require_write(c, payload)
  /\ validate(row.data["status"], data["status"])
  /\ handler' = [handler EXCEPT ![c] =
       [pc |-> "write", op |-> op, payload |-> payload, data |-> data,
        check |-> IF EntersTerminal(row.data["status"], data["status"])
                  THEN 1 ELSE Len(CloseChecks) + 1,
        version |-> expected + 1]]
  /\ UNCHANGED <<row, mirror, checks, live, events, hist, met, unfinished>>

(* Mutant: the first passed check stands for all of them. *)
ReadCheck_First(c) ==
  /\ handler[c].pc = "write" /\ handler[c].check <= Len(CloseChecks)
  /\ handler' = [handler EXCEPT ![c] =
       IF CloseChecks[handler[c].check] \in checks
       THEN [handler[c] EXCEPT !.check = Len(CloseChecks) + 1] ELSE Idle]
  /\ UNCHANGED <<row, mirror, checks, live, events, hist, met, unfinished>>

(* unmet_close_checks: one SELECT per check; an unmet one ends in a 422. *)
ReadCheck(c) ==
  /\ handler[c].pc = "write" /\ handler[c].check <= Len(CloseChecks)
  /\ handler' = [handler EXCEPT ![c] =
       IF CloseChecks[handler[c].check] \in checks
       THEN [handler[c] EXCEPT !.check = @ + 1] ELSE Idle]
  /\ UNCHANGED <<row, mirror, checks, live, events, hist, met, unfinished>>

(* Mutants of the UPDATE: no version in its WHERE clause ... *)
UpdateRow_AnyVersion(c) ==
  LET h == handler[c] IN
  /\ h.pc = "write" /\ h.check > Len(CloseChecks)
  /\ row.alive /\ RefOK(scope_parent(h.data))
  /\ row' = [alive |-> TRUE, version |-> row.version + 1, data |-> h.data,
             parent |-> scope_parent(h.data)]
  /\ hist' = Append(hist, [op |-> h.op, payload |-> h.payload, data |-> h.data])
  /\ handler' = [handler EXCEPT ![c].pc = "mirror"]
  /\ UNCHANGED <<mirror, checks, live, events, met, unfinished>>

(* ... or no foreign key on scope_parent_id. *)
UpdateRow_NoForeignKey(c) ==
  LET h == handler[c] IN
  /\ h.pc = "write" /\ h.check > Len(CloseChecks)
  /\ row.alive /\ row.version + 1 = h.version
  /\ row' = [alive |-> TRUE, version |-> h.version, data |-> h.data,
             parent |-> scope_parent(h.data)]
  /\ hist' = Append(hist, [op |-> h.op, payload |-> h.payload, data |-> h.data])
  /\ handler' = [handler EXCEPT ![c].pc = "mirror"]
  /\ UNCHANGED <<mirror, checks, live, events, met, unfinished>>

(* UPDATE entity_data ... WHERE version = expected: 412 when no row matches, *)
(* 422 when the parent is gone.                                             *)
UpdateRow(c) ==
  LET h == handler[c] IN
  /\ h.pc = "write" /\ h.check > Len(CloseChecks)
  /\ IF row.alive /\ row.version + 1 = h.version /\ RefOK(scope_parent(h.data))
     THEN /\ row' = [alive |-> TRUE, version |-> h.version, data |-> h.data,
                     parent |-> scope_parent(h.data)]
          /\ hist' = Append(hist, [op |-> h.op, payload |-> h.payload, data |-> h.data])
          /\ handler' = [handler EXCEPT ![c].pc = "mirror"]
     ELSE /\ handler' = [handler EXCEPT ![c] = Idle]
          /\ UNCHANGED <<row, hist>>
  /\ UNCHANGED <<mirror, checks, live, events, met, unfinished>>

(* The cases_guard trigger: a status change into the terminal state needs   *)
(* every close check.                                                       *)
cases_guard(old, new) == EntersTerminal(old, new) => Checks \subseteq checks

(* Mutants of the upsert: it revives the cases row of a deleted Case ... *)
UpsertMirror_Revive(c) ==
  LET h == handler[c] IN
  /\ h.pc = "mirror"
  /\ mirror' = [version |-> h.version, data |-> h.data]
  /\ handler' = [handler EXCEPT ![c].pc = "event"]
  /\ UNCHANGED <<row, checks, live, events, hist, met, unfinished>>

(* ... or the handler answers without its audit row. *)
UpsertMirror_NoEvent(c) ==
  LET h == handler[c] IN
  /\ h.pc = "mirror"
  /\ row.alive
  /\ \A f \in RefFields : RefOK(h.data[f])
  /\ mirror' = [version |-> h.version, data |-> h.data]
  /\ handler' = [handler EXCEPT ![c] = Idle]
  /\ UNCHANGED <<row, checks, live, events, hist, met, unfinished>>

(* upsert_case_mirror, a statement of its own: the foreign keys of the      *)
(* cases row or its trigger may refuse it, and the handler then returns the *)
(* error although the row is written.                                       *)
UpsertMirror(c) ==
  LET h == handler[c] IN
  /\ h.pc = "mirror"
  /\ IF /\ row.alive
        /\ \A f \in RefFields : RefOK(h.data[f])
        /\ cases_guard(mirror.data["status"], h.data["status"])
     THEN /\ mirror' = [version |-> h.version, data |-> h.data]
          /\ handler' = [handler EXCEPT ![c].pc = "event"]
          /\ UNCHANGED unfinished
     ELSE /\ handler' = [handler EXCEPT ![c] = Idle]
          /\ unfinished' = unfinished \cup {h.version}
          /\ UNCHANGED mirror
  /\ UNCHANGED <<row, checks, live, events, hist, met>>

(* record_event: events.entity_id must refer to an entity that exists; an   *)
(* insert that fails is only logged.                                        *)
RecordEvent(c) ==
  /\ handler[c].pc = "event"
  /\ events' = IF row.alive THEN events \cup {handler[c].version} ELSE events
  /\ handler' = [handler EXCEPT ![c] = Idle]
  /\ UNCHANGED <<row, mirror, checks, live, hist, met, unfinished>>

(* item_delete: the gate and the existence check ... *)
BeginDelete(c, expected) ==
  /\ ~InFlight(c)
  /\ row.alive
  /\ require_action(c, "Delete")
  /\ handler' = [handler EXCEPT ![c] = Bare("delete", expected + 1)]
  /\ UNCHANGED <<row, mirror, checks, live, events, hist, met, unfinished>>

(* ... then one DELETE on the version; the cascade takes the mirror and the *)
(* checks with it.                                                          *)
DeleteRow(c) ==
  LET h == handler[c] IN
  /\ h.pc = "delete"
  /\ IF row.alive /\ row.version + 1 = h.version
     THEN /\ row' = [row EXCEPT !.alive = FALSE]
          /\ mirror' = [version |-> 0, data |-> NoData]
          /\ checks' = {}
          /\ handler' = [handler EXCEPT ![c].pc = "event"]
     ELSE /\ handler' = [handler EXCEPT ![c] = Idle]
          /\ UNCHANGED <<row, mirror, checks>>
  /\ UNCHANGED <<live, events, hist, met, unfinished>>

(* record_check: an upsert of one check row by a manager of the Case. *)
RecordCheck(c, name, passed) ==
  /\ row.alive
  /\ Rank[c] >= 3
  /\ checks' = IF passed THEN checks \cup {name} ELSE checks \ {name}
  /\ met' = IF passed THEN met \cup {name} ELSE met
  /\ UNCHANGED <<row, mirror, live, events, handler, hist, unfinished>>

(* Another entity is deleted: columns that refer to it are set to null, the *)
(* JSON data keeps the id.                                                  *)
SetNull(r, data) ==
  [f \in Fields |-> IF f \in RefFields /\ data[f] = r THEN Null ELSE data[f]]

DeleteRef(r) ==
  /\ r \in live
  /\ live' = live \ {r}
  /\ row' = [row EXCEPT !.parent = IF @ = r THEN Null ELSE @]
  /\ mirror' = [version |-> mirror.version, data |-> SetNull(r, mirror.data)]
  /\ UNCHANGED <<checks, events, handler, hist, met, unfinished>>

(* The handler is dropped, or its next statement fails: it ends here. *)
Abort(c) ==
  /\ InFlight(c)
  /\ handler' = [handler EXCEPT ![c] = Idle]
  /\ unfinished' = IF handler[c].pc \in {"mirror", "event"}
                   THEN unfinished \cup {handler[c].version} ELSE unfinished
  /\ UNCHANGED <<row, mirror, checks, live, events, hist, met>>

Next ==
  \/ \E c \in Clients :
       \/ \E payload \in Payloads : Create(c, payload)
       \/ \E op \in Writes, payload \in Payloads, expected \in 1..(row.version) :
            expected < MaxVersion /\ BeginWrite(c, op, payload, expected)
       \/ ReadCheck(c) \/ UpdateRow(c) \/ UpsertMirror(c) \/ RecordEvent(c)
       \/ \E expected \in 1..(row.version) : BeginDelete(c, expected)
       \/ DeleteRow(c)
       \/ \E name \in Checks, passed \in BOOLEAN : RecordCheck(c, name, passed)
       \/ Abort(c)
  \/ \E r \in Refs : DeleteRef(r)

Spec == Init /\ [][Next]_vars

----------------------------------------------------------------------------
(* The rows, the history and the locals have their types; in particular the *)
(* stored data and the mirrored columns are of the kinds of their fields.   *)
TypeOK ==
  /\ row \in Row
  /\ mirror \in [version : 0..MaxVersion, data : Data]
  /\ checks \subseteq Checks /\ met \subseteq Checks
  /\ live \subseteq Refs
  /\ events \subseteq 1..(MaxVersion + 1)
  /\ handler \in [Clients -> Handler]
  /\ hist \in Seq([op : Writes \cup {"post"}, payload : Payloads, data : Data])
  /\ unfinished \subseteq 1..(MaxVersion + 1)

(* "Never a silent clobber": every version is the version before it with    *)
(* exactly one request applied, although a handler reads data and version   *)
(* apart from the UPDATE; and the row is the newest version.                *)
NoLostUpdate ==
  /\ \A v \in 2..Len(hist) :
       hist[v].data = Requested(hist[v].op, hist[v - 1].data, hist[v].payload)
  /\ Len(hist) = row.version
  /\ row.version > 0 => row.data = hist[row.version].data

(* The workflow is walked, never jumped: from the initial state on, each    *)
(* version's status is a legal move from the status before it, even though  *)
(* the move was validated against a status read earlier.                    *)
StatusPathLegal ==
  /\ Len(hist) > 0 => hist[1].data["status"] = Initial
  /\ \A v \in 2..Len(hist) : validate(hist[v - 1].data["status"], hist[v].data["status"])

(* A Case that ever was terminal had every close check recorded as passed   *)
(* at some time before.                                                     *)
CloseNeedsChecks ==
  \A v \in 2..Len(hist) :
    EntersTerminal(hist[v - 1].data["status"], hist[v].data["status"]) => Checks \subseteq met

(* What the code keeps of the field floors: a field above the caller's rank *)
(* stays as the row has it at the moment of the UPDATE, although the gate   *)
(* saw only the payload and the data was read before; or a PUT left it out  *)
(* and reset it to its default.  FloorKept below is what the documents say. *)
FieldFloor ==
  [][\A c \in Clients, f \in Fields :
       handler[c].pc = "write" /\ handler'[c].pc = "mirror" /\ WriteFloor[f] > Rank[c]
         => \/ row'.data[f] = row.data[f]
            \/ /\ handler[c].op = "put" /\ f \in Editable \ DOMAIN handler[c].payload
               /\ row'.data[f] = Default[f]]_vars

(* What is left of a version in columns whose dead references are nulled. *)
Columns(data) ==
  [f \in Fields |-> IF f \in RefFields /\ ~RefOK(data[f]) THEN Null ELSE data[f]]

(* The cases row is a version of the Case, whole, and never outlives it: a  *)
(* late upsert cannot bring a deleted Case back, nor mix two versions.      *)
MirrorIsAVersion ==
  IF row.alive
  THEN /\ mirror.version \in 1..(row.version)
       /\ mirror.data = Columns(hist[mirror.version].data)
  ELSE mirror.version = 0

(* The reach edge of the Case is its project for as long as that exists. *)
ParentIsProject ==
  row.alive => row.parent = Columns(row.data)["project_id"]

(* Each version of a live Case has its audit row, or its handler is still   *)
(* running, or was cut off or refused after its UPDATE.                     *)
AuditAccounted ==
  row.alive => \A v \in 1..(row.version) :
    \/ v \in events \cup unfinished
    \/ \E c \in Clients : handler[c].pc \in {"mirror", "event"} /\ handler[c].version = v

----------------------------------------------------------------------------
(* What the documentation says and the code does not do. *)

(* Every request got its answer and none was cut off or refused on its way. *)
AtRest == unfinished = {} /\ \A c \in Clients : ~InFlight(c)

(* "version ... mirrored on the cases typed table": at rest, the cases row  *)
(* is at the version of the Case.                                           *)
MirrorCurrent == AtRest /\ row.alive => mirror.version = row.version

(* "Only `owner`+ on the object may write", on "the same write path" for   *)
(* PUT and PATCH: an UPDATE changes no field above its caller's rank.  The  *)
(* gate is asked about the keys of the payload, and build_put_data resets   *)
(* what a PUT leaves out.                                                   *)
FloorKept ==
  [][\A c \in Clients, f \in Fields :
       handler[c].pc = "write" /\ handler'[c].pc = "mirror" /\ WriteFloor[f] > Rank[c]
         => row'.data[f] = row.data[f]]_vars

(* "The terminal transition is refused until all pass": a step that makes   *)
(* the Case terminal finds every close check passed.                        *)
CloseGate ==
  [][row'.version > 1 /\ EntersTerminal(row.data["status"], row'.data["status"])
       => Checks \subseteq checks]_row
=============================================================================
