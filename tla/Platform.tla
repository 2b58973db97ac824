------------------------------ MODULE Platform ------------------------------
(***************************************************************************)
(* The rows that both the engine and the generic handlers write: actors,   *)
(* whose platform_role claim_admin sets, and connectors, whose last run    *)
(* crates/api/src/connectors.rs stamps, while PUT, PATCH and DELETE of     *)
(* crates/api/src/objects.rs are under way and browsers keep what they     *)
(* were sent under its ETag.  The callers are those of Accounts; this      *)
(* module closes the composition.                                          *)
(***************************************************************************)
EXTENDS Accounts

CONSTANTS
  Rank,         \* the rank of each actor on each row, 0 for no reach
  Payloads      \* the bodies of PUT and PATCH

ASSUME PlatformAssumption ==
  /\ Actors \cap Connectors = {}
  /\ Rank \in [Actors -> [Actors \cup Connectors -> 0..4]]

VARIABLE
  cache         \* per browser, the row it was last sent, with its version

platformVars == <<vars, cache>>

NoCopy == [id |-> None, version |-> 0, data |-> None]

(* The fields a payload may name, those a PUT must name, and the defaults   *)
(* of the others; last_run_at is the engine's.                              *)
Editable == {"display_name", "platform_role", "target", "status"}
Required == {"display_name", "target"}
Default == [platform_role |-> "member", status |-> "draft"]

(* The write_min rank of a field: platform_role is of the class owner_grade. *)
WriteFloor == [display_name |-> 2, platform_role |-> 4, target |-> 2, status |-> 2]

Fields(e) == DOMAIN rows[e].data

(* require_action: admins pass; the others need a rank. *)
require_action(r, e, floor) == r.admin \/ Rank[r.actor][e] >= floor

(* require_write: of the others, the payload may only name what their rank  *)
(* may write.                                                               *)
require_write(r, e, payload) ==
  r.admin \/ \A f \in DOMAIN payload : Rank[r.actor][e] >= WriteFloor[f]

Authenticate(s, b, op) ==
  /\ Begin(s) /\ Allowed(op)
  /\ Resolves(jar[b].session)
  /\ req' = [req EXCEPT ![s] = AsCaller([Blank EXCEPT !.browser = b], op, jar[b].session)]
  /\ UNCHANGED <<now, limitVars, rows, accountVars>>

(* build_put_data and merge_patch; a PUT must find the required fields. *)
Requested(how, e, payload) ==
  [f \in Fields(e) |-> IF f \in DOMAIN payload THEN payload[f]
                       ELSE IF how = "put" /\ f \in Editable THEN Default[f]
                       ELSE rows[e].data[f]]

(* item_put and item_patch up to their UPDATE: the data is read without its *)
(* version, which the client brings from an ETag.                           *)
ReadRow(s, how, e, payload, expected) ==
  /\ req[s].pc = "write"
  /\ rows[e].alive /\ expected <= rows[e].version
  /\ require_action(req[s], e, 2)
  /\ DOMAIN payload \subseteq Fields(e) \cap Editable
  /\ how = "put" => Fields(e) \cap Required \subseteq DOMAIN payload
  /\ require_write(req[s], e, payload)
  /\ req' = [req EXCEPT ![s] = [@ EXCEPT
       !.pc = "update", !.id = e, !.data = Requested(how, e, payload), !.expected = expected,
       !.fields = IF how = "put" THEN Editable ELSE DOMAIN payload]]
  /\ UNCHANGED <<now, limitVars, rows, accountVars, begun>>

(* Whether a real admin ceases to be one. *)
Unseats(e, role) == e \in RealAdmins /\ role # "admin"

UpdateRow(s) ==
  LET r == req[s] IN
  /\ r.pc = "update"
  /\ rows[r.id].alive /\ rows[r.id].version = r.expected
  /\ rows' = [rows EXCEPT ![r.id].data = r.data, ![r.id].version = @ + 1]
  /\ contested' = (contested \/ (r.id \in Actors /\ Unseats(r.id, r.data.platform_role)))
  /\ Done(s)
  /\ UNCHANGED <<now, limitVars, identities, sessions, flows, jar, begun, load, claimants>>

(* item_delete: the cascade takes the identities and the sessions along. *)
DeleteItem(s, e, expected) ==
  /\ req[s].pc = "delete"
  /\ rows[e].alive /\ rows[e].version = expected
  /\ require_action(req[s], e, 3)
  /\ rows' = [rows EXCEPT ![e].alive = FALSE]
  /\ identities' = [i \in Idents |-> IF identities[i] = e THEN None ELSE identities[i]]
  /\ sessions' = [i \in DOMAIN sessions |->
       [sessions[i] EXCEPT !.live = @ /\ sessions[i].actor # e]]
  /\ contested' = (contested \/ Unseats(e, "none"))
  /\ Done(s)
  /\ UNCHANGED <<now, limitVars, flows, jar, begun, load, claimants>>

(* run_connector: the row and the gate, then the fetch of its target ... *)
ReadConnector(s, e) ==
  /\ req[s].pc = "run"
  /\ rows[e].alive
  /\ require_action(req[s], e, 2)
  /\ req' = [req EXCEPT ![s].pc = "fetch", ![s].id = e]
  /\ UNCHANGED <<now, limitVars, rows, accountVars, begun>>

(* Mutant: stamp_run leaves the version alone. *)
StampRun_NoBump(s, status) ==
  LET e == req[s].id IN
  /\ req[s].pc = "fetch"
  /\ rows[e].alive
  /\ rows' = [rows EXCEPT ![e].data.status = status, ![e].data.last_run_at = now]
  /\ Done(s)
  /\ UNCHANGED <<now, limitVars, accountVars, begun>>

(* ... and, whatever came of it, stamp_run: one UPDATE of two fields of     *)
(* whatever the row now holds, with a new version.                          *)
StampRun(s, status) ==
  LET e == req[s].id IN
  /\ req[s].pc = "fetch"
  /\ rows[e].alive
  /\ rows' = [rows EXCEPT ![e].data.status = status, ![e].data.last_run_at = now,
                          ![e].version = @ + 1]
  /\ Done(s)
  /\ UNCHANGED <<now, limitVars, accountVars, begun>>

(* A browser that has a copy of the row names its version. *)
if_none_match_hit(b, e) == cache[b].id = e /\ cache[b].version = rows[e].version

(* item_get: data and version in one SELECT; a browser whose copy is of     *)
(* that version gets a 304 and keeps it.  The copy is kept whole: what the  *)
(* read filter drops from it depends on the caller's rank alone.            *)
Get(s, e) ==
  LET b == req[s].browser IN
  /\ req[s].pc = "get"
  /\ rows[e].alive
  /\ require_action(req[s], e, 1)
  /\ cache' = IF if_none_match_hit(b, e) THEN cache
              ELSE [cache EXCEPT ![b] = [id |-> e, version |-> rows[e].version,
                                         data |-> rows[e].data]]
  /\ Done(s)
  /\ UNCHANGED <<now, limitVars, rows, accountVars, begun>>

WriteNext ==
  \E s \in Slots :
    \/ \E b \in Browsers, op \in {"write", "delete", "run", "get"} : Authenticate(s, b, op)
    \/ \E how \in {"put", "patch"}, e \in Actors \cup Connectors, p \in Payloads :
         \E expected \in 1..rows[e].version : ReadRow(s, how, e, p, expected)
    \/ UpdateRow(s)
    \/ \E e \in Actors \cup Connectors :
         \/ \E expected \in 1..rows[e].version : DeleteItem(s, e, expected)
         \/ e \in Connectors /\ ReadConnector(s, e)
    \/ \E status \in {"active", "error"} : StampRun(s, status)

PlatformNext ==
  \/ (AccountsNext \/ WriteNext) /\ UNCHANGED cache
  \/ \E s \in Slots, e \in Actors \cup Connectors : Get(s, e)

PlatformInit == AccountsInit /\ cache = [b \in Browsers |-> NoCopy]

Spec == PlatformInit /\ [][PlatformNext]_platformVars

----------------------------------------------------------------------------
(* The clock, the limiter and the tables have their types. *)
TypeOK ==
  /\ now \in Nat /\ lag \in Nat /\ lastHit \in Nat /\ begun \in Nat
  /\ bucket \in [Keys -> [start : Nat, count : Nat]]
  /\ admitted \in [Keys -> Seq(Nat)]
  /\ identities \in [Idents -> Actors \cup {None}]
  /\ \A e \in Actors \cup Connectors : rows[e].alive => rows[e].version > 0
  /\ \A b \in Browsers : jar[b].flow \in 0..Len(flows) /\ jar[b].session \in 0..Len(sessions)
  /\ claimants \subseteq Actors
  /\ contested \in BOOLEAN

(* "Never a silent clobber", with the engine writing too: what a PATCH does *)
(* not name, and of a PUT what is not editable, it leaves as it is in that  *)
(* very moment, whatever was stamped since it read the row.  The exception  *)
(* is a claim, which leaves the version alone and so goes unnoticed.        *)
NamedFieldsOnly ==
  [][\A s \in Slots : LET r == req[s] IN
       r.pc = "update" /\ req'[s].pc = "idle" /\ ~r.late
         => \A f \in Fields(r.id) \ r.fields : rows'[r.id].data[f] = rows[r.id].data[f]]_<<rows, req>>

(* An ETag names one state of a row: while the version of a browser's copy  *)
(* is the row's, the copy is the row, so that a 304 is true and an If-Match *)
(* means what the client saw.  Stamps keep this; a claim, which leaves the  *)
(* version alone, does not.                                                 *)
ETagCurrent ==
  \A b \in Browsers : LET copy == cache[b] IN
    copy.id # None /\ copy.id \notin claimants /\ rows[copy.id].alive
      /\ rows[copy.id].version = copy.version => copy.data = rows[copy.id].data
=============================================================================
