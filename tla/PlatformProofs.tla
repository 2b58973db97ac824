--------------------------- MODULE PlatformProofs ---------------------------
(***************************************************************************)
(* Proofs about Platform and the Accounts and RateLimit under it, for every *)
(* set of browsers, people, actors and connectors, every workload, and any *)
(* number of requests in flight.                                           *)
(***************************************************************************)
EXTENDS Platform, TLAPS, FiniteSetTheorems

----------------------------------------------------------------------------
(* The types in full: what a row, a session and a handler's locals hold.   *)

AllRows == Actors \cup Connectors
ActorFields == {"display_name", "platform_role"}
ConnectorFields == {"target", "status", "last_run_at"}
FieldsOf(e) == IF e \in Connectors THEN ConnectorFields ELSE ActorFields

Sent == UNION {{p[f] : f \in DOMAIN p} : p \in Payloads}
Values == Sent \cup {"name", "admin", "member", "url", "draft", "active", "error", None} \cup Nat
Data == [ActorFields -> Values] \cup [ConnectorFields -> Values]
Row == [alive : BOOLEAN, version : Nat, data : Data]

Login == [ident : Idents \cup {None}, flow : Nat, browser : Browsers \cup {None}, at : Nat]
SessionRow == [actor : Actors, exp : Nat, live : BOOLEAN, login : Login]
Flow == [browser : Browsers, exp : Nat]
Jar == [flow : Nat, session : Nat]
Copy == [id : AllRows \cup {None}, version : Nat, data : Data \cup {None}]

Pcs == {"idle", "limit", "routed", "claim", "promote", "logout", "exchange", "insert", "mint",
        "write", "update", "delete", "run", "fetch", "get"}
Request == [pc : Pcs, op : Ops \cup {"none"}, browser : Browsers \cup {None}, t : Nat, token : Nat,
            actor : Actors \cup {None}, admin : BOOLEAN, login : Login,
            id : AllRows \cup {None}, data : Data \cup {None}, fields : SUBSET Editable,
            expected : Nat, late : BOOLEAN]

(* What a handler holds at each of its steps. *)
AsACaller == {"claim", "promote", "logout", "write", "update", "delete", "run", "fetch", "get", "mint"}
Local(r) ==
  /\ r.pc # "idle" => r.browser \in Browsers
  /\ r.pc \in {"limit", "routed"} => r.login = NotALogin
  /\ r.pc \in AsACaller => r.actor \in Actors
  /\ r.pc = "insert" => r.login.ident \in Idents
  /\ r.pc = "update" => r.id \in AllRows /\ r.data \in [FieldsOf(r.id) -> Values]
  /\ r.pc = "fetch" => r.id \in Connectors

ClockType ==
  /\ now \in Nat /\ lag \in Nat /\ lastHit \in Nat
  /\ bucket \in [Keys -> [start : Nat, count : Nat]]
  /\ admitted \in [Keys -> Seq(Nat)]

RowType ==
  /\ rows \in [AllRows -> Row]
  /\ \A e \in AllRows : DOMAIN rows[e].data = FieldsOf(e)
  /\ \A e \in AllRows : rows[e].alive => rows[e].version > 0

TableType ==
  /\ identities \in [Idents -> Actors \cup {None}]
  /\ sessions \in Seq(SessionRow)
  /\ flows \in Seq(Flow)
  /\ jar \in [Browsers -> Jar]
  /\ \A b \in Browsers : jar[b].flow \in 0..Len(flows) /\ jar[b].session \in 0..Len(sessions)
  /\ load \in Workloads /\ begun \in Nat
  /\ claimants \subseteq Actors
  /\ contested \in BOOLEAN
  /\ cache \in [Browsers -> Copy]

RequestType ==
  /\ req \in [Slots -> Request]
  /\ \A s \in Slots : Local(req[s]) /\ (req[s].pc = "limit" => req[s].t <= now)

TypeInv == ClockType /\ RowType /\ TableType /\ RequestType

----------------------------------------------------------------------------
(* Facts about sequences that several steps need. *)

(* A function on an initial segment of the naturals is a sequence. *)
LEMMA SegmentIsSeq ==
  ASSUME NEW S, NEW n \in Nat, NEW f \in [1..n -> S]
  PROVE  f \in Seq(S) /\ Len(f) = n
OBVIOUS

(* Blank locals are well typed. *)
LEMMA BlankType == Blank \in Request /\ Local(Blank) /\ Blank.pc = "idle"
<1>1. NotALogin \in Login
  BY DEF NotALogin, Login
<1> QED
  BY <1>1 DEF Blank, Request, Local, Pcs, AsACaller

(* One handler takes a step to well-typed locals. *)
LEMMA RequestStep ==
  ASSUME RequestType, ClockType, NEW s \in Slots, NEW r \in Request, Local(r), now' \in Nat,
         now' >= now, r.pc = "limit" => r.t <= now', req' = [req EXCEPT ![s] = r]
  PROVE  RequestType'
<1>1. req' \in [Slots -> Request]
  BY DEF RequestType
<1>2. ASSUME NEW x \in Slots PROVE Local(req'[x]) /\ (req'[x].pc = "limit" => req'[x].t <= now')
  <2>1. CASE x = s
    BY <2>1 DEF RequestType
  <2>2. CASE x # s
    <3>1. req'[x] = req[x]
      BY <2>2 DEF RequestType
    <3>2. req[x].t \in Nat
      BY DEF RequestType, Request
    <3> QED
      BY <3>1, <3>2 DEF RequestType, ClockType
  <2> QED
    BY <2>1, <2>2
<1> QED
  BY <1>1, <1>2 DEF RequestType, Local, FieldsOf

(* A handler ends. *)
LEMMA DoneType ==
  ASSUME RequestType, ClockType, NEW s \in Slots, now' = now, Done(s)
  PROVE  RequestType'
<1>1. req' = [req EXCEPT ![s] = Blank]
  BY DEF Done
<1>2. now' \in Nat /\ now' >= now
  BY DEF ClockType
<1> QED
  BY <1>1, <1>2, BlankType, RequestStep

(* What the workload sets up is well typed. *)
LEMMA TypeInit == PlatformInit => TypeInv
<1> SUFFICES ASSUME PlatformInit PROVE TypeInv
  OBVIOUS
<1> USE DEF PlatformInit, AccountsInit
<1>1. ClockType
  BY DEF ClockType, LimitInit, NoBucket
<1>2. RowType
  <2>1. \A role \in {"admin", "member"} : ActorData(role) \in [ActorFields -> Values]
    BY DEF ActorData, ActorFields, Values
  <2>2. [target |-> "url", status |-> "draft", last_run_at |-> None] \in [ConnectorFields -> Values]
    BY DEF ConnectorFields, Values
  <2>3. ASSUME NEW e \in AllRows
        PROVE  rows[e] \in Row /\ DOMAIN rows[e].data = FieldsOf(e) /\ (rows[e].alive => rows[e].version > 0)
    <3>1. CASE e \in Connectors
      <4>1. rows[e] = [alive |-> TRUE, version |-> 1,
              data |-> [target |-> "url", status |-> "draft", last_run_at |-> None]]
        BY <3>1 DEF AllRows
      <4>2. [target |-> "url", status |-> "draft", last_run_at |-> None] \in Data
        BY <2>2 DEF Data
      <4> HIDE DEF PlatformInit, AccountsInit
      <4> QED
        BY <4>1, <4>2, <3>1 DEF Row, FieldsOf, ConnectorFields
    <3>2. CASE e \notin Connectors
      <4> DEFINE there == e = Dev \/ \E i \in Idents : load.known[i] = e
      <4> DEFINE platform_role == IF e = Dev THEN "admin" ELSE "member"
      <4>1. rows[e] = [alive |-> there, version |-> IF there THEN 1 ELSE 0,
                       data |-> ActorData(platform_role)]
        BY <3>2 DEF AllRows
      <4>2. ActorData(platform_role) \in Data /\ DOMAIN ActorData(platform_role) = ActorFields
        BY <2>1 DEF Data
      <4>3. there \in BOOLEAN
        OBVIOUS
      <4> HIDE DEF PlatformInit, AccountsInit, there, platform_role
      <4> QED
        BY <4>1, <4>2, <4>3, <3>2 DEF Row, FieldsOf
    <3> QED
      BY <3>1, <3>2
  <2> QED
    BY <2>3 DEF RowType, AllRows
<1>3. TableType
  <2>1. load.known \in [Idents -> Actors \cup {None}] /\ load.signed \in Seq(Browsers \X Actors)
    BY WorkloadsAssumption
  <2>2. NotALogin \in Login
    BY DEF NotALogin, Login
  <2>3. sessions \in [1..Len(load.signed) -> SessionRow]
    <3>1. now + SessionTTL \in Nat
      BY AccountsAssumption DEF LimitInit
    <3>2. DOMAIN load.signed = 1..Len(load.signed)
      BY <2>1
    <3>3. ASSUME NEW i \in 1..Len(load.signed)
          PROVE  Session(load.signed[i][2], NotALogin) \in SessionRow
      <4>1. load.signed[i] \in Browsers \X Actors
        BY <2>1
      <4>2. load.signed[i][2] \in Actors
        BY <4>1
      <4> QED
        BY <4>2, <3>1, <2>2 DEF Session, SessionRow
    <3>4. sessions = [i \in DOMAIN load.signed |-> Session(load.signed[i][2], NotALogin)]
      OBVIOUS
    <3> QED
      BY <3>2, <3>3, <3>4
  <2>4. sessions \in Seq(SessionRow) /\ Len(sessions) = Len(load.signed)
    <3> HIDE DEF PlatformInit, AccountsInit
    <3>1. Len(load.signed) \in Nat
      BY <2>1
    <3> QED
      BY <2>3, <3>1, SegmentIsSeq
  <2>5. ASSUME NEW b \in Browsers
        PROVE  jar[b] \in Jar /\ jar[b].flow = 0 /\ jar[b].session \in 0..Len(sessions)
    <3>1. DOMAIN load.signed = 1..Len(sessions) /\ Len(sessions) \in Nat
      BY <2>1, <2>4
    <3>2. jar[b] = [flow |-> 0, session |->
            IF \E i \in DOMAIN load.signed : load.signed[i][1] = b
            THEN CHOOSE i \in DOMAIN load.signed : load.signed[i][1] = b ELSE 0]
      OBVIOUS
    <3> HIDE DEF PlatformInit, AccountsInit
    <3>3. jar[b].session \in 0..Len(sessions)
      BY <3>1, <3>2
    <3> QED
      BY <3>1, <3>2, <3>3 DEF Jar
  <2>6. cache \in [Browsers -> Copy]
    BY DEF NoCopy, Copy
  <2>7. flows \in Seq(Flow) /\ Len(flows) = 0
    OBVIOUS
  <2>8. jar \in [Browsers -> Jar]
    BY <2>5
  <2>9. load \in Workloads /\ begun \in Nat /\ claimants \subseteq Actors /\ contested \in BOOLEAN
    OBVIOUS
  <2>10. identities = load.known
    OBVIOUS
  <2> HIDE DEF PlatformInit, AccountsInit
  <2>11. \A b \in Browsers : jar[b].flow \in 0..Len(flows) /\ jar[b].session \in 0..Len(sessions)
    BY <2>5, <2>7
  <2> QED
    BY <2>1, <2>4, <2>6, <2>7, <2>8, <2>9, <2>10, <2>11 DEF TableType
<1>4. RequestType
  BY BlankType DEF RequestType
<1> QED
  BY <1>1, <1>2, <1>3, <1>4 DEF TypeInv

----------------------------------------------------------------------------
(* Every step keeps the types. *)

(* A step of one handler that writes to no table. *)
LEMMA TypeLocal ==
  ASSUME TypeInv, NEW s \in Slots, NEW r \in Request, Local(r),
         r.pc = "limit" => r.t = now, req' = [req EXCEPT ![s] = r], begun' \in Nat,
         UNCHANGED <<now, limitVars, rows, accountVars, cache>>
  PROVE  TypeInv'
<1>1. now' \in Nat /\ now' >= now /\ (r.pc = "limit" => r.t <= now')
  BY DEF TypeInv, ClockType
<1>2. RequestType'
  BY <1>1, RequestStep DEF TypeInv
<1>3. ClockType' /\ RowType' /\ TableType'
  BY DEF TypeInv, ClockType, RowType, TableType, limitVars, accountVars
<1> QED
  BY <1>2, <1>3 DEF TypeInv

(* A handler of auth.rs arrives at the limiter. *)
LEMMA TypeArrive ==
  ASSUME TypeInv, NEW s \in Slots, NEW b \in Browsers, Arrive(s, b), UNCHANGED cache
  PROVE  TypeInv'
<1> DEFINE r == [Blank EXCEPT !.pc = "limit", !.browser = b, !.t = now, !.token = jar[b].session]
<1>1. jar[b].session \in Nat /\ now \in Nat /\ begun' \in Nat
  BY DEF TypeInv, TableType, ClockType, Jar, Arrive, Begin
<1>2. r \in Request /\ Local(r) /\ r.t = now
  BY <1>1, BlankType DEF Request, Local, Pcs, AsACaller, Blank
<1>3. req' = [req EXCEPT ![s] = r] /\ UNCHANGED <<now, limitVars, rows, accountVars, cache>>
  BY DEF Arrive
<1> HIDE DEF r
<1> QED
  BY <1>1, <1>2, <1>3, TypeLocal

(* A callback is sent on to the provider. *)
LEMMA TypeCallback ==
  ASSUME TypeInv, NEW s \in Slots, NEW b \in Browsers, NEW n \in Nonces, Callback(s, b, n),
         UNCHANGED cache
  PROVE  TypeInv'
<1> DEFINE l == [ident |-> None, flow |-> n, browser |-> b, at |-> now]
<1> DEFINE r == [Blank EXCEPT !.pc = "exchange", !.browser = b, !.login = l]
<1>1. l \in Login /\ begun' \in Nat
  BY DEF TypeInv, TableType, ClockType, Login, Callback, Begin, Nonces
<1>2. req' = [req EXCEPT ![s] = r] /\ UNCHANGED <<now, limitVars, rows, accountVars, cache>>
  BY DEF Callback
<1> HIDE DEF l
<1>3. r \in Request /\ Local(r) /\ r.pc # "limit"
  BY <1>1, BlankType DEF Request, Local, Pcs, AsACaller, Blank
<1> HIDE DEF r
<1> QED
  BY <1>1, <1>2, <1>3, TypeLocal

(* dev_login finds its actor. *)
LEMMA TypeDevLogin ==
  ASSUME TypeInv, NEW s \in Slots, NEW a \in Actors, DevLogin(s, a), UNCHANGED cache
  PROVE  TypeInv'
<1> DEFINE r == [req[s] EXCEPT !.pc = "mint", !.actor = a]
<1>1. req[s] \in Request /\ Local(req[s]) /\ req[s].pc = "routed" /\ begun' \in Nat
  BY DEF TypeInv, RequestType, TableType, DevLogin
<1>2. r \in Request /\ Local(r) /\ r.pc # "limit"
  BY <1>1 DEF Request, Local, Pcs, AsACaller
<1>3. req' = [req EXCEPT ![s] = r] /\ UNCHANGED <<now, limitVars, rows, accountVars, cache>>
  BY DEF DevLogin, TypeInv, RequestType, Request
<1> HIDE DEF r
<1> QED
  BY <1>1, <1>2, <1>3, TypeLocal

(* The Caller extractor fills in an actor. *)
LEMMA CallerType ==
  ASSUME TypeInv, NEW r \in Request, r.browser \in Browsers,
         NEW op \in {"claim", "logout", "write", "delete", "run", "get"}, NEW token, Resolves(token)
  PROVE  /\ AsCaller(r, op, token) \in Request /\ Local(AsCaller(r, op, token))
         /\ AsCaller(r, op, token).pc = op
         /\ AsCaller(r, op, token).id = r.id /\ AsCaller(r, op, token).late = r.late
         /\ AsCaller(r, op, token).login = r.login
<1>1. sessions[token].actor \in Actors
  <2>1. token \in 1..Len(sessions) /\ sessions \in Seq(SessionRow)
    BY DEF Resolves, Live, TypeInv, TableType
  <2>2. sessions[token] \in SessionRow
    BY <2>1
  <2> QED
    BY <2>2 DEF SessionRow
<1> DEFINE a == sessions[token].actor
           adm == rows[a].data.platform_role = "admin"
<1>2. adm \in BOOLEAN /\ a \in Actors
  BY <1>1
<1> DEFINE k == AsCaller(r, op, token)
<1>3. k = [r EXCEPT !.pc = op, !.op = op, !.actor = a, !.admin = adm]
  BY DEF AsCaller
<1> HIDE DEF a, adm, k
<1>4. op \in Pcs /\ op \in Ops \cup {"none"} /\ a \in Actors \cup {None}
  BY <1>2 DEF Pcs, Ops
<1>5. k \in Request
  BY <1>2, <1>3, <1>4 DEF Request
<1>6. /\ k.pc = op /\ k.actor = a /\ k.browser = r.browser
      /\ k.id = r.id /\ k.late = r.late /\ k.login = r.login
  BY <1>3 DEF Request
<1>7. Local(k)
  BY <1>2, <1>6 DEF Local
<1> QED
  BY <1>5, <1>6, <1>7 DEF k

(* claim_admin and logout know their caller. *)
LEMMA TypeRoute ==
  ASSUME TypeInv, NEW s \in Slots, NEW op \in {"claim", "logout"}, Route(s, op), UNCHANGED cache
  PROVE  TypeInv'
<1> DEFINE r == AsCaller(req[s], op, req[s].token)
<1>1. req[s] \in Request /\ req[s].browser \in Browsers /\ begun' \in Nat
  BY DEF TypeInv, RequestType, TableType, Route, Local
<1>2. r \in Request /\ Local(r) /\ r.pc # "limit"
  BY <1>1, CallerType DEF Route
<1>3. req' = [req EXCEPT ![s] = r] /\ UNCHANGED <<now, limitVars, rows, accountVars, cache>>
  BY DEF Route, TypeInv, RequestType
<1> HIDE DEF r
<1> QED
  BY <1>1, <1>2, <1>3, TypeLocal

(* So does every handler of objects.rs and connectors.rs. *)
LEMMA TypeAuthenticate ==
  ASSUME TypeInv, NEW s \in Slots, NEW b \in Browsers, NEW op \in {"write", "delete", "run", "get"},
         Authenticate(s, b, op), UNCHANGED cache
  PROVE  TypeInv'
<1> DEFINE q == [Blank EXCEPT !.browser = b]
           r == AsCaller(q, op, jar[b].session)
<1>1. q \in Request /\ q.browser \in Browsers
  BY BlankType DEF Request, Blank
<1>2. req' = [req EXCEPT ![s] = r] /\ UNCHANGED <<now, limitVars, rows, accountVars, cache>>
  BY DEF Authenticate
<1>3. begun' \in Nat
  BY DEF TypeInv, TableType, Authenticate, Begin
<1> HIDE DEF q
<1>4. r \in Request /\ Local(r) /\ r.pc # "limit"
  BY <1>1, CallerType DEF Authenticate
<1> HIDE DEF r
<1> QED
  BY <1>2, <1>3, <1>4, TypeLocal

(* The first half of claim_admin. *)
LEMMA TypeQueryAdmins ==
  ASSUME TypeInv, NEW s \in Slots, QueryAdmins(s), UNCHANGED cache
  PROVE  TypeInv'
<1> DEFINE r == [req[s] EXCEPT !.pc = "promote"]
<1>1. req[s] \in Request /\ Local(req[s]) /\ req[s].pc = "claim" /\ begun' \in Nat
  BY DEF TypeInv, RequestType, TableType, QueryAdmins
<1>2. r \in Request /\ Local(r) /\ r.pc # "limit"
  BY <1>1 DEF Request, Local, Pcs, AsACaller
<1>3. req' = [req EXCEPT ![s] = r] /\ UNCHANGED <<now, limitVars, rows, accountVars, cache>>
  BY DEF QueryAdmins, TypeInv, RequestType, Request
<1> HIDE DEF r
<1> QED
  BY <1>1, <1>2, <1>3, TypeLocal

(* The provider names a person. *)
LEMMA TypeLookUp ==
  ASSUME TypeInv, NEW s \in Slots, NEW i \in Idents, LookUp(s, i), UNCHANGED cache
  PROVE  TypeInv'
<1> DEFINE pc == IF identities[i] = None THEN "insert" ELSE "mint"
           r == [req[s] EXCEPT !.login.ident = i, !.actor = identities[i], !.pc = pc]
<1>1. req[s] \in Request /\ Local(req[s]) /\ req[s].pc = "exchange" /\ begun' \in Nat
      /\ identities[i] \in Actors \cup {None}
  BY DEF TypeInv, RequestType, TableType, LookUp
<1>2. req[s].login \in Login
  BY <1>1 DEF Request
<1>3. [req[s].login EXCEPT !.ident = i] \in Login /\ [req[s].login EXCEPT !.ident = i].ident = i
  BY <1>2 DEF Login
<1>4. r \in Request /\ r.pc = pc /\ r.actor = identities[i] /\ r.browser = req[s].browser
      /\ r.login = [req[s].login EXCEPT !.ident = i]
  BY <1>1, <1>3, ZenonT(60) DEF Request, Pcs
<1>5. req' = [req EXCEPT ![s] = r] /\ UNCHANGED <<now, limitVars, rows, accountVars, cache>>
  <2>1. req' = [req EXCEPT ![s].login.ident = i, ![s].actor = identities[i], ![s].pc = pc]
    BY DEF LookUp
  <2>2. DOMAIN req = Slots /\ DOMAIN req' = Slots
    BY <2>1 DEF TypeInv, RequestType
  <2>3. DOMAIN req[s] = {"pc", "op", "browser", "t", "token", "actor", "admin", "login", "id", "data",
                         "fields", "expected", "late"}
    BY <1>1 DEF Request
  <2>4. req'[s] = r
    BY <2>1, <2>2, <2>3
  <2>5. \A x \in Slots : x # s => req'[x] = req[x]
    BY <2>1, <2>2
  <2> QED
    BY <2>1, <2>2, <2>4, <2>5 DEF LookUp
<1> HIDE DEF r
<1>6. r.login.ident \in Idents /\ r.browser \in Browsers
  <2>1. req[s].browser \in Browsers
    BY <1>1 DEF Local
  <2> QED
    BY <2>1, <1>3, <1>4
<1>7. Local(r) /\ r.pc # "limit"
  <2>1. r.pc \in {"insert", "mint"} /\ (r.pc = "mint" => r.actor \in Actors)
    BY <1>1, <1>4
  <2> QED
    BY <1>6, <2>1 DEF Local, AsACaller
<1> QED
  BY <1>1, <1>4, <1>5, <1>7, TypeLocal

(* A request ends early. *)
LEMMA TypeAbort ==
  ASSUME TypeInv, NEW s \in Slots, Abort(s), UNCHANGED cache
  PROVE  TypeInv'
<1>1. begun' \in Nat
  BY DEF TypeInv, TableType, Abort
<1> QED
  BY <1>1, BlankType, TypeLocal DEF Abort, Done

(* What PUT and PATCH make of a row has the row's fields. *)
LEMMA RequestedType ==
  ASSUME TypeInv, NEW how \in {"put", "patch"}, NEW e \in AllRows, NEW p \in Payloads,
         DOMAIN p \subseteq Fields(e) \cap Editable,
         how = "put" => Fields(e) \cap Required \subseteq DOMAIN p
  PROVE  Requested(how, e, p) \in [FieldsOf(e) -> Values]
<1>1. Fields(e) = FieldsOf(e) /\ rows[e].data \in [FieldsOf(e) -> Values]
  <2>1. DOMAIN rows[e].data = FieldsOf(e) /\ rows[e].data \in Data
    BY DEF TypeInv, RowType, Row
  <2> QED
    BY <2>1 DEF Fields, Data, FieldsOf, ActorFields, ConnectorFields
<1>2. ASSUME NEW f \in FieldsOf(e) PROVE Requested(how, e, p)[f] \in Values
  <2>1. Requested(how, e, p)[f] =
          IF f \in DOMAIN p THEN p[f]
          ELSE IF how = "put" /\ f \in Editable THEN Default[f] ELSE rows[e].data[f]
    BY <1>1 DEF Requested
  <2>2. CASE f \in DOMAIN p
    <3>1. p[f] \in Sent
      BY <2>2 DEF Sent
    <3> QED
      BY <2>1, <2>2, <3>1 DEF Values
  <2>3. CASE f \notin DOMAIN p /\ how = "put" /\ f \in Editable
    <3>1. f \in {"platform_role", "status"}
      BY <2>3, <1>1 DEF FieldsOf, ActorFields, ConnectorFields, Required, Editable
    <3>2. Default[f] \in {"member", "draft"}
      BY <3>1 DEF Default
    <3> QED
      BY <2>1, <2>3, <3>2 DEF Values
  <2>4. CASE f \notin DOMAIN p /\ ~(how = "put" /\ f \in Editable)
    BY <2>1, <2>4, <1>1
  <2> QED
    BY <2>2, <2>3, <2>4
<1> QED
  BY <1>1, <1>2 DEF Requested

(* item_put and item_patch, up to their UPDATE. *)
LEMMA TypeReadRow ==
  ASSUME TypeInv, NEW s \in Slots, NEW how \in {"put", "patch"}, NEW e \in AllRows,
         NEW p \in Payloads, NEW expected \in Nat, ReadRow(s, how, e, p, expected), UNCHANGED cache
  PROVE  TypeInv'
<1> DEFINE d == Requested(how, e, p)
           fs == IF how = "put" THEN Editable ELSE DOMAIN p
           r == [req[s] EXCEPT !.pc = "update", !.id = e, !.data = d, !.expected = expected,
                               !.fields = fs]
<1>1. d \in [FieldsOf(e) -> Values] /\ fs \in SUBSET Editable
  BY RequestedType DEF ReadRow
<1>2. d \in Data
  BY <1>1 DEF Data, FieldsOf
<1>3. req' = [req EXCEPT ![s] = r] /\ UNCHANGED <<now, limitVars, rows, accountVars, cache>>
  BY DEF ReadRow, TypeInv, RequestType
<1>4. req[s] \in Request /\ Local(req[s]) /\ req[s].pc = "write" /\ begun' \in Nat
  BY DEF TypeInv, RequestType, TableType, ReadRow
<1> HIDE DEF d, fs
<1>5. r \in Request /\ r.pc = "update" /\ r.id = e /\ r.data = d /\ r.browser = req[s].browser
      /\ r.actor = req[s].actor
  BY <1>1, <1>2, <1>4 DEF Request, Pcs
<1> HIDE DEF r
<1>6. Local(r)
  BY <1>1, <1>4, <1>5 DEF Local, AsACaller
<1> QED
  BY <1>3, <1>4, <1>5, <1>6, TypeLocal

(* run_connector, up to its fetch. *)
LEMMA TypeReadConnector ==
  ASSUME TypeInv, NEW s \in Slots, NEW e \in Connectors, ReadConnector(s, e), UNCHANGED cache
  PROVE  TypeInv'
<1> DEFINE r == [req[s] EXCEPT !.pc = "fetch", !.id = e]
<1>1. req[s] \in Request /\ Local(req[s]) /\ req[s].pc = "run" /\ begun' \in Nat
  BY DEF TypeInv, RequestType, TableType, ReadConnector
<1>2. r \in Request /\ Local(r) /\ r.pc # "limit"
  BY <1>1 DEF Request, Local, Pcs, AsACaller, AllRows
<1>3. req' = [req EXCEPT ![s] = r] /\ UNCHANGED <<now, limitVars, rows, accountVars, cache>>
  BY DEF ReadConnector, TypeInv, RequestType, Request
<1> HIDE DEF r
<1> QED
  BY <1>1, <1>2, <1>3, TypeLocal

(* The clock advances. *)
LEMMA TypeTick ==
  ASSUME TypeInv, Tick, UNCHANGED cache
  PROVE  TypeInv'
<1>1. ClockType' /\ now' > now
  BY DEF TypeInv, ClockType, Tick, limitVars
<1>2. RowType' /\ TableType'
  BY DEF TypeInv, RowType, TableType, Tick, accountVars
<1>3. RequestType'
  <2>1. ASSUME NEW x \in Slots PROVE req[x].t \in Nat
    BY DEF TypeInv, RequestType, Request
  <2>2. \A x \in Slots : req[x].pc = "limit" => req[x].t <= now'
    BY <1>1, <2>1 DEF TypeInv, ClockType, RequestType
  <2> QED
    BY <2>2 DEF TypeInv, RequestType, Local, Tick
<1> QED
  BY <1>1, <1>2, <1>3 DEF TypeInv

(* The limiter's map after a sweep and after a hit. *)
LEMMA SweptType ==
  ASSUME ClockType, NEW t \in Nat
  PROVE  Swept(t) \in [Keys -> [start : Nat, count : Nat]]
BY DEF ClockType, Swept, NoBucket

(* The bucket after a hit. *)
LEMMA CountedType ==
  ASSUME ClockType, NEW k \in Keys, NEW t \in Nat
  PROVE  Counted(k, t) \in [start : Nat, count : Nat]
<1>1. Swept(t)[k] \in [start : Nat, count : Nat]
  BY SweptType
<1> QED
  BY <1>1 DEF Counted

(* A hit is counted. *)
LEMMA ClockAllow ==
  ASSUME ClockType, NEW k \in Keys, NEW t \in Nat, t <= now, allow(k, t), UNCHANGED now
  PROVE  ClockType'
<1>1. bucket' \in [Keys -> [start : Nat, count : Nat]]
  BY SweptType, CountedType DEF allow
<1>2. admitted' \in [Keys -> Seq(Nat)]
  BY DEF allow, ClockType
<1> QED
  BY <1>1, <1>2 DEF allow, ClockType

(* The hit of a request that waited for the mutex. *)
LEMMA TypeEnforce ==
  ASSUME TypeInv, NEW s \in Slots, Enforce(s), UNCHANGED cache
  PROVE  TypeInv'
<1> DEFINE r == IF Admits(req[s].browser, req[s].t) THEN [req[s] EXCEPT !.pc = "routed"] ELSE Blank
<1>1. req[s] \in Request /\ Local(req[s]) /\ req[s].pc = "limit" /\ req[s].t \in Nat
      /\ req[s].t <= now /\ req[s].browser \in Keys
  BY AccountsAssumption DEF TypeInv, RequestType, Enforce, Request, Local
<1>2. ClockType'
  BY <1>1, ClockAllow DEF TypeInv, Enforce
<1>3. r \in Request /\ Local(r) /\ r.pc # "limit"
  BY <1>1, BlankType DEF Request, Local, Pcs, AsACaller
<1>4. req' = [req EXCEPT ![s] = r] /\ now' = now
  BY DEF Enforce
<1> HIDE DEF r
<1>5. now' \in Nat /\ now' >= now
  BY <1>4 DEF TypeInv, ClockType
<1>6. RequestType'
  BY <1>3, <1>4, <1>5, RequestStep DEF TypeInv
<1>7. RowType' /\ TableType'
  BY DEF TypeInv, RowType, TableType, Enforce, accountVars
<1> QED
  BY <1>2, <1>6, <1>7 DEF TypeInv

(* One row is written. *)
LEMMA RowStep ==
  ASSUME RowType, NEW e \in AllRows, NEW row \in Row, DOMAIN row.data = FieldsOf(e),
         row.alive => row.version > 0, rows' = [rows EXCEPT ![e] = row]
  PROVE  /\ RowType'
         /\ rows'[e] = row /\ \A x \in AllRows \ {e} : rows'[x] = rows[x]
<1>1. rows' \in [AllRows -> Row]
  BY DEF RowType
<1>2. rows'[e] = row /\ \A x \in AllRows \ {e} : rows'[x] = rows[x]
  BY DEF RowType
<1>3. ASSUME NEW x \in AllRows
      PROVE  DOMAIN rows'[x].data = FieldsOf(x) /\ (rows'[x].alive => rows'[x].version > 0)
  BY <1>2 DEF RowType
<1> QED
  BY <1>1, <1>2, <1>3 DEF RowType, FieldsOf

(* The data of a row has the fields of its type. *)
LEMMA RowData ==
  ASSUME RowType, NEW e \in AllRows
  PROVE  /\ rows[e] \in Row /\ rows[e].data \in [FieldsOf(e) -> Values]
         /\ rows[e].alive \in BOOLEAN /\ rows[e].version \in Nat
         /\ rows[e] = [alive |-> rows[e].alive, version |-> rows[e].version, data |-> rows[e].data]
         /\ [FieldsOf(e) -> Values] \subseteq Data
<1>1. rows[e] \in Row /\ DOMAIN rows[e].data = FieldsOf(e)
  BY DEF RowType
<1>2. rows[e].data \in Data
  BY <1>1 DEF Row
<1> QED
  BY <1>1, <1>2 DEF Row, Data, FieldsOf, ActorFields, ConnectorFields

(* Some of a row's columns are written. *)
LEMMA ColumnStep ==
  ASSUME RowType, NEW e \in AllRows, NEW d \in [FieldsOf(e) -> Values], NEW v \in Nat,
         NEW alive \in BOOLEAN, alive => v > 0,
         rows' = [rows EXCEPT ![e] = [alive |-> alive, version |-> v, data |-> d]]
  PROVE  /\ RowType'
         /\ rows'[e] = [alive |-> alive, version |-> v, data |-> d]
         /\ \A x \in AllRows \ {e} : rows'[x] = rows[x]
<1> DEFINE row == [alive |-> alive, version |-> v, data |-> d]
<1>1. row \in Row /\ row.alive = alive /\ row.version = v /\ row.data = d
  BY RowData DEF Row
<1>2. DOMAIN row.data = FieldsOf(e)
  BY <1>1
<1> HIDE DEF row
<1>3. rows' = [rows EXCEPT ![e] = row]
  BY DEF row
<1>4. RowType' /\ rows'[e] = row /\ \A x \in AllRows \ {e} : rows'[x] = rows[x]
  BY <1>1, <1>2, <1>3, RowStep
<1> QED
  BY <1>4 DEF row

(* The write of claim_admin. *)
LEMMA PromoteRow ==
  ASSUME TypeInv, NEW s \in Slots, Promote(s)
  PROVE  LET a == req[s].actor IN
         /\ a \in Actors /\ RowType'
         /\ rows'[a].alive = rows[a].alive /\ rows'[a].version = rows[a].version
         /\ rows'[a].data = [rows[a].data EXCEPT !.platform_role = "admin"]
         /\ rows'[a].data.platform_role = "admin"
         /\ \A x \in AllRows \ {a} : rows'[x] = rows[x]
<1> DEFINE a == req[s].actor
           d == [rows[a].data EXCEPT !.platform_role = "admin"]
<1>1. a \in Actors /\ a \in AllRows /\ a \notin Connectors
  BY PlatformAssumption DEF TypeInv, RequestType, Promote, Local, AsACaller, AllRows
<1>2. rows' = [rows EXCEPT ![a].data.platform_role = "admin"]
  BY DEF Promote
<1> HIDE DEF a
<1>3. /\ rows[a] = [alive |-> rows[a].alive, version |-> rows[a].version, data |-> rows[a].data]
      /\ rows[a].data \in [ActorFields -> Values] /\ FieldsOf(a) = ActorFields
      /\ rows[a].alive \in BOOLEAN /\ rows[a].version \in Nat
      /\ rows[a].alive => rows[a].version > 0
  <2>1. FieldsOf(a) = ActorFields
    BY <1>1 DEF FieldsOf
  <2> QED
    BY <1>1, <2>1, RowData DEF TypeInv, RowType
<1>4. d \in [FieldsOf(a) -> Values] /\ d.platform_role = "admin"
  BY <1>3 DEF ActorFields, Values
<1>5. rows' = [rows EXCEPT ![a] = [rows[a] EXCEPT !.data = d]]
  BY <1>2
<1> HIDE DEF d
<1>6. [rows[a] EXCEPT !.data = d] = [alive |-> rows[a].alive, version |-> rows[a].version, data |-> d]
  BY <1>3
<1>7. rows' = [rows EXCEPT ![a] = [alive |-> rows[a].alive, version |-> rows[a].version, data |-> d]]
  BY <1>5, <1>6
<1>8. /\ RowType'
      /\ rows'[a] = [alive |-> rows[a].alive, version |-> rows[a].version, data |-> d]
      /\ \A x \in AllRows \ {a} : rows'[x] = rows[x]
  <2> DEFINE al == rows[a].alive
             v == rows[a].version
  <2>1. RowType
    BY DEF TypeInv
  <2>2. al \in BOOLEAN /\ v \in Nat /\ (al => v > 0)
    BY <1>3
  <2>3. rows' = [rows EXCEPT ![a] = [alive |-> al, version |-> v, data |-> d]]
    BY <1>7
  <2> HIDE DEF al, v
  <2>4. /\ RowType' /\ rows'[a] = [alive |-> al, version |-> v, data |-> d]
        /\ \A x \in AllRows \ {a} : rows'[x] = rows[x]
    BY <2>1, <2>2, <2>3, <1>1, <1>4, ColumnStep, ZenonT(60)
  <2> QED
    BY <2>4 DEF al, v
<1>9. rows'[a].alive = rows[a].alive /\ rows'[a].version = rows[a].version /\ rows'[a].data = d
  BY <1>8
<1> QED
  BY <1>1, <1>4, <1>8, <1>9 DEF a, d

(* It marks the handlers it overtakes. *)
LEMMA PromoteMarks ==
  ASSUME TypeInv, NEW s \in Slots, Promote(s)
  PROVE  /\ req' \in [Slots -> Request] /\ req'[s] = Blank
         /\ \A x \in Slots \ {s} :
              /\ req'[x] = [req[x] EXCEPT !.late = req'[x].late]
              /\ \A f \in {"pc", "op", "browser", "t", "token", "actor", "admin", "login", "id", "data",
                           "fields", "expected"} : req'[x][f] = req[x][f]
              /\ req'[x].late = (req[x].late \/ req[x].pc = "promote" \/ req[x].id = req[s].actor)
<1> DEFINE late(x) == req[x].late \/ req[x].pc = "promote" \/ req[x].id = req[s].actor
<1>1. req' = [x \in Slots |-> IF x = s THEN Blank ELSE [req[x] EXCEPT !.late = late(x)]]
  BY DEF Promote
<1>2. req'[s] = Blank
  BY <1>1
<1>3. ASSUME NEW x \in Slots \ {s}
      PROVE  /\ req'[x] \in Request /\ req'[x].late = late(x)
             /\ req'[x] = [req[x] EXCEPT !.late = req'[x].late]
             /\ \A f \in {"pc", "op", "browser", "t", "token", "actor", "admin", "login", "id", "data",
                          "fields", "expected"} : req'[x][f] = req[x][f]
  <2>1. req'[x] = [req[x] EXCEPT !.late = late(x)]
    BY <1>1
  <2>2. req[x] \in Request
    BY DEF TypeInv, RequestType
  <2>3. late(x) \in BOOLEAN
    BY <2>2 DEF Request
  <2> HIDE DEF late
  <2> QED
    BY <2>1, <2>2, <2>3 DEF Request
<1>4. req' \in [Slots -> Request]
  <2>1. \A x \in Slots : req'[x] \in Request
    BY <1>2, <1>3, BlankType
  <2> QED
    BY <1>1, <2>1
<1> QED
  BY <1>2, <1>3, <1>4

(* The second half of the claim keeps the types. *)
LEMMA TypePromote ==
  ASSUME TypeInv, NEW s \in Slots, Promote(s), UNCHANGED cache
  PROVE  TypeInv'
<1>1. RowType' /\ req[s].actor \in Actors
  BY PromoteRow
<1>2. ClockType'
  BY DEF TypeInv, ClockType, Promote, limitVars
<1>3. TableType'
  <2>1. req[s].late \in BOOLEAN
    BY DEF TypeInv, RequestType, Request
  <2>2. claimants' \subseteq Actors /\ contested' \in BOOLEAN
    BY <1>1, <2>1 DEF TypeInv, TableType, Promote
  <2> QED
    BY <2>2 DEF TypeInv, TableType, Promote
<1>4. RequestType'
  <2>1. ASSUME NEW x \in Slots
        PROVE  Local(req'[x]) /\ (req'[x].pc = "limit" => req'[x].t <= now')
    <3>1. CASE x = s
      BY <3>1, PromoteMarks, BlankType
    <3>2. CASE x # s
      <4>1. \A f \in {"pc", "op", "browser", "t", "token", "actor", "admin", "login", "id", "data",
                           "fields", "expected"} : req'[x][f] = req[x][f]
        BY <3>2, PromoteMarks, ZenonT(60)
      <4>2. /\ req'[x].pc = req[x].pc /\ req'[x].browser = req[x].browser /\ req'[x].t = req[x].t
            /\ req'[x].actor = req[x].actor /\ req'[x].login = req[x].login
            /\ req'[x].id = req[x].id /\ req'[x].data = req[x].data
        BY <4>1
      <4> QED
        BY <4>2 DEF TypeInv, RequestType, Local, Promote
    <3> QED
      BY <3>1, <3>2
  <2> QED
    BY <2>1, PromoteMarks DEF RequestType, Local, FieldsOf
<1> QED
  BY <1>1, <1>2, <1>3, <1>4 DEF TypeInv

(* logout and the cascade of a deletion drop sessions, and keep the rest of them. *)
LEMMA DropSessions ==
  ASSUME TypeInv, NEW a,
         sessions' = [i \in DOMAIN sessions |->
           [sessions[i] EXCEPT !.live = @ /\ sessions[i].actor # a]]
  PROVE  /\ sessions' \in Seq(SessionRow) /\ Len(sessions') = Len(sessions)
         /\ \A i \in 1..Len(sessions) :
              /\ sessions'[i].actor = sessions[i].actor /\ sessions'[i].login = sessions[i].login
              /\ sessions'[i].live = (sessions[i].live /\ sessions[i].actor # a)
<1>1. DOMAIN sessions = 1..Len(sessions) /\ Len(sessions) \in Nat
  BY DEF TypeInv, TableType
<1>2. ASSUME NEW i \in 1..Len(sessions)
      PROVE  /\ sessions'[i] \in SessionRow
             /\ sessions'[i].actor = sessions[i].actor /\ sessions'[i].login = sessions[i].login
             /\ sessions'[i].live = (sessions[i].live /\ sessions[i].actor # a)
  <2>1. sessions[i] \in SessionRow
    BY DEF TypeInv, TableType
  <2> DEFINE live == sessions[i].live /\ sessions[i].actor # a
  <2>2. sessions'[i] = [sessions[i] EXCEPT !.live = live]
    BY <1>1
  <2>3. live \in BOOLEAN
    BY <2>1 DEF SessionRow
  <2> HIDE DEF live
  <2>4. sessions'[i] \in SessionRow /\ sessions'[i].live = live
        /\ sessions'[i].actor = sessions[i].actor /\ sessions'[i].login = sessions[i].login
    BY <2>1, <2>2, <2>3 DEF SessionRow
  <2> QED
    BY <2>4 DEF live
<1>3. sessions' \in [1..Len(sessions) -> SessionRow]
  <2>1. sessions' = [i \in 1..Len(sessions) |-> sessions'[i]]
    BY <1>1
  <2> QED
    BY <1>2, <2>1
<1>4. sessions' \in Seq(SessionRow) /\ Len(sessions') = Len(sessions)
  BY <1>1, <1>3, SegmentIsSeq
<1> QED
  BY <1>2, <1>4

(* So does a logout. *)
LEMMA TypeLogout ==
  ASSUME TypeInv, NEW s \in Slots, Logout(s), UNCHANGED cache
  PROVE  TypeInv'
<1>1. sessions' \in Seq(SessionRow) /\ Len(sessions') = Len(sessions) /\ Len(sessions) \in Nat
  <2>1. Len(sessions) \in Nat
    BY DEF TypeInv, TableType
  <2>2. sessions' = [i \in DOMAIN sessions |->
          [sessions[i] EXCEPT !.live = @ /\ sessions[i].actor # req[s].actor]]
    BY DEF Logout
  <2> QED
    BY <2>1, <2>2, DropSessions
<1>2. jar' \in [Browsers -> Jar] /\ \A b \in Browsers :
        jar'[b].flow \in 0..Len(flows) /\ jar'[b].session \in 0..Len(sessions)
  <2>1. CASE jar' = jar
    BY <2>1 DEF TypeInv, TableType
  <2>2. CASE jar' = [jar EXCEPT ![req[s].browser].session = 0]
    <3>1. ASSUME NEW b \in Browsers
          PROVE  jar'[b] \in Jar /\ jar'[b].flow \in 0..Len(flows) /\ jar'[b].session \in 0..Len(sessions)
      <4>1. jar[b] \in Jar /\ jar[b].flow \in 0..Len(flows) /\ jar[b].session \in 0..Len(sessions)
        BY DEF TypeInv, TableType
      <4>2. jar'[b] = IF b = req[s].browser THEN [jar[b] EXCEPT !.session = 0] ELSE jar[b]
        BY <2>2 DEF TypeInv, TableType
      <4> QED
        BY <1>1, <4>1, <4>2 DEF Jar
    <3> QED
      BY <3>1, <2>2 DEF TypeInv, TableType
  <2> QED
    BY <2>1, <2>2 DEF Logout
<1>3. TableType'
  BY <1>1, <1>2 DEF TypeInv, TableType, Logout
<1>4. ClockType' /\ RowType'
  BY DEF TypeInv, ClockType, RowType, Logout, limitVars
<1>5. RequestType'
  BY DoneType DEF Logout, TypeInv
<1> QED
  BY <1>3, <1>4, <1>5 DEF TypeInv

(* A flow starts. *)
LEMMA TypeStart ==
  ASSUME TypeInv, NEW b \in Browsers, Start(b), UNCHANGED cache
  PROVE  TypeInv'
<1> DEFINE f == [browser |-> b, exp |-> now + StateTTL]
<1>1. f \in Flow /\ now + StateTTL \in Nat
  BY AccountsAssumption DEF Flow, TypeInv, ClockType
<1>2. flows' = Append(flows, f) /\ jar' = [jar EXCEPT ![b].flow = Len(flows) + 1]
  BY DEF Start
<1> HIDE DEF f
<1>3. flows' \in Seq(Flow) /\ Len(flows') = Len(flows) + 1 /\ Len(flows) \in Nat
  BY <1>1, <1>2 DEF TypeInv, TableType
<1>4. ASSUME NEW x \in Browsers
      PROVE  jar'[x] \in Jar /\ jar'[x].flow \in 0..Len(flows') /\ jar'[x].session \in 0..Len(sessions)
  BY <1>2, <1>3 DEF TypeInv, TableType, Jar
<1>5. jar' \in [Browsers -> Jar] /\ \A x \in Browsers :
        jar'[x].flow \in 0..Len(flows') /\ jar'[x].session \in 0..Len(sessions)
  BY <1>2, <1>4 DEF TypeInv, TableType
<1>6. TableType'
  BY <1>3, <1>5 DEF TypeInv, TableType, Start
<1>7. ClockType' /\ RowType'
  BY DEF TypeInv, ClockType, RowType, Start, limitVars
<1>8. RequestType'
  BY DEF TypeInv, RequestType, Local, FieldsOf, Start
<1> QED
  BY <1>6, <1>7, <1>8 DEF TypeInv

(* The row of a first login. *)
LEMMA InsertRow ==
  ASSUME TypeInv, NEW s \in Slots, NEW a \in Actors, InsertIdentity(s, a)
  PROVE  /\ RowType'
         /\ rows'[a].alive /\ rows'[a].version = 1 /\ rows'[a].data.platform_role = "member"
         /\ \A x \in AllRows \ {a} : rows'[x] = rows[x]
<1>1. a \in AllRows /\ FieldsOf(a) = ActorFields
  BY PlatformAssumption DEF AllRows, FieldsOf
<1> DEFINE d == ActorData("member")
<1>2. d \in [ActorFields -> Values] /\ d.platform_role = "member"
  BY DEF ActorData, ActorFields, Values
<1>3. rows' = [rows EXCEPT ![a] = [alive |-> TRUE, version |-> 1, data |-> d]]
  BY DEF InsertIdentity, Inserted
<1> HIDE DEF d
<1>4. RowType' /\ rows'[a] = [alive |-> TRUE, version |-> 1, data |-> d]
      /\ \A x \in AllRows \ {a} : rows'[x] = rows[x]
  <2>1. RowType
    BY DEF TypeInv
  <2>2. TRUE \in BOOLEAN /\ 1 \in Nat /\ (TRUE => 1 > 0) /\ d \in [FieldsOf(a) -> Values]
    BY <1>1, <1>2
  <2> QED
    BY <2>1, <2>2, <1>1, <1>3, ColumnStep
<1> QED
  BY <1>2, <1>4

(* So does the first login of a person. *)
LEMMA TypeInsert ==
  ASSUME TypeInv, NEW s \in Slots, NEW a \in Actors, InsertIdentity(s, a), UNCHANGED cache
  PROVE  TypeInv'
<1> DEFINE r == [req[s] EXCEPT !.pc = "mint", !.actor = a]
<1>1. req[s] \in Request /\ Local(req[s]) /\ req[s].pc = "insert"
  BY DEF TypeInv, RequestType, InsertIdentity
<1>2. r \in Request /\ Local(r) /\ r.pc # "limit"
  BY <1>1 DEF Request, Local, Pcs, AsACaller
<1>3. req' = [req EXCEPT ![s] = r] /\ now' = now
  BY DEF InsertIdentity, Inserted, TypeInv, RequestType, Request
<1> HIDE DEF r
<1>4. RequestType'
  <2>1. now' \in Nat /\ now' >= now
    BY <1>3 DEF TypeInv, ClockType
  <2> QED
    BY <1>2, <1>3, <2>1, RequestStep DEF TypeInv
<1>5. TableType'
  BY DEF TypeInv, TableType, InsertIdentity, Inserted
<1>6. ClockType' /\ RowType'
  BY InsertRow DEF TypeInv, ClockType, InsertIdentity, Inserted, limitVars
<1> QED
  BY <1>4, <1>5, <1>6 DEF TypeInv

(* The new session is the last one. *)
LEMMA MintRow ==
  ASSUME TypeInv, NEW s \in Slots, MintSession(s)
  PROVE  LET x == Session(req[s].actor, req[s].login) IN
         /\ req[s].actor \in Actors /\ req[s].login \in Login
         /\ sessions' = Append(sessions, x) /\ sessions' \in Seq(SessionRow)
         /\ Len(sessions') = Len(sessions) + 1 /\ Len(sessions) \in Nat
         /\ sessions'[Len(sessions) + 1] = x
         /\ x.actor = req[s].actor /\ x.login = req[s].login
         /\ \A i \in 1..Len(sessions) : sessions'[i] = sessions[i]
<1> DEFINE x == Session(req[s].actor, req[s].login)
<1>1. req[s].actor \in Actors /\ req[s].login \in Login
  BY DEF TypeInv, RequestType, MintSession, Local, AsACaller, Request
<1>2. now + SessionTTL \in Nat
  BY AccountsAssumption DEF TypeInv, ClockType
<1>3. x \in SessionRow /\ x.actor = req[s].actor /\ x.login = req[s].login
  BY <1>1, <1>2 DEF Session, SessionRow
<1>4. sessions' = Append(sessions, x)
  BY DEF MintSession
<1> HIDE DEF x
<1>5. sessions \in Seq(SessionRow)
  BY DEF TypeInv, TableType
<1>6. /\ sessions' \in Seq(SessionRow)
      /\ Len(sessions') = Len(sessions) + 1 /\ Len(sessions) \in Nat
      /\ sessions'[Len(sessions) + 1] = x
      /\ \A i \in 1..Len(sessions) : sessions'[i] = sessions[i]
  BY <1>3, <1>4, <1>5
<1> QED
  BY <1>1, <1>3, <1>4, <1>6 DEF x

(* So does the session of a login. *)
LEMMA TypeMint ==
  ASSUME TypeInv, NEW s \in Slots, MintSession(s), UNCHANGED cache
  PROVE  TypeInv'
<1>1. sessions' \in Seq(SessionRow) /\ Len(sessions') = Len(sessions) + 1 /\ Len(sessions) \in Nat
  BY MintRow
<1> DEFINE b == req[s].browser
           n == Len(sessions) + 1
<1>2. b \in Browsers
  BY DEF TypeInv, RequestType, MintSession, Local
<1>3. PICK flow \in 0..Len(flows), session \in 0..Len(sessions') :
        jar' = jar \/ jar' = [jar EXCEPT ![b] = [flow |-> flow, session |-> session]]
  <2>1. jar' \in Answered(s, n)
    BY DEF MintSession
  <2>2. Len(flows) \in Nat /\ jar[b] \in Jar /\ jar[b].flow \in 0..Len(flows)
        /\ jar[b].session \in 0..Len(sessions)
    BY <1>2 DEF TypeInv, TableType
  <2>3. CASE jar' = jar
    BY <2>3, <1>1, <2>2
  <2>4. CASE jar' = [jar EXCEPT ![b].session = n]
    <3>1. [jar[b] EXCEPT !.session = n] = [flow |-> jar[b].flow, session |-> n]
      BY <2>2 DEF Jar
    <3>2. jar' = [jar EXCEPT ![b] = [flow |-> jar[b].flow, session |-> n]]
      BY <2>4, <3>1
    <3>3. n \in 0..Len(sessions')
      BY <1>1
    <3> QED
      BY <2>2, <3>2, <3>3
  <2>5. CASE \E x \in {n, jar[b].session} : jar' = [jar EXCEPT ![b] = [flow |-> 0, session |-> x]]
    <3>1. PICK x \in {n, jar[b].session} : jar' = [jar EXCEPT ![b] = [flow |-> 0, session |-> x]]
      BY <2>5
    <3>2. x \in 0..Len(sessions') /\ 0 \in 0..Len(flows)
      BY <1>1, <2>2, <3>1
    <3> QED
      BY <3>1, <3>2
  <2> QED
    BY <2>1, <2>3, <2>4, <2>5 DEF Answered
<1> HIDE DEF b
<1>4. jar' \in [Browsers -> Jar] /\ \A x \in Browsers :
        jar'[x].flow \in 0..Len(flows) /\ jar'[x].session \in 0..Len(sessions')
  <2>1. CASE jar' = jar
    BY <1>1, <2>1 DEF TypeInv, TableType
  <2>2. CASE jar' = [jar EXCEPT ![b] = [flow |-> flow, session |-> session]]
    <3>1. [flow |-> flow, session |-> session] \in Jar
      BY <1>1 DEF Jar, TypeInv, TableType
    <3>2. ASSUME NEW x \in Browsers
          PROVE  jar'[x] \in Jar /\ jar'[x].flow \in 0..Len(flows) /\ jar'[x].session \in 0..Len(sessions')
      <4>1. CASE x = b
        BY <4>1, <2>2, <3>1, <1>3 DEF TypeInv, TableType
      <4>2. CASE x # b
        BY <4>2, <1>1, <2>2 DEF TypeInv, TableType
      <4> QED
        BY <4>1, <4>2
    <3> QED
      BY <3>2, <2>2 DEF TypeInv, TableType
  <2> QED
    BY <1>3, <2>1, <2>2
<1>5. TableType'
  BY <1>1, <1>4 DEF TypeInv, TableType, MintSession
<1>6. ClockType' /\ RowType'
  BY DEF TypeInv, ClockType, RowType, MintSession, limitVars
<1>7. RequestType'
  BY DoneType DEF MintSession, TypeInv
<1> QED
  BY <1>5, <1>6, <1>7 DEF TypeInv

(* The UPDATE of a PUT or a PATCH. *)
LEMMA UpdatedRow ==
  ASSUME TypeInv, NEW s \in Slots, UpdateRow(s)
  PROVE  LET r == req[s] IN
         /\ r.id \in AllRows /\ RowType'
         /\ rows'[r.id].alive = rows[r.id].alive /\ rows[r.id].alive
         /\ rows'[r.id].version = rows[r.id].version + 1
         /\ rows'[r.id].data = r.data
         /\ \A x \in AllRows \ {r.id} : rows'[x] = rows[x]
<1> DEFINE e == req[s].id
           d == req[s].data
           v == rows[e].version + 1
<1>1. e \in AllRows /\ d \in [FieldsOf(e) -> Values]
  BY DEF TypeInv, RequestType, UpdateRow, Local
<1>2. rows[e].alive /\ rows' = [rows EXCEPT ![e].data = d, ![e].version = @ + 1]
  BY DEF UpdateRow
<1> HIDE DEF e, d
<1>3. RowType
  BY DEF TypeInv
<1>4. rows[e] = [alive |-> rows[e].alive, version |-> rows[e].version, data |-> rows[e].data]
      /\ rows[e].version \in Nat /\ rows[e].alive \in BOOLEAN
  BY <1>1, <1>3, RowData
<1> DEFINE row == [rows[e] EXCEPT !.data = d, !.version = v]
<1>5. rows' = [rows EXCEPT ![e] = row]
  BY <1>1, <1>2, <1>3, <1>4 DEF RowType
<1>6. v \in Nat /\ v > 0 /\ d \in Data
  BY <1>1, <1>3, <1>4, RowData
<1> HIDE DEF v
<1>7. row \in Row /\ row.alive = rows[e].alive /\ row.version = v /\ row.data = d
  <2>1. rows[e] \in Row
    BY <1>1, <1>3 DEF RowType
  <2> QED
    BY <2>1, <1>6 DEF Row
<1> HIDE DEF row
<1>8. RowType' /\ rows'[e] = row /\ \A x \in AllRows \ {e} : rows'[x] = rows[x]
  BY <1>1, <1>3, <1>5, <1>6, <1>7, RowStep
<1> QED
  BY <1>1, <1>2, <1>7, <1>8 DEF e, d, v

(* So does the UPDATE of a PUT or PATCH. *)
LEMMA TypeUpdateRow ==
  ASSUME TypeInv, NEW s \in Slots, UpdateRow(s), UNCHANGED cache
  PROVE  TypeInv'
<1>1. RowType'
  BY UpdatedRow
<1>2. ClockType'
  BY DEF TypeInv, ClockType, UpdateRow, limitVars
<1>3. TableType'
  <2>1. contested' \in BOOLEAN
    BY DEF TypeInv, TableType, UpdateRow
  <2> QED
    BY <2>1 DEF TypeInv, TableType, UpdateRow
<1>4. RequestType'
  BY DoneType DEF UpdateRow, TypeInv
<1> QED
  BY <1>1, <1>2, <1>3, <1>4 DEF TypeInv

(* The row of a deletion. *)
LEMMA DeletedRow ==
  ASSUME TypeInv, NEW s \in Slots, NEW e \in AllRows, NEW expected, DeleteItem(s, e, expected)
  PROVE  /\ RowType'
         /\ rows'[e].alive = FALSE
         /\ rows'[e].version = rows[e].version /\ rows'[e].data = rows[e].data
         /\ rows[e].alive
         /\ \A x \in AllRows \ {e} : rows'[x] = rows[x]
<1>1. rows' = [rows EXCEPT ![e].alive = FALSE] /\ rows[e].alive /\ RowType
  BY DEF DeleteItem, TypeInv
<1> DEFINE row == [rows[e] EXCEPT !.alive = FALSE]
<1>2. rows' = [rows EXCEPT ![e] = row]
  BY <1>1
<1>3. rows[e] \in Row /\ rows[e].version \in Nat /\ rows[e].data \in Data
      /\ DOMAIN rows[e].data = FieldsOf(e)
  BY <1>1, RowData DEF RowType
<1>4. row \in Row /\ row.alive = FALSE /\ row.version = rows[e].version /\ row.data = rows[e].data
  BY <1>3 DEF Row
<1> HIDE DEF row
<1>5. RowType' /\ rows'[e] = row /\ \A x \in AllRows \ {e} : rows'[x] = rows[x]
  BY <1>1, <1>2, <1>3, <1>4, RowStep, ZenonT(60)
<1> QED
  BY <1>1, <1>4, <1>5

(* So does the deletion of a row with what refers to it. *)
LEMMA TypeDelete ==
  ASSUME TypeInv, NEW s \in Slots, NEW e \in AllRows, NEW expected, DeleteItem(s, e, expected),
         UNCHANGED cache
  PROVE  TypeInv'
<1>1. RowType'
  BY DeletedRow
<1>2. ClockType'
  BY DEF TypeInv, ClockType, DeleteItem, limitVars
<1>3. sessions' \in Seq(SessionRow) /\ Len(sessions') = Len(sessions)
  <2>1. sessions' = [i \in DOMAIN sessions |->
          [sessions[i] EXCEPT !.live = @ /\ sessions[i].actor # e]]
    BY DEF DeleteItem
  <2> QED
    BY <2>1, DropSessions
<1>4. TableType'
  <2>1. contested' \in BOOLEAN /\ identities' \in [Idents -> Actors \cup {None}]
    BY DEF TypeInv, TableType, DeleteItem
  <2> QED
    BY <2>1, <1>3 DEF TypeInv, TableType, DeleteItem
<1>5. RequestType'
  BY DoneType DEF DeleteItem, TypeInv
<1> QED
  BY <1>1, <1>2, <1>4, <1>5 DEF TypeInv

(* The UPDATE of stamp_run. *)
LEMMA StampedRow ==
  ASSUME TypeInv, NEW s \in Slots, NEW status \in {"active", "error"}, StampRun(s, status)
  PROVE  LET e == req[s].id IN
         /\ e \in Connectors /\ RowType'
         /\ rows'[e].alive = rows[e].alive
         /\ rows'[e].version = rows[e].version + 1
         /\ \A x \in AllRows \ {e} : rows'[x] = rows[x]
<1> DEFINE e == req[s].id
           v == rows[e].version + 1
           d == [rows[e].data EXCEPT !.status = status, !.last_run_at = now]
<1>1. e \in Connectors /\ e \in AllRows /\ FieldsOf(e) = ConnectorFields
  BY DEF TypeInv, RequestType, StampRun, Local, AllRows, FieldsOf
<1>2. rows[e].alive /\ rows' = [rows EXCEPT ![e].data.status = status, ![e].data.last_run_at = now,
                                            ![e].version = @ + 1]
  BY DEF StampRun
<1> HIDE DEF e
<1>3. RowType /\ now \in Nat
  BY DEF TypeInv, ClockType
<1>4. rows[e] = [alive |-> rows[e].alive, version |-> rows[e].version, data |-> rows[e].data]
      /\ rows[e].version \in Nat /\ rows[e].alive \in BOOLEAN
      /\ rows[e].data \in [ConnectorFields -> Values]
  BY <1>1, <1>3, RowData
<1>5. d \in [ConnectorFields -> Values]
  BY <1>3, <1>4 DEF ConnectorFields, Values
<1> DEFINE row == [rows[e] EXCEPT !.data = d, !.version = v]
<1>6. rows' = [rows EXCEPT ![e] = row]
  BY <1>1, <1>2, <1>3, <1>4 DEF RowType
<1>7. v \in Nat /\ v > 0 /\ d \in Data /\ DOMAIN d = FieldsOf(e)
  BY <1>1, <1>4, <1>5 DEF Data
<1> HIDE DEF d, v
<1>8. row \in Row /\ row.alive = rows[e].alive /\ row.version = v /\ row.data = d
  <2>1. rows[e] \in Row
    BY <1>1, <1>3 DEF RowType
  <2> QED
    BY <2>1, <1>7 DEF Row
<1> HIDE DEF row
<1>9. RowType' /\ rows'[e] = row /\ \A x \in AllRows \ {e} : rows'[x] = rows[x]
  BY <1>1, <1>3, <1>6, <1>7, <1>8, RowStep
<1> QED
  BY <1>1, <1>8, <1>9 DEF e, v

(* So does the stamp of a connector run. *)
LEMMA TypeStamp ==
  ASSUME TypeInv, NEW s \in Slots, NEW status \in {"active", "error"}, StampRun(s, status),
         UNCHANGED cache
  PROVE  TypeInv'
<1>1. RowType'
  BY StampedRow
<1>2. ClockType' /\ TableType'
  BY DEF TypeInv, ClockType, TableType, StampRun, limitVars, accountVars
<1>3. RequestType'
  BY DoneType DEF StampRun, TypeInv
<1> QED
  BY <1>1, <1>2, <1>3 DEF TypeInv

(* item_get. *)
LEMMA TypeGet ==
  ASSUME TypeInv, NEW s \in Slots, NEW e \in AllRows, Get(s, e)
  PROVE  TypeInv'
<1>1. rows[e].version \in Nat /\ rows[e].data \in Data
  BY RowData DEF TypeInv
<1>2. [id |-> e, version |-> rows[e].version, data |-> rows[e].data] \in Copy
  BY <1>1 DEF Copy
<1>3. cache' \in [Browsers -> Copy]
  BY <1>2 DEF TypeInv, TableType, Get
<1>4. TableType'
  BY <1>3 DEF TypeInv, TableType, Get, accountVars
<1>5. ClockType' /\ RowType'
  BY DEF TypeInv, ClockType, RowType, Get, limitVars
<1>6. RequestType'
  BY DoneType DEF Get, TypeInv
<1> QED
  BY <1>4, <1>5, <1>6 DEF TypeInv

(* So does every step. *)
LEMMA TypeStep == TypeInv /\ [PlatformNext]_platformVars => TypeInv'
<1> SUFFICES ASSUME TypeInv, [PlatformNext]_platformVars PROVE TypeInv'
  OBVIOUS
<1>1. CASE UNCHANGED platformVars
  BY <1>1 DEF platformVars, vars, TypeInv, ClockType, RowType, TableType, RequestType, Local, FieldsOf
<1>2. CASE AccountsNext /\ UNCHANGED cache
  BY <1>2, TypeTick, TypeStart, TypeArrive, TypeCallback, TypeEnforce, TypeDevLogin, TypeInsert,
     TypeRoute, TypeQueryAdmins, TypePromote, TypeLogout, TypeLookUp, TypeMint, TypeAbort
     DEF AccountsNext
<1>3. CASE WriteNext /\ UNCHANGED cache
  <2>1. PICK s \in Slots :
          \/ \E b \in Browsers, op \in {"write", "delete", "run", "get"} : Authenticate(s, b, op)
          \/ \E how \in {"put", "patch"}, e \in AllRows, p \in Payloads :
               \E expected \in 1..rows[e].version : ReadRow(s, how, e, p, expected)
          \/ UpdateRow(s)
          \/ \E e \in AllRows : \E expected \in 1..rows[e].version : DeleteItem(s, e, expected)
          \/ \E e \in Connectors : ReadConnector(s, e)
          \/ \E status \in {"active", "error"} : StampRun(s, status)
    BY <1>3 DEF WriteNext, AllRows
  <2>2. CASE \E how \in {"put", "patch"}, e \in AllRows, p \in Payloads :
               \E expected \in 1..rows[e].version : ReadRow(s, how, e, p, expected)
    <3>1. PICK how \in {"put", "patch"}, e \in AllRows, p \in Payloads :
            \E expected \in 1..rows[e].version : ReadRow(s, how, e, p, expected)
      BY <2>2
    <3>2. PICK expected \in 1..rows[e].version : ReadRow(s, how, e, p, expected)
      BY <3>1
    <3>3. expected \in Nat
      BY RowData DEF TypeInv
    <3> QED
      BY <1>3, <3>2, <3>3, TypeReadRow
  <2> QED
    BY <1>3, <2>1, <2>2, TypeAuthenticate, TypeUpdateRow, TypeDelete, TypeReadConnector, TypeStamp
<1>4. CASE \E s \in Slots, e \in Actors \cup Connectors : Get(s, e)
  BY <1>4, TypeGet DEF AllRows
<1> QED
  BY <1>1, <1>2, <1>3, <1>4 DEF PlatformNext

(* The strengthened type invariant: the clock never runs ahead of a reading, *)
(* rows keep the fields of their type, and every handler holds what its next *)
(* statement needs.                                                          *)
LEMMA TypeInvariant == Spec => []TypeInv
BY TypeInit, TypeStep, PTL DEF Spec

(* The clock, the limiter and the tables of auth.rs, oauth.rs, connectors.rs *)
(* and objects.rs have their types in every reachable state.                 *)
THEOREM TypeCorrect == Spec => []TypeOK
<1>1. TypeInv => TypeOK
  BY DEF TypeInv, TypeOK, ClockType, RowType, TableType, AllRows
<1> QED
  BY <1>1, TypeInvariant, PTL

----------------------------------------------------------------------------
(* The steps, as the invariants below tell them apart. *)

Tables == <<rows, identities, sessions, flows, jar, claimants, contested, cache>>

(* A handler moves on to a step at which it knows nothing yet of a login,   *)
(* of the other admins or of a row's data.                                  *)
PlainPcs == {"idle", "limit", "routed", "claim", "logout", "write", "delete", "run", "fetch", "get"}
Plain(s) ==
  /\ UNCHANGED Tables
  /\ \E r \in Request : r.pc \in PlainPcs /\ req' = [req EXCEPT ![s] = r]

(* These steps are plain: they touch none of the tables. *)
LEMMA PlainSteps ==
  ASSUME TypeInv, NEW s \in Slots, UNCHANGED cache,
         \/ \E b \in Browsers : Arrive(s, b)
         \/ Enforce(s) \/ Abort(s)
         \/ \E op \in {"claim", "logout"} : Route(s, op)
         \/ \E b \in Browsers, op \in {"write", "delete", "run", "get"} : Authenticate(s, b, op)
         \/ \E e \in Connectors : ReadConnector(s, e)
  PROVE  Plain(s)
<1>1. req[s] \in Request /\ Local(req[s])
  BY DEF TypeInv, RequestType
<1>2. ASSUME NEW b \in Browsers, Arrive(s, b) PROVE Plain(s)
  <2> DEFINE r == [Blank EXCEPT !.pc = "limit", !.browser = b, !.t = now, !.token = jar[b].session]
  <2>1. jar[b].session \in Nat /\ now \in Nat
    BY DEF TypeInv, TableType, ClockType, Jar
  <2>2. r \in Request /\ r.pc = "limit"
    BY <2>1, BlankType DEF Request, Pcs
  <2>3. req' = [req EXCEPT ![s] = r] /\ UNCHANGED Tables
    BY <1>2 DEF Arrive, Tables, accountVars
  <2> HIDE DEF r
  <2> QED
    BY <2>2, <2>3 DEF Plain, PlainPcs
<1>3. ASSUME Enforce(s) PROVE Plain(s)
  <2> DEFINE r == IF Admits(req[s].browser, req[s].t) THEN [req[s] EXCEPT !.pc = "routed"] ELSE Blank
  <2>1. r \in Request /\ r.pc \in {"routed", "idle"}
    BY <1>1, BlankType DEF Request, Pcs
  <2>2. req' = [req EXCEPT ![s] = r] /\ UNCHANGED Tables
    BY <1>3 DEF Enforce, Tables, accountVars
  <2> HIDE DEF r
  <2> QED
    BY <2>1, <2>2 DEF Plain, PlainPcs
<1>4. ASSUME Abort(s) PROVE Plain(s)
  BY <1>4, BlankType DEF Abort, Done, Plain, PlainPcs, Tables, accountVars
<1>5. ASSUME NEW op \in {"claim", "logout"}, Route(s, op) PROVE Plain(s)
  <2> DEFINE r == AsCaller(req[s], op, req[s].token)
  <2>1. req[s].browser \in Browsers
    BY <1>1, <1>5 DEF Route, Local
  <2>2. r \in Request /\ r.pc = op
    BY <1>1, <1>5, <2>1, CallerType DEF Route
  <2>3. req' = [req EXCEPT ![s] = r] /\ UNCHANGED Tables
    BY <1>5 DEF Route, Tables, accountVars, TypeInv, RequestType
  <2> HIDE DEF r
  <2> QED
    BY <2>2, <2>3 DEF Plain, PlainPcs
<1>6. ASSUME NEW b \in Browsers, NEW op \in {"write", "delete", "run", "get"}, Authenticate(s, b, op)
      PROVE  Plain(s)
  <2> DEFINE q == [Blank EXCEPT !.browser = b]
             r == AsCaller(q, op, jar[b].session)
  <2>1. q \in Request /\ q.browser \in Browsers
    BY BlankType DEF Request, Blank
  <2>2. req' = [req EXCEPT ![s] = r] /\ UNCHANGED Tables
    BY <1>6 DEF Authenticate, Tables, accountVars
  <2> HIDE DEF q
  <2>3. r \in Request /\ r.pc = op
    BY <1>6, <2>1, CallerType DEF Authenticate
  <2> HIDE DEF r
  <2> QED
    BY <2>2, <2>3 DEF Plain, PlainPcs
<1>7. ASSUME NEW e \in Connectors, ReadConnector(s, e) PROVE Plain(s)
  <2> DEFINE r == [req[s] EXCEPT !.pc = "fetch", !.id = e]
  <2>1. r \in Request /\ r.pc = "fetch"
    BY <1>1 DEF Request, Pcs, AllRows
  <2>2. req' = [req EXCEPT ![s] = r] /\ UNCHANGED Tables
    BY <1>7 DEF ReadConnector, Tables, accountVars, TypeInv, RequestType
  <2> HIDE DEF r
  <2> QED
    BY <2>1, <2>2 DEF Plain, PlainPcs
<1> QED
  BY <1>2, <1>3, <1>4, <1>5, <1>6, <1>7

(* These steps are plain: they touch none of the tables. *)
LEMMA StepKinds ==
  ASSUME TypeInv, [PlatformNext]_platformVars
  PROVE  \/ UNCHANGED <<Tables, req>>
         \/ \E s \in Slots : Plain(s)
         \/ UNCHANGED cache /\ \E b \in Browsers : Start(b)
         \/ UNCHANGED cache /\ \E s \in Slots :
              \/ \E b \in Browsers, n \in Nonces : Callback(s, b, n)
              \/ \E a \in Actors : DevLogin(s, a) \/ InsertIdentity(s, a)
              \/ QueryAdmins(s) \/ Promote(s) \/ Logout(s) \/ MintSession(s) \/ UpdateRow(s)
              \/ \E i \in Idents : LookUp(s, i)
              \/ \E how \in {"put", "patch"}, e \in AllRows, p \in Payloads :
                   \E expected \in 1..rows[e].version : ReadRow(s, how, e, p, expected)
              \/ \E e \in AllRows : \E expected \in 1..rows[e].version : DeleteItem(s, e, expected)
              \/ \E status \in {"active", "error"} : StampRun(s, status)
         \/ \E s \in Slots, e \in AllRows : Get(s, e)
<1>1. CASE UNCHANGED platformVars
  BY <1>1 DEF platformVars, vars, Tables
<1>2. CASE Tick /\ UNCHANGED cache
  BY <1>2 DEF Tick, Tables, accountVars
<1>3. CASE AccountsNext /\ UNCHANGED cache
  BY <1>2, <1>3, PlainSteps DEF AccountsNext
<1>4. CASE WriteNext /\ UNCHANGED cache
  BY <1>4, PlainSteps DEF WriteNext, AllRows
<1>5. CASE \E s \in Slots, e \in Actors \cup Connectors : Get(s, e)
  BY <1>5 DEF AllRows
<1> QED
  BY <1>1, <1>3, <1>4, <1>5 DEF PlatformNext

(* A step of handler s leaves the other handlers where they are. *)
Others(s) == \A x \in Slots \ {s} : req'[x] = req[x]

(* Where a plain step leaves its handler. *)
LEMMA PlainMove ==
  ASSUME TypeInv, NEW s \in Slots, Plain(s)
  PROVE  Others(s) /\ req'[s].pc \in PlainPcs
BY DEF Plain, Others, TypeInv, RequestType

(* Where the callback leaves it. *)
LEMMA CallbackMove ==
  ASSUME TypeInv, NEW s \in Slots, NEW b \in Browsers, NEW n \in Nonces, Callback(s, b, n)
  PROVE  /\ Others(s) /\ req'[s].pc = "exchange"
         /\ req'[s].login = [ident |-> None, flow |-> n, browser |-> b, at |-> now]
BY DEF Callback, Others, TypeInv, RequestType, Blank

(* Where dev_login leaves it. *)
LEMMA DevLoginMove ==
  ASSUME TypeInv, NEW s \in Slots, NEW a \in Actors, DevLogin(s, a)
  PROVE  /\ Others(s) /\ req'[s].pc = "mint" /\ req'[s].actor = a
         /\ req'[s].login = NotALogin
<1>1. req[s] \in Request /\ req[s].login = NotALogin
  BY DEF DevLogin, TypeInv, RequestType, Local
<1>2. req'[s] = [req[s] EXCEPT !.pc = "mint", !.actor = a] /\ Others(s)
  BY <1>1 DEF DevLogin, TypeInv, RequestType, Others, Request
<1> QED
  BY <1>1, <1>2 DEF Request

(* Where upsert_identity's lookup leaves it. *)
LEMMA LookUpMove ==
  ASSUME TypeInv, NEW s \in Slots, NEW i \in Idents, LookUp(s, i)
  PROVE  /\ Others(s) /\ req'[s].actor = identities[i]
         /\ req'[s].pc = IF identities[i] = None THEN "insert" ELSE "mint"
         /\ req'[s].login = [req[s].login EXCEPT !.ident = i] /\ req'[s].login.ident = i
         /\ req'[s].login.flow = req[s].login.flow /\ req'[s].login.browser = req[s].login.browser
         /\ req'[s].login.at = req[s].login.at
<1>1. req[s] \in Request /\ req[s].login \in Login
  BY DEF TypeInv, RequestType, Request
<1>2. DOMAIN req[s] = {"pc", "op", "browser", "t", "token", "actor", "admin", "login", "id", "data",
                       "fields", "expected", "late"}
  BY <1>1 DEF Request
<1>3. req' = [req EXCEPT ![s].login.ident = i, ![s].actor = identities[i],
                         ![s].pc = IF identities[i] = None THEN "insert" ELSE "mint"]
  BY DEF LookUp
<1>4. DOMAIN req = Slots /\ DOMAIN req' = Slots
  BY <1>3 DEF TypeInv, RequestType
<1>5. /\ req'[s].actor = identities[i]
      /\ req'[s].pc = IF identities[i] = None THEN "insert" ELSE "mint"
      /\ req'[s].login = [req[s].login EXCEPT !.ident = i]
  BY <1>2, <1>3, <1>4
<1>6. Others(s)
  BY <1>3, <1>4 DEF Others
<1> QED
  BY <1>1, <1>5, <1>6 DEF Login

(* Where upsert_identity's transaction leaves it. *)
LEMMA InsertMove ==
  ASSUME TypeInv, NEW s \in Slots, NEW a \in Actors, InsertIdentity(s, a)
  PROVE  /\ Others(s) /\ req'[s].pc = "mint" /\ req'[s].actor = a
         /\ req'[s].login = req[s].login /\ req[s].login.ident \in Idents
         /\ identities' = [identities EXCEPT ![req[s].login.ident] = a]
         /\ identities[req[s].login.ident] = None /\ rows[a].version = 0
<1>1. req[s] \in Request /\ req[s].login.ident \in Idents
  BY DEF InsertIdentity, TypeInv, RequestType, Local
<1>2. req'[s] = [req[s] EXCEPT !.pc = "mint", !.actor = a] /\ Others(s)
  BY <1>1 DEF InsertIdentity, Inserted, TypeInv, RequestType, Others, Request
<1>3. /\ identities' = [identities EXCEPT ![req[s].login.ident] = a]
      /\ identities[req[s].login.ident] = None /\ rows[a].version = 0
  BY DEF InsertIdentity, Inserted, Unused
<1> QED
  BY <1>1, <1>2, <1>3 DEF Request

(* Where the query of claim_admin leaves it. *)
LEMMA QueryMove ==
  ASSUME TypeInv, NEW s \in Slots, QueryAdmins(s)
  PROVE  Others(s) /\ req'[s].pc = "promote" /\ req'[s].late = req[s].late
<1>1. req[s] \in Request
  BY DEF TypeInv, RequestType
<1>2. req'[s] = [req[s] EXCEPT !.pc = "promote"] /\ Others(s)
  BY <1>1 DEF QueryAdmins, TypeInv, RequestType, Others, Request
<1> QED
  BY <1>1, <1>2 DEF Request

(* Where the read of a PUT or a PATCH leaves it. *)
LEMMA ReadMove ==
  ASSUME TypeInv, NEW s \in Slots, NEW how \in {"put", "patch"}, NEW e \in AllRows,
         NEW p \in Payloads, NEW expected \in Nat, ReadRow(s, how, e, p, expected)
  PROVE  /\ Others(s) /\ req'[s].pc = "update" /\ req'[s].id = e
         /\ req'[s].data = Requested(how, e, p) /\ req'[s].expected = expected
         /\ req'[s].fields = IF how = "put" THEN Editable ELSE DOMAIN p
<1>1. req[s] \in Request
  BY DEF TypeInv, RequestType
<1> DEFINE d == Requested(how, e, p)
           fs == IF how = "put" THEN Editable ELSE DOMAIN p
<1>2. req'[s] = [req[s] EXCEPT !.pc = "update", !.id = e, !.data = d, !.expected = expected,
                               !.fields = fs] /\ Others(s)
  BY DEF ReadRow, TypeInv, RequestType, Others
<1> HIDE DEF d, fs
<1>3. Others(s) /\ req'[s].pc = "update" /\ req'[s].id = e /\ req'[s].data = d
      /\ req'[s].expected = expected /\ req'[s].fields = fs
  BY <1>1, <1>2 DEF Request
<1> QED
  BY <1>3 DEF d, fs

(* The last step of a handler. *)
LEMMA DoneMove ==
  ASSUME TypeInv, NEW s \in Slots, Done(s)
  PROVE  Others(s) /\ req'[s] = Blank /\ req'[s].pc = "idle"
BY DEF Done, Others, TypeInv, RequestType, Blank

----------------------------------------------------------------------------
(* Whose flow a login belongs to. *)

OwnFlow(l) ==
  /\ l.flow \in Nonces
  /\ flows[l.flow].browser = l.browser
  /\ l.at <= flows[l.flow].exp

CookieInv == \A b \in Browsers : jar[b].flow # 0 => flows[jar[b].flow].browser = b

(* A state cookie is of the browser that holds it.  A handler past the      *)
(* callback's checks, and every session, has a login that passed them;      *)
(* flows are never forgotten or changed.                                    *)
FlowInv ==
  /\ CookieInv
  /\ \A s \in Slots :
       /\ req[s].pc \in {"exchange", "insert"} => OwnFlow(req[s].login)
       /\ req[s].pc = "mint" => req[s].login = NotALogin \/ OwnFlow(req[s].login)
  /\ \A i \in 1..Len(sessions) : sessions[i].login = NotALogin \/ OwnFlow(sessions[i].login)

(* One handler moves, and the flows and what else refers to them stay. *)
LEMMA FlowOneSlot ==
  ASSUME TypeInv, FlowInv, NEW s \in Slots, Others(s),
         req'[s].pc \in {"exchange", "insert"} => OwnFlow(req'[s].login),
         req'[s].pc = "mint" => req'[s].login = NotALogin \/ OwnFlow(req'[s].login),
         UNCHANGED <<sessions, flows, jar>>
  PROVE  FlowInv'
<1>1. \A l : OwnFlow(l)' <=> OwnFlow(l)
  BY DEF OwnFlow, Nonces
<1>2. CookieInv'
  BY DEF FlowInv, CookieInv
<1> QED
  BY <1>1, <1>2 DEF FlowInv, Others

(* A handler ends, and sessions and cookies only lose what they name. *)
LEMMA FlowEnd ==
  ASSUME TypeInv, FlowInv, NEW s \in Slots, Others(s), req'[s].pc = "idle", UNCHANGED flows,
         \A b \in Browsers : jar'[b].flow \in {0, jar[b].flow},
         \A i \in 1..Len(sessions') :
           sessions'[i].login = NotALogin \/ OwnFlow(sessions'[i].login)
  PROVE  FlowInv'
<1>1. \A l : OwnFlow(l)' <=> OwnFlow(l)
  BY DEF OwnFlow, Nonces
<1>2. CookieInv'
  BY DEF FlowInv, CookieInv
<1> QED
  BY <1>1, <1>2 DEF FlowInv, Others

(* start: the new cookie is of the new flow, and the old flows stay. *)
LEMMA FlowStart ==
  ASSUME TypeInv, FlowInv, NEW b \in Browsers, Start(b)
  PROVE  FlowInv'
<1>1. flows \in Seq(Flow) /\ flows' = Append(flows, [browser |-> b, exp |-> now + StateTTL])
  BY DEF Start, TypeInv, TableType
<1>2. ASSUME NEW l, OwnFlow(l) PROVE OwnFlow(l)'
  BY <1>1, <1>2 DEF OwnFlow, Nonces
<1>3. UNCHANGED <<sessions, req>> /\ jar' = [jar EXCEPT ![b].flow = Len(flows) + 1]
  BY DEF Start
<1>4. CookieInv'
  <2> SUFFICES ASSUME NEW x \in Browsers, jar'[x].flow # 0 PROVE flows'[jar'[x].flow].browser = x
    BY DEF CookieInv
  <2>1. jar[x] \in Jar /\ jar[x].flow \in 0..Len(flows)
    BY DEF TypeInv, TableType
  <2>2. CASE x = b
    <3>1. jar'[x].flow = Len(flows) + 1
      BY <2>1, <2>2, <1>3 DEF TypeInv, TableType, Jar
    <3> QED
      BY <2>2, <3>1, <1>1
  <2>3. CASE x # b
    <3>1. jar'[x] = jar[x]
      BY <2>3, <1>3 DEF TypeInv, TableType
    <3>2. flows'[jar[x].flow] = flows[jar[x].flow]
      BY <1>1, <2>1, <3>1
    <3> QED
      BY <3>1, <3>2 DEF FlowInv, CookieInv
  <2> QED
    BY <2>2, <2>3
<1> QED
  BY <1>2, <1>3, <1>4 DEF FlowInv

(* The steps of a login keep it. *)
LEMMA FlowLogin ==
  ASSUME TypeInv, FlowInv, NEW s \in Slots,
         \/ \E b \in Browsers, n \in Nonces : Callback(s, b, n)
         \/ \E a \in Actors : DevLogin(s, a) \/ InsertIdentity(s, a)
         \/ \E i \in Idents : LookUp(s, i)
  PROVE  FlowInv'
<1>1. ASSUME NEW b \in Browsers, NEW n \in Nonces, Callback(s, b, n) PROVE FlowInv'
  <2>1. jar[b].flow = n /\ now <= flows[n].exp /\ UNCHANGED <<sessions, flows, jar>>
    BY <1>1 DEF Callback, accountVars
  <2>2. flows[n].browser = b
    BY <2>1 DEF FlowInv, CookieInv, Nonces
  <2> DEFINE l == [ident |-> None, flow |-> n, browser |-> b, at |-> now]
  <2>3. OwnFlow(l)
    BY <2>1, <2>2 DEF OwnFlow
  <2>4. Others(s) /\ req'[s].pc = "exchange" /\ req'[s].login = l
    BY <1>1, CallbackMove
  <2> HIDE DEF l
  <2> QED
    BY <2>1, <2>3, <2>4, FlowOneSlot
<1>2. ASSUME NEW a \in Actors, DevLogin(s, a) PROVE FlowInv'
  <2>1. UNCHANGED <<sessions, flows, jar>>
    BY <1>2 DEF DevLogin, accountVars
  <2> QED
    BY <1>2, <2>1, DevLoginMove, FlowOneSlot
<1>3. ASSUME NEW a \in Actors, InsertIdentity(s, a) PROVE FlowInv'
  <2>1. UNCHANGED <<sessions, flows, jar>> /\ req[s].pc = "insert"
    BY <1>3 DEF InsertIdentity, Inserted
  <2>2. OwnFlow(req[s].login)
    BY <2>1 DEF FlowInv
  <2> QED
    BY <1>3, <2>1, <2>2, InsertMove, FlowOneSlot
<1>4. ASSUME NEW i \in Idents, LookUp(s, i) PROVE FlowInv'
  <2>1. UNCHANGED <<sessions, flows, jar>> /\ req[s].pc = "exchange"
    BY <1>4 DEF LookUp, accountVars
  <2>2. OwnFlow(req[s].login)
    BY <2>1 DEF FlowInv
  <2>3. OwnFlow(req'[s].login)
    BY <1>4, <2>2, LookUpMove DEF OwnFlow
  <2> QED
    BY <1>4, <2>1, <2>3, LookUpMove, FlowOneSlot
<1> QED
  BY <1>1, <1>2, <1>3, <1>4

(* The last steps of a login and of a logout keep it. *)
LEMMA FlowSession ==
  ASSUME TypeInv, FlowInv, NEW s \in Slots, Logout(s) \/ MintSession(s)
  PROVE  FlowInv'
<1>1. CASE Logout(s)
  <2>1. Done(s) /\ UNCHANGED flows
        /\ sessions' = [i \in DOMAIN sessions |->
             [sessions[i] EXCEPT !.live = @ /\ sessions[i].actor # req[s].actor]]
    BY <1>1 DEF Logout
  <2>2. ASSUME NEW i \in 1..Len(sessions') PROVE sessions'[i].login = NotALogin \/ OwnFlow(sessions'[i].login)
    BY <2>1, DropSessions DEF FlowInv
  <2>3. ASSUME NEW b \in Browsers PROVE jar'[b].flow \in {0, jar[b].flow}
    <3>1. jar' = jar \/ jar' = [jar EXCEPT ![req[s].browser].session = 0]
      BY <1>1 DEF Logout
    <3>2. jar \in [Browsers -> Jar] /\ jar[b] \in Jar
      BY DEF TypeInv, TableType
    <3> QED
      BY <3>1, <3>2 DEF Jar
  <2> QED
    BY <2>1, <2>2, <2>3, DoneMove, FlowEnd
<1>2. CASE MintSession(s)
  <2>1. Done(s) /\ UNCHANGED flows /\ jar' \in Answered(s, Len(sessions) + 1) /\ req[s].pc = "mint"
    BY <1>2 DEF MintSession
  <2>2. ASSUME NEW i \in 1..Len(sessions') PROVE sessions'[i].login = NotALogin \/ OwnFlow(sessions'[i].login)
    <3>1. CASE i = Len(sessions) + 1
      <4>1. sessions'[i].login = req[s].login
        BY <1>2, <3>1, MintRow
      <4> QED
        BY <2>1, <4>1 DEF FlowInv
    <3>2. CASE i # Len(sessions) + 1
      <4>1. i \in 1..Len(sessions) /\ sessions'[i] = sessions[i]
        BY <1>2, <3>2, MintRow
      <4> QED
        BY <4>1 DEF FlowInv
    <3> QED
      BY <3>1, <3>2
  <2>3. ASSUME NEW b \in Browsers PROVE jar'[b].flow \in {0, jar[b].flow}
    <3>1. CASE jar' = jar
      BY <3>1
    <3>2. CASE jar' = [jar EXCEPT ![req[s].browser].session = Len(sessions) + 1]
      BY <3>2 DEF TypeInv, TableType, Jar
    <3>3. CASE \E x \in {Len(sessions) + 1, jar[req[s].browser].session} :
                 jar' = [jar EXCEPT ![req[s].browser] = [flow |-> 0, session |-> x]]
      BY <3>3 DEF TypeInv, TableType, Jar
    <3> QED
      BY <2>1, <3>1, <3>2, <3>3 DEF Answered
  <2> QED
    BY <2>1, <2>2, <2>3, DoneMove, FlowEnd
<1> QED
  BY <1>1, <1>2

(* So do the others, which know nothing of logins. *)
LEMMA FlowOther ==
  ASSUME TypeInv, FlowInv, NEW s \in Slots,
         \/ QueryAdmins(s) \/ Promote(s) \/ UpdateRow(s)
         \/ \E how \in {"put", "patch"}, e \in AllRows, p \in Payloads :
              \E expected \in 1..rows[e].version : ReadRow(s, how, e, p, expected)
         \/ \E e \in AllRows : \E expected \in 1..rows[e].version : DeleteItem(s, e, expected)
         \/ \E status \in {"active", "error"} : StampRun(s, status)
         \/ \E e \in AllRows : Get(s, e)
  PROVE  FlowInv'
<1>1. CASE QueryAdmins(s)
  <2>1. UNCHANGED <<sessions, flows, jar>>
    BY <1>1 DEF QueryAdmins, accountVars
  <2> QED
    BY <1>1, <2>1, QueryMove, FlowOneSlot
<1>2. CASE Promote(s)
  <2>1. UNCHANGED <<sessions, flows, jar>>
    BY <1>2 DEF Promote
  <2>2. \A l : OwnFlow(l)' <=> OwnFlow(l)
    BY <2>1 DEF OwnFlow, Nonces
  <2>3. ASSUME NEW x \in Slots
        PROVE  req'[x].pc = "idle" \/ (req'[x].pc = req[x].pc /\ req'[x].login = req[x].login)
    <3>1. CASE x = s
      BY <1>2, <3>1, PromoteMarks, BlankType
    <3>2. CASE x # s
      <4>1. \A f \in {"pc", "op", "browser", "t", "token", "actor", "admin", "login", "id", "data",
                           "fields", "expected"} : req'[x][f] = req[x][f]
        BY <1>2, <3>2, PromoteMarks, ZenonT(60)
      <4> QED
        BY <4>1
    <3> QED
      BY <3>1, <3>2
  <2> QED
    BY <2>1, <2>2, <2>3 DEF FlowInv, CookieInv
<1>3. ASSUME NEW how \in {"put", "patch"}, NEW e \in AllRows, NEW p \in Payloads,
             NEW expected \in 1..rows[e].version, ReadRow(s, how, e, p, expected)
      PROVE  FlowInv'
  <2>1. UNCHANGED <<sessions, flows, jar>>
    BY <1>3 DEF ReadRow, accountVars
  <2>2. expected \in Nat
    BY RowData DEF TypeInv
  <2> QED
    BY <1>3, <2>1, <2>2, ReadMove, FlowOneSlot
<1>4. CASE UpdateRow(s) \/ (\E status \in {"active", "error"} : StampRun(s, status))
           \/ (\E e \in AllRows : Get(s, e))
  <2>1. UNCHANGED <<sessions, flows, jar>> /\ Done(s)
    BY <1>4 DEF UpdateRow, StampRun, Get, accountVars
  <2> QED
    BY <2>1, DoneMove, FlowOneSlot
<1>5. ASSUME NEW e \in AllRows, NEW expected, DeleteItem(s, e, expected) PROVE FlowInv'
  <2>1. Done(s) /\ UNCHANGED <<flows, jar>>
        /\ sessions' = [i \in DOMAIN sessions |->
             [sessions[i] EXCEPT !.live = @ /\ sessions[i].actor # e]]
    BY <1>5 DEF DeleteItem
  <2>2. ASSUME NEW i \in 1..Len(sessions') PROVE sessions'[i].login = NotALogin \/ OwnFlow(sessions'[i].login)
    BY <2>1, DropSessions DEF FlowInv
  <2> QED
    BY <2>1, <2>2, DoneMove, FlowEnd
<1> QED
  BY <1>1, <1>2, <1>3, <1>4, <1>5

(* Every step keeps it. *)
LEMMA FlowStep == TypeInv /\ FlowInv /\ [PlatformNext]_platformVars => FlowInv'
<1> SUFFICES ASSUME TypeInv, FlowInv, [PlatformNext]_platformVars PROVE FlowInv'
  OBVIOUS
<1>1. CASE UNCHANGED <<Tables, req>>
  BY <1>1 DEF Tables, FlowInv, CookieInv, OwnFlow, Nonces
<1>2. ASSUME NEW s \in Slots, Plain(s) PROVE FlowInv'
  <2>1. UNCHANGED <<sessions, flows, jar>>
    BY <1>2 DEF Plain, Tables
  <2> QED
    BY <1>2, <2>1, PlainMove, FlowOneSlot DEF PlainPcs
<1> QED
  BY <1>1, <1>2, FlowStart, FlowLogin, FlowSession, FlowOther, StepKinds

(* oauth.rs logs in the browser that started the flow, and in time: of any  *)
(* number of overlapping flows, redirects and browsers, no session comes of *)
(* another browser's flow or of an expired one.                             *)
THEOREM LoginOwnFlowHolds == Spec => []LoginOwnFlow
<1>1. PlatformInit => FlowInv
  <2> SUFFICES ASSUME PlatformInit PROVE FlowInv
    OBVIOUS
  <2>1. TypeInv
    BY TypeInit
  <2>2. CookieInv /\ \A s \in Slots : req[s].pc = "idle"
    BY DEF PlatformInit, AccountsInit, CookieInv, Blank
  <2>3. ASSUME NEW i \in 1..Len(sessions) PROVE sessions[i].login = NotALogin
    <3>1. i \in DOMAIN load.signed
      <4>1. i \in DOMAIN sessions
        BY <2>1 DEF TypeInv, TableType
      <4> QED
        BY <4>1 DEF PlatformInit, AccountsInit
    <3>2. sessions[i] = Session(load.signed[i][2], NotALogin)
      BY <3>1 DEF PlatformInit, AccountsInit
    <3> QED
      BY <3>2 DEF Session
  <2> QED
    BY <2>2, <2>3 DEF FlowInv
<1>2. TypeInv /\ FlowInv => LoginOwnFlow
  BY DEF FlowInv, LoginOwnFlow, OwnFlow
<1> QED
  BY <1>1, <1>2, FlowStep, TypeInvariant, PTL DEF Spec

----------------------------------------------------------------------------
(* Who is who. *)

(* What a handler about to mint a session knows: its actor has existed, and *)
(* while it still does it is the actor of the person who logs in.           *)
Minting(r) ==
  /\ rows[r.actor].version > 0
  /\ rows[r.actor].alive /\ r.login # NotALogin
       => r.login.ident \in Idents /\ identities[r.login.ident] = r.actor

(* An identity points to an actor that exists, every actor but the dev user *)
(* has one, and the live sessions agree with the identities.                *)
IdentityInv ==
  /\ \A i \in Idents : identities[i] # None => rows[identities[i]].alive
  /\ NoOrphanActor
  /\ \A i \in 1..Len(sessions) : sessions[i].live =>
       /\ rows[sessions[i].actor].alive
       /\ sessions[i].login # NotALogin =>
            /\ sessions[i].login.ident \in Idents
            /\ identities[sessions[i].login.ident] = sessions[i].actor
  /\ \A s \in Slots : req[s].pc = "mint" => Minting(req[s])

(* The actor of a handler about to mint, and of a session, is an actor. *)
LEMMA ActorsKnown ==
  ASSUME TypeInv
  PROVE  /\ \A s \in Slots : req[s].pc = "mint" => req[s].actor \in Actors
         /\ \A i \in 1..Len(sessions) : sessions[i].actor \in Actors
         /\ \A i \in Idents : identities[i] \in Actors \cup {None}
<1>1. \A s \in Slots : req[s].pc = "mint" => req[s].actor \in Actors
  BY DEF TypeInv, RequestType, Local, AsACaller
<1>2. \A i \in 1..Len(sessions) : sessions[i] \in SessionRow
  BY DEF TypeInv, TableType
<1> QED
  BY <1>1, <1>2 DEF SessionRow, TypeInv, TableType

(* A step after which the same rows exist, the identities stay, and         *)
(* sessions at most end.                                                    *)
LEMMA IdentityKept ==
  ASSUME TypeInv, IdentityInv, UNCHANGED identities,
         \A e \in AllRows : /\ rows'[e].alive = rows[e].alive
                            /\ rows[e].version > 0 => rows'[e].version > 0,
         Len(sessions') = Len(sessions),
         \A i \in 1..Len(sessions) :
           /\ sessions'[i].actor = sessions[i].actor /\ sessions'[i].login = sessions[i].login
           /\ sessions'[i].live => sessions[i].live,
         \A x \in Slots : req'[x].pc = "mint" => req'[x].actor \in Actors /\ Minting(req'[x])
  PROVE  IdentityInv'
<1>1. \A a \in Actors : rows'[a].alive = rows[a].alive
  BY DEF AllRows
<1>2. NoOrphanActor'
  BY <1>1 DEF IdentityInv, NoOrphanActor
<1>3. \A i \in Idents : identities'[i] # None => rows'[identities'[i]].alive
  BY <1>1, ActorsKnown DEF IdentityInv
<1>4. ASSUME NEW i \in 1..Len(sessions'), sessions'[i].live
      PROVE  /\ rows'[sessions'[i].actor].alive
             /\ sessions'[i].login # NotALogin =>
                  /\ sessions'[i].login.ident \in Idents
                  /\ identities'[sessions'[i].login.ident] = sessions'[i].actor
  BY <1>1, <1>4, ActorsKnown DEF IdentityInv
<1>5. ASSUME NEW x \in Slots, req'[x].pc = "mint" PROVE Minting(req[x])'
  BY <1>1, <1>5 DEF Minting, AllRows
<1> QED
  BY <1>2, <1>3, <1>4, <1>5 DEF IdentityInv

(* One handler moves. *)
LEMMA MintOneSlot ==
  ASSUME TypeInv, IdentityInv, NEW s \in Slots, Others(s),
         req'[s].pc = "mint" => req'[s].actor \in Actors /\ Minting(req'[s])
  PROVE  \A x \in Slots : req'[x].pc = "mint" => req'[x].actor \in Actors /\ Minting(req'[x])
<1> SUFFICES ASSUME NEW x \in Slots, req'[x].pc = "mint"
             PROVE  req'[x].actor \in Actors /\ Minting(req'[x])
  OBVIOUS
<1>1. CASE x = s
  BY <1>1
<1>2. CASE x # s
  <2>1. req'[x] = req[x]
    BY <1>2 DEF Others
  <2> QED
    BY <2>1, ActorsKnown DEF IdentityInv
<1> QED
  BY <1>1, <1>2

(* Steps of one handler that write to no table but the browser's. *)
LEMMA IdentityLocal ==
  ASSUME TypeInv, IdentityInv, NEW s \in Slots, Others(s), UNCHANGED <<rows, identities, sessions>>,
         req'[s].pc = "mint" => req'[s].actor \in Actors /\ Minting(req'[s])
  PROVE  IdentityInv'
BY MintOneSlot, IdentityKept

(* The steps of a login keep it. *)
LEMMA IdentityLogin ==
  ASSUME TypeInv, IdentityInv, NEW s \in Slots,
         \/ \E b \in Browsers, n \in Nonces : Callback(s, b, n)
         \/ \E a \in Actors : DevLogin(s, a)
         \/ \E i \in Idents : LookUp(s, i)
  PROVE  IdentityInv'
<1>1. ASSUME NEW b \in Browsers, NEW n \in Nonces, Callback(s, b, n) PROVE IdentityInv'
  <2>1. UNCHANGED <<rows, identities, sessions>>
    BY <1>1 DEF Callback, accountVars
  <2> QED
    BY <1>1, <2>1, CallbackMove, IdentityLocal
<1>2. ASSUME NEW a \in Actors, DevLogin(s, a) PROVE IdentityInv'
  <2>1. UNCHANGED <<rows, identities, sessions>> /\ rows[a].alive
    BY <1>2 DEF DevLogin, accountVars
  <2>2. rows[a].version > 0
    BY <2>1 DEF TypeInv, RowType, AllRows
  <2>3. Minting(req'[s])
    BY <1>2, <2>2, DevLoginMove DEF Minting
  <2> QED
    BY <1>2, <2>1, <2>3, DevLoginMove, IdentityLocal
<1>3. ASSUME NEW i \in Idents, LookUp(s, i) PROVE IdentityInv'
  <2>1. UNCHANGED <<rows, identities, sessions>>
    BY <1>3 DEF LookUp, accountVars
  <2>2. ASSUME identities[i] # None PROVE identities[i] \in Actors /\ rows[identities[i]].version > 0
    BY <2>2, ActorsKnown DEF IdentityInv, TypeInv, RowType, AllRows
  <2>3. req'[s].pc = "mint" => req'[s].actor \in Actors /\ Minting(req'[s])
    BY <1>3, <2>2, LookUpMove DEF Minting
  <2> QED
    BY <1>3, <2>1, <2>3, LookUpMove, IdentityLocal
<1> QED
  BY <1>1, <1>2, <1>3

(* The transaction of a first login: the id it takes is of no actor that    *)
(* ever existed, and the identity it takes is free.                         *)
LEMMA IdentityInsert ==
  ASSUME TypeInv, IdentityInv, NEW s \in Slots, NEW a \in Actors, InsertIdentity(s, a)
  PROVE  IdentityInv'
<1> DEFINE p == req[s].login.ident
<1>1. p \in Idents /\ identities[p] = None /\ identities' = [identities EXCEPT ![p] = a]
  BY InsertMove
<1> HIDE DEF p
<1>2. /\ rows'[a].alive /\ rows'[a].version > 0 /\ rows[a].version = 0 /\ ~rows[a].alive
      /\ \A x \in AllRows \ {a} : rows'[x] = rows[x]
  BY InsertMove, InsertRow DEF TypeInv, RowType, AllRows
<1>3. /\ identities'[p] = a
      /\ \A i \in Idents \ {p} : identities'[i] = identities[i]
  BY <1>1 DEF TypeInv, TableType
<1>4. \A x \in Actors : x # a => rows'[x] = rows[x]
  BY <1>2 DEF AllRows
<1>5. \A i \in Idents : identities'[i] # None => rows'[identities'[i]].alive
  BY <1>2, <1>3, <1>4, ActorsKnown DEF IdentityInv
<1>6. NoOrphanActor'
  <2> SUFFICES ASSUME NEW x \in Actors \ {Dev}, rows'[x].alive
               PROVE  \E i \in Idents : identities'[i] = x
    BY DEF NoOrphanActor
  <2>1. CASE x = a
    BY <2>1, <1>1, <1>3
  <2>2. CASE x # a
    <3>1. PICK i \in Idents : identities[i] = x
      BY <2>2, <1>4 DEF IdentityInv, NoOrphanActor
    <3>2. i # p
      BY <3>1, <1>1, AccountsAssumption
    <3> QED
      BY <3>1, <3>2, <1>3
  <2> QED
    BY <2>1, <2>2
<1>7. UNCHANGED sessions
  BY DEF InsertIdentity, Inserted
<1>8. ASSUME NEW i \in 1..Len(sessions'), sessions'[i].live
      PROVE  /\ rows'[sessions'[i].actor].alive
             /\ sessions'[i].login # NotALogin =>
                  /\ sessions'[i].login.ident \in Idents
                  /\ identities'[sessions'[i].login.ident] = sessions'[i].actor
  <2>1. sessions[i].actor \in Actors /\ sessions[i].actor # None
    BY <1>7, ActorsKnown, AccountsAssumption
  <2> QED
    BY <1>1, <1>2, <1>3, <1>4, <1>7, <1>8, <2>1 DEF IdentityInv
<1>9. ASSUME NEW x \in Slots, req'[x].pc = "mint" PROVE Minting(req[x])'
  <2>1. CASE x = s
    <3>1. req'[s].actor = a /\ req'[s].login.ident = p
      BY InsertMove DEF p
    <3> QED
      BY <2>1, <3>1, <1>1, <1>2, <1>3 DEF Minting
  <2>2. CASE x # s
    <3>1. req'[x] = req[x]
      BY <2>2, InsertMove DEF Others
    <3>2. req[x].actor \in Actors /\ Minting(req[x])
      BY <3>1, <1>9, ActorsKnown DEF IdentityInv
    <3>3. req[x].actor # a /\ req[x].actor # None
      BY <3>2, <1>2, AccountsAssumption DEF Minting
    <3> QED
      BY <3>1, <3>2, <3>3, <1>1, <1>3, <1>4 DEF Minting
  <2> QED
    BY <2>1, <2>2
<1> QED
  BY <1>5, <1>6, <1>8, <1>9 DEF IdentityInv

(* A minted session is of an actor that exists, and of its person. *)
LEMMA IdentityMint ==
  ASSUME TypeInv, IdentityInv, NEW s \in Slots, MintSession(s)
  PROVE  IdentityInv'
<1>1. Done(s) /\ UNCHANGED <<rows, identities>> /\ req[s].pc = "mint" /\ rows[req[s].actor].alive
  BY DEF MintSession
<1>2. Minting(req[s])
  BY <1>1 DEF IdentityInv
<1>3. ASSUME NEW i \in 1..Len(sessions'), sessions'[i].live
      PROVE  /\ rows'[sessions'[i].actor].alive
             /\ sessions'[i].login # NotALogin =>
                  /\ sessions'[i].login.ident \in Idents
                  /\ identities'[sessions'[i].login.ident] = sessions'[i].actor
  <2>1. CASE i = Len(sessions) + 1
    <3>1. sessions'[i].actor = req[s].actor /\ sessions'[i].login = req[s].login
      BY <2>1, MintRow
    <3> QED
      BY <3>1, <1>1, <1>2 DEF Minting
  <2>2. CASE i # Len(sessions) + 1
    <3>1. i \in 1..Len(sessions) /\ sessions'[i] = sessions[i]
      BY <2>2, MintRow
    <3> QED
      BY <1>1, <1>3, <3>1 DEF IdentityInv
  <2> QED
    BY <2>1, <2>2
<1>4. ASSUME NEW x \in Slots, req'[x].pc = "mint" PROVE Minting(req[x])'
  <2>1. req'[x] = req[x]
    BY <1>1, <1>4, DoneMove DEF Others
  <2> QED
    BY <1>1, <1>4, <2>1 DEF IdentityInv, Minting
<1> QED
  BY <1>1, <1>3, <1>4 DEF IdentityInv, NoOrphanActor

(* The cascade takes the identities and the sessions of an actor along. *)
LEMMA IdentityDelete ==
  ASSUME TypeInv, IdentityInv, NEW s \in Slots, NEW e \in AllRows, NEW expected,
         DeleteItem(s, e, expected)
  PROVE  IdentityInv'
<1>1. /\ Done(s)
      /\ identities' = [i \in Idents |-> IF identities[i] = e THEN None ELSE identities[i]]
      /\ sessions' = [i \in DOMAIN sessions |->
           [sessions[i] EXCEPT !.live = @ /\ sessions[i].actor # e]]
  BY DEF DeleteItem
<1>2. /\ ~rows'[e].alive /\ rows'[e].version = rows[e].version
      /\ \A x \in AllRows \ {e} : rows'[x] = rows[x]
  BY DeletedRow
<1>3. \A i \in Idents : identities'[i] # None => rows'[identities'[i]].alive
  BY <1>1, <1>2, ActorsKnown DEF IdentityInv, AllRows
<1>4. NoOrphanActor'
  <2> SUFFICES ASSUME NEW x \in Actors \ {Dev}, rows'[x].alive
               PROVE  \E i \in Idents : identities'[i] = x
    BY DEF NoOrphanActor
  <2>1. x # e /\ rows[x].alive
    BY <1>2 DEF AllRows
  <2>2. PICK i \in Idents : identities[i] = x
    BY <2>1 DEF IdentityInv, NoOrphanActor
  <2> QED
    BY <1>1, <2>1, <2>2
<1>5. ASSUME NEW i \in 1..Len(sessions'), sessions'[i].live
      PROVE  /\ rows'[sessions'[i].actor].alive
             /\ sessions'[i].login # NotALogin =>
                  /\ sessions'[i].login.ident \in Idents
                  /\ identities'[sessions'[i].login.ident] = sessions'[i].actor
  <2>1. /\ i \in 1..Len(sessions) /\ sessions[i].live /\ sessions[i].actor # e
        /\ sessions'[i].actor = sessions[i].actor /\ sessions'[i].login = sessions[i].login
    BY <1>1, <1>5, DropSessions, ZenonT(60)
  <2>2. rows'[sessions[i].actor] = rows[sessions[i].actor]
    BY <1>2, <2>1, ActorsKnown DEF AllRows
  <2> QED
    BY <1>1, <2>1, <2>2 DEF IdentityInv
<1>6. ASSUME NEW x \in Slots, req'[x].pc = "mint" PROVE Minting(req[x])'
  <2>1. req'[x] = req[x] /\ req[x].actor \in Actors /\ Minting(req[x])
    BY <1>1, <1>6, DoneMove, ActorsKnown DEF Others, IdentityInv
  <2>2. CASE req[x].actor = e
    BY <1>2, <2>1, <2>2 DEF Minting
  <2>3. CASE req[x].actor # e
    <3>1. rows'[req[x].actor] = rows[req[x].actor]
      BY <1>2, <2>1, <2>3 DEF AllRows
    <3> QED
      BY <1>1, <2>1, <2>3, <3>1 DEF Minting
  <2> QED
    BY <2>2, <2>3
<1> QED
  BY <1>3, <1>4, <1>5, <1>6 DEF IdentityInv

(* Writes to rows that exist keep it, and so do reads. *)
LEMMA IdentityOther ==
  ASSUME TypeInv, IdentityInv, NEW s \in Slots,
         \/ QueryAdmins(s) \/ Promote(s) \/ UpdateRow(s) \/ Logout(s)
         \/ \E how \in {"put", "patch"}, e \in AllRows, p \in Payloads :
              \E expected \in 1..rows[e].version : ReadRow(s, how, e, p, expected)
         \/ \E status \in {"active", "error"} : StampRun(s, status)
         \/ \E e \in AllRows : Get(s, e)
  PROVE  IdentityInv'
<1>1. CASE QueryAdmins(s)
  <2>1. UNCHANGED <<rows, identities, sessions>>
    BY <1>1 DEF QueryAdmins, accountVars
  <2> QED
    BY <1>1, <2>1, QueryMove, IdentityLocal
<1>2. CASE Promote(s)
  <2>1. UNCHANGED <<identities, sessions>>
    BY <1>2 DEF Promote
  <2>2. \A e \in AllRows : rows'[e].alive = rows[e].alive /\ rows'[e].version = rows[e].version
    BY <1>2, PromoteRow
  <2>3. ASSUME NEW x \in Slots, req'[x].pc = "mint" PROVE req'[x].actor \in Actors /\ Minting(req'[x])
    <3>1. x # s
      BY <1>2, <2>3, PromoteMarks, BlankType
    <3>2. \A f \in {"pc", "op", "browser", "t", "token", "actor", "admin", "login", "id", "data",
                         "fields", "expected"} : req'[x][f] = req[x][f]
      BY <1>2, <3>1, PromoteMarks
    <3>3. req'[x].pc = req[x].pc /\ req'[x].login = req[x].login /\ req'[x].actor = req[x].actor
      BY <3>2
    <3> QED
      BY <2>3, <3>3, ActorsKnown DEF IdentityInv, Minting
  <2> QED
    BY <2>1, <2>2, <2>3, IdentityKept
<1>3. CASE UpdateRow(s)
  <2>1. UNCHANGED <<identities, sessions>> /\ Done(s)
    BY <1>3 DEF UpdateRow
  <2>2. ASSUME NEW e \in AllRows
        PROVE  rows'[e].alive = rows[e].alive /\ (rows[e].version > 0 => rows'[e].version > 0)
    <3>1. rows[e].version \in Nat
      BY RowData DEF TypeInv
    <3>2. CASE e = req[s].id
      <4>1. rows'[e].alive = rows[e].alive /\ rows'[e].version = rows[e].version + 1
        BY <1>3, <3>2, UpdatedRow
      <4> QED
        BY <3>1, <4>1
    <3>3. CASE e # req[s].id
      <4>1. rows'[e] = rows[e]
        BY <1>3, <3>3, UpdatedRow
      <4> QED
        BY <4>1
    <3> QED
      BY <3>2, <3>3
  <2> QED
    BY <2>1, <2>2, DoneMove, MintOneSlot, IdentityKept
<1>4. ASSUME NEW status \in {"active", "error"}, StampRun(s, status) PROVE IdentityInv'
  <2>1. UNCHANGED <<identities, sessions>> /\ Done(s)
    BY <1>4 DEF StampRun, accountVars
  <2>2. ASSUME NEW e \in AllRows
        PROVE  rows'[e].alive = rows[e].alive /\ (rows[e].version > 0 => rows'[e].version > 0)
    <3>1. rows[e].version \in Nat
      BY RowData DEF TypeInv
    <3>2. CASE e = req[s].id
      <4>1. rows'[e].alive = rows[e].alive /\ rows'[e].version = rows[e].version + 1
        BY <1>4, <3>2, StampedRow
      <4> QED
        BY <3>1, <4>1
    <3>3. CASE e # req[s].id
      <4>1. rows'[e] = rows[e]
        BY <1>4, <3>3, StampedRow
      <4> QED
        BY <4>1
    <3> QED
      BY <3>2, <3>3
  <2> QED
    BY <2>1, <2>2, DoneMove, MintOneSlot, IdentityKept
<1>5. CASE Logout(s)
  <2>1. Done(s) /\ UNCHANGED <<rows, identities>>
        /\ sessions' = [i \in DOMAIN sessions |->
             [sessions[i] EXCEPT !.live = @ /\ sessions[i].actor # req[s].actor]]
    BY <1>5 DEF Logout
  <2>2. Len(sessions') = Len(sessions) /\ \A i \in 1..Len(sessions) :
          /\ sessions'[i].actor = sessions[i].actor /\ sessions'[i].login = sessions[i].login
          /\ sessions'[i].live => sessions[i].live
    BY <2>1, DropSessions
  <2> QED
    BY <2>1, <2>2, DoneMove, MintOneSlot, IdentityKept
<1>6. ASSUME NEW how \in {"put", "patch"}, NEW e \in AllRows, NEW p \in Payloads,
             NEW expected \in 1..rows[e].version, ReadRow(s, how, e, p, expected)
      PROVE  IdentityInv'
  <2>1. UNCHANGED <<rows, identities, sessions>>
    BY <1>6 DEF ReadRow, accountVars
  <2>2. expected \in Nat
    BY RowData DEF TypeInv
  <2> QED
    BY <1>6, <2>1, <2>2, ReadMove, IdentityLocal
<1>7. ASSUME NEW e \in AllRows, Get(s, e) PROVE IdentityInv'
  <2>1. UNCHANGED <<rows, identities, sessions>> /\ Done(s)
    BY <1>7 DEF Get, accountVars
  <2> QED
    BY <2>1, DoneMove, IdentityLocal
<1> QED
  BY <1>1, <1>2, <1>3, <1>4, <1>5, <1>6, <1>7

(* Every step keeps it. *)
LEMMA IdentityStep == TypeInv /\ IdentityInv /\ [PlatformNext]_platformVars => IdentityInv'
<1> SUFFICES ASSUME TypeInv, IdentityInv, [PlatformNext]_platformVars PROVE IdentityInv'
  OBVIOUS
<1>1. CASE UNCHANGED <<Tables, req>>
  BY <1>1 DEF Tables, IdentityInv, NoOrphanActor, Minting
<1>2. ASSUME NEW s \in Slots, Plain(s) PROVE IdentityInv'
  <2>1. UNCHANGED <<rows, identities, sessions>>
    BY <1>2 DEF Plain, Tables
  <2> QED
    BY <1>2, <2>1, PlainMove, IdentityLocal DEF PlainPcs
<1>3. ASSUME NEW b \in Browsers, Start(b) PROVE IdentityInv'
  BY <1>3 DEF Start, IdentityInv, NoOrphanActor, Minting
<1> QED
  BY <1>1, <1>2, <1>3, IdentityLogin, IdentityInsert, IdentityMint, IdentityDelete, IdentityOther,
     StepKinds

(* A workload starts with the people it knows and their sessions. *)
LEMMA IdentityStart == PlatformInit => IdentityInv
<1> SUFFICES ASSUME PlatformInit PROVE IdentityInv
  OBVIOUS
<1>1. TypeInv
  BY TypeInit
<1>2. load \in Workloads /\ identities = load.known /\ \A s \in Slots : req[s].pc = "idle"
  BY DEF PlatformInit, AccountsInit, Blank
<1>3. ASSUME NEW a \in Actors
      PROVE  rows[a].alive <=> (a = Dev \/ \E i \in Idents : load.known[i] = a)
  <2>1. a \notin Connectors
    BY PlatformAssumption
  <2> DEFINE there == a = Dev \/ \E i \in Idents : load.known[i] = a
  <2>2. rows[a] = [alive |-> there, version |-> IF there THEN 1 ELSE 0,
                   data |-> ActorData(IF a = Dev THEN "admin" ELSE "member")]
    BY <2>1 DEF PlatformInit, AccountsInit
  <2>3. there \in BOOLEAN
    OBVIOUS
  <2> HIDE DEF there
  <2>4. rows[a].alive = there
    BY <2>2, <2>3
  <2> QED
    BY <2>4 DEF there
<1>4. \A i \in Idents : identities[i] # None => rows[identities[i]].alive
  BY <1>1, <1>2, <1>3, ActorsKnown
<1>5. NoOrphanActor
  BY <1>2, <1>3 DEF NoOrphanActor
<1>6. ASSUME NEW i \in 1..Len(sessions)
      PROVE  rows[sessions[i].actor].alive /\ sessions[i].login = NotALogin
  <2>1. i \in DOMAIN load.signed
    <3>1. i \in DOMAIN sessions
      BY <1>1 DEF TypeInv, TableType
    <3> QED
      BY <3>1 DEF PlatformInit, AccountsInit
  <2>2. sessions[i] = Session(load.signed[i][2], NotALogin)
    BY <2>1 DEF PlatformInit, AccountsInit
  <2>3. sessions[i].actor = load.signed[i][2] /\ sessions[i].login = NotALogin
    BY <2>2 DEF Session
  <2>4. load.signed[i][2] = Dev \/ \E p \in Idents : load.known[p] = load.signed[i][2]
    BY <1>2, <2>1, WorkloadsAssumption
  <2>5. sessions[i].actor \in Actors
    BY <1>1, ActorsKnown
  <2> QED
    BY <2>3, <2>4, <2>5, <1>3
<1> QED
  BY <1>2, <1>4, <1>5, <1>6 DEF IdentityInv

(* A person is one actor: upsert_identity's transaction and the cascade of  *)
(* a deletion keep every live session on an actor that exists, and the      *)
(* session of a login on the actor its person has now.                      *)
THEOREM OnePersonOneActorHolds == Spec => []OnePersonOneActor
<1>1. IdentityInv => OnePersonOneActor
  BY DEF IdentityInv, OnePersonOneActor
<1> QED
  BY <1>1, IdentityStart, IdentityStep, TypeInvariant, PTL DEF Spec

(* No first login leaves an actor behind that nobody can log in as. *)
THEOREM NoOrphanActorHolds == Spec => []NoOrphanActor
<1>1. IdentityInv => NoOrphanActor
  BY DEF IdentityInv
<1> QED
  BY <1>1, IdentityStart, IdentityStep, TypeInvariant, PTL DEF Spec

----------------------------------------------------------------------------
(* The first admin. *)

Claimed == claimants \ {Dev}

(* Until two claims overlap or a real admin is unseated, whoever claimed is *)
(* a real admin, alone, and a claim about to write has seen nobody.         *)
AdminInv ==
  ~contested =>
    /\ Claimed \subseteq RealAdmins
    /\ \A a, b \in Claimed : a = b
    /\ \A s \in Slots : req[s].pc = "promote" /\ ~req[s].late => Claimed = {}

(* No claim is made, and no real admin unseated unnoticed. *)
LEMMA AdminKept ==
  ASSUME AdminInv, UNCHANGED claimants, contested => contested',
         ~contested' => RealAdmins \subseteq RealAdmins',
         \A x \in Slots : req'[x].pc = "promote" /\ ~req'[x].late =>
           (req[x].pc = "promote" /\ ~req[x].late) \/ RealAdmins = {}
  PROVE  AdminInv'
BY DEF AdminInv, Claimed

(* One handler moves, and not to the write of a claim. *)
LEMMA AdminOneSlot ==
  ASSUME NEW s \in Slots, Others(s), req'[s].pc # "promote"
  PROVE  \A x \in Slots : req'[x].pc = "promote" /\ ~req'[x].late =>
           (req[x].pc = "promote" /\ ~req[x].late) \/ RealAdmins = {}
BY DEF Others

(* A real admin is one whose row says so. *)
LEMMA AdminRows ==
  ASSUME NEW e, \A x \in Actors \ {e} : rows'[x] = rows[x],
         e \in RealAdmins => rows'[e].alive /\ rows'[e].data.platform_role = "admin"
  PROVE  RealAdmins \subseteq RealAdmins'
BY DEF RealAdmins

(* The claim itself: with no overlap, the claimant is the only one. *)
LEMMA AdminPromote ==
  ASSUME TypeInv, AdminInv, NEW s \in Slots, Promote(s)
  PROVE  AdminInv'
<1> SUFFICES ASSUME ~contested'
             PROVE  /\ Claimed' \subseteq RealAdmins'
                    /\ \A a, b \in Claimed' : a = b
                    /\ \A x \in Slots : req'[x].pc = "promote" /\ ~req'[x].late => Claimed' = {}
  BY DEF AdminInv
<1> DEFINE a == req[s].actor
<1>1. /\ claimants' = claimants \cup {a} /\ rows[a].alive /\ req[s].pc = "promote"
      /\ contested' = (contested \/ req[s].late)
  BY DEF Promote
<1>2. a \in Actors /\ rows'[a].alive /\ rows'[a].data.platform_role = "admin"
  BY <1>1, PromoteRow
<1> HIDE DEF a
<1>3. ~contested /\ ~req[s].late
  BY <1>1
<1>4. Claimed = {}
  BY <1>1, <1>3 DEF AdminInv
<1>5. Claimed' \subseteq {a} \ {Dev}
  BY <1>1, <1>4 DEF Claimed
<1>6. ASSUME NEW x \in Slots, req'[x].pc = "promote" PROVE req'[x].late
  <2>1. x # s
    BY <1>6, PromoteMarks, BlankType
  <2>2. \A f \in {"pc", "op", "browser", "t", "token", "actor", "admin", "login", "id", "data",
                       "fields", "expected"} : req'[x][f] = req[x][f]
    BY <2>1, PromoteMarks, ZenonT(60)
  <2>3. req'[x].pc = req[x].pc
    BY <2>2
  <2>4. req'[x].late = (req[x].late \/ req[x].pc = "promote" \/ req[x].id = req[s].actor)
    BY <2>1, PromoteMarks
  <2> QED
    BY <1>6, <2>3, <2>4
<1> QED
  BY <1>2, <1>5, <1>6 DEF RealAdmins

(* The other writes to rows keep it. *)
LEMMA AdminWrite ==
  ASSUME TypeInv, AdminInv, NEW s \in Slots,
         \/ UpdateRow(s)
         \/ \E a \in Actors : InsertIdentity(s, a)
         \/ \E e \in AllRows : \E expected \in 1..rows[e].version : DeleteItem(s, e, expected)
         \/ \E status \in {"active", "error"} : StampRun(s, status)
  PROVE  AdminInv'
<1>1. CASE UpdateRow(s)
  <2> DEFINE e == req[s].id
  <2>1. /\ Done(s) /\ UNCHANGED claimants
        /\ contested' = (contested \/ (e \in Actors /\ Unseats(e, req[s].data.platform_role)))
    BY <1>1 DEF UpdateRow
  <2>2. /\ rows'[e].alive = rows[e].alive /\ rows[e].alive /\ rows'[e].data = req[s].data
        /\ \A x \in AllRows \ {e} : rows'[x] = rows[x]
    BY <1>1, UpdatedRow
  <2> HIDE DEF e
  <2>3. ~contested' => RealAdmins \subseteq RealAdmins'
    <3> SUFFICES ASSUME ~contested', e \in RealAdmins
                 PROVE  rows'[e].alive /\ rows'[e].data.platform_role = "admin"
      BY <2>2, AdminRows DEF AllRows
    <3> QED
      BY <2>1, <2>2 DEF Unseats, RealAdmins
  <2> QED
    BY <2>1, <2>3, DoneMove, AdminOneSlot, AdminKept
<1>2. ASSUME NEW a \in Actors, InsertIdentity(s, a) PROVE AdminInv'
  <2>1. UNCHANGED <<claimants, contested>>
    BY <1>2 DEF InsertIdentity, Inserted
  <2>2. a \notin RealAdmins
    BY <1>2, InsertMove DEF RealAdmins, TypeInv, RowType, AllRows
  <2>3. RealAdmins \subseteq RealAdmins'
    BY <1>2, <2>2, InsertRow, AdminRows DEF AllRows
  <2> QED
    BY <1>2, <2>1, <2>3, InsertMove, AdminOneSlot, AdminKept
<1>3. ASSUME NEW e \in AllRows, NEW expected, DeleteItem(s, e, expected) PROVE AdminInv'
  <2>1. Done(s) /\ UNCHANGED claimants /\ contested' = (contested \/ Unseats(e, "none"))
    BY <1>3 DEF DeleteItem
  <2>2. ~contested' => RealAdmins \subseteq RealAdmins'
    BY <1>3, <2>1, DeletedRow, AdminRows DEF AllRows, Unseats
  <2> QED
    BY <2>1, <2>2, DoneMove, AdminOneSlot, AdminKept
<1>4. ASSUME NEW status \in {"active", "error"}, StampRun(s, status) PROVE AdminInv'
  <2>1. Done(s) /\ UNCHANGED <<claimants, contested>>
    BY <1>4 DEF StampRun, accountVars
  <2>2. req[s].id \notin RealAdmins
    BY <1>4, StampedRow, PlatformAssumption DEF RealAdmins
  <2>3. RealAdmins \subseteq RealAdmins'
    BY <1>4, <2>2, StampedRow, AdminRows DEF AllRows
  <2> QED
    BY <2>1, <2>3, DoneMove, AdminOneSlot, AdminKept
<1> QED
  BY <1>1, <1>2, <1>3, <1>4

(* The steps that leave the rows alone keep it. *)
LEMMA AdminOther ==
  ASSUME TypeInv, AdminInv, NEW s \in Slots,
         \/ \E b \in Browsers, n \in Nonces : Callback(s, b, n)
         \/ \E a \in Actors : DevLogin(s, a)
         \/ \E i \in Idents : LookUp(s, i)
         \/ QueryAdmins(s) \/ Logout(s) \/ MintSession(s)
         \/ \E how \in {"put", "patch"}, e \in AllRows, p \in Payloads :
              \E expected \in 1..rows[e].version : ReadRow(s, how, e, p, expected)
         \/ \E e \in AllRows : Get(s, e)
  PROVE  AdminInv'
<1>1. UNCHANGED <<rows, claimants, contested>>
  BY DEF Callback, DevLogin, LookUp, QueryAdmins, Logout, MintSession, ReadRow, Get, accountVars
<1>2. RealAdmins' = RealAdmins
  BY <1>1 DEF RealAdmins
<1>3. CASE QueryAdmins(s)
  <2>1. RealAdmins = {}
    BY <1>3 DEF QueryAdmins
  <2> QED
    BY <1>1, <1>2, <1>3, <2>1, AdminKept
<1>4. ASSUME NEW b \in Browsers, NEW n \in Nonces, Callback(s, b, n) PROVE AdminInv'
  BY <1>1, <1>2, <1>4, CallbackMove, AdminOneSlot, AdminKept
<1>5. ASSUME NEW a \in Actors, DevLogin(s, a) PROVE AdminInv'
  BY <1>1, <1>2, <1>5, DevLoginMove, AdminOneSlot, AdminKept
<1>6. ASSUME NEW i \in Idents, LookUp(s, i) PROVE AdminInv'
  BY <1>1, <1>2, <1>6, LookUpMove, AdminOneSlot, AdminKept
<1>7. ASSUME NEW how \in {"put", "patch"}, NEW e \in AllRows, NEW p \in Payloads,
             NEW expected \in 1..rows[e].version, ReadRow(s, how, e, p, expected)
      PROVE  AdminInv'
  <2>1. expected \in Nat
    BY RowData DEF TypeInv
  <2> QED
    BY <1>1, <1>2, <1>7, <2>1, ReadMove, AdminOneSlot, AdminKept
<1>8. ASSUME Done(s) PROVE AdminInv'
  BY <1>1, <1>2, <1>8, DoneMove, AdminOneSlot, AdminKept
<1> QED
  BY <1>3, <1>4, <1>5, <1>6, <1>7, <1>8 DEF Logout, MintSession, Get

(* Every step keeps it. *)
LEMMA AdminStep == TypeInv /\ AdminInv /\ [PlatformNext]_platformVars => AdminInv'
<1> SUFFICES ASSUME TypeInv, AdminInv, [PlatformNext]_platformVars PROVE AdminInv'
  OBVIOUS
<1>1. CASE UNCHANGED <<Tables, req>>
  BY <1>1 DEF Tables, AdminInv, Claimed, RealAdmins
<1>2. ASSUME NEW s \in Slots, Plain(s) PROVE AdminInv'
  <2>1. UNCHANGED <<claimants, contested>> /\ RealAdmins' = RealAdmins
    BY <1>2 DEF Plain, Tables, RealAdmins
  <2> QED
    BY <1>2, <2>1, PlainMove, AdminOneSlot, AdminKept DEF PlainPcs
<1>3. ASSUME NEW b \in Browsers, Start(b) PROVE AdminInv'
  BY <1>3 DEF Start, AdminInv, Claimed, RealAdmins
<1> QED
  BY <1>1, <1>2, <1>3, AdminPromote, AdminWrite, AdminOther, StepKinds

(* claim_admin: unless two claims overlap, or a real admin is demoted or    *)
(* deleted, at most one actor has been answered that it is the admin.       *)
THEOREM OneFirstAdminHolds == Spec => []OneFirstAdmin
<1>1. PlatformInit => AdminInv
  BY DEF PlatformInit, AccountsInit, AdminInv, Claimed, Blank
<1>2. AdminInv => OneFirstAdmin
  <2> SUFFICES ASSUME AdminInv, ~contested PROVE Cardinality(Claimed) <= 1
    BY DEF OneFirstAdmin, Claimed
  <2>1. CASE Claimed = {}
    <3>1. Cardinality({}) = 0
      BY FS_EmptySet
    <3> QED
      BY <2>1, <3>1
  <2>2. CASE Claimed # {}
    <3>1. PICK a : Claimed = {a}
      BY <2>2 DEF AdminInv
    <3>2. Cardinality({a}) = 1
      BY FS_Singleton
    <3> QED
      BY <3>1, <3>2
  <2> QED
    BY <2>1, <2>2
<1> QED
  BY <1>1, <1>2, AdminStep, TypeInvariant, PTL DEF Spec

----------------------------------------------------------------------------
(* Versions: what the ETag of a row and the If-Match of a write go by. *)

(* A step may change a row in these ways: its version never falls, a row    *)
(* that is gone does not come back, and while the version stays the data    *)
(* does, unless it is claim_admin that writes.                              *)
Progress(e) ==
  /\ rows'[e].version \in Nat /\ rows'[e].version >= rows[e].version
  /\ rows[e].version > 0 /\ rows'[e].alive => rows[e].alive
  /\ rows[e].version > 0 /\ rows'[e].version = rows[e].version =>
       rows'[e].data = rows[e].data \/ \E s \in Slots : Promote(s) /\ req[s].actor = e

(* A row that a step does not write. *)
LEMMA ProgressSame ==
  ASSUME TypeInv, NEW e \in AllRows, rows'[e] = rows[e]
  PROVE  Progress(e)
<1>1. rows[e].version \in Nat
  BY RowData DEF TypeInv
<1> QED
  BY <1>1 DEF Progress

(* Every step changes rows so. *)
LEMMA RowProgress ==
  ASSUME TypeInv, [PlatformNext]_platformVars, NEW e \in AllRows
  PROVE  Progress(e)
<1>0. rows[e].version \in Nat /\ (rows[e].alive => rows[e].version > 0)
  BY RowData DEF TypeInv, RowType
<1>1. ASSUME UNCHANGED rows PROVE Progress(e)
  BY <1>1, ProgressSame
<1>2. ASSUME NEW s \in Slots, Promote(s) PROVE Progress(e)
  <2>1. CASE e = req[s].actor
    <3>1. rows'[e].version = rows[e].version /\ rows'[e].alive = rows[e].alive
      BY <1>2, <2>1, PromoteRow
    <3> QED
      BY <1>0, <1>2, <2>1, <3>1 DEF Progress
  <2>2. CASE e # req[s].actor
    BY <1>2, <2>2, PromoteRow, ProgressSame
  <2> QED
    BY <2>1, <2>2
<1>3. ASSUME NEW s \in Slots, NEW a \in Actors, InsertIdentity(s, a) PROVE Progress(e)
  <2>1. CASE e = a
    <3>1. rows'[e].version = 1 /\ rows[e].version = 0
      BY <1>3, <2>1, InsertRow, InsertMove
    <3> QED
      BY <3>1 DEF Progress
  <2>2. CASE e # a
    BY <1>3, <2>2, InsertRow, ProgressSame
  <2> QED
    BY <2>1, <2>2
<1>4. ASSUME NEW s \in Slots, UpdateRow(s) PROVE Progress(e)
  <2>1. CASE e = req[s].id
    <3>1. rows'[e].version = rows[e].version + 1 /\ rows'[e].alive = rows[e].alive
      BY <1>4, <2>1, UpdatedRow
    <3> QED
      BY <1>0, <3>1 DEF Progress
  <2>2. CASE e # req[s].id
    BY <1>4, <2>2, UpdatedRow, ProgressSame
  <2> QED
    BY <2>1, <2>2
<1>5. ASSUME NEW s \in Slots, NEW x \in AllRows, NEW expected, DeleteItem(s, x, expected) PROVE Progress(e)
  <2>1. CASE e = x
    <3>1. rows'[e].version = rows[e].version /\ rows'[e].data = rows[e].data /\ rows[e].alive
      BY <1>5, <2>1, DeletedRow
    <3> QED
      BY <1>0, <3>1 DEF Progress
  <2>2. CASE e # x
    BY <1>5, <2>2, DeletedRow, ProgressSame
  <2> QED
    BY <2>1, <2>2
<1>6. ASSUME NEW s \in Slots, NEW status \in {"active", "error"}, StampRun(s, status) PROVE Progress(e)
  <2>1. CASE e = req[s].id
    <3>1. rows'[e].version = rows[e].version + 1 /\ rows'[e].alive = rows[e].alive
      BY <1>6, <2>1, StampedRow
    <3> QED
      BY <1>0, <3>1 DEF Progress
  <2>2. CASE e # req[s].id
    BY <1>6, <2>2, StampedRow, ProgressSame
  <2> QED
    BY <2>1, <2>2
<1>7. ASSUME NEW s \in Slots,
             \/ \E b \in Browsers, n \in Nonces : Callback(s, b, n)
             \/ \E a \in Actors : DevLogin(s, a)
             \/ QueryAdmins(s) \/ Logout(s) \/ MintSession(s)
             \/ \E i \in Idents : LookUp(s, i)
             \/ \E how \in {"put", "patch"}, x \in AllRows, p \in Payloads :
                  \E expected \in 1..rows[x].version : ReadRow(s, how, x, p, expected)
             \/ \E x \in AllRows : Get(s, x)
      PROVE  UNCHANGED rows
  BY <1>7 DEF Callback, DevLogin, QueryAdmins, Logout, MintSession, LookUp, ReadRow, Get
<1>8. ASSUME NEW b \in Browsers, Start(b) PROVE UNCHANGED rows
  BY <1>8 DEF Start
<1>9. ASSUME NEW s \in Slots, Plain(s) PROVE UNCHANGED rows
  BY <1>9 DEF Plain, Tables
<1>10. CASE UNCHANGED <<Tables, req>>
  BY <1>1, <1>10 DEF Tables
<1> QED
  BY <1>1, <1>2, <1>3, <1>4, <1>5, <1>6, <1>7, <1>8, <1>9, <1>10, StepKinds

(* Who claimed stays known, and a claim is remembered. *)
LEMMA ClaimsGrow ==
  ASSUME TypeInv, [PlatformNext]_platformVars
  PROVE  claimants \subseteq claimants'
<1>1. ASSUME NEW s \in Slots,
             \/ \E b \in Browsers, n \in Nonces : Callback(s, b, n)
             \/ \E a \in Actors : DevLogin(s, a) \/ InsertIdentity(s, a)
             \/ QueryAdmins(s) \/ Logout(s) \/ MintSession(s) \/ UpdateRow(s)
             \/ \E i \in Idents : LookUp(s, i)
      PROVE  UNCHANGED claimants
  BY <1>1 DEF Callback, DevLogin, InsertIdentity, Inserted, QueryAdmins, Logout, MintSession,
              UpdateRow, LookUp, accountVars
<1>2. ASSUME NEW s \in Slots,
             \/ \E how \in {"put", "patch"}, x \in AllRows, p \in Payloads :
                  \E expected \in 1..rows[x].version : ReadRow(s, how, x, p, expected)
             \/ \E x \in AllRows : \E expected \in 1..rows[x].version : DeleteItem(s, x, expected)
             \/ \E status \in {"active", "error"} : StampRun(s, status)
             \/ \E x \in AllRows : Get(s, x)
      PROVE  UNCHANGED claimants
  BY <1>2 DEF ReadRow, DeleteItem, StampRun, Get, accountVars
<1>3. ASSUME NEW s \in Slots, Promote(s) PROVE claimants \subseteq claimants'
  BY <1>3 DEF Promote
<1>4. ASSUME NEW b \in Browsers, Start(b) PROVE UNCHANGED claimants
  BY <1>4 DEF Start
<1>5. ASSUME NEW s \in Slots, Plain(s) PROVE UNCHANGED claimants
  BY <1>5 DEF Plain, Tables
<1>6. CASE UNCHANGED <<Tables, req>>
  BY <1>6 DEF Tables
<1> QED
  BY <1>1, <1>2, <1>3, <1>4, <1>5, <1>6, StepKinds

(* A browser's copy is of a version the row has or had; if it has it still, *)
(* and nobody claimed with that row, the copy is the row.                   *)
Current(copy) ==
  copy.id # None =>
    /\ copy.id \in AllRows
    /\ copy.version > 0 /\ copy.version <= rows[copy.id].version
    /\ copy.id \notin claimants /\ rows[copy.id].alive /\ rows[copy.id].version = copy.version
         => copy.data = rows[copy.id].data

CopyInv == \A b \in Browsers : Current(cache[b])

(* Whatever a step writes, a copy that was current is so or is outdated. *)
LEMMA CopyKept ==
  ASSUME TypeInv, [PlatformNext]_platformVars, NEW copy \in Copy, Current(copy)
  PROVE  Current(copy)'
<1> SUFFICES ASSUME copy.id # None PROVE Current(copy)'
  BY DEF Current
<1> DEFINE e == copy.id
<1>1. e \in AllRows /\ copy.version \in Nat /\ copy.version > 0 /\ copy.version <= rows[e].version
  BY DEF Current, Copy
<1>2. e \notin claimants /\ rows[e].alive /\ rows[e].version = copy.version => copy.data = rows[e].data
  BY DEF Current
<1>3. Progress(e) /\ claimants \subseteq claimants'
  BY <1>1, RowProgress, ClaimsGrow
<1>4. rows[e].version \in Nat
  BY <1>1, RowData DEF TypeInv
<1> HIDE DEF e
<1>5. rows'[e].version \in Nat /\ copy.version <= rows'[e].version /\ rows[e].version > 0
  BY <1>1, <1>3, <1>4 DEF Progress
<1>6. ASSUME e \notin claimants', rows'[e].alive, rows'[e].version = copy.version
      PROVE  copy.data = rows'[e].data
  <2>1. rows[e].version = copy.version /\ rows[e].version = rows'[e].version
    BY <1>1, <1>3, <1>4, <1>6 DEF Progress
  <2>2. rows[e].alive
    BY <1>3, <1>5, <1>6 DEF Progress
  <2>3. ASSUME NEW s \in Slots, Promote(s), req[s].actor = e PROVE e \in claimants'
    BY <2>3 DEF Promote
  <2>4. rows'[e].data = rows[e].data
    BY <1>3, <1>5, <1>6, <2>1, <2>3 DEF Progress
  <2> QED
    BY <1>2, <1>3, <1>6, <2>1, <2>2, <2>4
<1> QED
  BY <1>1, <1>5, <1>6 DEF Current, e

(* Every step keeps the copies current. *)
LEMMA CopyStep == TypeInv /\ CopyInv /\ [PlatformNext]_platformVars => CopyInv'
<1> SUFFICES ASSUME TypeInv, CopyInv, [PlatformNext]_platformVars, NEW b \in Browsers
             PROVE  Current(cache[b])'
  BY DEF CopyInv
<1>1. cache[b] \in Copy /\ Current(cache[b])
  BY DEF TypeInv, TableType, CopyInv
<1>2. CASE cache'[b] = cache[b]
  <2> DEFINE copy == cache[b]
  <2>1. copy \in Copy /\ Current(copy) /\ cache'[b] = copy
    BY <1>1, <1>2
  <2>2. \A k \in Copy : Current(k) /\ k.id # None =>
          /\ k.id \in AllRows
          /\ k.version > 0 /\ k.version <= rows'[k.id].version
          /\ k.id \notin claimants' /\ rows'[k.id].alive /\ rows'[k.id].version = k.version
               => k.data = rows'[k.id].data
    BY CopyKept DEF Current
  <2> QED
    BY <2>1, <2>2 DEF Current
<1>3. ASSUME NEW s \in Slots, NEW e \in AllRows, Get(s, e), cache'[b] # cache[b]
      PROVE  Current(cache[b])'
  <2>1. /\ cache' = [cache EXCEPT ![req[s].browser] =
                      [id |-> e, version |-> rows[e].version, data |-> rows[e].data]]
        /\ rows[e].alive /\ UNCHANGED rows
    BY <1>3 DEF Get
  <2>2. cache'[b] = [id |-> e, version |-> rows[e].version, data |-> rows[e].data]
    BY <1>3, <2>1 DEF TypeInv, TableType
  <2>3. rows[e].version > 0 /\ rows[e].version \in Nat
    BY <2>1, RowData DEF TypeInv, RowType
  <2> QED
    BY <2>1, <2>2, <2>3 DEF Current
<1>4. CASE UNCHANGED cache
  BY <1>2, <1>4
<1>5. UNCHANGED cache \/ \E s \in Slots, e \in AllRows : Get(s, e)
  BY StepKinds DEF Tables, Plain
<1> QED
  BY <1>2, <1>3, <1>4, <1>5

(* The ETag is a validator: while its version is the row's, what the        *)
(* browser has is the row, whatever PUTs, PATCHes, deletions and stamps     *)
(* came in between; only claim_admin, which leaves the version, is exempt.  *)
THEOREM ETagCurrentHolds == Spec => []ETagCurrent
<1>1. PlatformInit => CopyInv
  BY DEF PlatformInit, CopyInv, Current, NoCopy
<1>2. CopyInv => ETagCurrent
  BY DEF CopyInv, Current, ETagCurrent
<1> QED
  BY <1>1, <1>2, CopyStep, TypeInvariant, PTL DEF Spec

----------------------------------------------------------------------------
(* Writes that leave alone what they do not name. *)

(* A handler about to write goes by a version the row has or had; if it has *)
(* it still, and no claim came in between, what the handler does not name   *)
(* is what the row holds.                                                   *)
Draft(r) ==
  r.pc = "update" =>
    /\ r.expected > 0 /\ r.expected <= rows[r.id].version
    /\ rows[r.id].alive /\ rows[r.id].version = r.expected /\ ~r.late =>
         \A f \in FieldsOf(r.id) \ r.fields : r.data[f] = rows[r.id].data[f]

DraftInv == \A s \in Slots : Draft(req[s])

(* A handler keeps what it goes by, and at most learns that it is late. *)
Holds(x) ==
  /\ req'[x].pc = req[x].pc /\ req'[x].id = req[x].id /\ req'[x].data = req[x].data
  /\ req'[x].fields = req[x].fields /\ req'[x].expected = req[x].expected
  /\ req[x].late => req'[x].late

(* What a step does to a handler that is about to write, or gets there. *)
LEMMA WriterSteps ==
  ASSUME TypeInv, [PlatformNext]_platformVars, NEW x \in Slots,
         req[x].pc = "update" \/ req'[x].pc = "update"
  PROVE  \/ Holds(x)
         \/ UNCHANGED rows /\ req'[x].pc # "update"
         \/ UpdateRow(x) /\ req'[x].pc # "update"
         \/ \E how \in {"put", "patch"}, e \in AllRows, p \in Payloads :
              \E expected \in 1..rows[e].version : ReadRow(x, how, e, p, expected)
<1>1. ASSUME NEW s \in Slots, Others(s), x # s PROVE Holds(x)
  BY <1>1 DEF Others, Holds
<1>2. ASSUME NEW s \in Slots, Plain(s) PROVE Holds(x) \/ (UNCHANGED rows /\ req'[x].pc # "update")
  <2>1. UNCHANGED rows /\ Others(s) /\ req'[s].pc # "update"
    BY <1>2, PlainMove DEF Plain, Tables, PlainPcs
  <2> QED
    BY <1>1, <2>1
<1>3. ASSUME NEW s \in Slots, Promote(s) PROVE Holds(x)
  <2>1. x # s
    <3>1. req[s].pc = "promote" /\ req'[s].pc = "idle"
      BY <1>3, PromoteMarks, BlankType DEF Promote
    <3> QED
      BY <3>1
  <2>2. /\ \A f \in {"pc", "op", "browser", "t", "token", "actor", "admin", "login", "id", "data",
                       "fields", "expected"} : req'[x][f] = req[x][f]
        /\ req'[x].late = (req[x].late \/ req[x].pc = "promote" \/ req[x].id = req[s].actor)
    BY <1>3, <2>1, PromoteMarks, ZenonT(60)
  <2>3. /\ req'[x].pc = req[x].pc /\ req'[x].id = req[x].id /\ req'[x].data = req[x].data
        /\ req'[x].fields = req[x].fields /\ req'[x].expected = req[x].expected
    BY <2>2
  <2> QED
    BY <2>2, <2>3 DEF Holds
<1>4. ASSUME NEW s \in Slots, Done(s), req[s].pc # "update" PROVE Holds(x)
  BY <1>1, <1>4, DoneMove
<1>5. ASSUME NEW s \in Slots,
             \/ Logout(s) \/ MintSession(s)
             \/ \E e \in AllRows : \E expected \in 1..rows[e].version : DeleteItem(s, e, expected)
             \/ \E status \in {"active", "error"} : StampRun(s, status)
             \/ \E e \in AllRows : Get(s, e)
      PROVE  Holds(x)
  <2>1. Done(s) /\ req[s].pc # "update"
    BY <1>5 DEF Logout, MintSession, DeleteItem, StampRun, Get
  <2> QED
    BY <1>4, <2>1
<1>6. ASSUME NEW s \in Slots, UpdateRow(s) PROVE Holds(x) \/ (UpdateRow(x) /\ req'[x].pc # "update")
  <2>1. Others(s) /\ req'[s].pc # "update"
    BY <1>6, DoneMove DEF UpdateRow
  <2> QED
    BY <1>1, <1>6, <2>1
<1>7. ASSUME NEW s \in Slots,
             \/ \E b \in Browsers, n \in Nonces : Callback(s, b, n)
             \/ \E a \in Actors : DevLogin(s, a) \/ InsertIdentity(s, a)
             \/ \E i \in Idents : LookUp(s, i)
             \/ QueryAdmins(s)
      PROVE  Holds(x)
  <2>1. req[s].pc # "update"
    BY <1>7 DEF Callback, Begin, DevLogin, InsertIdentity, LookUp, QueryAdmins
  <2>2. Others(s) /\ req'[s].pc # "update"
    BY <1>7, CallbackMove, DevLoginMove, InsertMove, LookUpMove, QueryMove
  <2> QED
    BY <1>1, <2>1, <2>2
<1>8. ASSUME NEW s \in Slots, NEW how \in {"put", "patch"}, NEW e \in AllRows, NEW p \in Payloads,
             NEW expected \in 1..rows[e].version, ReadRow(s, how, e, p, expected), x # s
      PROVE  Holds(x)
  <2>1. expected \in Nat
    BY RowData DEF TypeInv
  <2> QED
    BY <1>1, <1>8, <2>1, ReadMove
<1>9. ASSUME UNCHANGED req PROVE Holds(x)
  BY <1>9 DEF Holds
<1>10. ASSUME NEW b \in Browsers, Start(b) PROVE UNCHANGED req
  BY <1>10 DEF Start
<1> QED
  BY <1>2, <1>3, <1>5, <1>6, <1>7, <1>8, <1>9, <1>10, StepKinds

(* The data a PUT or a PATCH is about to write differs from the row only in *)
(* what it names.                                                           *)
LEMMA DraftRead ==
  ASSUME TypeInv, NEW x \in Slots, NEW how \in {"put", "patch"}, NEW e \in AllRows,
         NEW p \in Payloads, NEW expected \in 1..rows[e].version, ReadRow(x, how, e, p, expected)
  PROVE  Draft(req[x])'
<1>0. rows[e].version \in Nat
  BY RowData DEF TypeInv
<1>1. expected \in Nat /\ expected > 0 /\ rows[e].version \in Nat
  BY <1>0
<1>2. DOMAIN p \subseteq Fields(e) \cap Editable /\ UNCHANGED rows /\ expected <= rows[e].version
  BY DEF ReadRow
<1>3. Fields(e) = FieldsOf(e)
  BY DEF Fields, TypeInv, RowType
<1>4. /\ req'[x].id = e /\ req'[x].data = Requested(how, e, p) /\ req'[x].expected = expected
      /\ req'[x].fields = IF how = "put" THEN Editable ELSE DOMAIN p
  BY <1>1, ReadMove
<1>5. ASSUME NEW f \in FieldsOf(e), f \notin req'[x].fields
      PROVE  Requested(how, e, p)[f] = rows[e].data[f]
  <2>1. f \in Fields(e) /\ f \notin DOMAIN p /\ (how = "put" => f \notin Editable)
    BY <1>2, <1>3, <1>4, <1>5
  <2> QED
    BY <2>1 DEF Requested
<1> QED
  BY <1>1, <1>2, <1>4, <1>5 DEF Draft, FieldsOf

(* Every step keeps the drafts true or outdated. *)
LEMMA DraftStep == TypeInv /\ DraftInv /\ [PlatformNext]_platformVars => DraftInv'
<1> SUFFICES ASSUME TypeInv, DraftInv, [PlatformNext]_platformVars, NEW x \in Slots,
                    req'[x].pc = "update"
             PROVE  Draft(req[x])'
  BY DEF DraftInv, Draft
<1>1. CASE Holds(x)
  <2> DEFINE r == req[x]
             e == req[x].id
  <2>1. r \in Request /\ r.pc = "update" /\ Draft(r) /\ e \in AllRows
    BY <1>1 DEF Holds, DraftInv, TypeInv, RequestType, Local
  <2>2. /\ req'[x].id = e /\ req'[x].data = r.data /\ req'[x].fields = r.fields
        /\ req'[x].expected = r.expected /\ (r.late => req'[x].late)
    BY <1>1 DEF Holds
  <2>3. r.expected \in Nat /\ r.expected > 0 /\ r.expected <= rows[e].version
    BY <2>1 DEF Draft, Request
  <2>4. rows[e].alive /\ rows[e].version = r.expected /\ ~r.late =>
          \A f \in FieldsOf(e) \ r.fields : r.data[f] = rows[e].data[f]
    BY <2>1 DEF Draft
  <2>5. rows[e].version \in Nat /\ Progress(e)
    BY <2>1, RowData, RowProgress DEF TypeInv
  <2> HIDE DEF e, r
  <2>6. rows'[e].version \in Nat /\ r.expected <= rows'[e].version /\ rows[e].version > 0
    BY <2>3, <2>5 DEF Progress
  <2>7. ASSUME rows'[e].alive, rows'[e].version = r.expected, ~req'[x].late
        PROVE  \A f \in FieldsOf(e) \ r.fields : r.data[f] = rows'[e].data[f]
    <3>1. rows[e].version = r.expected /\ rows[e].version = rows'[e].version /\ rows[e].alive
      BY <2>3, <2>5, <2>6, <2>7 DEF Progress
    <3>2. ASSUME NEW s \in Slots, Promote(s), req[s].actor = e PROVE FALSE
      <4>1. req[s].pc = "promote"
        BY <3>2 DEF Promote
      <4>2. x # s
        BY <2>1, <4>1 DEF r
      <4>3. req'[x].late = (req[x].late \/ req[x].pc = "promote" \/ req[x].id = req[s].actor)
        BY <3>2, <4>2, PromoteMarks
      <4> QED
        BY <2>7, <3>2, <4>3 DEF e
    <3>3. rows'[e].data = rows[e].data
      BY <2>5, <2>6, <3>1, <3>2 DEF Progress
    <3> QED
      BY <2>2, <2>4, <2>7, <3>1, <3>3
  <2> QED
    BY <2>2, <2>3, <2>6, <2>7 DEF Draft, FieldsOf
<1> QED
  BY <1>1, WriterSteps, DraftRead

(* "Never a silent clobber": a PUT or a PATCH changes no field it does not  *)
(* name, whatever other PUTs, PATCHes and stamps came between its read and  *)
(* its UPDATE; only a claim, which leaves the version alone, goes unseen.   *)
THEOREM NamedFieldsOnlyHolds == Spec => NamedFieldsOnly
<1>1. PlatformInit => DraftInv
  BY DEF PlatformInit, AccountsInit, DraftInv, Draft, Blank
<1>2. ASSUME TypeInv, DraftInv, [PlatformNext]_platformVars, NEW s \in Slots,
             req[s].pc = "update", req'[s].pc = "idle", ~req[s].late,
             NEW f \in Fields(req[s].id) \ req[s].fields
      PROVE  rows'[req[s].id].data[f] = rows[req[s].id].data[f]
  <2> DEFINE e == req[s].id
  <2>1. e \in AllRows
    BY <1>2 DEF TypeInv, RequestType, Local
  <2>2. f \in FieldsOf(e) \ req[s].fields
    BY <1>2, <2>1 DEF Fields, TypeInv, RowType
  <2>3. CASE UpdateRow(s)
    <3>1. rows[e].alive /\ rows[e].version = req[s].expected
      BY <2>3 DEF UpdateRow
    <3>2. rows'[e].data = req[s].data
      BY <1>2, <2>3, UpdatedRow
    <3>3. req[s].data[f] = rows[e].data[f]
      BY <1>2, <2>2, <3>1 DEF DraftInv, Draft
    <3> QED
      BY <3>2, <3>3
  <2>4. ~Holds(s)
    BY <1>2 DEF Holds
  <2>5. ASSUME NEW how, NEW x, NEW p, NEW expected, ReadRow(s, how, x, p, expected) PROVE FALSE
    BY <1>2, <2>5 DEF ReadRow
  <2>6. CASE UNCHANGED rows
    BY <2>6
  <2> QED
    BY <1>2, <2>3, <2>4, <2>5, <2>6, WriterSteps
<1>3. TypeInv /\ DraftInv /\ [PlatformNext]_platformVars =>
        [\A s \in Slots : LET r == req[s] IN
           r.pc = "update" /\ req'[s].pc = "idle" /\ ~r.late
             => \A f \in Fields(r.id) \ r.fields : rows'[r.id].data[f] = rows[r.id].data[f]]_<<rows, req>>
  BY <1>2
<1> QED
  BY <1>1, <1>3, DraftStep, TypeInvariant, PTL DEF Spec, NamedFieldsOnly
=============================================================================
