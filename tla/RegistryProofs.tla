--------------------------- MODULE RegistryProofs ---------------------------
(***************************************************************************)
(* Proofs for Registry, for any number of callers and any set of specs.    *)
(* The inductive invariant relates what a load has read so far to what is  *)
(* committed: tables only grow, and a type is committed with its fields.   *)
(***************************************************************************)
EXTENDS Registry, TLAPS

(* Specs that are told apart by their type ids. *)
Distinct(ss) == \A s, t \in ss : s.type_id = t.type_id => s = t

(* The rows of some committed types are the rows that carry their ids. *)
LEMMA RowsOfSome ==
  ASSUME NEW ss, NEW some \in SUBSET ss, Distinct(ss)
  PROVE  {r \in FieldRows(ss) : r[1] \in Ids(some)} = FieldRows(some)
<1>1. ASSUME NEW r \in FieldRows(ss), r[1] \in Ids(some)
      PROVE  r \in FieldRows(some)
  <2>1. PICK s \in ss : \E f \in s.fields : r = <<s.type_id, f>>
    BY DEF FieldRows
  <2>2. PICK t \in some : t.type_id = r[1]
    BY <1>1 DEF Ids
  <2>3. s = t
    BY <2>1, <2>2 DEF Distinct
  <2> QED
    BY <2>1, <2>2, <2>3 DEF FieldRows
<1>2. ASSUME NEW r \in FieldRows(some)
      PROVE  r \in FieldRows(ss) /\ r[1] \in Ids(some)
  BY DEF FieldRows, Ids
<1> QED
  BY <1>1, <1>2

(* The fields that a snapshot shows of one of its types are that type's. *)
LEMMA FieldsOfOne ==
  ASSUME NEW snapshot, snapshot.fields = FieldRows(snapshot.types), Distinct(snapshot.types),
         NEW t \in snapshot.types
  PROVE  FieldsOf(snapshot, t.type_id) = t.fields
<1>1. ASSUME NEW f \in t.fields PROVE f \in FieldsOf(snapshot, t.type_id)
  <2>1. <<t.type_id, f>> \in snapshot.fields
    BY DEF FieldRows
  <2>2. <<t.type_id, f>>[1] = t.type_id /\ <<t.type_id, f>>[2] = f
    OBVIOUS
  <2> QED
    BY <2>1, <2>2 DEF FieldsOf
<1>2. ASSUME NEW f \in FieldsOf(snapshot, t.type_id) PROVE f \in t.fields
  <2>1. PICK r \in snapshot.fields : r[1] = t.type_id /\ f = r[2]
    BY DEF FieldsOf
  <2>2. PICK s \in snapshot.types : \E g \in s.fields : r = <<s.type_id, g>>
    BY DEF FieldRows
  <2>3. s = t
    BY <2>1, <2>2 DEF Distinct
  <2> QED
    BY <2>1, <2>2, <2>3
<1> QED
  BY <1>1, <1>2

(* Field rows are additive in the types, and so monotone. *)
LEMMA RowsOfUnion ==
  ASSUME NEW a, NEW b
  PROVE  FieldRows(a \cup b) = FieldRows(a) \cup FieldRows(b)
BY DEF FieldRows

(* More types have more field rows. *)
LEMMA RowsOfMore ==
  ASSUME NEW b, NEW a \in SUBSET b
  PROVE  FieldRows(a) \subseteq FieldRows(b)
BY DEF FieldRows

----------------------------------------------------------------------------
(* A handler that is not in flight is well typed. *)
LEMMA IdleType == Idle \in Handler /\ Idle.pc = "idle"
<1>1. NoSpec \in Specs
  BY SpecsAssumption DEF NoSpec
<1> QED
  BY <1>1 DEF Idle, Handler

(* The tables, the snapshot and the locals keep their types: every row of   *)
(* the tables comes from a seeded type or from a body that was sent whole.  *)
THEOREM TypeCorrect == Spec => []TypeOK
<1> DEFINE All == Builtin \cup Specs
<1>1. Init => TypeOK
  <2> SUFFICES ASSUME Init PROVE TypeOK
    OBVIOUS
  <2>1. FieldRows(Builtin) \subseteq FieldRows(All)
    BY RowsOfMore
  <2>2. handler \in [Clients -> Handler]
    BY IdleType DEF Init
  <2> QED
    BY <2>1, <2>2 DEF Init, TypeOK
<1>2. TypeOK /\ [Next]_vars => TypeOK'
  <2> SUFFICES ASSUME TypeOK, [Next]_vars PROVE TypeOK'
    OBVIOUS
  <2>1. ASSUME NEW c \in Clients, NEW spec \in Specs, Begin(c, spec) PROVE TypeOK'
    <3>1. [Idle EXCEPT !.pc = "commit", !.spec = spec] \in Handler
      BY IdleType DEF Handler
    <3> QED
      BY <2>1, <3>1 DEF TypeOK, Begin
  <2>2. ASSUME NEW c \in Clients, Commit(c) PROVE TypeOK'
    <3> DEFINE spec == handler[c].spec
    <3>1. spec \in Specs
      BY DEF TypeOK, Handler
    <3>2. FieldRows({spec}) \subseteq FieldRows(All)
      BY <3>1, RowsOfMore
    <3>3. Outdated(c) \in [Clients -> Handler]
      BY DEF TypeOK, Handler, Outdated
    <3> QED
      BY <2>2, <3>1, <3>2, <3>3, IdleType DEF TypeOK, Commit
  <2>3. ASSUME NEW c \in Clients, load(c) PROVE TypeOK'
    <3>1. handler' \in [Clients -> Handler]
      <4>1. CASE handler' = [handler EXCEPT ![c].pc = "fields", ![c].types = types]
        BY <4>1 DEF TypeOK, Handler
      <4>2. CASE handler' = [handler EXCEPT ![c].pc = "store",
                   ![c].fields = {r \in fields : r[1] \in Ids(handler[c].types)}]
        <5> DEFINE rows == {r \in fields : r[1] \in Ids(handler[c].types)}
        <5>1. rows \in SUBSET FieldRows(All)
          BY DEF TypeOK
        <5> HIDE DEF rows
        <5> QED
          BY <4>2, <5>1 DEF TypeOK, Handler, rows
      <4> QED
        BY <2>3, <4>1, <4>2 DEF load
    <3> QED
      BY <2>3, <3>1 DEF TypeOK, load
  <2>4. ASSUME NEW c \in Clients, Store(c) PROVE TypeOK'
    BY <2>4, IdleType DEF TypeOK, Store, Handler, Ids
  <2>5. ASSUME NEW c \in Clients, Abort(c) PROVE TypeOK'
    BY <2>5, IdleType DEF TypeOK, Abort
  <2>6. CASE Restart
    BY <2>6, IdleType DEF TypeOK, Restart
  <2>7. CASE UNCHANGED vars
    BY <2>7 DEF TypeOK, vars
  <2> QED
    BY <2>1, <2>2, <2>3, <2>4, <2>5, <2>6, <2>7 DEF Next
<1> QED
  BY <1>1, <1>2, PTL DEF Spec

----------------------------------------------------------------------------
(* A type is committed whole, and the snapshot is what some earlier moment  *)
(* of the tables was.                                                       *)
TablesInv ==
  /\ UniqueNames
  /\ fields = FieldRows(types)
  /\ registry.types \subseteq types
  /\ registry.fields = FieldRows(registry.types)

(* The refs of spec name types of ss or spec itself. *)
Known(spec, ss) ==
  \A f \in spec.fields :
    f.kind = "ref" /\ f.ref # Absent => \E u \in ss \cup {spec} : u.prefix = f.ref

RefsInv ==
  /\ RefsKnown
  /\ \A c \in Clients : handler[c].pc = "commit" => Known(handler[c].spec, types)

(* What handler c has committed and read back so far. *)
LoadInv(c) ==
  /\ handler[c].pc \in {"types", "fields", "store"} => handler[c].spec \in types
  /\ handler[c].pc \in {"fields", "store"} =>
       /\ handler[c].types \subseteq types
       /\ handler[c].spec \in handler[c].types
       /\ handler[c].stale \/ handler[c].types = types
  /\ handler[c].pc = "store" => handler[c].fields = FieldRows(handler[c].types)

LiveInv ==
  /\ answered \subseteq Ids(types)
  /\ AnsweredIsLive

RegInv == TypeOK /\ TablesInv /\ RefsInv /\ LiveInv /\ \A c \in Clients : LoadInv(c)

(* Tables only grow, so a ref that resolves goes on resolving. *)
LEMMA KnownInMore ==
  ASSUME NEW b, NEW a \in SUBSET b, NEW spec, Known(spec, a)
  PROVE  Known(spec, b)
BY DEF Known

(* The seeded tables and the first snapshot satisfy the invariant. *)
LEMMA RegInit == Init => RegInv
<1> SUFFICES ASSUME Init PROVE RegInv
  OBVIOUS
<1>1. TypeOK
  <2>1. FieldRows(Builtin) \subseteq FieldRows(Builtin \cup Specs)
    BY RowsOfMore
  <2> QED
    BY <2>1, IdleType DEF Init, TypeOK
<1>2. TablesInv
  BY BuiltinAssumption DEF Init, TablesInv, UniqueNames
<1>3. \A c \in Clients : handler[c] = Idle
  BY DEF Init
<1>4. RefsInv /\ \A c \in Clients : LoadInv(c)
  BY <1>3, IdleType DEF Init, RefsInv, RefsKnown, LoadInv
<1>5. LiveInv
  BY DEF Init, LiveInv, AnsweredIsLive
<1> QED
  BY <1>1, <1>2, <1>4, <1>5 DEF RegInv

(* A validated spec refers to types of the snapshot it was validated        *)
(* against, or to itself.                                                   *)
LEMMA BeginKeeps ==
  ASSUME RegInv, TypeOK', NEW c \in Clients, NEW spec \in Specs, Begin(c, spec)
  PROVE  RegInv'
<1> DEFINE h == [Idle EXCEPT !.pc = "commit", !.spec = spec]
<1>1. h.pc = "commit" /\ h.spec = spec
  BY DEF Idle
<1>2. handler' = [handler EXCEPT ![c] = h]
  BY DEF Begin
<1>3. \A x \in Clients : handler'[x] = IF x = c THEN h ELSE handler[x]
  BY <1>2 DEF RegInv, TypeOK
<1> HIDE DEF h
<1>4. Known(spec, types)
  <2>1. \A f \in spec.fields : f.kind = "ref" => f.ref \in {Absent, spec.prefix} \cup Taken(registry)
    BY DEF Begin, validate_spec, field_ok
  <2> QED
    BY <2>1 DEF Known, Taken, RegInv, TablesInv
<1>5. UNCHANGED <<types, fields, registry, answered, raced>>
  BY DEF Begin
<1>6. TablesInv' /\ LiveInv'
  BY <1>5 DEF RegInv, TablesInv, UniqueNames, LiveInv, AnsweredIsLive
<1>7. RefsInv'
  <2>1. RefsKnown'
    BY <1>5 DEF RegInv, RefsInv, RefsKnown
  <2> QED
    BY <2>1, <1>1, <1>3, <1>4, <1>5 DEF RegInv, RefsInv, Known
<1>8. \A x \in Clients : LoadInv(x)'
  BY <1>1, <1>3, <1>5 DEF RegInv, LoadInv
<1> QED
  BY <1>6, <1>7, <1>8 DEF RegInv

(* A committed registration adds a type with all its fields, and marks the  *)
(* loads that have read the types already as stale.                         *)
LEMMA CommitKeeps ==
  ASSUME RegInv, TypeOK', NEW c \in Clients, Commit(c)
  PROVE  RegInv'
<1> DEFINE spec == handler[c].spec
<1>1. CASE \E t \in types : t.type_id = spec.type_id \/ t.prefix = spec.prefix
  <2>1. UNCHANGED <<types, fields, registry, answered, raced>>
    BY <1>1 DEF Commit
  <2>2. \A x \in Clients : handler'[x] = IF x = c THEN Idle ELSE handler[x]
    BY <1>1 DEF Commit, RegInv, TypeOK
  <2>3. TablesInv' /\ LiveInv'
    BY <2>1 DEF RegInv, TablesInv, UniqueNames, LiveInv, AnsweredIsLive
  <2>4. RefsInv'
    BY <2>1, <2>2, IdleType DEF RegInv, RefsInv, RefsKnown, Known
  <2>5. \A x \in Clients : LoadInv(x)'
    BY <2>1, <2>2, IdleType DEF RegInv, LoadInv
  <2> QED
    BY <2>3, <2>4, <2>5 DEF RegInv
<1>2. CASE ~ \E t \in types : t.type_id = spec.type_id \/ t.prefix = spec.prefix
  <2>1. /\ types' = types \cup {spec}
        /\ fields' = fields \cup FieldRows({spec})
        /\ handler' = Outdated(c)
        /\ UNCHANGED <<registry, answered, raced>>
    BY <1>2 DEF Commit
  <2>2. /\ handler[c].pc = "commit"
        /\ Known(spec, types)
    BY DEF Commit, RegInv, RefsInv
  <2>3. \A x \in Clients :
          /\ handler'[x].pc = IF x = c THEN "types" ELSE handler[x].pc
          /\ handler'[x].spec = handler[x].spec
          /\ handler'[x].types = handler[x].types
          /\ handler'[x].fields = handler[x].fields
          /\ x # c /\ handler[x].pc \in {"fields", "store"} => handler'[x].stale
    BY <2>1, ZenonT(60) DEF Outdated, RegInv, TypeOK, Handler
  <2>4. TablesInv'
    <3>1. UniqueNames'
      BY <1>2, <2>1 DEF RegInv, TablesInv, UniqueNames
    <3>2. fields' = FieldRows(types')
      BY <2>1, RowsOfUnion DEF RegInv, TablesInv
    <3> QED
      BY <2>1, <3>1, <3>2 DEF RegInv, TablesInv
  <2>5. RefsInv'
    <3>1. RefsKnown'
      BY <2>1, <2>2 DEF RegInv, RefsInv, RefsKnown, Known
    <3>2. ASSUME NEW x \in Clients, handler'[x].pc = "commit"
          PROVE  Known(handler'[x].spec, types')
      <4>1. Known(handler[x].spec, types) /\ handler'[x].spec = handler[x].spec
        BY <2>3, <3>2 DEF RegInv, RefsInv
      <4> QED
        BY <4>1, <2>1, KnownInMore
    <3> QED
      BY <3>1, <3>2 DEF RefsInv, Known
  <2>6. LiveInv'
    BY <2>1 DEF RegInv, LiveInv, AnsweredIsLive, Ids
  <2>7. ASSUME NEW x \in Clients PROVE LoadInv(x)'
    <3>1. CASE x = c
      BY <2>1, <2>3, <3>1 DEF LoadInv
    <3>2. CASE x # c
      BY <2>1, <2>3, <3>2 DEF RegInv, LoadInv
    <3> QED
      BY <3>1, <3>2
  <2> QED
    BY <2>4, <2>5, <2>6, <2>7 DEF RegInv
<1> QED
  BY <1>1, <1>2

(* The second query of a load finds the fields of the types that the first  *)
(* has read, whatever was committed in between.                             *)
LEMMA LoadKeeps ==
  ASSUME RegInv, TypeOK', NEW c \in Clients, load(c)
  PROVE  RegInv'
<1>1. UNCHANGED <<types, fields, registry, answered, raced>>
  BY DEF load
<1>2. TablesInv' /\ LiveInv'
  BY <1>1 DEF RegInv, TablesInv, UniqueNames, LiveInv, AnsweredIsLive
<1>3. \A x \in Clients \ {c} : handler'[x] = handler[x]
  BY DEF load, RegInv, TypeOK
<1>4. handler'[c].pc # "commit" /\ LoadInv(c)'
  <2>1. CASE /\ handler[c].pc = "types"
             /\ handler' = [handler EXCEPT ![c].pc = "fields", ![c].types = types]
    <3>1. /\ handler'[c].pc = "fields"
          /\ handler'[c].types = types
          /\ handler'[c].spec = handler[c].spec
      BY <2>1 DEF RegInv, TypeOK, Handler
    <3> QED
      BY <2>1, <3>1, <1>1 DEF RegInv, LoadInv
  <2>2. CASE /\ handler[c].pc = "fields"
             /\ handler' = [handler EXCEPT ![c].pc = "store",
                  ![c].fields = {r \in fields : r[1] \in Ids(handler[c].types)}]
    <3> DEFINE rows == {r \in fields : r[1] \in Ids(handler[c].types)}
    <3>1. rows = FieldRows(handler[c].types)
      <4>1. handler[c].types \in SUBSET types /\ Distinct(types) /\ fields = FieldRows(types)
        BY <2>2 DEF RegInv, LoadInv, TablesInv, UniqueNames, Distinct
      <4> QED
        BY <4>1, RowsOfSome
    <3> HIDE DEF rows
    <3>2. /\ handler'[c].pc = "store"
          /\ handler'[c].fields = rows
          /\ handler'[c].types = handler[c].types
          /\ handler'[c].spec = handler[c].spec
          /\ handler'[c].stale = handler[c].stale
      BY <2>2, ZenonT(60) DEF RegInv, TypeOK, Handler, rows
    <3> QED
      BY <2>2, <3>1, <3>2, <1>1 DEF RegInv, LoadInv
  <2> QED
    BY <2>1, <2>2 DEF load
<1>5. RefsInv'
  BY <1>1, <1>3, <1>4 DEF RegInv, RefsInv, RefsKnown, Known
<1>6. \A x \in Clients : LoadInv(x)'
  BY <1>1, <1>3, <1>4 DEF RegInv, LoadInv
<1> QED
  BY <1>2, <1>5, <1>6 DEF RegInv

(* A snapshot that no later registration has outdated is the tables' state. *)
LEMMA StoreKeeps ==
  ASSUME RegInv, TypeOK', NEW c \in Clients, Store(c)
  PROVE  RegInv'
<1>1. /\ handler[c].pc = "store"
      /\ registry' = [types |-> handler[c].types, fields |-> handler[c].fields]
      /\ answered' = answered \cup {handler[c].spec.type_id}
      /\ raced' = (raced \/ handler[c].stale)
      /\ UNCHANGED <<types, fields>>
  BY DEF Store
<1>2. /\ handler[c].spec \in types
      /\ handler[c].types \subseteq types
      /\ handler[c].stale \/ handler[c].types = types
      /\ handler[c].fields = FieldRows(handler[c].types)
  BY <1>1 DEF RegInv, LoadInv
<1>3. \A x \in Clients : handler'[x] = IF x = c THEN Idle ELSE handler[x]
  BY DEF Store, RegInv, TypeOK
<1>4. TablesInv'
  BY <1>1, <1>2 DEF RegInv, TablesInv, UniqueNames
<1>5. LiveInv'
  <2>1. answered' \subseteq Ids(types)
    BY <1>1, <1>2 DEF RegInv, LiveInv, Ids
  <2>2. raced' \/ registry'.types = types
    BY <1>1, <1>2
  <2> QED
    BY <1>1, <2>1, <2>2 DEF LiveInv, AnsweredIsLive
<1>6. RefsInv' /\ \A x \in Clients : LoadInv(x)'
  <2>1. RefsInv'
    BY <1>1, <1>3, IdleType DEF RegInv, RefsInv, RefsKnown, Known
  <2>2. \A x \in Clients : LoadInv(x)'
    BY <1>1, <1>3, IdleType DEF RegInv, LoadInv
  <2> QED
    BY <2>1, <2>2
<1> QED
  BY <1>4, <1>5, <1>6 DEF RegInv

(* A handler that stops leaves the tables and the snapshot as they are. *)
LEMMA AbortKeeps ==
  ASSUME RegInv, TypeOK', NEW c \in Clients, Abort(c)
  PROVE  RegInv'
<1>1. UNCHANGED <<types, fields, registry, answered, raced>>
  BY DEF Abort
<1>2. \A x \in Clients : handler'[x] = IF x = c THEN Idle ELSE handler[x]
  BY DEF Abort, RegInv, TypeOK
<1>3. TablesInv' /\ LiveInv'
  BY <1>1 DEF RegInv, TablesInv, UniqueNames, LiveInv, AnsweredIsLive
<1>4. RefsInv'
  BY <1>1, <1>2, IdleType DEF RegInv, RefsInv, RefsKnown, Known
<1>5. \A x \in Clients : LoadInv(x)'
  BY <1>1, <1>2, IdleType DEF RegInv, LoadInv
<1> QED
  BY <1>3, <1>4, <1>5 DEF RegInv

(* A boot loads what is committed. *)
LEMMA RestartKeeps ==
  ASSUME RegInv, TypeOK', Restart
  PROVE  RegInv'
<1>1. \A x \in Clients : handler'[x] = Idle
  BY DEF Restart
<1>2. registry' = [types |-> types, fields |-> fields] /\ UNCHANGED <<types, fields, answered>>
  BY DEF Restart
<1>3. TablesInv' /\ LiveInv'
  BY <1>2 DEF RegInv, TablesInv, UniqueNames, LiveInv, AnsweredIsLive
<1>4. RefsInv'
  BY <1>1, <1>2, IdleType DEF RegInv, RefsInv, RefsKnown, Known
<1>5. \A x \in Clients : LoadInv(x)'
  BY <1>1, <1>2, IdleType DEF RegInv, LoadInv
<1> QED
  BY <1>3, <1>4, <1>5 DEF RegInv

(* RegInv holds throughout, whoever registers and whenever the server stops. *)
THEOREM RegInvHolds == Spec => []RegInv
<1>1. RegInv /\ TypeOK' /\ [Next]_vars => RegInv'
  <2> SUFFICES ASSUME RegInv, TypeOK', [Next]_vars PROVE RegInv'
    OBVIOUS
  <2>1. CASE UNCHANGED vars
    <3>1. UNCHANGED <<types, fields, registry, handler, answered, raced>>
      BY <2>1 DEF vars
    <3> QED
      BY <3>1 DEF RegInv, TablesInv, UniqueNames, RefsInv, RefsKnown, Known, LiveInv,
                  AnsweredIsLive, LoadInv
  <2> QED
    BY <2>1, BeginKeeps, CommitKeeps, LoadKeeps, StoreKeeps, AbortKeeps, RestartKeeps DEF Next
<1> QED
  BY <1>1, RegInit, TypeCorrect, PTL DEF Spec

(* Every handler sees whole types: a snapshot assembled from two queries    *)
(* never lacks a field of a type it shows, nor shows one uncommitted.       *)
THEOREM WholeTypesHolds == Spec => []WholeTypes
<1>1. RegInv => WholeTypes
  <2> SUFFICES ASSUME RegInv, NEW t \in registry.types
               PROVE  t \in types /\ FieldsOf(registry, t.type_id) = t.fields
    BY DEF WholeTypes
  <2>1. Distinct(registry.types)
    BY DEF RegInv, TablesInv, UniqueNames, Distinct
  <2> QED
    BY <2>1, FieldsOfOne DEF RegInv, TablesInv
<1> QED
  BY <1>1, RegInvHolds, PTL

(* No two registered types share a type id or an id prefix. *)
THEOREM UniqueNamesHolds == Spec => []UniqueNames
<1>1. RegInv => UniqueNames
  BY DEF RegInv, TablesInv
<1> QED
  BY <1>1, RegInvHolds, PTL

(* A ref of a registered type never dangles, although it was validated      *)
(* against a snapshot that may be old by the time of the commit.            *)
THEOREM RefsKnownHolds == Spec => []RefsKnown
<1>1. RegInv => RefsKnown
  BY DEF RegInv, RefsInv
<1> QED
  BY <1>1, RegInvHolds, PTL

(* A type that was answered with 201 is in the snapshot, as long as no load *)
(* that a later registration had outdated was stored.                       *)
THEOREM AnsweredIsLiveHolds == Spec => []AnsweredIsLive
<1>1. RegInv => AnsweredIsLive
  BY DEF RegInv, LiveInv
<1> QED
  BY <1>1, RegInvHolds, PTL
=============================================================================
