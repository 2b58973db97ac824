------------------------------ MODULE Registry ------------------------------
(***************************************************************************)
(* Type registration, crates/api/src/types.rs and registry.rs: the tables  *)
(* type_definitions and type_fields, the registry snapshot that every      *)
(* handler reads, and any number of create_type handlers in flight.  A     *)
(* handler validates against the snapshot, commits both tables in one      *)
(* transaction, then reads them back in two queries and swaps the          *)
(* snapshot; others run in between.                                        *)
(***************************************************************************)
EXTENDS Integers, FiniteSets

CONSTANTS
  Clients,      \* the platform admins who register types, one request each
  TypeIds,      \* the type ids that are well formed and not reserved
  Prefixes,     \* the well formed id prefixes
  Names,        \* the field names that are well formed and not reserved
  Absent,       \* no options.default, no options.ref
  Builtin,      \* the types that the migrations seed
  Specs         \* the bodies callers send

(* A field of a spec: options.enum is a set, options.default and options.ref may be   *)
(* absent.  Labels, ordinals and display names are left out.                *)
FieldShape == {"name", "kind", "required", "editable", "perm", "enum", "default", "ref"}
SpecShape == {"type_id", "prefix", "fields", "scope_parents"}

ASSUME SpecsAssumption ==
  /\ Specs # {}
  /\ \A s \in Builtin \cup Specs :
       DOMAIN s = SpecShape /\ \A f \in s.fields : DOMAIN f = FieldShape
ASSUME BuiltinAssumption ==
  \A s, t \in Builtin : s.type_id = t.type_id \/ s.prefix = t.prefix => s = t

VARIABLES
  types,        \* type_definitions: the specs whose type row is committed
  fields,       \* type_fields: pairs of a type id and a field
  registry,     \* the snapshot: the types and fields it was loaded with
  handler,      \* per client, the locals of its create_type call
  answered,     \* history: the type ids answered with 201
  raced         \* history: a snapshot was stored although another
                \*   registration was committed after it was read

vars == <<types, fields, registry, handler, answered, raced>>

KINDS == {"text", "int", "bool", "date", "json", "ref", "enum"}
PERM_CLASSES == {"system", "readonly", "standard", "owner_grade"}

FieldRows(ss) == UNION {{<<s.type_id, f>> : f \in s.fields} : s \in ss}

(* What a snapshot makes of one type. *)
FieldsOf(snapshot, id) == {r[2] : r \in {x \in snapshot.fields : x[1] = id}}

Ids(ss) == {s.type_id : s \in ss}

(* A finished handler keeps no locals: any fixed record stands for them. *)
NoSpec == CHOOSE s \in Specs : TRUE
Idle == [pc |-> "idle", spec |-> NoSpec, types |-> {}, fields |-> {}, stale |-> FALSE]

InFlight(c) == handler[c].pc # "idle"

----------------------------------------------------------------------------
settable(f) == f.perm \notin {"system", "readonly"}

(* The prefixes of the types in the snapshot. *)
Taken(snapshot) == {t.prefix : t \in snapshot.types}

(* Mutant: a ref may name any prefix. *)
field_ok_AnyRef(f, spec, snapshot) ==
  /\ f.name \in Names
  /\ \A g \in spec.fields : g.name = f.name => g = f
  /\ f.kind \in KINDS /\ f.perm \in PERM_CLASSES
  /\ f.kind = "enum" => f.enum # {} /\ f.default \in f.enum \cup {Absent}
  /\ f.required /\ ~settable(f) => f.default # Absent

(* The body of the field loop of validate_spec. *)
field_ok(f, spec, snapshot) ==
  /\ f.name \in Names
  /\ \A g \in spec.fields : g.name = f.name => g = f
  /\ f.kind \in KINDS /\ f.perm \in PERM_CLASSES
  /\ f.kind = "enum" => f.enum # {} /\ f.default \in f.enum \cup {Absent}
  /\ f.kind = "ref" => f.ref \in {Absent, spec.prefix} \cup Taken(snapshot)
  /\ f.required /\ ~settable(f) => f.default # Absent

validate_spec(spec, snapshot) ==
  /\ spec.type_id \in TypeIds \ Ids(snapshot.types)
  /\ spec.prefix \in Prefixes \ Taken(snapshot)
  /\ spec.fields # {}
  /\ \A f \in spec.fields : field_ok(f, spec, snapshot)
  /\ \A sp \in spec.scope_parents :
       \E f \in spec.fields : f.name = sp /\ f.kind = "ref" /\ ~f.editable

----------------------------------------------------------------------------
Init ==
  /\ types = Builtin
  /\ fields = FieldRows(Builtin)
  /\ registry = [types |-> types, fields |-> fields]
  /\ handler = [c \in Clients |-> Idle]
  /\ answered = {}
  /\ raced = FALSE

(* create_type up to its transaction. *)
Begin(c, spec) ==
  /\ ~InFlight(c)
  /\ validate_spec(spec, registry)
  /\ handler' = [handler EXCEPT ![c] = [Idle EXCEPT !.pc = "commit", !.spec = spec]]
  /\ UNCHANGED <<types, fields, registry, answered, raced>>

(* The handlers after another registration is committed. *)
Outdated(c) ==
  [x \in Clients |->
     IF x = c THEN [handler[c] EXCEPT !.pc = "types"]
     ELSE [handler[x] EXCEPT !.stale = @ \/ handler[x].pc \in {"fields", "store"}]]

(* Mutants: the INSERT leaves out scope_parents ... *)
Commit_NoScope(c) ==
  LET spec == handler[c].spec IN
  /\ handler[c].pc = "commit"
  /\ \A t \in types : t.type_id # spec.type_id /\ t.prefix # spec.prefix
  /\ types' = types \cup {[spec EXCEPT !.scope_parents = {}]}
  /\ fields' = fields \cup FieldRows({spec})
  /\ handler' = Outdated(c)
  /\ UNCHANGED <<registry, answered, raced>>

(* ... or the prefix has no unique constraint. *)
Commit_AnyPrefix(c) ==
  LET spec == handler[c].spec IN
  /\ handler[c].pc = "commit"
  /\ spec.type_id \notin Ids(types)
  /\ types' = types \cup {spec}
  /\ fields' = fields \cup FieldRows({spec})
  /\ handler' = Outdated(c)
  /\ UNCHANGED <<registry, answered, raced>>

(* The transaction: all rows or, when a unique constraint fails, none. *)
Commit(c) ==
  LET spec == handler[c].spec IN
  /\ handler[c].pc = "commit"
  /\ IF \E t \in types : t.type_id = spec.type_id \/ t.prefix = spec.prefix
     THEN /\ handler' = [handler EXCEPT ![c] = Idle]
          /\ UNCHANGED <<types, fields>>
     ELSE /\ types' = types \cup {spec}
          /\ fields' = fields \cup FieldRows({spec})
          /\ handler' = Outdated(c)
  /\ UNCHANGED <<registry, answered, raced>>

(* Mutant: the fields are read ahead of the types. *)
load_FieldsFirst(c) ==
  /\ \/ /\ handler[c].pc = "types"
        /\ handler' = [handler EXCEPT ![c].pc = "fields", ![c].fields = fields]
     \/ /\ handler[c].pc = "fields"
        /\ handler' = [handler EXCEPT ![c].pc = "store", ![c].types = types,
             ![c].fields = {r \in @ : r[1] \in Ids(types)}]
  /\ UNCHANGED <<types, fields, registry, answered, raced>>

(* TypeDefCache::load: the types, then the fields of the types just read. *)
load(c) ==
  /\ \/ /\ handler[c].pc = "types"
        /\ handler' = [handler EXCEPT ![c].pc = "fields", ![c].types = types]
     \/ /\ handler[c].pc = "fields"
        /\ handler' = [handler EXCEPT ![c].pc = "store",
             ![c].fields = {r \in fields : r[1] \in Ids(handler[c].types)}]
  /\ UNCHANGED <<types, fields, registry, answered, raced>>

(* Mutant: the fresh snapshot is never swapped in. *)
Store_NoSwap(c) ==
  /\ handler[c].pc = "store"
  /\ answered' = answered \cup {handler[c].spec.type_id}
  /\ raced' = (raced \/ handler[c].stale)
  /\ handler' = [handler EXCEPT ![c] = Idle]
  /\ UNCHANGED <<types, fields, registry>>

(* The swap, and the answer.  The audit row is not modelled: no handler     *)
(* reads it.                                                                *)
Store(c) ==
  /\ handler[c].pc = "store"
  /\ registry' = [types |-> handler[c].types, fields |-> handler[c].fields]
  /\ answered' = answered \cup {handler[c].spec.type_id}
  /\ raced' = (raced \/ handler[c].stale)
  /\ handler' = [handler EXCEPT ![c] = Idle]
  /\ UNCHANGED <<types, fields>>

(* The handler is dropped, or its next statement fails: it ends here. *)
Abort(c) ==
  /\ InFlight(c)
  /\ handler' = [handler EXCEPT ![c] = Idle]
  /\ UNCHANGED <<types, fields, registry, answered, raced>>

(* The process stops, drops its requests and boots with a fresh snapshot. *)
Restart ==
  /\ registry' = [types |-> types, fields |-> fields]
  /\ handler' = [c \in Clients |-> Idle]
  /\ raced' = FALSE
  /\ UNCHANGED <<types, fields, answered>>

Next ==
  \/ \E c \in Clients :
       \/ \E spec \in Specs : Begin(c, spec)
       \/ Commit(c) \/ load(c) \/ Store(c) \/ Abort(c)
  \/ Restart

Spec == Init /\ [][Next]_vars

----------------------------------------------------------------------------
Handler == [pc : {"idle", "commit", "types", "fields", "store"}, spec : Specs,
            types : SUBSET (Builtin \cup Specs), fields : SUBSET FieldRows(Builtin \cup Specs),
            stale : BOOLEAN]

(* What is committed and loaded comes whole from a seeded or sent type. *)
TypeOK ==
  /\ types \subseteq Builtin \cup Specs
  /\ fields \subseteq FieldRows(Builtin \cup Specs)
  /\ registry.types \subseteq Builtin \cup Specs
  /\ registry.fields \subseteq FieldRows(Builtin \cup Specs)
  /\ handler \in [Clients -> Handler]
  /\ answered \subseteq Ids(Specs)
  /\ raced \in BOOLEAN

(* Whatever commits between the two queries of a load, the registry never   *)
(* shows half a type: each type in it is committed, with all its fields and *)
(* no others, so that check_input and validate_final apply its whole schema.*)
WholeTypes ==
  \A t \in registry.types : t \in types /\ FieldsOf(registry, t.type_id) = t.fields

(* Two callers who validated against the same snapshot cannot both take a   *)
(* type id or a prefix: an id prefix says the type of an entity.            *)
UniqueNames ==
  \A s, t \in types : s.type_id = t.type_id \/ s.prefix = t.prefix => s = t

(* A ref field of a registered type names a type that is registered, even   *)
(* if the snapshot it was validated against has been replaced since.        *)
RefsKnown ==
  \A t \in types \ Builtin : \A f \in t.fields :
    f.kind = "ref" /\ f.ref # Absent => \E u \in types : u.prefix = f.ref

(* "The type is live everywhere with no restart": what was answered with    *)
(* 201 is in the registry, unless an older snapshot was stored over it.     *)
AnsweredIsLive == raced \/ answered \subseteq Ids(registry.types)

(* The same as create_type's comment has it, without the exception: what    *)
(* was answered with 201 is live.  Two loads may be stored in the opposite  *)
(* order of their reads, so the code does not keep it.                      *)
LiveEverywhere == answered \subseteq Ids(registry.types)
=============================================================================
