------------------------------ MODULE Members ------------------------------
(***************************************************************************)
(* Sharing, crates/api/src/members.rs: the memberships table under any     *)
(* number of add_member, set_member and remove_member handlers.  Each      *)
(* guard is a query of its own ahead of the one statement that writes, so  *)
(* other handlers run between what is checked and what is changed.         *)
(***************************************************************************)
EXTENDS Rbac

CONSTANTS
  Clients,      \* the actors who call the API, one request in flight each
  Admins,       \* the platform admins among them
  InitialRole,  \* the memberships to begin with
  ScopeParent,  \* the scope edges to begin with
  Rosters,      \* bound: the objects whose members are managed
  Grantees,     \* bound: the entities that are made members
  Roles,        \* bound: the ranks of the roles that are granted
  Deletable,    \* bound: the entities that may be deleted meanwhile
  MaxWrites     \* bound: how many handlers write

ASSUME ClientsAssumption ==
  Clients \subseteq Entities /\ Admins \subseteq Clients
ASSUME BoundsAssumption ==
  /\ Rosters \subseteq Entities /\ Grantees \subseteq Entities
  /\ Roles \subseteq 1..4 /\ Deletable \subseteq Entities
ASSUME InitialAssumption == InitialRole \in Memberships /\ ScopeParent \in ScopeEdges
ASSUME NestingAssumption ==
  \A s, t \in Teams : InitialRole[s][t] > 0 => ~principals_contain(InitialRole, s, t)
ASSUME MaxWritesAssumption == MaxWrites \in Nat

VARIABLES
  role,         \* the memberships table
  live,         \* the entities that exist
  handler,      \* per client, the locals of its request
  writes,       \* how many handlers have written
  raced         \* history: some handler wrote although another write or a
                \*   deletion came after its first query

vars == <<role, live, handler, writes, raced>>

MANAGE_RANK == 3
Owner == 4

Handler == [pc : {"idle", "auth", "cycle", "current", "count", "write"},
            op : {"add", "set", "remove"}, obj : Entities, member : Entities,
            rank : 1..4, stale : BOOLEAN]

Request(pc, op, obj, member, rank) ==
  [pc |-> pc, op |-> op, obj |-> obj, member |-> member, rank |-> rank, stale |-> FALSE]

(* A finished handler keeps no locals: any fixed record stands for them. *)
Nobody == CHOOSE e \in Entities : TRUE
Idle == Request("idle", "add", Nobody, Nobody, 1)

InFlight(c) == handler[c].pc # "idle"

Owners(r, o) == {m \in Entities : r[o][m] = Owner}

(* The scope edges among what exists: a deleted parent is set to null. *)
parent ==
  [e \in Entities |-> IF {e, ScopeParent[e]} \subseteq live THEN ScopeParent[e] ELSE None]

----------------------------------------------------------------------------
Init ==
  /\ role = InitialRole
  /\ live = Entities
  /\ handler = [c \in Clients |-> Idle]
  /\ writes = 0
  /\ raced = FALSE

(* require_rank: no rank below min gets past it; platform admins always do. *)
require_rank(c, o, min) == c \in Admins \/ HasRank(role, parent, c, o, min)

Goto(c, pc) == handler' = [handler EXCEPT ![c].pc = pc]

Refuse(c) == handler' = [handler EXCEPT ![c] = Idle]

(* Mutant: a manager grants any role. *)
BeginGrant_NoCeiling(c, op, o, m, rank) ==
  /\ ~InFlight(c) /\ c \in live
  /\ writes < MaxWrites
  /\ o \in live
  /\ require_rank(c, o, MANAGE_RANK)
  /\ handler' = [handler EXCEPT ![c] =
       Request(IF op = "add" THEN "cycle" ELSE "current", op, o, m, rank)]
  /\ UNCHANGED <<role, live, writes, raced>>

(* add_member and set_member begin alike: the object exists, the caller     *)
(* manages it, and the role to give is not above the caller's own.          *)
BeginGrant(c, op, o, m, rank) ==
  /\ ~InFlight(c) /\ c \in live
  /\ writes < MaxWrites
  /\ o \in live
  /\ require_rank(c, o, MANAGE_RANK) /\ require_rank(c, o, rank)
  /\ handler' = [handler EXCEPT ![c] =
       Request(IF op = "add" THEN "cycle" ELSE "current", op, o, m, rank)]
  /\ UNCHANGED <<role, live, writes, raced>>

(* remove_member first reads the role to be removed, then, unless a member  *)
(* removes itself, asks for the authority.                                  *)
BeginRemove(c, o, m) ==
  /\ ~InFlight(c) /\ c \in live
  /\ writes < MaxWrites
  /\ o \in live
  /\ role[o][m] > 0
  /\ handler' = [handler EXCEPT ![c] = Request(
       IF m # c THEN "auth" ELSE IF role[o][m] = Owner THEN "count" ELSE "write",
       "remove", o, m, role[o][m])]
  /\ UNCHANGED <<role, live, writes, raced>>

(* Mutant: the nesting is searched from the wrong end. *)
CheckCycle_Reversed(c) ==
  /\ handler[c].pc = "cycle"
  /\ IF principals_contain(role, handler[c].member, handler[c].obj)
     THEN Refuse(c) ELSE Goto(c, "write")
  /\ UNCHANGED <<role, live, writes, raced>>

(* The team-nesting guard of add_member. *)
CheckCycle(c) ==
  /\ handler[c].pc = "cycle"
  /\ IF principals_contain(role, handler[c].obj, handler[c].member)
     THEN Refuse(c) ELSE Goto(c, "write")
  /\ UNCHANGED <<role, live, writes, raced>>

(* current_role in set_member: 404 without a row; only the demotion of an   *)
(* owner needs the owner count.                                             *)
ReadCurrent(c) ==
  LET h == handler[c] IN
  /\ h.pc = "current"
  /\ IF role[h.obj][h.member] = 0 THEN Refuse(c)
     ELSE Goto(c, IF role[h.obj][h.member] = Owner /\ h.rank # Owner THEN "count" ELSE "write")
  /\ UNCHANGED <<role, live, writes, raced>>

(* require_rank in remove_member; the rank read before says what follows. *)
CheckAuthority(c) ==
  /\ handler[c].pc = "auth"
  /\ IF require_rank(c, handler[c].obj, MANAGE_RANK)
     THEN Goto(c, IF handler[c].rank = Owner THEN "count" ELSE "write") ELSE Refuse(c)
  /\ UNCHANGED <<role, live, writes, raced>>

(* Mutant: the guard lets the last owner go. *)
CountOwners_Zero(c) ==
  /\ handler[c].pc = "count"
  /\ IF Cardinality(Owners(role, handler[c].obj)) <= 0 THEN Refuse(c) ELSE Goto(c, "write")
  /\ UNCHANGED <<role, live, writes, raced>>

(* The last-owner guard of set_member and remove_member. *)
CountOwners(c) ==
  /\ handler[c].pc = "count"
  /\ IF Cardinality(Owners(role, handler[c].obj)) <= 1 THEN Refuse(c) ELSE Goto(c, "write")
  /\ UNCHANGED <<role, live, writes, raced>>

(* The rank the write leaves: add_member upserts a row between entities     *)
(* that exist, set_member updates a row if there is one.                    *)
Written(h) ==
  CASE h.op = "remove" -> 0
    [] h.op = "set" /\ role[h.obj][h.member] = 0 -> 0
    [] OTHER -> h.rank

(* Mutant: a grant stores the rank above the one that was asked for. *)
Write_Promote(c) ==
  LET h == handler[c] IN
  /\ h.pc = "write"
  /\ role' = [role EXCEPT ![h.obj][h.member] = IF Written(h) > 0 THEN Written(h) + 1 ELSE 0]
  /\ handler' = [x \in Clients |-> IF x = c THEN Idle ELSE handler[x]]
  /\ writes' = writes + 1
  /\ UNCHANGED <<live, raced>>

(* The statement that writes; what it finds changed goes unnoticed.  Its    *)
(* audit row is not modelled: no handler reads it.                          *)
Write(c) ==
  LET h == handler[c] IN
  /\ h.pc = "write"
  /\ IF h.op = "add" /\ ~({h.obj, h.member} \subseteq live)
     THEN Refuse(c) /\ UNCHANGED <<role, writes, raced>>
     ELSE /\ role' = [role EXCEPT ![h.obj][h.member] = Written(h)]
          /\ handler' = [x \in Clients |-> IF x = c THEN Idle
                           ELSE [handler[x] EXCEPT !.stale = InFlight(x)]]
          /\ writes' = writes + 1
          /\ raced' = (raced \/ h.stale)
  /\ UNCHANGED live

(* item_delete of an entity: the cascade takes its memberships with it. *)
DeleteEntity(e) ==
  /\ e \in live
  /\ live' = live \ {e}
  /\ role' = [o \in Entities |-> [m \in Entities |-> IF e \in {o, m} THEN 0 ELSE role[o][m]]]
  /\ handler' = [x \in Clients |-> [handler[x] EXCEPT !.stale = InFlight(x)]]
  /\ UNCHANGED <<writes, raced>>

(* The handler is dropped, or its next statement fails: it ends here. *)
Abort(c) ==
  /\ InFlight(c)
  /\ Refuse(c)
  /\ UNCHANGED <<role, live, writes, raced>>

HandlerStep(c) ==
  CheckCycle(c) \/ ReadCurrent(c) \/ CheckAuthority(c) \/ CountOwners(c) \/ Write(c)

Next ==
  \/ \E c \in Clients :
       \/ \E op \in {"add", "set"}, o \in Rosters, m \in Grantees, rank \in Roles :
            BeginGrant(c, op, o, m, rank)
       \/ \E o \in Rosters, m \in Grantees : BeginRemove(c, o, m)
       \/ HandlerStep(c)
       \/ Abort(c)
  \/ \E e \in Deletable : DeleteEntity(e)

Spec == Init /\ [][Next]_vars

----------------------------------------------------------------------------
(* The roster and the locals of the handlers have their types. *)
TypeOK ==
  /\ role \in Memberships
  /\ live \subseteq Entities
  /\ handler \in [Clients -> Handler]
  /\ writes \in Nat
  /\ raced \in BOOLEAN

(* The last-owner guard holds against one handler at a time: a PATCH or     *)
(* DELETE that nothing else overlapped leaves an owned object owned.        *)
LastOwnerGuard ==
  [][\A c \in Clients :
       LET h == handler[c] IN
       h.pc = "write" /\ handler'[c].pc = "idle" /\ h.op # "add" /\ ~h.stale
         => (Owners(role, h.obj) # {} => Owners(role', h.obj) # {})]_role

(* A team that contains itself through other teams. *)
Nested(t) == \E s \in Teams : role[s][t] > 0 /\ t \in principals(role, s)

(* The cycle guard holds unless handlers race: however teams are nested and *)
(* entities deleted, no team becomes a member of itself.                    *)
TeamsAcyclic == raced \/ \A t \in Teams : ~Nested(t)

(* The scope chains are within the depth cap, as they are meant to be: a    *)
(* depth of at most MaxDepth per entity, greater than its parent's.         *)
ShallowScopes ==
  \E depth \in [Entities -> 0..MaxDepth] :
    \A e \in Entities : ScopeParent[e] # None => depth[ScopeParent[e]] < depth[e]

(* What an actor may list is exactly what the item gate lets it view, for   *)
(* scope chains within the depth cap: the cascade down from the shared      *)
(* objects and the climb up from one object agree in every state.           *)
ListMatchesGate ==
  \A a \in Clients :
    reachable_entity_ids(role, parent, a) = {o \in Entities : HasRank(role, parent, a, o, 1)}

(* An object and everything above it, however deep. *)
UpClosed(S) == \A o \in S : ScopeParent[o] \in S \cup {None}
Ancestors ==
  [o \in Entities |-> {s \in Entities : \A S \in SUBSET Entities : o \in S /\ UpClosed(S) => s \in S}]

(* "No privilege escalation": as long as no platform admin grants it, a     *)
(* rank on an object was held by somebody on the object or above it to      *)
(* begin with, however grants, revocations and deletions interleave and     *)
(* however teams are nested.                                                *)
NoEscalation ==
  Admins = {} => \A o \in Entities, m \in Entities :
    \E s \in Ancestors[o], x \in Entities : InitialRole[s][x] >= role[o][m]

(* "Last-owner guard": every live object that had an owner has one. *)
OwnerKept ==
  \A o \in live : Owners(InitialRole, o) # {} => Owners(role, o) # {}
=============================================================================
