-------------------------------- MODULE Rbac --------------------------------
(***************************************************************************)
(* The reach resolver of crates/api/src/rbac.rs as operators on a table    *)
(* of memberships: role[o][m] is the rank member m holds on object o, and  *)
(* 0 when there is no such row.                                            *)
(***************************************************************************)
EXTENDS Integers, FiniteSets

CONSTANTS
  Entities,     \* actors, teams and the objects they share
  Teams,
  None,         \* no scope parent
  MaxDepth      \* how far effective_rank climbs: 8 in the code

ASSUME EntitiesAssumption ==
  Teams \subseteq Entities /\ IsFiniteSet(Entities) /\ None \notin Entities
ASSUME MaxDepthAssumption == MaxDepth \in Nat

Ranks == 0..4

Memberships == [Entities -> [Entities -> Ranks]]

(* The scope edges: entity_data.scope_parent_id of each entity, or None. *)
ScopeEdges == [Entities -> Entities \cup {None}]

(* S has every team that the actor or a team of S is a member of. *)
HasItsTeams(role, a, S) ==
  \A t \in Teams, m \in S \cup {a} : role[t][m] > 0 => t \in S

(* The actor and every team it belongs to, directly or through a team: the  *)
(* least fixpoint that the recursive query computes.                        *)
principals(role, a) ==
  {a} \cup {t \in Teams : \A S \in SUBSET Teams : HasItsTeams(role, a, S) => t \in S}

(* principals_contain, the guard against cycles. *)
principals_contain(role, root, target) == target \in principals(role, root)

(* The object and its ancestors, as far up as the depth cap. *)
scopes(parent, o) ==
  LET S[n \in Nat] ==
        IF n = 0 THEN {o}
        ELSE LET ss == S[n - 1] IN ss \cup ({parent[s] : s \in ss} \ {None})
  IN  S[MaxDepth]

(* effective_rank is at least min, the form in which every gate uses it:    *)
(* a principal holds such a role on the object or on an ancestor.           *)
HasRank(role, parent, a, o, min) ==
  LET ps == principals(role, a) IN
  \E s \in scopes(parent, o) : \E m \in ps : role[s][m] >= min /\ role[s][m] > 0

(* The objects that a principal of the actor is a member of. *)
Anchors(role, a) ==
  LET ps == principals(role, a) IN {o \in Entities : \E m \in ps : role[o][m] > 0}

(* Mutant: only the children of what is shared, not their own children. *)
reachable_entity_ids_OneLevel(role, parent, a) ==
  Anchors(role, a) \cup {o \in Entities : parent[o] \in Anchors(role, a)}

(* reachable_entity_ids: down from the objects a principal is a member of,  *)
(* without a depth cap.                                                     *)
reachable_entity_ids(role, parent, a) ==
  LET R[n \in Nat] ==
        IF n = 0 THEN Anchors(role, a)
        ELSE LET rs == R[n - 1] IN rs \cup {o \in Entities : parent[o] \in rs}
  IN  R[Cardinality(Entities)]
=============================================================================
