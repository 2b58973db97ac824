----------------------------- MODULE Relations -----------------------------
(***************************************************************************)
(* Typed edges between entities, crates/api/src/relations.rs, on top of    *)
(* the sharing of Members: create, list and delete handlers, whose gates   *)
(* and statements are steps of their own, while memberships change and     *)
(* entities are deleted under them.  The relation_type is left out: one    *)
(* registered type stands for each of them.                                *)
(***************************************************************************)
EXTENDS Members

CONSTANTS
  InitialEdges,   \* the relations to begin with
  Linkable,       \* bound: the entities that are linked and listed
  MaxLinks,       \* bound: how many relation requests begin
  Mixed           \* bound: whose requests on whose role where run along with them

(* The table's primary key and its unique constraint, and create_relation's *)
(* refusal of an edge from an entity to itself, held when it was filled.    *)
ASSUME InitialEdgesAssumption ==
  /\ InitialEdges \subseteq [id : Int, subject : Entities, object : Entities]
  /\ \A e \in InitialEdges : e.id <= 0 /\ e.subject # e.object
  /\ \A e, d \in InitialEdges :
       e.id = d.id \/ (e.subject = d.subject /\ e.object = d.object) => e = d
ASSUME RelationsAssumption ==
  /\ Linkable \subseteq Entities
  /\ MaxLinks \in Nat
  /\ Mixed \subseteq Clients \X Rosters \X Grantees

VARIABLES
  edges,        \* the relations table
  link,         \* per client, the locals of its relation request
  links,        \* how many relation requests have begun; the last minted id
  linking       \* whether this behaviour has relation requests

relVars == <<role, live, handler, writes, raced, edges, link, links, linking>>

NoLink == [pc |-> "idle", id |-> 0, subject |-> Nobody, object |-> Nobody, rows |-> {},
           stale |-> FALSE]

Between(e, a, b) == e.subject = a /\ e.object = b

Touching(S, a) == {e \in S : a \in {e.subject, e.object}}

(* reach_action: the entity exists and the caller has the rank. *)
reach_action(c, o, min) == o \in live /\ require_rank(c, o, min)

View == 1
Edit == 2

(* What the others have under way is no longer what they have read. *)
Overtaken == [x \in Clients |-> [link[x] EXCEPT !.stale = @ \/ link[x].pc # "idle"]]

To(c, pc) == link' = [link EXCEPT ![c].pc = pc]

End(c) == link' = [link EXCEPT ![c] = NoLink]

Keep == UNCHANGED <<role, live, handler, writes, raced, linking>>

BeginLink(c) ==
  /\ link[c].pc = "idle" /\ c \in live
  /\ linking /\ links < MaxLinks
  /\ links' = links + 1
  /\ Keep /\ UNCHANGED edges

----------------------------------------------------------------------------
RelationsInit ==
  /\ Init
  /\ edges = InitialEdges
  /\ link = [c \in Clients |-> NoLink]
  /\ links = 0
  /\ linking \in BOOLEAN

(* create_relation: the gate on the subject, then the one on the object. *)
BeginCreate(c, s, o) ==
  /\ BeginLink(c)
  /\ s # o
  /\ reach_action(c, s, Edit)
  /\ link' = [link EXCEPT ![c] =
       [NoLink EXCEPT !.pc = "object", !.id = links + 1, !.subject = s, !.object = o]]

CheckObject(c) ==
  /\ link[c].pc = "object"
  /\ IF reach_action(c, link[c].object, View) THEN To(c, "insert") ELSE End(c)
  /\ Keep /\ UNCHANGED <<edges, links>>

(* Mutant: the foreign keys are gone. *)
InsertEdge_NoForeignKey(c) ==
  LET l == link[c] IN
  /\ l.pc = "insert"
  /\ edges' = edges \cup {[id |-> l.id, subject |-> l.subject, object |-> l.object]}
  /\ link' = [Overtaken EXCEPT ![c] = NoLink]
  /\ Keep /\ UNCHANGED links

(* The INSERT: both ends must still exist (422) and the edge be new (409). *)
InsertEdge(c) ==
  LET l == link[c] IN
  /\ l.pc = "insert"
  /\ IF {l.subject, l.object} \subseteq live /\ ~\E e \in edges : Between(e, l.subject, l.object)
     THEN /\ edges' = edges \cup {[id |-> l.id, subject |-> l.subject, object |-> l.object]}
          /\ link' = [Overtaken EXCEPT ![c] = NoLink]
     ELSE End(c) /\ UNCHANGED edges
  /\ Keep /\ UNCHANGED links

(* list_relations: the gate on the anchor, the rows, then the filter. *)
BeginListing(c, a) ==
  /\ BeginLink(c)
  /\ reach_action(c, a, View)
  /\ link' = [link EXCEPT ![c] = [NoLink EXCEPT !.pc = "rows", !.subject = a]]

SelectRows(c) ==
  /\ link[c].pc = "rows"
  /\ link' = [link EXCEPT ![c].pc = "filter", ![c].rows = Touching(edges, link[c].subject)]
  /\ Keep /\ UNCHANGED <<edges, links>>

(* The end of an edge that is not the anchor. *)
Other(e, a) == IF e.subject = a THEN e.object ELSE e.subject

(* Mutant: the leak guard looks at the anchor. *)
FilterRows_Anchor(c) ==
  LET a == link[c].subject IN
  /\ link[c].pc = "filter"
  /\ link' = [link EXCEPT ![c].pc = "answered", ![c].rows =
       {e \in @ : c \in Admins \/ a \in reachable_entity_ids(role, parent, c)}]
  /\ Keep /\ UNCHANGED <<edges, links>>

(* The leak guard: the other end must be in the caller's reach set. *)
FilterRows(c) ==
  LET a == link[c].subject IN
  /\ link[c].pc = "filter"
  /\ link' = [link EXCEPT ![c].pc = "answered", ![c].rows =
       {e \in @ : c \in Admins \/ Other(e, a) \in reachable_entity_ids(role, parent, c)}]
  /\ Keep /\ UNCHANGED <<edges, links>>

(* delete_relation: the row's subject, the gate on it, then the DELETE by id. *)
BeginUnlink(c, e) ==
  /\ BeginLink(c)
  /\ e \in edges
  /\ link' = [link EXCEPT ![c] =
       [NoLink EXCEPT !.pc = "edge", !.id = e.id, !.subject = e.subject, !.object = e.object]]

(* Mutant: the gate is on the other end. *)
CheckEdge_Object(c) ==
  /\ link[c].pc = "edge"
  /\ IF reach_action(c, link[c].object, Edit) THEN To(c, "remove") ELSE End(c)
  /\ Keep /\ UNCHANGED <<edges, links>>

CheckEdge(c) ==
  /\ link[c].pc = "edge"
  /\ IF reach_action(c, link[c].subject, Edit) THEN To(c, "remove") ELSE End(c)
  /\ Keep /\ UNCHANGED <<edges, links>>

RemoveEdge(c) ==
  /\ link[c].pc = "remove"
  /\ edges' = {e \in edges : e.id # link[c].id}
  /\ link' = [IF edges' = edges THEN link ELSE Overtaken EXCEPT ![c] = NoLink]
  /\ Keep /\ UNCHANGED links

(* The request has its answer, or it is dropped on the way. *)
EndLink(c) ==
  /\ link[c].pc # "idle"
  /\ End(c)
  /\ Keep /\ UNCHANGED <<edges, links>>

(* A step of the sharing handlers or a deletion, whose cascade takes the    *)
(* edges of the entity along.                                               *)
MembersStep ==
  /\ Next
  /\ linking => \A c \in Clients : handler'[c].pc # "idle" =>
                  <<c, handler'[c].obj, handler'[c].member>> \in Mixed
  /\ edges' = {e \in edges : {e.subject, e.object} \subseteq live'}
  /\ link' = IF role' = role /\ live' = live THEN link ELSE Overtaken
  /\ UNCHANGED <<links, linking>>

RelationsNext ==
  \/ MembersStep
  \/ \E c \in Clients :
       \/ \E s \in Linkable, o \in Linkable : BeginCreate(c, s, o)
       \/ \E a \in Linkable : BeginListing(c, a)
       \/ \E e \in edges : BeginUnlink(c, e)
       \/ CheckObject(c) \/ InsertEdge(c) \/ SelectRows(c) \/ FilterRows(c)
       \/ CheckEdge(c) \/ RemoveEdge(c) \/ EndLink(c)

RelationsSpec == RelationsInit /\ [][RelationsNext]_relVars

----------------------------------------------------------------------------
(* "Readable iff the caller reaches BOTH endpoints": an answer that nothing *)
(* overtook holds exactly the anchor's edges with two ends the item gate    *)
(* lets the caller view, although one end is gated by the climb and the     *)
(* other by the cascade.                                                    *)
ListingExact ==
  \A c \in Clients : LET l == link[c] IN
    l.pc = "answered" /\ ~l.stale =>
      l.rows = {e \in Touching(edges, l.subject) :
                  reach_action(c, e.subject, View) /\ reach_action(c, e.object, View)}

(* No edge dangles, though its ends may be deleted between the gates and    *)
(* the INSERT, and none is there twice.                                     *)
EdgesSound ==
  /\ \A e \in edges : {e.subject, e.object} \subseteq live /\ e.subject # e.object
  /\ \A e, d \in edges : Between(e, d.subject, d.object) => e = d

(* "Writable iff they can edit the subject": a handler that nothing overtook *)
(* changes no edge but one whose subject the caller edits now and, to link   *)
(* it, whose object the caller views: the DELETE by id takes the row that    *)
(* was gated, the INSERT adds it.                                            *)
LinkAuthority ==
  [][\A c \in Clients : LET l == link[c] IN
       l.pc \in {"insert", "remove"} /\ link'[c].pc = "idle" /\ ~l.stale
         => \A e \in (edges \ edges') \cup (edges' \ edges) :
              /\ reach_action(c, e.subject, Edit)
              /\ e \in edges' => reach_action(c, e.object, View)]_relVars
=============================================================================
