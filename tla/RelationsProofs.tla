--------------------------- MODULE RelationsProofs ---------------------------
(***************************************************************************)
(* Proofs about Relations, for every table of relations to begin with and  *)
(* any number of handlers that link, unlink and list while memberships     *)
(* change and entities are deleted under them.                             *)
(***************************************************************************)
EXTENDS Relations, MembersProofs

----------------------------------------------------------------------------
(* The sharing underneath. *)

(* A relation request writes nothing that a sharing handler reads or        *)
(* writes: relations.rs on top of members.rs behaves as members.rs, so      *)
(* every theorem about Spec holds of RelationsSpec.                         *)
THEOREM RelationsImplementMembers == RelationsSpec => Spec
<1>1. RelationsInit => Init
  BY DEF RelationsInit
<1>2. [RelationsNext]_relVars => [Next]_vars
  <2> SUFFICES ASSUME [RelationsNext]_relVars, ~Next PROVE UNCHANGED vars
    OBVIOUS
  <2>1. CASE UNCHANGED relVars
    BY <2>1 DEF relVars, vars
  <2>2. CASE RelationsNext
    BY <2>2 DEF RelationsNext, MembersStep, BeginCreate, BeginListing, BeginUnlink, BeginLink,
          CheckObject, InsertEdge, SelectRows, FilterRows, CheckEdge, RemoveEdge, EndLink, Keep, vars
  <2> QED
    BY <2>1, <2>2
<1> QED
  BY <1>1, <1>2, PTL DEF RelationsSpec, Spec

----------------------------------------------------------------------------
(* The types. *)

Edge == [id : Int, subject : Entities, object : Entities]

LinkPcs == {"idle", "object", "insert", "rows", "filter", "answered", "edge", "remove"}

Link == [pc : LinkPcs, id : Int, subject : Entities, object : Entities, rows : SUBSET Edge,
         stale : BOOLEAN]

(* What a finished request is left with. *)
LEMMA NoLinkType ==
  ASSUME NEW c \in Clients
  PROVE  NoLink \in Link /\ NoLink.pc = "idle"
<1>1. Nobody \in Entities
  BY ClientsAssumption DEF Nobody
<1> QED
  BY <1>1 DEF NoLink, Link, LinkPcs

(* A request moves on with another record of locals. *)
LEMMA LinkMove ==
  ASSUME link \in [Clients -> Link], NEW c \in Clients, NEW k \in Link, link' = [link EXCEPT ![c] = k]
  PROVE  /\ link' \in [Clients -> Link] /\ link'[c] = k
         /\ \A x \in Clients \ {c} : link'[x] = link[x]
OBVIOUS

(* A write or a deletion overtakes a request. *)
LEMMA MarkedLink ==
  ASSUME link \in [Clients -> Link], NEW x \in Clients
  PROVE  LET k == Overtaken[x] IN
         /\ k \in Link /\ k.pc = link[x].pc /\ k.id = link[x].id /\ k.subject = link[x].subject
         /\ k.object = link[x].object /\ (k.pc # "idle" => k.stale)
<1> DEFINE k == Overtaken[x]
           st == link[x].stale \/ link[x].pc # "idle"
<1>1. link[x] \in Link
  OBVIOUS
<1>2. st \in BOOLEAN /\ k = [link[x] EXCEPT !.stale = st]
  BY <1>1 DEF Overtaken, Link
<1> HIDE DEF st
<1>3. /\ k \in Link /\ k.pc = link[x].pc /\ k.id = link[x].id /\ k.subject = link[x].subject
      /\ k.object = link[x].object /\ k.stale = st
  <2> HIDE DEF k
  <2> QED
    BY <1>1, <1>2 DEF Link
<1> QED
  BY <1>3 DEF st


----------------------------------------------------------------------------
(* What a request knows. *)

(* The gate as a function of the tables. *)
ParentIn(l) == [e \in Entities |-> IF {e, ScopeParent[e]} \subseteq l THEN ScopeParent[e] ELSE None]
May(r, l, c, o, min) == o \in l /\ (c \in Admins \/ HasRank(r, ParentIn(l), c, o, min))

(* It is reach_action. *)
LEMMA MayIsReach ==
  ASSUME NEW c, NEW o, NEW min
  PROVE  reach_action(c, o, min) <=> May(role, live, c, o, min)
BY DEF reach_action, require_rank, May, parent, ParentIn

(* The edges of an anchor that a caller may read. *)
Readable(E, r, l, c, a) ==
  {e \in Touching(E, a) : May(r, l, c, e.subject, View) /\ May(r, l, c, e.object, View)}

(* A request that nothing overtook would pass its gates again, and goes by  *)
(* the rows as they are.                                                    *)
Informed(c, k, r, l, E) ==
  /\ k.pc \in {"object", "insert"} => k.subject # k.object
  /\ ~k.stale =>
       /\ k.pc \in {"object", "insert", "remove"} => May(r, l, c, k.subject, Edit)
       /\ k.pc = "insert" => May(r, l, c, k.object, View)
       /\ k.pc \in {"rows", "filter", "answered"} => May(r, l, c, k.subject, View)
       /\ k.pc = "filter" => k.rows = Touching(E, k.subject)
       /\ k.pc = "answered" /\ ShallowScopes => k.rows = Readable(E, r, l, c, k.subject)

Creating == {"object", "insert"}
Unlinking == {"edge", "remove"}

(* The ids name one edge each: of the table, to be inserted, or to be       *)
(* removed, in which case its ends are the ones that were read.             *)
Identified ==
  /\ \A e \in edges : e.id <= links
  /\ \A e, d \in edges : e.id = d.id => e = d
  /\ \A c \in Clients : link[c].id <= links
  /\ \A c \in Clients : link[c].pc \in Creating => \A e \in edges : e.id # link[c].id
  /\ \A c, x \in Clients :
       c # x /\ link[c].pc \in Creating /\ link[x].pc \in Creating \cup Unlinking
         => link[c].id # link[x].id
  /\ \A c \in Clients : link[c].pc \in Unlinking =>
       \A e \in edges : e.id = link[c].id =>
         e.subject = link[c].subject /\ e.object = link[c].object

RelationsInv ==
  /\ edges \subseteq Edge /\ link \in [Clients -> Link] /\ links \in Nat
  /\ EdgesSound
  /\ \A c \in Clients : Informed(c, link[c], role, live, edges)
  /\ Identified

(* A step of one request that writes nothing. *)
LEMMA QuietLink ==
  ASSUME RelationsInv, NEW c \in Clients, NEW k \in Link, link' = [link EXCEPT ![c] = k],
         UNCHANGED <<role, live, edges>>, links' \in Nat, links' >= links,
         Informed(c, k, role, live, edges), k.id <= links',
         k.pc \in Creating => (link[c].pc \in Creating /\ k.id = link[c].id) \/ k.id > links,
         k.pc \in Unlinking =>
           \/ /\ link[c].pc \in Unlinking /\ k.id = link[c].id
              /\ k.subject = link[c].subject /\ k.object = link[c].object
           \/ \E e \in edges : k.id = e.id /\ k.subject = e.subject /\ k.object = e.object
  PROVE  RelationsInv'
<1>1. /\ link' \in [Clients -> Link] /\ link'[c] = k
      /\ \A x \in Clients \ {c} : link'[x] = link[x]
  BY LinkMove DEF RelationsInv
<1>2. /\ edges \subseteq Edge /\ link \in [Clients -> Link] /\ links \in Nat /\ EdgesSound
      /\ \A x \in Clients : Informed(x, link[x], role, live, edges)
      /\ Identified
  BY DEF RelationsInv
<1>3. \A x \in Clients : Informed(x, link'[x], role', live', edges')
  BY <1>1, <1>2
<1>4. EdgesSound'
  BY <1>2 DEF EdgesSound
<1>5. (\A e \in edges : e.id \in Int) /\ k.id \in Int /\ \A x \in Clients : link[x].id \in Int
  BY <1>2 DEF Edge, Link
<1>6. Identified'
  <2>1. \A e \in edges' : e.id <= links'
    BY <1>2, <1>5 DEF Identified
  <2>2. \A e, d \in edges' : e.id = d.id => e = d
    BY <1>2 DEF Identified
  <2>3. \A x \in Clients : link'[x].id <= links'
    BY <1>1, <1>2, <1>5 DEF Identified
  <2>4. ASSUME NEW x \in Clients, link'[x].pc \in Creating, NEW e \in edges' PROVE e.id # link'[x].id
    BY <1>1, <1>2, <1>5, <2>4 DEF Identified
  <2>5. ASSUME NEW x \in Clients, NEW y \in Clients, x # y, link'[x].pc \in Creating,
               link'[y].pc \in Creating \cup Unlinking
        PROVE  link'[x].id # link'[y].id
    <3>1. CASE x # c /\ y # c
      BY <1>1, <1>2, <2>5, <3>1 DEF Identified
    <3>2. CASE x = c
      <4>1. link[y].id <= links /\ link'[y] = link[y] /\ link'[x] = k
        BY <1>1, <1>2, <2>5, <3>2 DEF Identified
      <4> QED
        BY <1>2, <1>5, <2>5, <3>2, <4>1 DEF Identified
    <3>3. CASE y = c
      <4>1. link[x].id <= links /\ link'[x] = link[x] /\ link'[y] = k
        BY <1>1, <1>2, <2>5, <3>3 DEF Identified
      <4>2. CASE k.pc \in Creating
        BY <1>2, <1>5, <2>5, <3>3, <4>1, <4>2 DEF Identified
      <4>3. CASE k.pc \in Unlinking
        BY <1>2, <1>5, <2>5, <3>3, <4>1, <4>3 DEF Identified
      <4> QED
        BY <2>5, <4>1, <4>2, <4>3
    <3> QED
      BY <3>1, <3>2, <3>3
  <2>6. ASSUME NEW x \in Clients, link'[x].pc \in Unlinking, NEW e \in edges', e.id = link'[x].id
        PROVE  e.subject = link'[x].subject /\ e.object = link'[x].object
    BY <1>1, <1>2, <2>6 DEF Identified
  <2> QED
    BY <2>1, <2>2, <2>3, <2>4, <2>5, <2>6 DEF Identified
<1> QED
  BY <1>1, <1>2, <1>3, <1>4, <1>6 DEF RelationsInv

(* A step that overtakes every other request: what it leaves of the edges   *)
(* was there, or was to be inserted by a request that ends.                 *)
LEMMA OvertakingStep ==
  ASSUME RelationsInv, link' \in [Clients -> Link], edges' \subseteq Edge, EdgesSound', UNCHANGED links,
         \A x \in Clients :
           \/ link'[x].pc = "idle" /\ link'[x].id <= links
           \/ /\ link'[x].stale /\ link'[x].pc = link[x].pc /\ link'[x].id = link[x].id
              /\ link'[x].subject = link[x].subject /\ link'[x].object = link[x].object,
         \A e \in edges' \ edges : \E c \in Clients :
           /\ link[c].pc = "insert" /\ link'[c].pc = "idle" /\ edges' = edges \cup {e}
           /\ e.id = link[c].id
  PROVE  RelationsInv'
<1>1. /\ edges \subseteq Edge /\ link \in [Clients -> Link] /\ links \in Nat /\ EdgesSound
      /\ \A x \in Clients : Informed(x, link[x], role, live, edges)
      /\ Identified
  BY DEF RelationsInv
<1>2. ASSUME NEW x \in Clients PROVE Informed(x, link'[x], role', live', edges')
  BY <1>1 DEF Informed
<1>3. Identified'
  <2>1. \A e \in edges' : e.id <= links'
    BY <1>1 DEF Identified
  <2>2. ASSUME NEW e \in edges', NEW d \in edges', e.id = d.id PROVE e = d
    BY <1>1, <2>2 DEF Identified, Creating
  <2>3. \A x \in Clients : link'[x].id <= links'
    BY <1>1 DEF Identified
  <2>4. ASSUME NEW x \in Clients, link'[x].pc \in Creating, NEW e \in edges' PROVE e.id # link'[x].id
    <3>1. link[x].pc \in Creating /\ link'[x].id = link[x].id /\ link'[x].pc # "idle"
      BY <2>4 DEF Creating
    <3>2. CASE e \in edges
      BY <1>1, <3>1, <3>2 DEF Identified
    <3>3. CASE e \notin edges
      BY <1>1, <3>1, <3>3 DEF Identified, Creating
    <3> QED
      BY <3>2, <3>3
  <2>5. ASSUME NEW x \in Clients, NEW y \in Clients, x # y, link'[x].pc \in Creating,
               link'[y].pc \in Creating \cup Unlinking
        PROVE  link'[x].id # link'[y].id
    <3>1. /\ link[x].pc \in Creating /\ link'[x].id = link[x].id
          /\ link[y].pc \in Creating \cup Unlinking /\ link'[y].id = link[y].id
      BY <2>5 DEF Creating, Unlinking
    <3> QED
      BY <1>1, <2>5, <3>1 DEF Identified
  <2>6. ASSUME NEW x \in Clients, link'[x].pc \in Unlinking, NEW e \in edges', e.id = link'[x].id
        PROVE  e.subject = link'[x].subject /\ e.object = link'[x].object
    <3>1. /\ link[x].pc \in Unlinking /\ link'[x].id = link[x].id /\ link'[x].pc # "idle"
          /\ link'[x].subject = link[x].subject /\ link'[x].object = link[x].object
      BY <2>6 DEF Unlinking
    <3>2. CASE e \in edges
      BY <1>1, <2>6, <3>1, <3>2 DEF Identified
    <3>3. CASE e \notin edges
      <4>1. PICK c \in Clients : link[c].pc = "insert" /\ link'[c].pc = "idle" /\ e.id = link[c].id
        BY <3>3
      <4>2. link[c].id # link[x].id
        BY <1>1, <3>1, <4>1 DEF Identified, Creating
      <4> QED
        BY <2>6, <3>1, <4>1, <4>2
    <3> QED
      BY <3>2, <3>3
  <2> QED
    BY <2>1, <2>2, <2>3, <2>4, <2>5, <2>6 DEF Identified
<1> QED
  BY <1>1, <1>2, <1>3 DEF RelationsInv


----------------------------------------------------------------------------
(* The steps. *)

(* A request that ends. *)
LEMMA EndStep ==
  ASSUME RelationsInv, NEW c \in Clients, End(c), UNCHANGED <<role, live, edges, links>>
  PROVE  RelationsInv'
<1> DEFINE k == NoLink
<1>1. k \in Link /\ k.pc = "idle" /\ k.id = 0
  BY NoLinkType DEF NoLink
<1>2. link' = [link EXCEPT ![c] = k]
  BY DEF End
<1> HIDE DEF k
<1>3. Informed(c, k, role, live, edges)
  BY <1>1 DEF Informed
<1>4. links \in Nat /\ links' = links
  BY DEF RelationsInv
<1>5. /\ links' \in Nat /\ links' >= links /\ k.id <= links'
      /\ k.pc \notin Creating /\ k.pc \notin Unlinking
  BY <1>1, <1>4 DEF Creating, Unlinking
<1> QED
  BY <1>1, <1>2, <1>3, <1>5, QuietLink

(* A request whose gate lets it go on, with the locals it has. *)
LEMMA ToStep ==
  ASSUME RelationsInv, NEW c \in Clients, NEW pc \in {"insert", "remove"}, To(c, pc),
         UNCHANGED <<role, live, edges, links>>,
         pc = "insert" => link[c].pc = "object" /\ May(role, live, c, link[c].object, View),
         pc = "remove" => link[c].pc = "edge" /\ May(role, live, c, link[c].subject, Edit)
  PROVE  RelationsInv'
<1> DEFINE k == [link[c] EXCEPT !.pc = pc]
<1>1. /\ link[c] \in Link /\ links \in Nat /\ Informed(c, link[c], role, live, edges)
      /\ link[c].id <= links
  BY DEF RelationsInv, Identified
<1>2. /\ k \in Link /\ k.pc = pc /\ k.id = link[c].id /\ k.subject = link[c].subject
      /\ k.object = link[c].object /\ k.stale = link[c].stale
  BY <1>1 DEF Link, LinkPcs
<1>3. link' = [link EXCEPT ![c] = k]
  BY <1>1 DEF To, RelationsInv, Link
<1> HIDE DEF k
<1>4. Informed(c, k, role, live, edges)
  BY <1>1, <1>2 DEF Informed
<1>5. k.pc \in Creating => link[c].pc \in Creating
  BY <1>2 DEF Creating
<1>6. k.pc \in Unlinking => link[c].pc \in Unlinking
  BY <1>2 DEF Unlinking
<1>7. links' \in Nat /\ links' >= links /\ k.id <= links'
  BY <1>1, <1>2 DEF Link
<1> QED
  BY <1>1, <1>2, <1>3, <1>4, <1>5, <1>6, <1>7, QuietLink

(* create_relation past its first gate. *)
LEMMA CreateStep ==
  ASSUME RelationsInv, NEW c \in Clients, NEW s \in Entities, NEW o \in Entities, BeginCreate(c, s, o)
  PROVE  RelationsInv'
<1> DEFINE k == [NoLink EXCEPT !.pc = "object", !.id = links + 1, !.subject = s, !.object = o]
<1>1. /\ link' = [link EXCEPT ![c] = k] /\ UNCHANGED <<role, live, edges>> /\ links' = links + 1
      /\ s # o /\ May(role, live, c, s, Edit)
  BY MayIsReach DEF BeginCreate, BeginLink, Keep
<1>2. links \in Nat
  BY DEF RelationsInv
<1>3. /\ k \in Link /\ k.pc = "object" /\ k.id = links + 1 /\ k.subject = s /\ k.object = o
      /\ k.stale = FALSE
  <2> DEFINE n == links + 1
  <2>0. NoLink \in Link /\ NoLink.stale = FALSE
    BY NoLinkType DEF NoLink
  <2>1. n \in Int /\ k = [NoLink EXCEPT !.pc = "object", !.id = n, !.subject = s, !.object = o]
    BY <1>2
  <2> HIDE DEF n, k
  <2>2. /\ k \in Link /\ k.pc = "object" /\ k.id = n /\ k.subject = s /\ k.object = o
        /\ k.stale = FALSE
    BY <2>0, <2>1 DEF Link, LinkPcs
  <2> QED
    BY <2>2 DEF n
<1> HIDE DEF k
<1>4. Informed(c, k, role, live, edges)
  BY <1>1, <1>3 DEF Informed
<1>5. k.id <= links' /\ k.id > links /\ links' \in Nat /\ links' >= links /\ k.pc \notin Unlinking
  BY <1>1, <1>2, <1>3 DEF Unlinking
<1> QED
  BY <1>1, <1>3, <1>4, <1>5, QuietLink

(* list_relations past its gate. *)
LEMMA ListingStep ==
  ASSUME RelationsInv, NEW c \in Clients, NEW a \in Entities, BeginListing(c, a)
  PROVE  RelationsInv'
<1> DEFINE k == [NoLink EXCEPT !.pc = "rows", !.subject = a]
<1>1. /\ link' = [link EXCEPT ![c] = k] /\ UNCHANGED <<role, live, edges>> /\ links' = links + 1
      /\ May(role, live, c, a, View)
  BY MayIsReach DEF BeginListing, BeginLink, Keep
<1>2. links \in Nat
  BY DEF RelationsInv
<1>3. k \in Link /\ k.pc = "rows" /\ k.id = 0 /\ k.subject = a /\ k.stale = FALSE
  <2>1. NoLink \in Link /\ NoLink.stale = FALSE /\ NoLink.id = 0
    BY NoLinkType DEF NoLink
  <2> QED
    BY <2>1 DEF Link, LinkPcs
<1> HIDE DEF k
<1>4. Informed(c, k, role, live, edges)
  BY <1>1, <1>3 DEF Informed
<1>5. /\ k.id <= links' /\ links' \in Nat /\ links' >= links
      /\ k.pc \notin Unlinking /\ k.pc \notin Creating
  BY <1>1, <1>2, <1>3 DEF Unlinking, Creating
<1> QED
  BY <1>1, <1>3, <1>4, <1>5, QuietLink

(* delete_relation has read the row. *)
LEMMA UnlinkStep ==
  ASSUME RelationsInv, NEW c \in Clients, NEW e \in edges, BeginUnlink(c, e)
  PROVE  RelationsInv'
<1> DEFINE k == [NoLink EXCEPT !.pc = "edge", !.id = e.id, !.subject = e.subject, !.object = e.object]
<1>1. /\ link' = [link EXCEPT ![c] = k] /\ UNCHANGED <<role, live, edges>> /\ links' = links + 1
  BY DEF BeginUnlink, BeginLink, Keep
<1>2. links \in Nat /\ e \in Edge /\ e.id <= links
  BY DEF RelationsInv, Identified
<1>3. /\ k \in Link /\ k.pc = "edge" /\ k.id = e.id /\ k.subject = e.subject /\ k.object = e.object
      /\ k.stale = FALSE /\ k.id \in Int
  BY <1>2 DEF NoLink, Link, LinkPcs, Edge
<1> HIDE DEF k
<1>4. Informed(c, k, role, live, edges)
  BY <1>3 DEF Informed
<1>5. /\ k.id <= links' /\ links' \in Nat /\ links' >= links /\ k.pc \notin Creating
  BY <1>1, <1>2, <1>3 DEF Creating
<1> QED
  BY <1>1, <1>3, <1>4, <1>5, QuietLink

(* list_relations has the rows. *)
LEMMA RowsStep ==
  ASSUME RelationsInv, NEW c \in Clients, SelectRows(c)
  PROVE  RelationsInv'
<1> DEFINE rows == Touching(edges, link[c].subject)
           k == [link[c] EXCEPT !.pc = "filter", !.rows = rows]
<1>1. /\ link[c] \in Link /\ links \in Nat /\ Informed(c, link[c], role, live, edges)
      /\ link[c].id <= links /\ rows \subseteq Edge
  BY DEF RelationsInv, Identified, Touching
<1>2. /\ link[c].pc = "rows" /\ UNCHANGED <<role, live, edges, links>>
  BY DEF SelectRows, Keep
<1>3. link' = [link EXCEPT ![c] = k]
  BY <1>1 DEF SelectRows, RelationsInv, Link
<1> HIDE DEF rows
<1>4. /\ k \in Link /\ k.pc = "filter" /\ k.id = link[c].id /\ k.subject = link[c].subject
      /\ k.rows = rows /\ k.stale = link[c].stale
  BY <1>1 DEF Link, LinkPcs
<1> HIDE DEF k
<1>5. Informed(c, k, role, live, edges)
  BY <1>1, <1>2, <1>4 DEF Informed, rows
<1>6. k.pc \notin Creating /\ k.pc \notin Unlinking
  BY <1>4 DEF Creating, Unlinking
<1>7. links' \in Nat /\ links' >= links /\ k.id <= links'
  BY <1>1, <1>2, <1>4 DEF Link
<1> QED
  BY <1>2, <1>3, <1>4, <1>5, <1>6, <1>7, QuietLink

(* The leak guard, which asks the cascade about one end, leaves what the    *)
(* climb would let the caller view.                                         *)
LEMMA FilterReadable ==
  ASSUME TypeOK, ShallowScopes, EdgesSound, edges \subseteq Edge, NEW c \in Clients, NEW a \in Entities,
         May(role, live, c, a, View)
  PROVE  {e \in Touching(edges, a) : c \in Admins \/ Other(e, a) \in reachable_entity_ids(role, parent, c)}
           = Readable(edges, role, live, c, a)
<1> DEFINE R == reachable_entity_ids(role, parent, c)
<1>1. R = {o \in Entities : HasRank(role, parent, c, o, 1)}
  BY GateMatches DEF ListMatchesGate
<1>2. ASSUME NEW o \in Entities, o \in live PROVE May(role, live, c, o, View) <=> c \in Admins \/ o \in R
  <2>1. reach_action(c, o, View) <=> May(role, live, c, o, View)
    BY MayIsReach
  <2> QED
    BY <1>1, <1>2, <2>1 DEF reach_action, require_rank, View
<1> HIDE DEF R
<1>3. ASSUME NEW e \in Touching(edges, a)
      PROVE  (c \in Admins \/ Other(e, a) \in R)
               <=> (May(role, live, c, e.subject, View) /\ May(role, live, c, e.object, View))
  <2>1. /\ e.subject \in Entities /\ e.object \in Entities /\ e.subject \in live /\ e.object \in live
        /\ a \in {e.subject, e.object}
    BY <1>3 DEF Touching, EdgesSound, Edge
  <2>2. CASE e.subject = a
    BY <1>2, <2>1, <2>2 DEF Other
  <2>3. CASE e.subject # a
    BY <1>2, <2>1, <2>3 DEF Other
  <2> QED
    BY <2>2, <2>3
<1> QED
  BY <1>3 DEF Readable, R

(* list_relations has filtered the rows. *)
LEMMA FilterStep ==
  ASSUME TypeOK, RelationsInv, NEW c \in Clients, FilterRows(c)
  PROVE  RelationsInv'
<1> DEFINE a == link[c].subject
           rows == {e \in link[c].rows : c \in Admins \/ Other(e, a) \in reachable_entity_ids(role, parent, c)}
           k == [link[c] EXCEPT !.pc = "answered", !.rows = rows]
<1>1. /\ link[c] \in Link /\ links \in Nat /\ Informed(c, link[c], role, live, edges)
      /\ link[c].id <= links /\ a \in Entities /\ edges \subseteq Edge /\ EdgesSound
  BY DEF RelationsInv, Identified, Link
<1>2. rows \subseteq Edge
  BY <1>1 DEF Link
<1>3. /\ link[c].pc = "filter" /\ UNCHANGED <<role, live, edges, links>>
  BY DEF FilterRows, Keep
<1>4. link' = [link EXCEPT ![c] = k]
  BY <1>1 DEF FilterRows, RelationsInv, Link
<1>5. ~link[c].stale /\ ShallowScopes => rows = Readable(edges, role, live, c, a)
  <2> SUFFICES ASSUME ~link[c].stale, ShallowScopes PROVE rows = Readable(edges, role, live, c, a)
    OBVIOUS
  <2>1. link[c].rows = Touching(edges, a) /\ May(role, live, c, a, View)
    BY <1>1, <1>3 DEF Informed
  <2> QED
    BY <1>1, <2>1, FilterReadable
<1> HIDE DEF rows
<1>6. /\ k \in Link /\ k.pc = "answered" /\ k.id = link[c].id /\ k.subject = a
      /\ k.rows = rows /\ k.stale = link[c].stale
  BY <1>1, <1>2 DEF Link, LinkPcs
<1> HIDE DEF k
<1>7. Informed(c, k, role, live, edges)
  BY <1>1, <1>3, <1>5, <1>6 DEF Informed
<1>8. k.pc \notin Creating /\ k.pc \notin Unlinking
  BY <1>6 DEF Creating, Unlinking
<1>9. links' \in Nat /\ links' >= links /\ k.id <= links'
  BY <1>1, <1>3, <1>6 DEF Link
<1> QED
  BY <1>3, <1>4, <1>6, <1>7, <1>8, <1>9, QuietLink


(* What a writing request leaves of the requests. *)
LEMMA OvertakenMove ==
  ASSUME RelationsInv, NEW c \in Clients, link' = [Overtaken EXCEPT ![c] = NoLink]
  PROVE  /\ link' \in [Clients -> Link] /\ link'[c].pc = "idle"
         /\ \A x \in Clients :
              \/ link'[x].pc = "idle" /\ link'[x].id <= links
              \/ /\ link'[x].stale /\ link'[x].pc = link[x].pc /\ link'[x].id = link[x].id
                 /\ link'[x].subject = link[x].subject /\ link'[x].object = link[x].object
<1>1. link \in [Clients -> Link] /\ links \in Nat /\ \A x \in Clients : link[x].id <= links
  BY DEF RelationsInv, Identified
<1> DEFINE k == NoLink
           f == Overtaken
<1>2. k \in Link /\ k.pc = "idle" /\ k.id = 0
  BY NoLinkType DEF NoLink
<1>3. \A x \in Clients :
        /\ f[x] \in Link /\ f[x].pc = link[x].pc /\ f[x].id = link[x].id
        /\ f[x].subject = link[x].subject /\ f[x].object = link[x].object
        /\ (f[x].pc # "idle" => f[x].stale)
  BY <1>1, MarkedLink
<1>4. f = [x \in Clients |-> f[x]] /\ link' = [f EXCEPT ![c] = k]
  BY DEF Overtaken
<1> HIDE DEF k, f
<1>5. f \in [Clients -> Link]
  BY <1>3, <1>4
<1>6. link' \in [Clients -> Link] /\ link'[c] = k /\ \A x \in Clients \ {c} : link'[x] = f[x]
  BY <1>2, <1>4, <1>5
<1>7. ASSUME NEW x \in Clients
      PROVE  \/ link'[x].pc = "idle" /\ link'[x].id <= links
             \/ /\ link'[x].stale /\ link'[x].pc = link[x].pc /\ link'[x].id = link[x].id
                /\ link'[x].subject = link[x].subject /\ link'[x].object = link[x].object
  <2>1. CASE x = c
    BY <1>1, <1>2, <1>6, <2>1
  <2>2. CASE x # c
    <3>1. link'[x] = f[x]
      BY <1>6, <2>2
    <3> QED
      BY <1>1, <1>3, <3>1
  <2> QED
    BY <2>1, <2>2
<1> QED
  BY <1>2, <1>6, <1>7

(* The INSERT. *)
LEMMA InsertStep ==
  ASSUME RelationsInv, NEW c \in Clients, InsertEdge(c)
  PROVE  RelationsInv'
<1> DEFINE l == link[c]
           new == [id |-> l.id, subject |-> l.subject, object |-> l.object]
           fits == {l.subject, l.object} \subseteq live /\ ~\E e \in edges : Between(e, l.subject, l.object)
<1>1. l.pc = "insert" /\ UNCHANGED <<role, live, links>>
  BY DEF InsertEdge, Keep
<1>2. CASE ~fits
  <2>1. End(c) /\ UNCHANGED edges
    BY <1>2 DEF InsertEdge
  <2> QED
    BY <1>1, <2>1, EndStep
<1>3. CASE fits
  <2>1. edges' = edges \cup {new} /\ link' = [Overtaken EXCEPT ![c] = NoLink]
    BY <1>3 DEF InsertEdge
  <2>2. /\ l \in Link /\ edges \subseteq Edge /\ EdgesSound /\ l.subject # l.object
    BY <1>1 DEF RelationsInv, Informed
  <2>3. /\ new \in Edge /\ new.id = l.id /\ new.subject = l.subject /\ new.object = l.object
    BY <2>2 DEF Link, Edge
  <2> HIDE DEF new
  <2>4. edges' \subseteq Edge
    BY <2>1, <2>2, <2>3
  <2>5. EdgesSound'
    <3>1. ASSUME NEW e \in edges' PROVE e.subject \in live' /\ e.object \in live' /\ e.subject # e.object
      BY <1>1, <1>3, <2>1, <2>2, <2>3 DEF EdgesSound
    <3>2. ASSUME NEW e \in edges', NEW d \in edges', e.subject = d.subject, e.object = d.object PROVE e = d
      BY <1>3, <2>1, <2>2, <2>3, <3>2 DEF EdgesSound, Between
    <3> QED
      BY <3>1, <3>2 DEF EdgesSound, Between
  <2>6. \A e \in edges' \ edges : \E x \in Clients :
          /\ link[x].pc = "insert" /\ link'[x].pc = "idle" /\ edges' = edges \cup {e}
          /\ e.id = link[x].id
    <3>1. link'[c].pc = "idle"
      BY <2>1, OvertakenMove
    <3> QED
      BY <1>1, <2>1, <2>3, <3>1
  <2> QED
    BY <1>1, <2>1, <2>4, <2>5, <2>6, OvertakenMove, OvertakingStep
<1> QED
  BY <1>2, <1>3

(* The DELETE. *)
LEMMA RemovedStep ==
  ASSUME RelationsInv, NEW c \in Clients, RemoveEdge(c)
  PROVE  RelationsInv'
<1>1. edges' = {e \in edges : e.id # link[c].id} /\ UNCHANGED <<role, live, links>>
  BY DEF RemoveEdge, Keep
<1>2. CASE edges' = edges
  <2>1. End(c)
    BY <1>2 DEF RemoveEdge, End
  <2> QED
    BY <1>1, <1>2, <2>1, EndStep
<1>3. CASE edges' # edges
  <2>1. link' = [Overtaken EXCEPT ![c] = NoLink]
    BY <1>3 DEF RemoveEdge
  <2>2. edges' \subseteq Edge /\ EdgesSound' /\ edges' \subseteq edges
    BY <1>1 DEF RelationsInv, EdgesSound
  <2> QED
    BY <1>1, <2>1, <2>2, OvertakenMove, OvertakingStep
<1> QED
  BY <1>2, <1>3

(* A step of the sharing handlers, or a deletion. *)
LEMMA SharingStep ==
  ASSUME RelationsInv, MembersStep
  PROVE  RelationsInv'
<1>1. /\ edges' = {e \in edges : {e.subject, e.object} \subseteq live'} /\ UNCHANGED links
      /\ link' = IF role' = role /\ live' = live THEN link ELSE Overtaken
  BY DEF MembersStep
<1>2. edges \subseteq Edge /\ link \in [Clients -> Link] /\ EdgesSound
  BY DEF RelationsInv
<1>3. CASE role' = role /\ live' = live
  <2>1. edges' = edges /\ link' = link
    BY <1>1, <1>2, <1>3 DEF EdgesSound
  <2> QED
    BY <1>1, <1>3, <2>1, ZenonT(60) DEF RelationsInv, EdgesSound, Identified
<1>4. CASE ~(role' = role /\ live' = live)
  <2> DEFINE f == Overtaken
  <2>1. link' = f /\ f = [x \in Clients |-> f[x]]
    BY <1>1, <1>4 DEF Overtaken
  <2>2. \A x \in Clients :
          /\ f[x] \in Link /\ f[x].pc = link[x].pc /\ f[x].id = link[x].id
          /\ f[x].subject = link[x].subject /\ f[x].object = link[x].object
          /\ (f[x].pc # "idle" => f[x].stale)
    BY <1>2, MarkedLink
  <2> HIDE DEF f
  <2>3. link' \in [Clients -> Link]
    BY <2>1, <2>2
  <2>4. edges' \subseteq Edge /\ edges' \subseteq edges /\ EdgesSound'
    BY <1>1, <1>2 DEF EdgesSound
  <2>5. \A x \in Clients : link[x].id <= links
    BY DEF RelationsInv, Identified
  <2>6. \A x \in Clients :
          \/ link'[x].pc = "idle" /\ link'[x].id <= links
          \/ /\ link'[x].stale /\ link'[x].pc = link[x].pc /\ link'[x].id = link[x].id
             /\ link'[x].subject = link[x].subject /\ link'[x].object = link[x].object
    BY <2>1, <2>2, <2>5
  <2> QED
    BY <1>1, <2>3, <2>4, <2>6, OvertakingStep
<1> QED
  BY <1>3, <1>4

(* The gates in the middle of a request. *)
LEMMA GateStep ==
  ASSUME RelationsInv, NEW c \in Clients, CheckObject(c) \/ CheckEdge(c)
  PROVE  RelationsInv'
<1>1. UNCHANGED <<role, live, edges, links>>
  BY DEF CheckObject, CheckEdge, Keep
<1>2. CASE End(c)
  BY <1>1, <1>2, EndStep
<1>3. CASE CheckObject(c) /\ ~End(c)
  <2>1. link[c].pc = "object" /\ To(c, "insert") /\ May(role, live, c, link[c].object, View)
    BY <1>3, MayIsReach DEF CheckObject
  <2> QED
    BY <1>1, <2>1, ToStep
<1>4. CASE CheckEdge(c) /\ ~End(c)
  <2>1. link[c].pc = "edge" /\ To(c, "remove") /\ May(role, live, c, link[c].subject, Edit)
    BY <1>4, MayIsReach DEF CheckEdge
  <2> QED
    BY <1>1, <2>1, ToStep
<1> QED
  BY <1>2, <1>3, <1>4

(* Every step keeps the invariant. *)
LEMMA RelationsKept == TypeOK /\ RelationsInv /\ [RelationsNext]_relVars => RelationsInv'
<1> SUFFICES ASSUME TypeOK, RelationsInv, [RelationsNext]_relVars PROVE RelationsInv'
  OBVIOUS
<1>1. CASE UNCHANGED relVars
  BY <1>1 DEF relVars, RelationsInv, EdgesSound, Identified
<1>2. CASE MembersStep
  BY <1>2, SharingStep
<1>3. ASSUME NEW c \in Clients, \E s \in Linkable, o \in Linkable : BeginCreate(c, s, o) PROVE RelationsInv'
  BY <1>3, CreateStep, RelationsAssumption
<1>4. ASSUME NEW c \in Clients, \E a \in Linkable : BeginListing(c, a) PROVE RelationsInv'
  BY <1>4, ListingStep, RelationsAssumption
<1>5. ASSUME NEW c \in Clients, EndLink(c) PROVE RelationsInv'
  BY <1>5, EndStep DEF EndLink, Keep
<1> QED
  BY <1>1, <1>2, <1>3, <1>4, <1>5, UnlinkStep, GateStep, InsertStep, RowsStep, FilterStep, RemovedStep
        DEF RelationsNext

(* It holds to begin with. *)
LEMMA RelationsStart == RelationsInit => RelationsInv
<1> SUFFICES ASSUME RelationsInit PROVE RelationsInv
  OBVIOUS
<1>1. edges = InitialEdges /\ links = 0 /\ live = Entities /\ link = [c \in Clients |-> NoLink]
  BY DEF RelationsInit, Init
<1> DEFINE k == NoLink
<1>2. \A c \in Clients : k \in Link /\ k.pc = "idle" /\ k.id = 0
  BY NoLinkType DEF NoLink
<1>3. link = [c \in Clients |-> k]
  BY <1>1
<1> HIDE DEF k
<1>4. link \in [Clients -> Link] /\ \A c \in Clients : link[c].pc = "idle" /\ link[c].id = 0
  BY <1>2, <1>3
<1>5. edges \subseteq Edge /\ links \in Nat
  BY <1>1, InitialEdgesAssumption DEF Edge
<1>6. EdgesSound
  BY <1>1, <1>5, InitialEdgesAssumption DEF EdgesSound, Between, Edge
<1>7. Identified
  BY <1>1, <1>4, InitialEdgesAssumption DEF Identified, Creating, Unlinking
<1>8. \A c \in Clients : Informed(c, link[c], role, live, edges)
  BY <1>4 DEF Informed
<1> QED
  BY <1>4, <1>5, <1>6, <1>7, <1>8 DEF RelationsInv

(* What every request knows, in every reachable state. *)
LEMMA RelationsInvariant == RelationsSpec => []RelationsInv
<1>1. Spec => []TypeOK
  BY MembersTypeCorrect
<1> QED
  BY <1>1, RelationsStart, RelationsKept, RelationsImplementMembers, PTL DEF RelationsSpec

----------------------------------------------------------------------------
(* The theorems. *)

(* The relations table: no edge dangles although its ends may be deleted    *)
(* between the gates of create_relation and its INSERT, none goes from an   *)
(* entity to itself, and none is there twice.                               *)
THEOREM EdgesSoundHolds == RelationsSpec => []EdgesSound
<1>1. RelationsInv => EdgesSound
  BY DEF RelationsInv
<1> QED
  BY <1>1, RelationsInvariant, PTL

(* list_relations: for scope chains within the depth cap, an answer that    *)
(* nothing overtook holds exactly the edges of the anchor whose two ends    *)
(* the caller may view, although one end is gated by the climb and the      *)
(* other filtered by the cascade.                                           *)
THEOREM ListingExactHolds == ShallowScopes => (RelationsSpec => []ListingExact)
<1> SUFFICES ASSUME ShallowScopes PROVE RelationsSpec => []ListingExact
  OBVIOUS
<1>1. RelationsInv => ListingExact
  <2> SUFFICES ASSUME RelationsInv, NEW c \in Clients, link[c].pc = "answered", ~link[c].stale
               PROVE  link[c].rows = {e \in Touching(edges, link[c].subject) :
                        reach_action(c, e.subject, View) /\ reach_action(c, e.object, View)}
    BY DEF ListingExact
  <2>1. link[c].rows = Readable(edges, role, live, c, link[c].subject)
    BY DEF RelationsInv, Informed
  <2>2. \A o : reach_action(c, o, View) <=> May(role, live, c, o, View)
    BY MayIsReach
  <2> QED
    BY <2>1, <2>2 DEF Readable
<1> QED
  BY <1>1, RelationsInvariant, PTL


(* A request that writes an edge changes only what it was gated for. *)
LEMMA GatedWrite ==
  ASSUME RelationsInv, NEW c \in Clients, InsertEdge(c) \/ RemoveEdge(c), ~link[c].stale,
         NEW e \in (edges \ edges') \cup (edges' \ edges)
  PROVE  /\ May(role, live, c, e.subject, Edit)
         /\ e \in edges' => May(role, live, c, e.object, View)
<1> DEFINE l == link[c]
<1>1. Informed(c, l, role, live, edges) /\ Identified
  BY DEF RelationsInv
<1>2. CASE InsertEdge(c)
  <2>1. l.pc = "insert" /\ e = [id |-> l.id, subject |-> l.subject, object |-> l.object]
    BY <1>2 DEF InsertEdge
  <2>2. e.subject = l.subject /\ e.object = l.object
    BY <2>1
  <2> QED
    BY <1>1, <2>1, <2>2 DEF Informed
<1>3. CASE RemoveEdge(c)
  <2>1. l.pc = "remove" /\ e \in edges /\ e.id = l.id /\ e \notin edges'
    BY <1>3 DEF RemoveEdge
  <2>2. e.subject = l.subject
    BY <1>1, <2>1 DEF Identified, Unlinking
  <2> QED
    BY <1>1, <2>1, <2>2 DEF Informed
<1> QED
  BY <1>2, <1>3

(* A request that ends otherwise changes no edge. *)
LEMMA WhoWrites ==
  ASSUME RelationsInv, [RelationsNext]_relVars, NEW c \in Clients, link[c].pc # "idle",
         link'[c].pc = "idle", ~(InsertEdge(c) \/ RemoveEdge(c))
  PROVE  edges' = edges
<1>1. link \in [Clients -> Link]
  BY DEF RelationsInv
<1>2. CASE MembersStep
  <2>1. link' = link \/ link' = Overtaken
    BY <1>2 DEF MembersStep
  <2>2. Overtaken[c].pc = link[c].pc
    BY <1>1, MarkedLink
  <2> QED
    BY <2>1, <2>2
<1>3. ASSUME NEW x \in Clients, InsertEdge(x) \/ RemoveEdge(x), edges' # edges PROVE FALSE
  <2>1. link' = [Overtaken EXCEPT ![x] = NoLink] /\ x # c
    BY <1>3 DEF InsertEdge, RemoveEdge
  <2>2. link'[c] = Overtaken[c]
    BY <2>1 DEF Overtaken
  <2>3. Overtaken[c].pc = link[c].pc
    BY <1>1, MarkedLink
  <2> QED
    BY <2>2, <2>3
<1>4. CASE UNCHANGED relVars
  BY <1>4 DEF relVars
<1>5. ASSUME NEW x \in Clients,
             \/ \E s \in Linkable, o \in Linkable : BeginCreate(x, s, o)
             \/ \E a \in Linkable : BeginListing(x, a)
             \/ \E e \in edges : BeginUnlink(x, e)
             \/ CheckObject(x) \/ SelectRows(x) \/ FilterRows(x) \/ CheckEdge(x) \/ EndLink(x)
      PROVE  edges' = edges
  BY <1>5 DEF BeginCreate, BeginListing, BeginUnlink, BeginLink, CheckObject, SelectRows, FilterRows,
        CheckEdge, EndLink
<1> QED
  BY <1>2, <1>3, <1>4, <1>5 DEF RelationsNext

(* create_relation and delete_relation: a request that nothing overtook     *)
(* changes no edge but one whose subject the caller edits at that moment    *)
(* and, to link it, whose object the caller views, though the gates are     *)
(* statements of their own and the DELETE goes by id alone.                 *)
THEOREM LinkAuthorityHolds == RelationsSpec => LinkAuthority
<1>1. ASSUME RelationsInv, [RelationsNext]_relVars, NEW c \in Clients,
             link[c].pc \in {"insert", "remove"}, link'[c].pc = "idle", ~link[c].stale,
             NEW e \in (edges \ edges') \cup (edges' \ edges)
      PROVE  /\ reach_action(c, e.subject, Edit)
             /\ e \in edges' => reach_action(c, e.object, View)
  <2>1. InsertEdge(c) \/ RemoveEdge(c)
    BY <1>1, WhoWrites
  <2> QED
    BY <1>1, <2>1, GatedWrite, MayIsReach
<1>2. RelationsInv /\ [RelationsNext]_relVars =>
        [\A c \in Clients : LET l == link[c] IN
           l.pc \in {"insert", "remove"} /\ link'[c].pc = "idle" /\ ~l.stale
             => \A e \in (edges \ edges') \cup (edges' \ edges) :
                  /\ reach_action(c, e.subject, Edit)
                  /\ e \in edges' => reach_action(c, e.object, View)]_relVars
  BY <1>1
<1> QED
  BY <1>2, RelationsInvariant, PTL DEF RelationsSpec, LinkAuthority


(* The sharing handlers keep their promises with relation requests beside   *)
(* them: the types, no privilege escalation, no team within itself, and     *)
(* the last-owner guard.                                                    *)
COROLLARY SharingUndisturbed ==
  RelationsSpec => [](TypeOK /\ TeamsAcyclic /\ NoEscalation) /\ LastOwnerGuard
BY RelationsImplementMembers, MembersTypeCorrect, TeamsAcyclicHolds, NoEscalationHolds,
   LastOwnerGuardHolds, PTL
=============================================================================
