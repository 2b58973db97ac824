---------------------------- MODULE MembersProofs ----------------------------
(***************************************************************************)
(* Proofs about Members, for every set of entities, teams and clients,     *)
(* every table of memberships to begin with, every table of scope edges,   *)
(* and any number of handlers that grant, revoke and delete at once.       *)
(***************************************************************************)
EXTENDS Members, RbacProofs

----------------------------------------------------------------------------
(* The types. *)

Pcs == {"idle", "auth", "cycle", "current", "count", "write"}

(* What a finished handler is left with. *)
LEMMA IdleType ==
  ASSUME NEW c \in Clients
  PROVE  Idle \in Handler /\ Idle.pc = "idle"
<1>1. Nobody \in Entities
  BY ClientsAssumption DEF Nobody
<1> QED
  BY <1>1 DEF Idle, Request, Handler

(* A handler goes on with the locals it has. *)
LEMMA GotoMove ==
  ASSUME TypeOK, NEW c \in Clients, NEW pc \in Pcs, Goto(c, pc)
  PROVE  /\ handler' \in [Clients -> Handler]
         /\ handler'[c].pc = pc /\ handler'[c].op = handler[c].op
         /\ handler'[c].obj = handler[c].obj /\ handler'[c].member = handler[c].member
         /\ handler'[c].rank = handler[c].rank /\ handler'[c].stale = handler[c].stale
         /\ \A x \in Clients \ {c} : handler'[x] = handler[x]
<1>1. handler[c] \in Handler /\ handler \in [Clients -> Handler]
  BY DEF TypeOK
<1>2. handler' = [handler EXCEPT ![c] = [handler[c] EXCEPT !.pc = pc]]
  BY <1>1 DEF Goto, Handler
<1> DEFINE h == [handler[c] EXCEPT !.pc = pc]
<1>3. /\ h \in Handler /\ h.pc = pc /\ h.op = handler[c].op /\ h.obj = handler[c].obj
      /\ h.member = handler[c].member /\ h.rank = handler[c].rank /\ h.stale = handler[c].stale
  BY <1>1 DEF Handler, Pcs
<1> HIDE DEF h
<1>4. handler' = [handler EXCEPT ![c] = h]
  BY <1>2 DEF h
<1> QED
  BY <1>1, <1>3, <1>4

(* A handler ends. *)
LEMMA RefuseMove ==
  ASSUME TypeOK, NEW c \in Clients, Refuse(c)
  PROVE  /\ handler' \in [Clients -> Handler] /\ handler'[c].pc = "idle"
         /\ \A x \in Clients \ {c} : handler'[x] = handler[x]
BY IdleType DEF TypeOK, Refuse

(* A handler begins. *)
LEMMA BeginMove ==
  ASSUME TypeOK, NEW c \in Clients, NEW pc \in Pcs, NEW op \in {"add", "set", "remove"},
         NEW o \in Entities, NEW m \in Entities, NEW rank \in 1..4,
         handler' = [handler EXCEPT ![c] = Request(pc, op, o, m, rank)]
  PROVE  /\ handler' \in [Clients -> Handler]
         /\ handler'[c].pc = pc /\ handler'[c].op = op /\ handler'[c].obj = o
         /\ handler'[c].member = m /\ handler'[c].rank = rank /\ handler'[c].stale = FALSE
         /\ \A x \in Clients \ {c} : handler'[x] = handler[x]
<1> DEFINE h == Request(pc, op, o, m, rank)
<1>1. /\ h \in Handler /\ h.pc = pc /\ h.op = op /\ h.obj = o /\ h.member = m /\ h.rank = rank
      /\ h.stale = FALSE
  BY DEF Request, Handler, Pcs
<1> HIDE DEF h
<1>2. handler' = [handler EXCEPT ![c] = h]
  BY DEF h
<1> QED
  BY <1>1, <1>2 DEF TypeOK

(* A write or a deletion overtakes a handler. *)
LEMMA MarkedHandler ==
  ASSUME TypeOK, NEW x \in Clients, NEW h, h = [handler[x] EXCEPT !.stale = InFlight(x)]
  PROVE  /\ h \in Handler /\ h.pc = handler[x].pc /\ h.op = handler[x].op /\ h.obj = handler[x].obj
         /\ h.member = handler[x].member /\ h.rank = handler[x].rank
         /\ h.stale = (h.pc # "idle")
<1> DEFINE st == InFlight(x)
<1>1. handler[x] \in Handler /\ st \in BOOLEAN /\ h = [handler[x] EXCEPT !.stale = st]
  BY DEF TypeOK, InFlight
<1> HIDE DEF st
<1>2. /\ h \in Handler /\ h.pc = handler[x].pc /\ h.op = handler[x].op /\ h.obj = handler[x].obj
      /\ h.member = handler[x].member /\ h.rank = handler[x].rank /\ h.stale = st
  BY <1>1 DEF Handler
<1> QED
  BY <1>2 DEF st, InFlight

(* The rows of the table. *)
LEMMA RoleType ==
  ASSUME TypeOK, NEW o \in Entities, NEW m \in Entities
  PROVE  role[o] \in [Entities -> Ranks] /\ role[o][m] \in 0..4
BY DEF TypeOK, Memberships, Ranks

(* The scope edges of what exists. *)
LEMMA ParentType == parent \in ScopeEdges
BY InitialAssumption DEF parent, ScopeEdges

(* The write that is not refused. *)
Writes(c) ==
  LET h == handler[c] IN
  /\ h.pc = "write"
  /\ role' = [role EXCEPT ![h.obj][h.member] = Written(h)]
  /\ handler' = [x \in Clients |-> IF x = c THEN Idle
                   ELSE [handler[x] EXCEPT !.stale = InFlight(x)]]
  /\ writes' = writes + 1
  /\ raced' = (raced \/ h.stale)
  /\ UNCHANGED live

(* What it leaves. *)
LEMMA WriteMove ==
  ASSUME TypeOK, NEW c \in Clients, Writes(c)
  PROVE  LET h == handler[c] IN
         /\ h.obj \in Entities /\ h.member \in Entities /\ h.rank \in 1..4 /\ Written(h) \in 0..4
         /\ role' \in Memberships
         /\ role'[h.obj][h.member] = Written(h)
         /\ \A o, m \in Entities : <<o, m>> # <<h.obj, h.member>> => role'[o][m] = role[o][m]
         /\ handler' \in [Clients -> Handler] /\ handler'[c].pc = "idle"
         /\ \A x \in Clients \ {c} :
              /\ handler'[x].pc = handler[x].pc /\ handler'[x].op = handler[x].op
              /\ handler'[x].obj = handler[x].obj /\ handler'[x].member = handler[x].member
              /\ handler'[x].rank = handler[x].rank /\ handler'[x].stale = (handler'[x].pc # "idle")
<1> DEFINE h == handler[c]
<1>1. h \in Handler
  BY DEF TypeOK
<1>2. h.obj \in Entities /\ h.member \in Entities /\ h.rank \in 1..4
  BY <1>1 DEF Handler
<1>3. Written(h) \in 0..4
  BY <1>2 DEF Written
<1>4. role' = [role EXCEPT ![h.obj][h.member] = Written(h)]
  BY DEF Writes
<1>5. handler' = [x \in Clients |-> IF x = c THEN Idle ELSE [handler[x] EXCEPT !.stale = InFlight(x)]]
  BY DEF Writes
<1> DEFINE w == Written(h)
           o1 == h.obj
           m1 == h.member
<1>6. /\ role' \in Memberships /\ role'[o1][m1] = w
      /\ \A o, m \in Entities : <<o, m>> # <<o1, m1>> => role'[o][m] = role[o][m]
  <2>1. role' = [role EXCEPT ![o1][m1] = w] /\ o1 \in Entities /\ m1 \in Entities /\ w \in Ranks
    BY <1>2, <1>3, <1>4 DEF Ranks
  <2> HIDE DEF w, o1, m1
  <2>2. role \in [Entities -> [Entities -> Ranks]]
    BY DEF TypeOK, Memberships
  <2> QED
    BY <2>1, <2>2 DEF Memberships
<1>7. ASSUME NEW x \in Clients \ {c}
      PROVE  /\ handler'[x] \in Handler
             /\ handler'[x].pc = handler[x].pc /\ handler'[x].op = handler[x].op
             /\ handler'[x].obj = handler[x].obj /\ handler'[x].member = handler[x].member
             /\ handler'[x].rank = handler[x].rank /\ handler'[x].stale = (handler'[x].pc # "idle")
  <2> DEFINE k == [handler[x] EXCEPT !.stale = InFlight(x)]
  <2>1. handler'[x] = k
    BY <1>5
  <2> HIDE DEF k
  <2>2. k \in Handler /\ k.pc = handler[x].pc /\ k.op = handler[x].op /\ k.obj = handler[x].obj
        /\ k.member = handler[x].member /\ k.rank = handler[x].rank /\ k.stale = (k.pc # "idle")
    BY MarkedHandler DEF k
  <2> QED
    BY <2>1, <2>2
<1>8. handler'[c] = Idle /\ handler'[c] \in Handler /\ handler'[c].pc = "idle"
  BY <1>5, IdleType
<1>9. handler' \in [Clients -> Handler]
  <2>1. \A x \in Clients : handler'[x] \in Handler
    BY <1>7, <1>8
  <2> QED
    BY <1>5, <2>1
<1> QED
  BY <1>2, <1>3, <1>6, <1>7, <1>8, <1>9

(* What a deletion leaves. *)
LEMMA DeleteMove ==
  ASSUME TypeOK, NEW e \in Entities, DeleteEntity(e)
  PROVE  /\ role' \in Memberships /\ live' \subseteq Entities
         /\ \A o, m \in Entities : role'[o][m] = IF e \in {o, m} THEN 0 ELSE role[o][m]
         /\ handler' \in [Clients -> Handler]
         /\ \A x \in Clients :
              /\ handler'[x].pc = handler[x].pc /\ handler'[x].op = handler[x].op
              /\ handler'[x].obj = handler[x].obj /\ handler'[x].member = handler[x].member
              /\ handler'[x].rank = handler[x].rank /\ handler'[x].stale = (handler'[x].pc # "idle")
<1>1. /\ role' = [o \in Entities |-> [m \in Entities |-> IF e \in {o, m} THEN 0 ELSE role[o][m]]]
      /\ live' = live \ {e}
      /\ handler' = [x \in Clients |-> [handler[x] EXCEPT !.stale = InFlight(x)]]
  BY DEF DeleteEntity
<1>2. \A o, m \in Entities : role[o][m] \in Ranks /\ 0 \in Ranks
  BY RoleType DEF Ranks
<1>3. role' \in Memberships /\ \A o, m \in Entities : role'[o][m] = IF e \in {o, m} THEN 0 ELSE role[o][m]
  BY <1>1, <1>2 DEF Memberships
<1>4. ASSUME NEW x \in Clients
      PROVE  /\ handler'[x] \in Handler
             /\ handler'[x].pc = handler[x].pc /\ handler'[x].op = handler[x].op
             /\ handler'[x].obj = handler[x].obj /\ handler'[x].member = handler[x].member
             /\ handler'[x].rank = handler[x].rank /\ handler'[x].stale = (handler'[x].pc # "idle")
  <2> DEFINE k == [handler[x] EXCEPT !.stale = InFlight(x)]
  <2>1. handler'[x] = k
    BY <1>1
  <2> HIDE DEF k
  <2>2. k \in Handler /\ k.pc = handler[x].pc /\ k.op = handler[x].op /\ k.obj = handler[x].obj
        /\ k.member = handler[x].member /\ k.rank = handler[x].rank /\ k.stale = (k.pc # "idle")
    BY MarkedHandler DEF k
  <2> QED
    BY <2>1, <2>2
<1>5. handler' \in [Clients -> Handler]
  BY <1>1, <1>4
<1> QED
  BY <1>1, <1>3, <1>4, <1>5 DEF TypeOK

----------------------------------------------------------------------------
(* What a handler knows. *)

(* A handler that nothing overtook goes by the table as it is: the role to  *)
(* remove is the one it read, the member to add is no principal of the      *)
(* object, and an owner is only demoted or removed who has company.         *)
Guarded(r, h) ==
  /\ h.pc = "cycle" => h.op = "add"
  /\ h.pc = "current" => h.op = "set"
  /\ h.pc = "auth" => h.op = "remove"
  /\ h.pc = "count" => h.op # "add"
  /\ h.pc # "idle" /\ ~h.stale =>
       /\ h.op = "remove" => h.rank = r[h.obj][h.member]
       /\ h.pc = "write" /\ h.op = "add" => h.member \notin principals(r, h.obj)
       /\ h.pc = "write" /\ h.op # "add" /\ r[h.obj][h.member] = Owner =>
            (h.op = "set" /\ h.rank = Owner) \/ Cardinality(Owners(r, h.obj)) > 1

MembersInv ==
  /\ TypeOK
  /\ \A c \in Clients : Guarded(role, handler[c])
  /\ raced \/ Acyclic(role)

(* A step of one handler that does not write. *)
LEMMA QuietStep ==
  ASSUME MembersInv, NEW c \in Clients, UNCHANGED <<role, live, writes, raced>>,
         handler' \in [Clients -> Handler], Guarded(role, handler'[c]),
         \A x \in Clients \ {c} : handler'[x] = handler[x]
  PROVE  MembersInv'
<1>1. \A x \in Clients : Guarded(role', handler'[x])
  BY DEF MembersInv
<1> QED
  BY <1>1 DEF MembersInv, TypeOK

(* A handler that ends is bound by nothing. *)
LEMMA RefuseStep ==
  ASSUME MembersInv, NEW c \in Clients, UNCHANGED <<role, live, writes, raced>>, Refuse(c)
  PROVE  MembersInv'
<1>1. Guarded(role, handler'[c])
  BY RefuseMove DEF Guarded, MembersInv
<1> QED
  BY <1>1, RefuseMove, QuietStep DEF MembersInv

(* The first queries of a grant. *)
LEMMA GrantStep ==
  ASSUME MembersInv, NEW c \in Clients, NEW op \in {"add", "set"}, NEW o \in Entities,
         NEW m \in Entities, NEW rank \in 1..4, BeginGrant(c, op, o, m, rank)
  PROVE  MembersInv'
<1> DEFINE pc == IF op = "add" THEN "cycle" ELSE "current"
<1>1. /\ handler' = [handler EXCEPT ![c] = Request(pc, op, o, m, rank)]
      /\ UNCHANGED <<role, live, writes, raced>> /\ pc \in Pcs
  BY DEF BeginGrant, Pcs
<1>2. (op = "add" /\ pc = "cycle") \/ (op = "set" /\ pc = "current")
  OBVIOUS
<1> HIDE DEF pc
<1>3. /\ handler' \in [Clients -> Handler]
      /\ handler'[c].pc = pc /\ handler'[c].op = op
      /\ \A x \in Clients \ {c} : handler'[x] = handler[x]
  BY <1>1, BeginMove DEF MembersInv
<1>4. Guarded(role, handler'[c])
  BY <1>2, <1>3 DEF Guarded
<1> QED
  BY <1>1, <1>3, <1>4, QuietStep

(* The first query of a removal. *)
LEMMA RemoveStep ==
  ASSUME MembersInv, NEW c \in Clients, NEW o \in Entities, NEW m \in Entities, BeginRemove(c, o, m)
  PROVE  MembersInv'
<1> DEFINE pc == IF m # c THEN "auth" ELSE IF role[o][m] = Owner THEN "count" ELSE "write"
           rank == role[o][m]
<1>1. /\ handler' = [handler EXCEPT ![c] = Request(pc, "remove", o, m, rank)]
      /\ UNCHANGED <<role, live, writes, raced>> /\ pc \in Pcs /\ rank > 0
  BY DEF BeginRemove, Pcs
<1>2. rank \in 1..4
  BY <1>1, RoleType DEF MembersInv
<1>3. pc \in {"auth", "count", "write"} /\ (pc = "write" => rank # Owner)
  OBVIOUS
<1> HIDE DEF pc
<1>4. /\ handler' \in [Clients -> Handler]
      /\ handler'[c].pc = pc /\ handler'[c].op = "remove" /\ handler'[c].obj = o
      /\ handler'[c].member = m /\ handler'[c].rank = rank
      /\ \A x \in Clients \ {c} : handler'[x] = handler[x]
  <2> HIDE DEF rank
  <2> QED
    BY <1>1, <1>2, BeginMove, ZenonT(60) DEF MembersInv
<1>5. Guarded(role, handler'[c])
  BY <1>3, <1>4 DEF Guarded
<1> QED
  BY <1>1, <1>4, <1>5, QuietStep

(* A handler goes on to its next query or its write. *)
LEMMA GotoStep ==
  ASSUME MembersInv, NEW c \in Clients, NEW pc \in {"count", "write"}, Goto(c, pc),
         UNCHANGED <<role, live, writes, raced>>, handler[c].pc # "idle",
         pc = "count" => handler[c].op # "add",
         LET h == handler[c] IN
           pc = "write" =>
             /\ h.op = "add" => h.member \notin principals(role, h.obj)
             /\ h.op # "add" /\ ~h.stale /\ role[h.obj][h.member] = Owner =>
                  (h.op = "set" /\ h.rank = Owner) \/ Cardinality(Owners(role, h.obj)) > 1
  PROVE  MembersInv'
<1>1. pc \in Pcs /\ TypeOK
  BY DEF Pcs, MembersInv
<1>2. /\ handler' \in [Clients -> Handler]
      /\ handler'[c].pc = pc /\ handler'[c].op = handler[c].op
      /\ handler'[c].obj = handler[c].obj /\ handler'[c].member = handler[c].member
      /\ handler'[c].rank = handler[c].rank /\ handler'[c].stale = handler[c].stale
      /\ \A x \in Clients \ {c} : handler'[x] = handler[x]
  BY <1>1, GotoMove
<1>3. Guarded(role, handler[c])
  BY DEF MembersInv
<1>4. Guarded(role, handler'[c])
  BY <1>2, <1>3 DEF Guarded
<1> QED
  BY <1>2, <1>4, QuietStep

(* The guards. *)
LEMMA GuardStep ==
  ASSUME MembersInv, NEW c \in Clients,
         CheckCycle(c) \/ ReadCurrent(c) \/ CheckAuthority(c) \/ CountOwners(c)
  PROVE  MembersInv'
<1>1. UNCHANGED <<role, live, writes, raced>>
  BY DEF CheckCycle, ReadCurrent, CheckAuthority, CountOwners
<1>2. Guarded(role, handler[c]) /\ handler[c] \in Handler
  BY DEF MembersInv, TypeOK
<1>3. CASE Refuse(c)
  BY <1>1, <1>3, RefuseStep
<1>4. CASE CheckCycle(c) /\ ~Refuse(c)
  <2>1. handler[c].pc = "cycle" /\ Goto(c, "write")
        /\ handler[c].member \notin principals(role, handler[c].obj)
    BY <1>4 DEF CheckCycle, principals_contain
  <2>2. handler[c].op = "add"
    BY <1>2, <2>1 DEF Guarded
  <2> QED
    BY <1>1, <2>1, <2>2, GotoStep
<1>5. CASE ReadCurrent(c) /\ ~Refuse(c)
  <2> DEFINE h == handler[c]
             last == role[h.obj][h.member] = Owner /\ h.rank # Owner
  <2>1. h.pc = "current" /\ Goto(c, IF last THEN "count" ELSE "write")
    BY <1>5 DEF ReadCurrent
  <2>2. h.op = "set"
    BY <1>2, <2>1 DEF Guarded
  <2>3. CASE last
    BY <1>1, <2>1, <2>2, <2>3, GotoStep
  <2>4. CASE ~last
    BY <1>1, <2>1, <2>2, <2>4, GotoStep
  <2> QED
    BY <2>3, <2>4
<1>6. CASE CheckAuthority(c) /\ ~Refuse(c)
  <2> DEFINE h == handler[c]
  <2>1. h.pc = "auth" /\ Goto(c, IF h.rank = Owner THEN "count" ELSE "write")
    BY <1>6 DEF CheckAuthority
  <2>2. h.op = "remove" /\ (~h.stale => h.rank = role[h.obj][h.member])
    BY <1>2, <2>1 DEF Guarded
  <2>3. CASE h.rank = Owner
    BY <1>1, <2>1, <2>2, <2>3, GotoStep
  <2>4. CASE h.rank # Owner
    BY <1>1, <2>1, <2>2, <2>4, GotoStep
  <2> QED
    BY <2>3, <2>4
<1>7. CASE CountOwners(c) /\ ~Refuse(c)
  <2> DEFINE n == Cardinality(Owners(role, handler[c].obj))
  <2>1. handler[c].pc = "count" /\ Goto(c, "write") /\ ~(n <= 1)
    BY <1>7 DEF CountOwners
  <2>2. handler[c].op # "add"
    BY <1>2, <2>1 DEF Guarded
  <2>3. n \in Nat
    <3>1. Owners(role, handler[c].obj) \subseteq Entities
      BY DEF Owners
    <3> QED
      BY <3>1, EntitiesAssumption, FS_Subset, FS_CardinalityType
  <2>4. n > 1
    BY <2>1, <2>3
  <2> QED
    BY <1>1, <2>1, <2>2, <2>4, GotoStep
<1> QED
  BY <1>3, <1>4, <1>5, <1>6, <1>7

(* The write: every other handler is overtaken, and a handler that was not  *)
(* itself nests no team.                                                    *)
LEMMA WriteStep ==
  ASSUME MembersInv, NEW c \in Clients, Writes(c)
  PROVE  MembersInv'
<1> DEFINE h == handler[c]
<1>0. TypeOK /\ Guarded(role, h) /\ h \in Handler
  BY DEF MembersInv, TypeOK
<1>1. /\ h.obj \in Entities /\ h.member \in Entities /\ h.rank \in 1..4
      /\ role' \in Memberships
      /\ role'[h.obj][h.member] = Written(h)
      /\ \A o, m \in Entities : <<o, m>> # <<h.obj, h.member>> => role'[o][m] = role[o][m]
      /\ handler' \in [Clients -> Handler] /\ handler'[c].pc = "idle"
      /\ \A x \in Clients \ {c} :
           /\ handler'[x].pc = handler[x].pc /\ handler'[x].op = handler[x].op
           /\ handler'[x].stale = (handler'[x].pc # "idle")
  BY <1>0, WriteMove
<1>2. /\ h.pc = "write" /\ raced' = (raced \/ h.stale) /\ writes' = writes + 1 /\ UNCHANGED live
  BY DEF Writes
<1>3. TypeOK'
  <2>1. h.stale \in BOOLEAN
    BY <1>0 DEF Handler
  <2> QED
    BY <1>0, <1>1, <1>2, <2>1 DEF TypeOK
<1>4. ASSUME NEW x \in Clients PROVE Guarded(role', handler'[x])
  <2>1. CASE x = c
    BY <1>1, <2>1 DEF Guarded
  <2>2. CASE x # c
    <3>1. Guarded(role, handler[x])
      BY DEF MembersInv
    <3> QED
      BY <1>1, <2>2, <3>1 DEF Guarded
  <2> QED
    BY <2>1, <2>2
<1>5. raced' \/ Acyclic(role')
  <2> SUFFICES ASSUME ~raced' PROVE Acyclic(role')
    OBVIOUS
  <2>1. ~raced /\ ~h.stale /\ Acyclic(role)
    BY <1>2 DEF MembersInv
  <2>2. CASE h.op = "add"
    <3>1. h.member \notin principals(role, h.obj)
      BY <1>0, <1>2, <2>1, <2>2 DEF Guarded
    <3>2. \A t \in Teams, x \in Entities :
            <<t, x>> # <<h.obj, h.member>> => role'[t][x] = role[t][x]
      BY <1>1, EntitiesAssumption
    <3> HIDE DEF h
    <3> QED
      BY <1>1, <2>1, <3>1, <3>2, AddAcyclic
  <2>3. CASE h.op # "add"
    <3>1. h.op \in {"set", "remove"}
      BY <1>0, <2>3 DEF Handler
    <3>2. role[h.obj][h.member] \in 0..4
      BY <1>0, <1>1, RoleType
    <3>3. Written(h) > 0 => role[h.obj][h.member] > 0
      BY <3>1, <3>2 DEF Written
    <3>4. \A t \in Teams, x \in Entities : role'[t][x] > 0 => role[t][x] > 0
      BY <1>1, <3>3, EntitiesAssumption
    <3> QED
      BY <2>1, <3>4, ShrinkAcyclic
  <2> QED
    BY <2>2, <2>3
<1> QED
  BY <1>3, <1>4, <1>5 DEF MembersInv

(* A deletion overtakes every handler and takes memberships away. *)
LEMMA DeleteStep ==
  ASSUME MembersInv, NEW e \in Entities, DeleteEntity(e)
  PROVE  MembersInv'
<1>1. TypeOK /\ UNCHANGED <<writes, raced>>
  BY DEF MembersInv, DeleteEntity
<1>2. /\ role' \in Memberships /\ live' \subseteq Entities
      /\ \A o, m \in Entities : role'[o][m] = IF e \in {o, m} THEN 0 ELSE role[o][m]
      /\ handler' \in [Clients -> Handler]
      /\ \A x \in Clients :
           /\ handler'[x].pc = handler[x].pc /\ handler'[x].op = handler[x].op
           /\ handler'[x].stale = (handler'[x].pc # "idle")
  BY <1>1, DeleteMove
<1>3. ASSUME NEW x \in Clients PROVE Guarded(role', handler'[x])
  <2>1. Guarded(role, handler[x])
    BY DEF MembersInv
  <2> QED
    BY <1>2, <2>1 DEF Guarded
<1>4. \A t \in Teams, x \in Entities : role'[t][x] > 0 => role[t][x] > 0
  BY <1>2, EntitiesAssumption
<1>5. raced' \/ Acyclic(role')
  BY <1>1, <1>4, ShrinkAcyclic DEF MembersInv
<1> QED
  BY <1>1, <1>2, <1>3, <1>5 DEF MembersInv, TypeOK

(* The writing statement either writes or fails on its foreign keys. *)
LEMMA WriteKinds ==
  ASSUME NEW c \in Clients, Write(c)
  PROVE  Writes(c) \/ (Refuse(c) /\ UNCHANGED <<role, live, writes, raced>>)
BY DEF Write, Writes

(* Every step is of one of these kinds. *)
LEMMA MemberSteps ==
  ASSUME [Next]_vars
  PROVE  \/ UNCHANGED vars
         \/ \E c \in Clients :
              \/ \E op \in {"add", "set"}, o \in Entities, m \in Entities, rank \in 1..4 :
                   BeginGrant(c, op, o, m, rank)
              \/ \E o \in Entities, m \in Entities : BeginRemove(c, o, m)
              \/ CheckCycle(c) \/ ReadCurrent(c) \/ CheckAuthority(c) \/ CountOwners(c)
              \/ Writes(c)
              \/ Refuse(c) /\ UNCHANGED <<role, live, writes, raced>>
         \/ \E e \in Entities : DeleteEntity(e)
<1>1. ASSUME NEW c \in Clients,
             \E op \in {"add", "set"}, o \in Rosters, m \in Grantees, rank \in Roles :
               BeginGrant(c, op, o, m, rank)
      PROVE  \E op \in {"add", "set"}, o \in Entities, m \in Entities, rank \in 1..4 :
               BeginGrant(c, op, o, m, rank)
  BY <1>1, BoundsAssumption
<1>2. ASSUME NEW c \in Clients, \E o \in Rosters, m \in Grantees : BeginRemove(c, o, m)
      PROVE  \E o \in Entities, m \in Entities : BeginRemove(c, o, m)
  BY <1>2, BoundsAssumption
<1>3. ASSUME NEW c \in Clients, Abort(c)
      PROVE  Refuse(c) /\ UNCHANGED <<role, live, writes, raced>>
  BY <1>3 DEF Abort
<1>4. ASSUME NEW e \in Deletable PROVE e \in Entities
  BY <1>4, BoundsAssumption
<1> QED
  BY <1>1, <1>2, <1>3, <1>4, WriteKinds DEF Next, HandlerStep

(* Every step keeps the invariant. *)
LEMMA MembersStepKept == MembersInv /\ [Next]_vars => MembersInv'
<1> SUFFICES ASSUME MembersInv, [Next]_vars PROVE MembersInv'
  OBVIOUS
<1>1. CASE UNCHANGED vars
  BY <1>1 DEF vars, MembersInv, TypeOK
<1> QED
  BY <1>1, MemberSteps, GrantStep, RemoveStep, GuardStep, WriteStep, RefuseStep, DeleteStep

(* It holds to begin with. *)
LEMMA MembersStart == Init => MembersInv
<1> SUFFICES ASSUME Init PROVE MembersInv
  OBVIOUS
<1>1. TypeOK
  BY IdleType, InitialAssumption DEF Init, TypeOK
<1>2. \A c \in Clients : handler[c].pc = "idle"
  BY IdleType DEF Init
<1>3. Acyclic(role)
  BY NestingAssumption DEF Init, Acyclic, principals_contain
<1> QED
  BY <1>1, <1>2, <1>3 DEF MembersInv, Guarded

(* What every handler knows, in every reachable state. *)
LEMMA MembersInvariant == Spec => []MembersInv
BY MembersStart, MembersStepKept, PTL DEF Spec

(* The roster and the locals of the handlers of members.rs have their types. *)
THEOREM MembersTypeCorrect == Spec => []TypeOK
<1>1. MembersInv => TypeOK
  BY DEF MembersInv
<1> QED
  BY <1>1, MembersInvariant, PTL

(* The cycle guard of add_member: unless handlers race, no team is ever a   *)
(* member of itself, through however many teams.                            *)
THEOREM TeamsAcyclicHolds == Spec => []TeamsAcyclic
<1>1. MembersInv => TeamsAcyclic
  BY DEF MembersInv, TeamsAcyclic, Acyclic, Nested
<1> QED
  BY <1>1, MembersInvariant, PTL

----------------------------------------------------------------------------
(* The last owner. *)

(* Of several owners, one stays when another goes. *)
LEMMA OwnerLeft ==
  ASSUME NEW r, NEW o, NEW m, Cardinality(Owners(r, o)) > 1
  PROVE  \E x \in Entities : x # m /\ r[o][x] = Owner
<1> SUFFICES ASSUME Owners(r, o) \subseteq {m} PROVE FALSE
  BY DEF Owners
<1>1. Cardinality({m}) = 1 /\ IsFiniteSet({m})
  BY FS_Singleton
<1>2. Cardinality(Owners(r, o)) <= 1 /\ Cardinality(Owners(r, o)) \in Nat
  BY <1>1, FS_Subset, FS_CardinalityType
<1> QED
  BY <1>2

(* A handler that nothing overtook leaves an owned object owned. *)
LEMMA OwnerStays ==
  ASSUME MembersInv, NEW c \in Clients, Writes(c), handler[c].op # "add", ~handler[c].stale,
         Owners(role, handler[c].obj) # {}
  PROVE  Owners(role', handler[c].obj) # {}
<1> DEFINE h == handler[c]
           o == h.obj
           m == h.member
<1>0. TypeOK /\ Guarded(role, h) /\ h \in Handler /\ h.pc = "write"
  BY DEF MembersInv, TypeOK, Writes
<1>1. /\ o \in Entities /\ m \in Entities /\ role'[o][m] = Written(h)
      /\ \A x \in Entities : x # m => role'[o][x] = role[o][x]
  BY <1>0, WriteMove
<1>2. CASE \E x \in Entities : x # m /\ role[o][x] = Owner
  BY <1>1, <1>2 DEF Owners
<1>3. CASE ~\E x \in Entities : x # m /\ role[o][x] = Owner
  <2>1. role[o][m] = Owner
    BY <1>3 DEF Owners
  <2>2. ~(Cardinality(Owners(role, o)) > 1)
    <3> HIDE DEF o, m
    <3> SUFFICES ASSUME Cardinality(Owners(role, o)) > 1 PROVE FALSE
      OBVIOUS
    <3>1. \E x \in Entities : x # m /\ role[o][x] = Owner
      BY OwnerLeft, SMTT(30)
    <3> QED
      BY <1>3, <3>1
  <2>3. h.op = "set" /\ h.rank = Owner
    BY <1>0, <2>1, <2>2 DEF Guarded
  <2>4. Written(h) = Owner
    BY <2>1, <2>3 DEF Written, Owner
  <2> QED
    BY <1>1, <2>4 DEF Owners
<1> QED
  BY <1>2, <1>3

(* The last-owner guard of set_member and remove_member, which counts in a  *)
(* query of its own ahead of the write: a handler that nothing overlapped   *)
(* never takes an object's last owner.                                      *)
THEOREM LastOwnerGuardHolds == Spec => LastOwnerGuard
<1>1. ASSUME MembersInv, [Next]_vars, role' # role, NEW c \in Clients, handler[c].pc = "write",
             handler'[c].pc = "idle", handler[c].op # "add", ~handler[c].stale,
             Owners(role, handler[c].obj) # {}
      PROVE  Owners(role', handler[c].obj) # {}
  <2>1. TypeOK
    BY <1>1 DEF MembersInv
  <2>2. ASSUME NEW e \in Entities, DeleteEntity(e) PROVE FALSE
    BY <1>1, <2>1, <2>2, DeleteMove
  <2>3. ASSUME NEW x \in Clients, Writes(x) PROVE x = c
    BY <1>1, <2>1, <2>3, WriteMove
  <2>4. \E x \in Clients : Writes(x)
    BY <1>1, <2>2, MemberSteps
          DEF vars, BeginGrant, BeginRemove, CheckCycle, ReadCurrent, CheckAuthority, CountOwners
  <2> QED
    BY <1>1, <2>3, <2>4, OwnerStays
<1>2. MembersInv /\ [Next]_vars =>
        [\A c \in Clients :
           LET h == handler[c] IN
           h.pc = "write" /\ handler'[c].pc = "idle" /\ h.op # "add" /\ ~h.stale
             => (Owners(role, h.obj) # {} => Owners(role', h.obj) # {})]_role
  BY <1>1
<1> QED
  BY <1>2, MembersInvariant, PTL DEF Spec, LastOwnerGuard

----------------------------------------------------------------------------
(* Privileges. *)

(* Somebody had that rank on the object or above it to begin with. *)
Granted(o, k) == \E s \in Ancestors[o], x \in Entities : InitialRole[s][x] >= k

(* An entity is above itself, and what is above it is transitive. *)
LEMMA AncestorsClosed ==
  ASSUME NEW o \in Entities
  PROVE  /\ o \in Ancestors[o] /\ Ancestors[o] \subseteq Entities
         /\ \A s \in Ancestors[o] : Ancestors[s] \subseteq Ancestors[o]
         /\ \A s \in Ancestors[o] : ScopeParent[s] \in Ancestors[o] \cup {None}
<1>1. Ancestors[o] = {s \in Entities : \A S \in SUBSET Entities : o \in S /\ UpClosed(S) => s \in S}
  BY DEF Ancestors
<1>2. ASSUME NEW s \in Ancestors[o] PROVE Ancestors[s] \subseteq Ancestors[o]
  <2>1. s \in Entities /\ \A S \in SUBSET Entities : o \in S /\ UpClosed(S) => s \in S
    BY <1>1, <1>2
  <2>2. Ancestors[s] = {x \in Entities : \A S \in SUBSET Entities : s \in S /\ UpClosed(S) => x \in S}
    BY <2>1 DEF Ancestors
  <2> QED
    BY <1>1, <2>1, <2>2
<1>3. ASSUME NEW s \in Ancestors[o], ScopeParent[s] # None PROVE ScopeParent[s] \in Ancestors[o]
  <2>1. s \in Entities /\ \A S \in SUBSET Entities : o \in S /\ UpClosed(S) => s \in S
    BY <1>1, <1>3
  <2>2. ScopeParent[s] \in Entities
    BY <1>3, <2>1, InitialAssumption DEF ScopeEdges
  <2>3. ASSUME NEW S \in SUBSET Entities, o \in S, UpClosed(S) PROVE ScopeParent[s] \in S
    BY <1>3, <2>1, <2>3 DEF UpClosed
  <2> QED
    BY <1>1, <2>2, <2>3
<1> QED
  BY <1>1, <1>2, <1>3

(* The climb over what exists stays among the ancestors. *)
LEMMA ScopesAreAncestors ==
  ASSUME NEW o \in Entities
  PROVE  scopes(parent, o) \subseteq Ancestors[o]
<1> DEFINE U == Ancestors[o]
           p == parent
<1>1. p \in ScopeEdges
  BY ParentType
<1>2. U \in SUBSET Entities /\ o \in U /\ \A x \in U : ScopeParent[x] \in U \cup {None}
  BY AncestorsClosed
<1>3. \A x \in Entities : p[x] \in {ScopeParent[x], None}
  BY DEF parent
<1>4. \A x \in U : p[x] \in U \cup {None}
  BY <1>2, <1>3
<1> HIDE DEF U, p
<1>5. scopes(p, o) \subseteq U
  BY <1>1, <1>2, <1>4, ScopesWithin
<1> QED
  BY <1>5 DEF U, p

(* Every membership, and every rank a handler is about to grant, is covered *)
(* by one of the memberships to begin with.                                 *)
RankInv ==
  /\ \A o, m \in Entities : Granted(o, role[o][m])
  /\ \A c \in Clients : handler[c].pc # "idle" /\ handler[c].op # "remove"
       => Granted(handler[c].obj, handler[c].rank)

(* Having no rank is covered by anything. *)
LEMMA NothingGranted ==
  ASSUME NEW o \in Entities
  PROVE  Granted(o, 0)
<1>1. o \in Ancestors[o]
  BY AncestorsClosed
<1>2. InitialRole[o][o] >= 0
  BY InitialAssumption DEF Memberships, Ranks
<1> QED
  BY <1>1, <1>2 DEF Granted

(* The gate of BeginGrant: without platform admins, whoever passes it with  *)
(* a rank has it from an ancestor.                                          *)
LEMMA GateGranted ==
  ASSUME TypeOK, RankInv, Admins = {}, NEW c \in Clients, NEW o \in Entities, NEW rank \in 1..4,
         require_rank(c, o, rank)
  PROVE  Granted(o, rank)
<1>1. PICK s \in scopes(parent, o), m \in principals(role, c) : role[s][m] >= rank
  BY DEF require_rank, HasRank
<1>2. s \in Ancestors[o] /\ s \in Entities /\ m \in Entities
  BY <1>1, ScopesAreAncestors, AncestorsClosed, EntitiesAssumption, ClientsAssumption DEF principals
<1>3. PICK t \in Ancestors[s], x \in Entities : InitialRole[t][x] >= role[s][m]
  BY <1>2 DEF RankInv, Granted
<1>4. t \in Ancestors[o] /\ t \in Entities
  BY <1>2, <1>3, AncestorsClosed
<1>5. InitialRole[t][x] \in 0..4 /\ role[s][m] \in 0..4
  BY <1>2, <1>4, RoleType, InitialAssumption DEF Memberships, Ranks
<1>6. InitialRole[t][x] >= rank
  BY <1>1, <1>3, <1>5
<1> QED
  BY <1>4, <1>6 DEF Granted

(* A step of one handler that does not write keeps that. *)
LEMMA RankQuiet ==
  ASSUME RankInv, NEW c \in Clients, UNCHANGED role,
         \A x \in Clients \ {c} : handler'[x] = handler[x],
         handler'[c].pc # "idle" /\ handler'[c].op # "remove"
           => Granted(handler'[c].obj, handler'[c].rank)
  PROVE  RankInv'
<1>1. \A o, m \in Entities : Granted(o, role'[o][m])
  BY DEF RankInv
<1>2. ASSUME NEW x \in Clients, handler'[x].pc # "idle", handler'[x].op # "remove"
      PROVE  Granted(handler'[x].obj, handler'[x].rank)
  <2>1. CASE x = c
    BY <1>2, <2>1
  <2>2. CASE x # c
    <3>1. handler'[x] = handler[x]
      BY <2>2
    <3> QED
      BY <1>2, <3>1 DEF RankInv
  <2> QED
    BY <2>1, <2>2
<1> QED
  BY <1>1, <1>2 DEF RankInv, Granted

(* Every step keeps that. *)
LEMMA RankStep ==
  ASSUME Admins = {}, MembersInv, RankInv, [Next]_vars
  PROVE  RankInv'
<1>0. TypeOK
  BY DEF MembersInv
<1>1. CASE UNCHANGED vars
  BY <1>1 DEF vars, RankInv, Granted
<1>2. ASSUME NEW c \in Clients, NEW op \in {"add", "set"}, NEW o \in Entities, NEW m \in Entities,
             NEW rank \in 1..4, BeginGrant(c, op, o, m, rank)
      PROVE  RankInv'
  <2> DEFINE pc == IF op = "add" THEN "cycle" ELSE "current"
  <2>1. /\ handler' = [handler EXCEPT ![c] = Request(pc, op, o, m, rank)]
        /\ UNCHANGED role /\ require_rank(c, o, rank) /\ pc \in Pcs
    BY <1>2 DEF BeginGrant, Pcs
  <2> HIDE DEF pc
  <2>2. handler'[c].obj = o /\ handler'[c].rank = rank /\ \A x \in Clients \ {c} : handler'[x] = handler[x]
    <3> DEFINE k == Request(pc, op, o, m, rank)
    <3>1. k.obj = o /\ k.rank = rank
      BY DEF Request
    <3> HIDE DEF k
    <3>2. handler' = [handler EXCEPT ![c] = k] /\ handler \in [Clients -> Handler]
      BY <1>0, <2>1 DEF k, TypeOK
    <3> QED
      BY <3>1, <3>2
  <2>3. Granted(o, rank)
    BY <1>0, <2>1, GateGranted
  <2> QED
    BY <2>1, <2>2, <2>3, RankQuiet
<1>3. ASSUME NEW c \in Clients, NEW o \in Entities, NEW m \in Entities, BeginRemove(c, o, m)
      PROVE  RankInv'
  <2> DEFINE pc == IF m # c THEN "auth" ELSE IF role[o][m] = Owner THEN "count" ELSE "write"
             rank == role[o][m]
  <2>1. /\ handler' = [handler EXCEPT ![c] = Request(pc, "remove", o, m, rank)]
        /\ UNCHANGED role /\ pc \in Pcs /\ rank > 0
    BY <1>3 DEF BeginRemove, Pcs
  <2>2. rank \in 1..4
    BY <1>0, <2>1, RoleType
  <2> HIDE DEF pc, rank
  <2>3. handler'[c].op = "remove" /\ \A x \in Clients \ {c} : handler'[x] = handler[x]
    BY <1>0, <2>1, <2>2, BeginMove
  <2> QED
    BY <2>1, <2>3, RankQuiet
<1>4. ASSUME NEW c \in Clients, Refuse(c), UNCHANGED role PROVE RankInv'
  BY <1>0, <1>4, RefuseMove, RankQuiet
<1>5. ASSUME NEW c \in Clients, NEW pc \in Pcs, Goto(c, pc), UNCHANGED role, handler[c].pc # "idle"
      PROVE  RankInv'
  <2>1. /\ handler'[c].op = handler[c].op /\ handler'[c].obj = handler[c].obj
        /\ handler'[c].rank = handler[c].rank /\ \A x \in Clients \ {c} : handler'[x] = handler[x]
    BY <1>0, <1>5, GotoMove
  <2>2. Granted(handler[c].obj, handler[c].rank) \/ handler[c].op = "remove"
    BY <1>5 DEF RankInv
  <2>3. handler'[c].op # "remove" => Granted(handler'[c].obj, handler'[c].rank)
    BY <2>1, <2>2
  <2> QED
    BY <1>5, <2>1, <2>3, RankQuiet
<1>6. ASSUME NEW c \in Clients, CheckCycle(c) \/ ReadCurrent(c) \/ CheckAuthority(c) \/ CountOwners(c)
      PROVE  RankInv'
  <2>1. UNCHANGED role /\ handler[c].pc # "idle"
    BY <1>6 DEF CheckCycle, ReadCurrent, CheckAuthority, CountOwners
  <2>2. Refuse(c) \/ \E pc \in Pcs : Goto(c, pc)
    BY <1>6 DEF CheckCycle, ReadCurrent, CheckAuthority, CountOwners, Pcs
  <2> QED
    BY <1>4, <1>5, <2>1, <2>2
<1>7. ASSUME NEW c \in Clients, Writes(c) PROVE RankInv'
  <2> DEFINE h == handler[c]
  <2>1. /\ h.obj \in Entities /\ h.member \in Entities /\ role'[h.obj][h.member] = Written(h)
        /\ \A o, m \in Entities : <<o, m>> # <<h.obj, h.member>> => role'[o][m] = role[o][m]
        /\ handler'[c].pc = "idle"
        /\ \A x \in Clients \ {c} :
             /\ handler'[x].pc = handler[x].pc /\ handler'[x].op = handler[x].op
             /\ handler'[x].obj = handler[x].obj /\ handler'[x].rank = handler[x].rank
    BY <1>0, <1>7, WriteMove
  <2>2. h.pc = "write" /\ h \in Handler
    BY <1>0, <1>7 DEF Writes, TypeOK
  <2>3. Granted(h.obj, Written(h))
    <3>1. CASE Written(h) = 0
      BY <2>1, <3>1, NothingGranted
    <3>2. CASE Written(h) # 0
      <4>1. h.op # "remove" /\ Written(h) = h.rank
        BY <3>2 DEF Written
      <4> QED
        BY <2>2, <4>1 DEF RankInv
    <3> QED
      BY <3>1, <3>2
  <2>4. ASSUME NEW o \in Entities, NEW m \in Entities PROVE Granted(o, role'[o][m])
    <3>1. CASE o = h.obj /\ m = h.member
      BY <2>1, <2>3, <3>1
    <3>2. CASE ~(o = h.obj /\ m = h.member)
      BY <2>1, <3>2 DEF RankInv
    <3> QED
      BY <3>1, <3>2
  <2>5. ASSUME NEW x \in Clients, handler'[x].pc # "idle", handler'[x].op # "remove"
        PROVE  Granted(handler'[x].obj, handler'[x].rank)
    BY <2>1, <2>5 DEF RankInv
  <2> QED
    BY <2>4, <2>5 DEF RankInv, Granted
<1>8. ASSUME NEW e \in Entities, DeleteEntity(e) PROVE RankInv'
  <2>1. /\ \A o, m \in Entities : role'[o][m] = IF e \in {o, m} THEN 0 ELSE role[o][m]
        /\ \A x \in Clients :
             /\ handler'[x].pc = handler[x].pc /\ handler'[x].op = handler[x].op
             /\ handler'[x].obj = handler[x].obj /\ handler'[x].rank = handler[x].rank
    BY <1>0, <1>8, DeleteMove
  <2>2. ASSUME NEW o \in Entities, NEW m \in Entities PROVE Granted(o, role'[o][m])
    BY <2>1, NothingGranted DEF RankInv
  <2>3. ASSUME NEW x \in Clients, handler'[x].pc # "idle", handler'[x].op # "remove"
        PROVE  Granted(handler'[x].obj, handler'[x].rank)
    BY <2>1, <2>3 DEF RankInv
  <2> QED
    BY <2>2, <2>3 DEF RankInv, Granted
<1> QED
  BY <1>1, <1>2, <1>3, <1>4, <1>6, <1>7, <1>8, MemberSteps

(* "No privilege escalation": without platform admins, nobody ever holds a  *)
(* rank on an object that nobody held on it or above it to begin with,      *)
(* however handlers that grant, revoke and delete overlap.                  *)
THEOREM NoEscalationHolds == Spec => []NoEscalation
<1>1. Init => (Admins = {} => RankInv)
  <2> SUFFICES ASSUME Init PROVE RankInv
    OBVIOUS
  <2>1. ASSUME NEW o \in Entities, NEW m \in Entities PROVE Granted(o, role[o][m])
    <3>1. o \in Ancestors[o] /\ role[o][m] = InitialRole[o][m] /\ role[o][m] \in 0..4
      BY AncestorsClosed, InitialAssumption DEF Init, Memberships, Ranks
    <3> QED
      BY <3>1 DEF Granted
  <2>2. \A c \in Clients : handler[c].pc = "idle"
    BY IdleType DEF Init
  <2> QED
    BY <2>1, <2>2 DEF RankInv
<1>2. MembersInv /\ (Admins = {} => RankInv) /\ [Next]_vars => (Admins = {} => RankInv)'
  BY RankStep
<1>3. (Admins = {} => RankInv) => NoEscalation
  BY DEF RankInv, Granted, NoEscalation
<1> QED
  BY <1>1, <1>2, <1>3, MembersInvariant, PTL DEF Spec

----------------------------------------------------------------------------
(* The two directions of the resolver. *)

(* What is listed is what the gate lets be viewed, in every state of the    *)
(* right types, if the scope chains are within the cap: deletions only      *)
(* shorten them.                                                            *)
LEMMA GateMatches == ShallowScopes /\ TypeOK => ListMatchesGate
<1> SUFFICES ASSUME ShallowScopes, TypeOK, NEW a \in Clients
             PROVE  reachable_entity_ids(role, parent, a) =
                      {o \in Entities : HasRank(role, parent, a, o, 1)}
  BY DEF ListMatchesGate
<1>1. PICK depth \in [Entities -> 0..MaxDepth] :
        \A e \in Entities : ScopeParent[e] # None => depth[ScopeParent[e]] < depth[e]
  BY DEF ShallowScopes
<1> DEFINE p == parent
<1>2. p \in ScopeEdges /\ \A e \in Entities : p[e] # None => p[e] = ScopeParent[e]
  BY ParentType DEF parent
<1>3. role \in Memberships /\ a \in Entities
  BY ClientsAssumption DEF TypeOK
<1> HIDE DEF p
<1>4. Shallow(p, depth)
  BY <1>1, <1>2 DEF Shallow
<1>5. reachable_entity_ids(role, p, a) = {o \in Entities : HasRank(role, p, a, o, 1)}
  BY <1>2, <1>3, <1>4, ReachIsRank
<1> QED
  BY <1>5 DEF p

(* list_reach and the item gate agree: for scope chains within the depth    *)
(* cap, an actor may list exactly the entities it may view, whatever is     *)
(* shared, nested, revoked or deleted.                                      *)
THEOREM ListMatchesGateHolds == ShallowScopes => (Spec => []ListMatchesGate)
<1> SUFFICES ASSUME ShallowScopes PROVE Spec => []ListMatchesGate
  OBVIOUS
<1>1. TypeOK => ListMatchesGate
  BY GateMatches
<1> QED
  BY <1>1, MembersTypeCorrect, PTL
=============================================================================
