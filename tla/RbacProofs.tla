----------------------------- MODULE RbacProofs -----------------------------
(***************************************************************************)
(* What the resolver of Rbac computes, for every table of memberships and  *)
(* every table of scope edges.  The recursive queries climb and descend by *)
(* recursive functions; what they compute is shown by induction, as the    *)
(* sets of the numbers at which a fact holds.                              *)
(***************************************************************************)
EXTENDS Rbac, TLAPS, WellFoundedInduction, FiniteSetTheorems

(* Induction: a set that has 0 and the successor of each of its numbers has *)
(* them all.                                                                *)
LEMMA SetInduction ==
  ASSUME NEW T, 0 \in T, \A n \in Nat : n \in T => n + 1 \in T
  PROVE  Nat \subseteq T
<1> DEFINE U == Nat \ T
<1>1. SUFFICES ASSUME U # {} PROVE FALSE
  OBVIOUS
<1>2. PICK x \in U : \A y \in U : ~(<<y, x>> \in OpToRel(<, Nat))
  <2>1. IsWellFoundedOn(OpToRel(<, Nat), Nat)
    BY NatLessThanWellFounded
  <2> HIDE DEF U
  <2>2. U \subseteq Nat
    BY DEF U
  <2> QED
    BY <2>1, <2>2, <1>1, WFMin
<1>3. x # 0 /\ x - 1 \in Nat /\ x \in Nat
  OBVIOUS
<1>4. <<x - 1, x>> \in OpToRel(<, Nat)
  BY <1>3 DEF OpToRel
<1>5. x - 1 \in T
  BY <1>2, <1>3, <1>4
<1> QED
  BY <1>3, <1>5

(* The first n applications of G to A. *)
Approximates(f, X, A, G, n) ==
  /\ f \in [0..n -> SUBSET X]
  /\ f[0] = A
  /\ \A k \in 0..(n - 1) : f[k + 1] = G[f[k]]

(* There are such applications for every n ... *)
LEMMA ApproximationExists ==
  ASSUME NEW X, NEW A \in SUBSET X, NEW G \in [SUBSET X -> SUBSET X]
  PROVE  \A n \in Nat : \E f : Approximates(f, X, A, G, n)
<1> DEFINE T == {n \in Nat : \E f : Approximates(f, X, A, G, n)}
<1>1. 0 \in T
  <2>1. Approximates([k \in 0..0 |-> A], X, A, G, 0)
    BY DEF Approximates
  <2> QED
    BY <2>1
<1>2. ASSUME NEW n \in Nat, n \in T PROVE n + 1 \in T
  <2>1. PICK f : Approximates(f, X, A, G, n)
    BY <1>2
  <2> DEFINE g == [k \in 0..(n + 1) |-> IF k = n + 1 THEN G[f[n]] ELSE f[k]]
  <2>2. f \in [0..n -> SUBSET X] /\ f[0] = A /\ \A k \in 0..(n - 1) : f[k + 1] = G[f[k]]
    BY <2>1 DEF Approximates
  <2>3. f[n] \in SUBSET X /\ G[f[n]] \in SUBSET X
    BY <2>2
  <2>4. g \in [0..(n + 1) -> SUBSET X]
    BY <2>2, <2>3
  <2>5. g[0] = A
    BY <2>2
  <2>6. ASSUME NEW k \in 0..((n + 1) - 1) PROVE g[k + 1] = G[g[k]]
    <3>1. g[k] = f[k] /\ k \in 0..n
      OBVIOUS
    <3>2. CASE k = n
      BY <3>1, <3>2
    <3>3. CASE k # n
      <4>1. k \in 0..(n - 1) /\ k + 1 \in 0..(n + 1) /\ k + 1 # n + 1
        BY <3>3
      <4> QED
        BY <2>2, <3>1, <4>1
    <3> QED
      BY <3>2, <3>3
  <2> HIDE DEF g
  <2>7. Approximates(g, X, A, G, n + 1)
    BY <2>4, <2>5, <2>6 DEF Approximates
  <2> QED
    BY <2>7
<1> HIDE DEF T
<1>3. Nat \subseteq T
  BY <1>1, <1>2, SetInduction
<1> QED
  BY <1>3 DEF T

(* ... and any two of them agree. *)
LEMMA ApproximationsAgree ==
  ASSUME NEW X, NEW A \in SUBSET X, NEW G \in [SUBSET X -> SUBSET X],
         NEW m \in Nat, NEW n \in Nat, NEW f, NEW g,
         Approximates(f, X, A, G, m), Approximates(g, X, A, G, n)
  PROVE  \A k \in Nat : k <= m /\ k <= n => f[k] = g[k]
<1> DEFINE T == {k \in Nat : k <= m /\ k <= n => f[k] = g[k]}
<1>1. 0 \in T
  BY DEF Approximates
<1>2. ASSUME NEW k \in Nat, k \in T PROVE k + 1 \in T
  <2> SUFFICES ASSUME k + 1 <= m, k + 1 <= n PROVE f[k + 1] = g[k + 1]
    OBVIOUS
  <2>1. k \in 0..(m - 1) /\ k \in 0..(n - 1) /\ f[k] = g[k]
    BY <1>2
  <2> QED
    BY <2>1 DEF Approximates
<1> HIDE DEF T
<1>3. Nat \subseteq T
  BY <1>1, <1>2, SetInduction
<1> QED
  BY <1>3 DEF T

(* All the applications of G to A. *)
Iterates(F, X, A, G) ==
  F \in [Nat -> SUBSET X] /\ F[0] = A /\ \A n \in Nat : F[n + 1] = G[F[n]]

(* So a set can be grown step by step for ever. *)
LEMMA Iteration ==
  ASSUME NEW X, NEW A \in SUBSET X, NEW G \in [SUBSET X -> SUBSET X]
  PROVE  \E F : Iterates(F, X, A, G)
<1> DEFINE ap(n) == CHOOSE f : Approximates(f, X, A, G, n)
           F == [n \in Nat |-> ap(n)[n]]
<1>1. \A n \in Nat : Approximates(ap(n), X, A, G, n)
  BY ApproximationExists
<1> HIDE DEF ap
<1>2. F \in [Nat -> SUBSET X] /\ F[0] = A
  BY <1>1 DEF Approximates
<1>3. ASSUME NEW n \in Nat PROVE F[n + 1] = G[F[n]]
  <2>1. Approximates(ap(n), X, A, G, n) /\ Approximates(ap(n + 1), X, A, G, n + 1) /\ n + 1 \in Nat
    BY <1>1
  <2>2. ap(n)[n] = ap(n + 1)[n]
    BY <2>1, ApproximationsAgree
  <2>3. ap(n + 1)[n + 1] = G[ap(n + 1)[n]]
    BY <2>1 DEF Approximates
  <2> QED
    BY <2>1, <2>2, <2>3
<1> HIDE DEF F
<1>4. Iterates(F, X, A, G)
  BY <1>2, <1>3 DEF Iterates
<1> QED
  BY <1>4

----------------------------------------------------------------------------
(* The climb. *)

Parents(parent, ss) == ss \cup ({parent[s] : s \in ss} \ {None})

(* The recursive query of effective_rank, unfolded. *)
LEMMA ScopesUnfold ==
  ASSUME NEW parent \in ScopeEdges, NEW o \in Entities
  PROVE  \E S \in [Nat -> SUBSET Entities] :
           /\ S[0] = {o}
           /\ \A n \in Nat : S[n + 1] = Parents(parent, S[n])
           /\ scopes(parent, o) = S[MaxDepth]
<1> DEFINE G == [ss \in SUBSET Entities |-> Parents(parent, ss)]
<1>1. G \in [SUBSET Entities -> SUBSET Entities]
  BY DEF Parents, ScopeEdges
<1>2. PICK F : Iterates(F, Entities, {o}, G)
  <2> DEFINE A == {o}
  <2>1. A \in SUBSET Entities
    OBVIOUS
  <2> HIDE DEF A, G
  <2>2. \E F : Iterates(F, Entities, A, G)
    BY <1>1, <2>1, Iteration
  <2> QED
    BY <2>2 DEF A
<1>3. F \in [Nat -> SUBSET Entities] /\ F[0] = {o} /\ \A n \in Nat : F[n + 1] = Parents(parent, F[n])
  BY <1>2 DEF Iterates
<1>4. F = [n \in Nat |-> IF n = 0 THEN {o} ELSE F[n - 1] \cup ({parent[s] : s \in F[n - 1]} \ {None})]
  <2>1. ASSUME NEW n \in Nat, n # 0
        PROVE  F[n] = F[n - 1] \cup ({parent[s] : s \in F[n - 1]} \ {None})
    <3>1. n - 1 \in Nat /\ (n - 1) + 1 = n
      BY <2>1
    <3> QED
      BY <1>3, <3>1 DEF Parents
  <2> QED
    BY <1>3, <2>1
<1>5. PICK S : /\ S = [n \in Nat |-> IF n = 0 THEN {o}
                                     ELSE S[n - 1] \cup ({parent[s] : s \in S[n - 1]} \ {None})]
               /\ scopes(parent, o) = S[MaxDepth]
  BY <1>4 DEF scopes
<1>6. S[0] = {o} /\ \A n \in Nat : S[n + 1] = Parents(parent, S[n])
  BY <1>5 DEF Parents
<1>7. S \in [Nat -> SUBSET Entities]
  <2> DEFINE T == {n \in Nat : S[n] \in SUBSET Entities}
  <2>1. 0 \in T
    BY <1>6
  <2>2. ASSUME NEW n \in Nat, n \in T PROVE n + 1 \in T
    BY <1>6, <2>2 DEF Parents, ScopeEdges
  <2> HIDE DEF T
  <2>3. Nat \subseteq T
    BY <2>1, <2>2, SetInduction
  <2> QED
    BY <1>5, <2>3 DEF T
<1> QED
  BY <1>5, <1>6, <1>7

(* The climb finds the object itself and nothing outside a set that holds   *)
(* the object and, with each entity, its parent.                            *)
LEMMA ScopesWithin ==
  ASSUME NEW parent \in ScopeEdges, NEW o \in Entities
  PROVE  /\ o \in scopes(parent, o) /\ scopes(parent, o) \subseteq Entities
         /\ \A U \in SUBSET Entities : o \in U /\ (\A x \in U : parent[x] \in U \cup {None})
              => scopes(parent, o) \subseteq U
<1>1. PICK S \in [Nat -> SUBSET Entities] :
           /\ S[0] = {o}
           /\ \A n \in Nat : S[n + 1] = Parents(parent, S[n])
           /\ scopes(parent, o) = S[MaxDepth]
  BY ScopesUnfold
<1>2. o \in scopes(parent, o)
  <2> DEFINE T == {n \in Nat : o \in S[n]}
  <2>1. 0 \in T
    BY <1>1
  <2>2. ASSUME NEW n \in Nat, n \in T PROVE n + 1 \in T
    BY <1>1, <2>2 DEF Parents
  <2> HIDE DEF T
  <2>3. Nat \subseteq T
    BY <2>1, <2>2, SetInduction
  <2> QED
    BY <1>1, <2>3, MaxDepthAssumption DEF T
<1>3. ASSUME NEW U \in SUBSET Entities, o \in U, \A x \in U : parent[x] \in U \cup {None}
      PROVE  scopes(parent, o) \subseteq U
  <2> DEFINE T == {n \in Nat : S[n] \subseteq U}
  <2>1. 0 \in T
    BY <1>1, <1>3
  <2>2. ASSUME NEW n \in Nat, n \in T PROVE n + 1 \in T
    BY <1>1, <1>3, <2>2 DEF Parents
  <2> HIDE DEF T
  <2>3. Nat \subseteq T
    BY <2>1, <2>2, SetInduction
  <2> QED
    BY <1>1, <2>3, MaxDepthAssumption DEF T
<1> QED
  BY <1>1, <1>2, <1>3, MaxDepthAssumption

(* The scope chains are within the cap: every entity has a depth of at most *)
(* MaxDepth, greater than its parent's.                                     *)
Shallow(parent, depth) ==
  /\ depth \in [Entities -> 0..MaxDepth]
  /\ \A e \in Entities : parent[e] # None => depth[parent[e]] < depth[e]

(* Then the climb stops only where there is no parent left. *)
LEMMA ScopesClosed ==
  ASSUME NEW parent \in ScopeEdges, NEW o \in Entities, NEW depth, Shallow(parent, depth)
  PROVE  \A x \in scopes(parent, o) : parent[x] \in scopes(parent, o) \cup {None}
<1>1. PICK S \in [Nat -> SUBSET Entities] :
           /\ S[0] = {o}
           /\ \A n \in Nat : S[n + 1] = Parents(parent, S[n])
           /\ scopes(parent, o) = S[MaxDepth]
  BY ScopesUnfold
<1>2. /\ \A x \in Entities : depth[x] \in Nat /\ depth[x] <= MaxDepth
      /\ \A x \in Entities : parent[x] \in Entities \cup {None}
      /\ \A x \in Entities : parent[x] # None => depth[parent[x]] < depth[x]
  BY MaxDepthAssumption DEF Shallow, ScopeEdges
<1> DEFINE T == {n \in Nat : \A x \in S[n] : parent[x] \in S[n] \cup {None} \/ depth[x] <= depth[o] - n}
<1>3. 0 \in T
  BY <1>1, <1>2
<1>4. ASSUME NEW n \in Nat, n \in T PROVE n + 1 \in T
  <2> SUFFICES ASSUME NEW x \in S[n + 1]
               PROVE  parent[x] \in S[n + 1] \cup {None} \/ depth[x] <= depth[o] - (n + 1)
    OBVIOUS
  <2>1. S[n + 1] = S[n] \cup ({parent[s] : s \in S[n]} \ {None}) /\ S[n] \subseteq Entities
    BY <1>1 DEF Parents
  <2>2. CASE x \in S[n]
    BY <2>1, <2>2
  <2>3. CASE x \notin S[n]
    <3>1. PICK s \in S[n] : x = parent[s] /\ x # None
      BY <2>1, <2>3
    <3>2. depth[s] <= depth[o] - n
      BY <1>4, <2>3, <3>1
    <3>3. s \in Entities /\ x \in Entities /\ depth[x] < depth[s]
      BY <1>2, <2>1, <3>1
    <3> QED
      BY <1>2, <3>2, <3>3
  <2> QED
    BY <2>2, <2>3
<1> HIDE DEF T
<1>5. Nat \subseteq T
  BY <1>3, <1>4, SetInduction
<1> SUFFICES ASSUME NEW x \in S[MaxDepth], parent[x] # None PROVE parent[x] \in S[MaxDepth]
  BY <1>1
<1>6. x \in Entities /\ depth[o] - MaxDepth <= 0
  BY <1>1, <1>2, MaxDepthAssumption
<1>7. depth[parent[x]] \in Nat /\ depth[parent[x]] < depth[x]
  BY <1>2, <1>6
<1>8. parent[x] \in S[MaxDepth] \cup {None} \/ depth[x] <= depth[o] - MaxDepth
  BY <1>5, MaxDepthAssumption DEF T
<1> QED
  BY <1>2, <1>6, <1>7, <1>8, MaxDepthAssumption

----------------------------------------------------------------------------
(* The cascade. *)

Children(parent, rs) == rs \cup {o \in Entities : parent[o] \in rs}

(* The recursive query of reachable_entity_ids, unfolded. *)
LEMMA ReachUnfold ==
  ASSUME NEW role, NEW parent, NEW a
  PROVE  \E R \in [Nat -> SUBSET Entities] :
           /\ R[0] = Anchors(role, a)
           /\ \A n \in Nat : R[n + 1] = Children(parent, R[n])
           /\ reachable_entity_ids(role, parent, a) = R[Cardinality(Entities)]
<1> DEFINE G == [rs \in SUBSET Entities |-> Children(parent, rs)]
           A == Anchors(role, a)
<1>1. G \in [SUBSET Entities -> SUBSET Entities]
  BY DEF Children
<1>2. A \in SUBSET Entities
  BY DEF Anchors
<1> HIDE DEF A
<1>3. PICK F : Iterates(F, Entities, A, G)
  <2> HIDE DEF G
  <2> QED
    BY <1>1, <1>2, Iteration
<1>4. F \in [Nat -> SUBSET Entities] /\ F[0] = A /\ \A n \in Nat : F[n + 1] = Children(parent, F[n])
  BY <1>3 DEF Iterates
<1>5. F = [n \in Nat |-> IF n = 0 THEN A ELSE F[n - 1] \cup {o \in Entities : parent[o] \in F[n - 1]}]
  <2>1. ASSUME NEW n \in Nat, n # 0
        PROVE  F[n] = F[n - 1] \cup {o \in Entities : parent[o] \in F[n - 1]}
    <3>1. n - 1 \in Nat /\ (n - 1) + 1 = n
      BY <2>1
    <3> QED
      BY <1>4, <3>1 DEF Children
  <2> QED
    BY <1>4, <2>1
<1>6. PICK R : /\ R = [n \in Nat |-> IF n = 0 THEN A
                                     ELSE R[n - 1] \cup {o \in Entities : parent[o] \in R[n - 1]}]
               /\ reachable_entity_ids(role, parent, a) = R[Cardinality(Entities)]
  BY <1>5 DEF reachable_entity_ids, A
<1>7. R[0] = A /\ \A n \in Nat : R[n + 1] = Children(parent, R[n])
  BY <1>6 DEF Children
<1>8. R \in [Nat -> SUBSET Entities]
  <2> DEFINE T == {n \in Nat : R[n] \in SUBSET Entities}
  <2>1. 0 \in T
    BY <1>2, <1>7
  <2>2. ASSUME NEW n \in Nat, n \in T PROVE n + 1 \in T
    BY <1>7, <2>2 DEF Children
  <2> HIDE DEF T
  <2>3. Nat \subseteq T
    BY <2>1, <2>2, SetInduction
  <2> QED
    BY <1>6, <2>3 DEF T
<1> QED
  BY <1>6, <1>7, <1>8 DEF A

(* The cascade finds what is shared and, with each entity, all below it ... *)
LEMMA ReachClosed ==
  ASSUME NEW role, NEW parent, NEW a
  PROVE  LET rs == reachable_entity_ids(role, parent, a) IN
         /\ rs \subseteq Entities /\ Anchors(role, a) \subseteq rs
         /\ \A o \in Entities : parent[o] \in rs => o \in rs
<1>1. PICK R \in [Nat -> SUBSET Entities] :
           /\ R[0] = Anchors(role, a)
           /\ \A n \in Nat : R[n + 1] = Children(parent, R[n])
           /\ reachable_entity_ids(role, parent, a) = R[Cardinality(Entities)]
  BY ReachUnfold, SMTT(30)
<1> DEFINE N == Cardinality(Entities)
           T == {n \in Nat : R[n + 1] = R[n] \/ Cardinality(R[n]) >= n}
           V == {n \in Nat : Anchors(role, a) \subseteq R[n]}
<1>2. IsFiniteSet(Entities) /\ N \in Nat
  BY EntitiesAssumption, FS_CardinalityType
<1>3. ASSUME NEW n \in Nat
      PROVE  IsFiniteSet(R[n]) /\ Cardinality(R[n]) \in Nat /\ Cardinality(R[n]) <= N
             /\ R[n] \subseteq Entities /\ R[n] \subseteq R[n + 1]
             /\ (Cardinality(R[n]) = N => R[n] = Entities)
  <2>1. R[n] \subseteq Entities /\ R[n] \subseteq R[n + 1]
    BY <1>1 DEF Children
  <2>2. IsFiniteSet(R[n]) /\ Cardinality(R[n]) <= N /\ (Cardinality(R[n]) = N => R[n] = Entities)
    BY <1>2, <2>1, FS_Subset
  <2> QED
    BY <2>1, <2>2, FS_CardinalityType
<1>4. 0 \in T /\ 0 \in V
  BY <1>1, <1>3
<1>5. ASSUME NEW n \in Nat, n \in T PROVE n + 1 \in T
  <2>1. CASE R[n + 1] = R[n]
    <3>1. R[(n + 1) + 1] = Children(parent, R[n + 1]) /\ R[n + 1] = Children(parent, R[n])
      BY <1>1
    <3> QED
      BY <2>1, <3>1
  <2>2. CASE R[n + 1] # R[n]
    <3>1. Cardinality(R[n]) <= Cardinality(R[n + 1]) /\ Cardinality(R[n]) # Cardinality(R[n + 1])
      BY <1>3, <2>2, FS_Subset
    <3>2. Cardinality(R[n]) >= n
      BY <1>5, <2>2
    <3>3. Cardinality(R[n + 1]) >= n + 1
      BY <1>3, <3>1, <3>2
    <3> QED
      BY <3>3
  <2> QED
    BY <2>1, <2>2
<1>6. ASSUME NEW n \in Nat, n \in V PROVE n + 1 \in V
  BY <1>3, <1>6
<1> HIDE DEF T, V, N
<1>7. N \in T /\ N \in V
  BY <1>2, <1>4, <1>5, <1>6, SetInduction
<1>8. R[N + 1] = R[N] \/ R[N] = Entities
  <2>1. R[N + 1] = R[N] \/ Cardinality(R[N]) >= N
    BY <1>7 DEF T
  <2> QED
    BY <1>2, <1>3, <2>1
<1>9. \A o \in Entities : parent[o] \in R[N] => o \in R[N]
  BY <1>1, <1>2, <1>8 DEF Children
<1>10. reachable_entity_ids(role, parent, a) = R[N] /\ R[N] \subseteq Entities
       /\ Anchors(role, a) \subseteq R[N]
  BY <1>1, <1>2, <1>3, <1>7 DEF N, V
<1> QED
  BY <1>9, <1>10

(* ... and nothing outside a set of which this is true. *)
LEMMA ReachWithin ==
  ASSUME NEW role, NEW parent, NEW a, NEW D, Anchors(role, a) \subseteq D,
         \A o \in Entities : parent[o] \in D => o \in D
  PROVE  reachable_entity_ids(role, parent, a) \subseteq D
<1>1. PICK R \in [Nat -> SUBSET Entities] :
           /\ R[0] = Anchors(role, a)
           /\ \A n \in Nat : R[n + 1] = Children(parent, R[n])
           /\ reachable_entity_ids(role, parent, a) = R[Cardinality(Entities)]
  BY ReachUnfold, SMTT(30)
<1> DEFINE T == {n \in Nat : R[n] \subseteq D}
<1>2. 0 \in T
  BY <1>1
<1>3. ASSUME NEW n \in Nat, n \in T PROVE n + 1 \in T
  BY <1>1, <1>3 DEF Children
<1> HIDE DEF T
<1>4. Nat \subseteq T
  BY <1>2, <1>3, SetInduction
<1>5. Cardinality(Entities) \in Nat
  BY EntitiesAssumption, FS_CardinalityType
<1> QED
  BY <1>1, <1>4, <1>5 DEF T

----------------------------------------------------------------------------
(* For scope chains within the cap the two directions agree: the entities   *)
(* the cascade lists are those the gate of effective_rank lets be viewed.   *)
THEOREM ReachIsRank ==
  ASSUME NEW role \in Memberships, NEW parent \in ScopeEdges, NEW depth, Shallow(parent, depth),
         NEW a \in Entities
  PROVE  reachable_entity_ids(role, parent, a) = {o \in Entities : HasRank(role, parent, a, o, 1)}
<1> DEFINE rs == reachable_entity_ids(role, parent, a)
           as == Anchors(role, a)
           Gate(o) == \E s \in scopes(parent, o) : s \in as
<1>1. ASSUME NEW o \in Entities PROVE HasRank(role, parent, a, o, 1) <=> Gate(o)
  <2>1. \A s \in scopes(parent, o) : s \in Entities
    BY ScopesWithin
  <2>2. ASSUME NEW s \in Entities, NEW m \in principals(role, a)
        PROVE  role[s][m] >= 1 /\ role[s][m] > 0 <=> role[s][m] > 0
    <3>1. m \in Entities
      BY EntitiesAssumption DEF principals
    <3>2. role[s][m] \in Nat
      BY <3>1 DEF Memberships, Ranks
    <3> QED
      BY <3>2
  <2> QED
    BY <2>1, <2>2 DEF HasRank, Anchors
<1>2. /\ rs \subseteq Entities /\ as \subseteq rs
      /\ \A o \in Entities : parent[o] \in rs => o \in rs
  BY ReachClosed
<1>3. ASSUME NEW o \in Entities, Gate(o) PROVE o \in rs
  <2> SUFFICES ASSUME o \notin rs PROVE FALSE
    OBVIOUS
  <2> DEFINE U == Entities \ rs
  <2>1. o \in U /\ U \in SUBSET Entities
    OBVIOUS
  <2>2. \A x \in U : parent[x] \in U \cup {None}
    BY <1>2 DEF ScopeEdges
  <2>3. scopes(parent, o) \subseteq U
    <3> HIDE DEF U
    <3> QED
      BY <2>1, <2>2, ScopesWithin
  <2> QED
    BY <1>2, <1>3, <2>3
<1>4. rs \subseteq {o \in Entities : Gate(o)}
  <2> DEFINE D == {o \in Entities : Gate(o)}
  <2>1. as \subseteq D
    BY <1>2, ScopesWithin
  <2>2. ASSUME NEW o \in Entities, parent[o] \in D PROVE o \in D
    <3> DEFINE p == parent[o]
               U == scopes(parent, o)
    <3>1. p \in Entities /\ p # None
      BY <2>2, EntitiesAssumption
    <3>2. U \in SUBSET Entities /\ o \in U /\ \A x \in U : parent[x] \in U \cup {None}
      BY ScopesWithin, ScopesClosed
    <3>3. p \in U
      BY <3>1, <3>2
    <3>4. scopes(parent, p) \subseteq U
      <4> HIDE DEF U, p
      <4> QED
        BY <3>1, <3>2, <3>3, ScopesWithin
    <3> QED
      BY <2>2, <3>4
  <2> HIDE DEF D
  <2>3. rs \subseteq D
    BY <2>1, <2>2, ReachWithin
  <2> QED
    BY <2>3 DEF D
<1> QED
  BY <1>1, <1>2, <1>3, <1>4

----------------------------------------------------------------------------
(* The nesting of teams. *)

(* The actor is a principal of itself, and so is every team a principal of  *)
(* it is a member of.                                                       *)
LEMMA PrincipalsClosed ==
  ASSUME NEW role, NEW a
  PROVE  /\ a \in principals(role, a)
         /\ \A t \in Teams, m \in principals(role, a) : role[t][m] > 0 => t \in principals(role, a)
BY DEF principals, HasItsTeams

(* There are no others. *)
LEMMA PrincipalsWithin ==
  ASSUME NEW role, NEW a, NEW P, a \in P,
         \A t \in Teams, m \in P : role[t][m] > 0 => t \in P
  PROVE  principals(role, a) \subseteq P
<1> DEFINE S == P \cap Teams
<1>1. S \in SUBSET Teams /\ HasItsTeams(role, a, S)
  BY DEF HasItsTeams
<1> HIDE DEF S
<1>2. principals(role, a) \subseteq {a} \cup S
  BY <1>1 DEF principals
<1> QED
  BY <1>2 DEF S

(* The principals of a principal are principals. *)
LEMMA PrincipalsTransitive ==
  ASSUME NEW role, NEW a, NEW b \in principals(role, a)
  PROVE  principals(role, b) \subseteq principals(role, a)
<1> DEFINE P == principals(role, a)
<1>1. b \in P /\ \A t \in Teams, m \in P : role[t][m] > 0 => t \in P
  BY PrincipalsClosed
<1> HIDE DEF P
<1>2. principals(role, b) \subseteq P
  BY <1>1, PrincipalsWithin
<1> QED
  BY <1>2 DEF P

(* No team contains itself through others. *)
Acyclic(role) == \A s, t \in Teams : role[s][t] > 0 => t \notin principals(role, s)

(* Taking memberships away, or changing their rank, nests no team. *)
LEMMA ShrinkAcyclic ==
  ASSUME NEW old, NEW new, Acyclic(old),
         \A t \in Teams, m \in Entities : new[t][m] > 0 => old[t][m] > 0
  PROVE  Acyclic(new)
<1>1. ASSUME NEW a \in Teams PROVE principals(new, a) \subseteq principals(old, a)
  <2> DEFINE P == principals(old, a)
  <2>1. P \subseteq Entities
    BY EntitiesAssumption DEF principals
  <2>2. a \in P /\ \A t \in Teams, m \in P : new[t][m] > 0 => t \in P
    BY <2>1, PrincipalsClosed
  <2> HIDE DEF P
  <2>3. principals(new, a) \subseteq P
    BY <2>2, PrincipalsWithin
  <2> QED
    BY <2>3 DEF P
<1> QED
  BY <1>1, EntitiesAssumption DEF Acyclic

(* The guard of add_member is the right one: a member that is no principal  *)
(* of the object closes no cycle, whatever its rank.                        *)
LEMMA AddAcyclic ==
  ASSUME NEW old, NEW new, NEW o \in Entities, NEW m \in Entities, Acyclic(old),
         m \notin principals(old, o),
         \A t \in Teams, x \in Entities : <<t, x>> # <<o, m>> => new[t][x] = old[t][x]
  PROVE  Acyclic(new)
<1> DEFINE V(x) == IF m \in principals(old, x) THEN principals(old, x) \cup principals(old, o)
                   ELSE principals(old, x)
<1>1. ASSUME NEW x \in Teams PROVE principals(new, x) \subseteq V(x)
  <2> DEFINE P == V(x)
  <2>1. x \in P
    BY PrincipalsClosed
  <2>2. P \subseteq Entities
    BY EntitiesAssumption DEF principals
  <2>3. ASSUME NEW t \in Teams, NEW y \in P, new[t][y] > 0 PROVE t \in P
    <3>1. CASE t = o /\ y = m
      <4>1. m \in principals(old, x)
        BY <2>3, <3>1
      <4>2. o \in principals(old, o)
        BY PrincipalsClosed
      <4> QED
        BY <3>1, <4>1, <4>2
    <3>2. CASE ~(t = o /\ y = m)
      <4>1. old[t][y] > 0
        BY <2>2, <2>3, <3>2
      <4>2. y \in principals(old, x) => t \in principals(old, x)
        BY <4>1, PrincipalsClosed
      <4>3. y \in principals(old, o) => t \in principals(old, o)
        BY <4>1, PrincipalsClosed
      <4> QED
        BY <2>3, <4>2, <4>3
    <3> QED
      BY <3>1, <3>2
  <2> HIDE DEF P
  <2>4. principals(new, x) \subseteq P
    BY <2>1, <2>3, PrincipalsWithin
  <2> QED
    BY <2>4 DEF P
<1> SUFFICES ASSUME NEW s \in Teams, NEW t \in Teams, new[s][t] > 0, t \in V(s)
             PROVE  FALSE
  BY <1>1 DEF Acyclic
<1>2. CASE s = o /\ t = m
  BY <1>2
<1>3. CASE ~(s = o /\ t = m)
  <2>1. old[s][t] > 0
    BY <1>3, EntitiesAssumption
  <2>2. t \notin principals(old, s)
    BY <2>1 DEF Acyclic
  <2>3. m \in principals(old, s) /\ t \in principals(old, o)
    BY <2>2
  <2>4. s \in principals(old, o)
    BY <2>1, <2>3, PrincipalsClosed
  <2>5. m \in principals(old, o)
    BY <2>3, <2>4, PrincipalsTransitive
  <2> QED
    BY <2>5
<1> QED
  BY <1>2, <1>3
=============================================================================
