\* Two actors manage two teams and link what they share while an actor and a
\* project may be deleted; the depth cap is just the depth of the scope chain.
SPECIFICATION RelationsSpec
CONSTANTS
  Entities <- MCEntities
  Teams = {"t1", "t2"}
  ScopeParent <- MCScopeParent
  None = "none"
  MaxDepth = 2
  Clients = {"ann", "bob"}
  Admins = {}
  InitialRole <- MCInitialRole
  Rosters = {"t1", "t2"}
  Grantees = {"ann", "bob", "t1", "t2"}
  Roles = {3, 4}
  Deletable = {"bob", "prj"}
  MaxWrites = 2
  InitialEdges <- MCInitialEdges
  Linkable = {"cas", "prj"}
  MaxLinks = 2
  Mixed <- MCMixed
INVARIANTS TypeOK TeamsAcyclic ListMatchesGate NoEscalation ListingExact EdgesSound
PROPERTIES LastOwnerGuard LinkAuthority
CHECK_DEADLOCK FALSE
