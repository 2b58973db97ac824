\* One actor at a time, and nothing is deleted.
SPECIFICATION Spec
CONSTANTS
  Entities <- MCEntities
  Teams = {"t1", "t2"}
  ScopeParent <- MCScopeParent
  None = "none"
  MaxDepth = 8
  Clients = {"ann"}
  Admins = {}
  InitialRole <- MCInitialRole
  Rosters = {"t1"}
  Grantees = {"ann", "bob"}
  Roles = {3, 4}
  Deletable = {}
  MaxWrites = 2
INVARIANT OwnerKept
CHECK_DEADLOCK FALSE
