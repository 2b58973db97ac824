\* Two requests in flight from two browsers; two hits a window.
SPECIFICATION Spec
CONSTANTS
  s1 = s1
  s2 = s2
  Slots = {s1, s2}
  Browsers = {"b1", "b2"}
  Keys = {"b1", "b2"}
  MaxHits = 2
  Window = 1
  Cap = 0
  Actors <- MCActors
  Dev = "dev"
  Connectors = {"con"}
  Idents = {"p", "q"}
  None = None
  StateTTL = 1
  SessionTTL = 2
  MaxWait = 1
  Workloads <- MCWorkloads
  Rank <- MCRank
  Payloads <- MCPayloads
SYMMETRY Symmetry
INVARIANTS TypeOK TwiceTheLimit OnlyFreshBeyondCap LoginOwnFlow OnePersonOneActor NoOrphanActor OneFirstAdmin ETagCurrent
PROPERTIES NamedFieldsOnly
CHECK_DEADLOCK FALSE
