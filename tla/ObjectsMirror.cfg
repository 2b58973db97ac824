SPECIFICATION Spec
CONSTANTS
  Null = Null
  Clients = {"manager", "member"}
  Rank <- MCRank
  Creators = {"manager"}
  Fields <- MCFields
  Editable <- MCEditable
  Required <- MCRequired
  Default <- MCDefault
  Values <- MCValues
  Kind <- MCKind
  WriteFloor <- MCWriteFloor
  Payloads <- MCPayloads
  States <- MCStates
  Transitions <- MCTransitions
  Initial = "backlog"
  CloseChecks <- NoCloseChecks
  Refs <- MCRefs
  MaxVersion = 3
  Bodies = {"new", "rename"}
INVARIANT MirrorCurrent
CHECK_DEADLOCK FALSE
