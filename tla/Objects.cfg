\* A manager and a member race each other, with two close checks.
SPECIFICATION Spec
CONSTANTS
  Null = Null
  Clients = {"manager", "member"}
  Rank <- MCRank
  Creators = {"manager"}
  Fields <- MCFields
  Editable <- MCEditable
  Required <- MCRequired
  Default <- MCDefault
  Values <- MCValues
  Kind <- MCKind
  WriteFloor <- MCWriteFloor
  Payloads <- MCPayloads
  States <- MCStates
  Transitions <- MCTransitions
  Initial = "backlog"
  CloseChecks <- MCCloseChecks
  Refs <- MCRefs
  MaxVersion = 3
  Bodies = {"new", "start", "close", "assign"}
INVARIANTS TypeOK NoLostUpdate StatusPathLegal CloseNeedsChecks MirrorIsAVersion ParentIsProject AuditAccounted
PROPERTIES FieldFloor
CHECK_DEADLOCK FALSE
