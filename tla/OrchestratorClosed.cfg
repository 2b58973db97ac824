SPECIFICATION Spec
CONSTANTS
  MaxRecorded = 4
  c1 = c1
  c2 = c2
  Clients = {c1, c2}
  Editors = {c1, c2}
  Admins = {}
  Gates = {"review"}
  MaxHops = 8
  MaxRetries = 3
  MaxAborts = 0
PROPERTY ClosedIsFinal
CONSTRAINT ShortHistory
CHECK_DEADLOCK FALSE
