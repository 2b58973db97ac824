\* Two racing handlers, one of which may be cut off; a run can land and both caps
\* can trip.
SPECIFICATION Spec
CONSTANTS
  MaxRecorded = 5
  c1 = c1
  c2 = c2
  Clients = {c1, c2}
  Editors = {c1, c2}
  Admins = {}
  Gates = {"review"}
  MaxHops = 5
  MaxRetries = 2
  MaxAborts = 1
INVARIANTS TypeOK ChainOrder RunJustified NoPrematureEscalation
CHECK_DEADLOCK FALSE
SYMMETRY ClientSymmetry
CONSTRAINT ShortHistory
