\* One handler at a time, none cut off, both caps within reach.
SPECIFICATION FairSpec
CONSTANTS
  MaxRecorded = 20
  c1 = c1
  Clients = {c1}
  Editors = {c1}
  Admins = {c1}
  Gates = {"tests", "review"}
  MaxHops = 5
  MaxRetries = 3
  MaxAborts = 0
INVARIANTS Breaker
PROPERTIES ImplementsFeatureRun CapClosesRun
CHECK_DEADLOCK FALSE
