SPECIFICATION FairSpec
CONSTANTS
  Wirings = {TRUE, FALSE}
  MaxSockets = 3
  MaxFaults = 1
INVARIANTS TypeOK LinkSound
PROPERTIES Recovers StatusHeals
CHECK_DEADLOCK FALSE
