SPECIFICATION FairSpec
CONSTANTS
  Runner = {w1, w2}
  Event = {e1, e2}
  MaxAttempts = 2
  MaxHappen = 1
  MaxToggles = 1
  MaxFaults = 2
INVARIANTS TypeOK OnePostPerLease GivesUp
PROPERTIES KeepsPromise Settles
CHECK_DEADLOCK FALSE
