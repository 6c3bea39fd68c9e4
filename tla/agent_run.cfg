SPECIFICATION FairSpec
CONSTANTS
  MaxRuns = 3
  MaxStops = 2
  Situations <- All
CHECK_DEADLOCK FALSE
INVARIANT TypeOK
INVARIANT OneRun
INVARIANT Admits
INVARIANT EndsByOwnAnswer
PROPERTY NoIdleGap
PROPERTY StopsUnwind
PROPERTY Replaces
