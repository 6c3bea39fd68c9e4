SPECIFICATION FairSpec
CONSTANTS
  alice = alice
  bob = bob
  Users <- Two
  MaxTurns = 3
  MaxDeltas = 2
  MaxFaults = 1
  Situations <- AllSituations
CHECK_DEADLOCK FALSE
INVARIANT TypeOK
INVARIANT PatientStayPrivate
INVARIANT OnceInOrder
INVARIANT WholeInScope
PROPERTY Answered
