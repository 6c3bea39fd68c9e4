SPECIFICATION Spec
CONSTANTS
  alice = alice
  bob = bob
  Users <- Two
  MaxTurns = 2
  MaxDeltas = 1
  MaxFaults = 1
  Situations <- Slow
CHECK_DEADLOCK FALSE
INVARIANT PrivateToRecipient
