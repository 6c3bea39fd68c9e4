SPECIFICATION FairSpec
CONSTANTS
  d1 = d1
  d2 = d2
  m1 = m1
  m2 = m2
  m3 = m3
  Relay = Relay
  Daemon = {d1}
  Msg = {m1, m2}
  Storable = {m1, m2}
  PageSize = 1
  MaxLinks = 2
  MaxRestarts = 1
  MaxCrashes = 0
  MaxOutages = 1
  MaxRedisErrors = 1
INVARIANTS KeptAsNumbered
PROPERTIES Delivered
CHECK_DEADLOCK FALSE
