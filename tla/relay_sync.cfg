SPECIFICATION Spec
CONSTANTS
  d1 = d1
  d2 = d2
  m1 = m1
  m2 = m2
  m3 = m3
  Relay = Relay
  Daemon = {d1, d2}
  Msg = {m1, m2}
  Storable = {m1}
  PageSize = 1
  MaxLinks = 2
  MaxRestarts = 1
  MaxCrashes = 1
  MaxOutages = 0
  MaxRedisErrors = 0
INVARIANTS TypeOK OneMessagePerNumber NoSkipOnLiveSocket
PROPERTY ConsistentFeed
CHECK_DEADLOCK FALSE
