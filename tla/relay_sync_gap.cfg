SPECIFICATION Spec
CONSTANTS
  d1 = d1
  d2 = d2
  m1 = m1
  m2 = m2
  m3 = m3
  Relay = Relay
  Daemon = {d1}
  Msg = {m1, m2, m3}
  Storable = {m1, m2, m3}
  PageSize = 2
  MaxLinks = 2
  MaxRestarts = 0
  MaxCrashes = 0
  MaxOutages = 0
  MaxRedisErrors = 0
INVARIANT NoPermanentGap
CHECK_DEADLOCK FALSE
