SPECIFICATION FairSpec
CONSTANTS
  Daemon = {d1, d2}
  Crons = {1, 2}
  Caps = {0, 1}
  MaxTime = 2
  MaxEvents = 2
INVARIANTS TypeOK OncePerSlot PilesUpByHandOnly CountsAgree
PROPERTIES CatchesUp
CHECK_DEADLOCK FALSE
