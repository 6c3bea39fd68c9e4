SPECIFICATION FairSpec
CONSTANTS
  Channel = {c1, c2}
  None = None
  MaxSends = 2
  Budgets <- MCBudgets
INVARIANTS TypeOK Accounted TwiceOnlyByRetry FreshBubblesAreRight
PROPERTIES QueuedIsPosted
CHECK_DEADLOCK FALSE
