SPECIFICATION Spec
CONSTANTS
  Channel = {c1, c2}
  None = None
  MaxSends = 2
  Budgets <- MCBudgets
INVARIANT NoDoubleRow
CHECK_DEADLOCK FALSE
