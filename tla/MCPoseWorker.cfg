SPECIFICATION FairSpec
CONSTANTS
  j1 = j1
  j2 = j2
  Jobs = {j1, j2}
  MaxTries = 2
  None = None
INVARIANTS OutcomeIsItsOwn NoOrphanWork
PROPERTY EveryCallReturns
CHECK_DEADLOCK FALSE
