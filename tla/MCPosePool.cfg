SPECIFICATION FairSpec
CONSTANTS
  Slots = {d1, d2}
  Jobs = {j1, j2}
  QueueBound = 1
  MaxAttempts = 2
  None = None
INVARIANTS
  EachJobOnce
  NoSpentWorker
  ShutdownKillsFirst
PROPERTIES
  KeepsItsPromise
  CallsEnd
