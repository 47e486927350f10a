SPECIFICATION Spec
CONSTANTS
  Slot <- LiveSlots
  Span = 2
  LeaderOf <- Schedule
  LegsOf <- Legs
  Live = TRUE
  Start = 0
  EndSlot = 11
  FirstTip = 3
  LatestGap = 4
  MaxGap = 6
  BatchNum = 4
  CacheSize = 8
  SeenSize = 4
  MarkLag = 4
  Produced = {0, 1, 2, 3, 4, 5, 6, 7, 8, 9, 11}
  Flaky = {3, 6}
  Unresolved = {5}
  MaxFaults = 1
CHECK_DEADLOCK FALSE
INVARIANTS EmittedOnce FoundBeforeLag NoOrphanTxs
