SPECIFICATION FairSpec
CONSTANTS
  Slot <- Slots
  Span = 2
  LeaderOf <- Schedule
  LegsOf <- Legs
  Live = FALSE
  Start = 0
  EndSlot = 11
  FirstTip = 11
  LatestGap = 4
  MaxGap = 6
  BatchNum = 4
  CacheSize = 6
  SeenSize = 5
  MarkLag = 4
  Produced = {0, 1, 2, 3, 4, 5, 6, 7, 8, 9, 11}
  Flaky = {1, 6}
  Unresolved = {5}
  MaxFaults = 1
CHECK_DEADLOCK FALSE
INVARIANTS NoneLeftPending RowsWrittenOnce
PROPERTIES Terminates
