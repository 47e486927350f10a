SPECIFICATION FairSpec
CONSTANTS
  MinSlot = 2
  MaxSlot = 8
  EpochLen = 3
  FetchLag = 1
  MarkLag = 2
  MarkLimit = 3
  Bundled = {2, 3, 5, 6}
  Hit = {3, 5, 6}
  StoreFaults = FALSE
  Start = 2
  EndSlot = 0
  BatchNum = 3
  MaxAttempts = 2
  Flaky = {2, 3, 6}
  Recovers = TRUE
  Runs <- TogetherRuns
  MaxCrashes = 0
  DetectBatch = 2
  DetectLag = 2
  Missable = {7}
  RetriesMissed = FALSE
CHECK_DEADLOCK FALSE
INVARIANTS CheckedIsFlagged
PROPERTIES EventuallyChecked
