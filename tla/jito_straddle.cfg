SPECIFICATION Spec
CONSTANTS
  MinSlot = 2
  MaxSlot = 8
  EpochLen = 2
  FetchLag = 1
  MarkLag = 2
  MarkLimit = 3
  Bundled = {2, 3, 5, 6}
  Hit = {2, 3, 5}
  StoreFaults = FALSE
  Start = 2
  EndSlot = 0
  BatchNum = 3
  MaxAttempts = 2
  Flaky = {3}
  Recovers = TRUE
  Runs <- TogetherRuns
  MaxCrashes = 0
  DetectBatch = 2
  DetectLag = 2
  Missable = {4}
  RetriesMissed = TRUE
PROPERTIES DroppedWhenChecked
CHECK_DEADLOCK FALSE
