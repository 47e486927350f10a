SPECIFICATION Spec
CONSTANTS
  MinSlot = 2
  MaxSlot = 6
  EpochLen = 2
  FetchLag = 1
  MarkLag = 2
  MarkLimit = 3
  Bundled = {2, 3}
  Hit = {2, 3}
  StoreFaults = TRUE
  Start = 2
  EndSlot = 4
  BatchNum = 3
  MaxAttempts = 2
  Flaky = {3}
  Recovers = FALSE
  Runs <- TogetherAheadRuns
  MaxCrashes = 0
  DetectBatch = 2
  DetectLag = 2
  Missable = {}
  RetriesMissed = TRUE
PROPERTIES FlaggedBeforeChecked
