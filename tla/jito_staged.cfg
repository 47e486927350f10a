SPECIFICATION FairSpec
CONSTANTS
  MinSlot = 2
  MaxSlot = 10
  EpochLen = 2
  FetchLag = 1
  MarkLag = 2
  MarkLimit = 3
  Bundled = {2, 3, 4, 6, 7, 8}
  Hit = {2, 4, 6, 8}
  StoreFaults = FALSE
  Start = 2
  EndSlot = 8
  BatchNum = 3
  MaxAttempts = 2
  Flaky = {3, 5, 7}
  Recovers = FALSE
  Runs <- StagedRuns
  MaxCrashes = 1
  DetectBatch = 2
  DetectLag = 1
  Missable = {4}
  RetriesMissed = TRUE
INVARIANTS TypeOK GapFree PurgedAtEnd
PROPERTIES DroppedWhenChecked ImplementsLedger Terminates
