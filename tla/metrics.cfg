SPECIFICATION PairsSpec
CONSTANTS
  SlotsPerEpoch = 2
  FirstEpoch = 0
  LastEpoch = 1
  FloorDen = 4
  TolDen = 4
  LongGap = 1
  LongGapTx = 3
  Excluded = {1}
  Price <- MCPrice
  Nothing = Nothing
  Worlds <- MCWorlds
  Copies = {1}
  WindowSlack = 4
  OffsetMax = 1
  EtaNum = 1
  EtaDen = 1
  MinNear = 1
  MinShared = 2
  IncludeCrossLeader = TRUE
INVARIANTS EachSandwichOnce GapsCountTransactions ScoreCoversVictims NoLegLost CrossLeaderSplits CrossingLeavesRotation ChanceIsNeutral CohortsOwnValidators
