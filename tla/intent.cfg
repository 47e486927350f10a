SPECIFICATION ScriptsSpec
CONSTANTS
  Category = {"standard", "multi_split"}
  CategoryOrder <- MCOrder
  Price <- MCPrice
  Nothing = Nothing
  Absent = Absent
  ProfitFloor = 6
  NMin = 2
  WinNum = 4
  WinDen = 5
  SlipMin = 8
  GapMax = 2
  SignalUsd = 5
  Oneshot = {"multi_split"}
  OneshotMax = 1
  OneshotUsd = 6
  Audit <- MCAudit
  FirstEpoch = 0
  LastEpoch = 1
  Edges <- MCEdges
  Paper = {3}
  PartLimit <- MCLimit
  Worlds <- MCWorlds
  Key = {1, 2, 3, 4}
  Sandwich = {"s1", "s2", "s3"}
  Epochs <- MCEpochs
  EpochOf <- MCEpochOf
  TokenAccount = {1}
  Inputs <- MCInputs
  OldMaps <- MCOldMaps
  Modes = {"legacy", "feepayer", "owner", "owner+guard"}
  DegreeCap = 2
  TopNs = {1}
  MaxCrashes = 1
INVARIANTS EntityIsComponent WalletNamesEntity LegacyOnlySplits OnePopulation EveryAttackerEarned DatasetIsMergedList PartsPackLegs FunnelSelectsSignalBots
