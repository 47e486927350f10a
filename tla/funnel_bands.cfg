SPECIFICATION FilesSpec
CONSTANTS
  Category = {"standard", "multi_split"}
  CategoryOrder <- MCOrder
  Price <- MCPrice
  Nothing = Nothing
  Absent = Absent
  ProfitFloor = 6
  NMin = 2
  WinNum = 4
  WinDen = 5
  SlipMin = 8
  GapMax = 2
  SignalUsd = 5
  Oneshot = {"multi_split"}
  OneshotMax = 1
  OneshotUsd = 6
  Audit <- MCAudit
  FirstEpoch = 0
  LastEpoch = 1
  Edges <- MCEdges
  Paper = {3}
  PartLimit <- MCLimit
  Worlds <- MCWorlds
  TopNs = {1}
  MaxCrashes = 0
INVARIANTS UnmeasuredOutsideBands
