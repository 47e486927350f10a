SPECIFICATION FinderSpec
CONSTANTS
  Slot <- FinderSlots
  Span = 2
  LeaderOf <- Turns
  LegsOf <- NoLegs
  Token = {1, 2}
  Sol = 1
  Wallet = {1, 2, 3, 9}
  Worlds <- FinderWorlds
  Batches <- TwoBatches
  FrontGap = 2
  BackGap = 2
  Threshold = 10
  DustFloor = 1
INVARIANTS SandwichesSound SameLeaderFirst FirstTierUnshared
