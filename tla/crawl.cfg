SPECIFICATION CrawlersSpec
CONSTANTS
  Sandwich = {"s1", "s2"}
  Type <- MCType
  FrontOrBack <- MCFrontOrBack
  Sig <- MCSig
  Bundle = {"b1", "b2", "b3"}
  Legs <- MCLegs
  SlotOf <- MCSlotOf
  SlotsPerEpoch = 2
  DB = {"solwich", "old"}
  NoBundle = "none"
  Missing = "missing"
  Worlds <- MCWorlds
  Workers = 2
  Limit = 1
  MaxAttempts = 2
  MaxFaults = 2
  MaxCrashes = 1
  Ranking <- MCRanking
  Pinned = {"SOL", "wSOL"}
  Quotable = {"t1", "t2", "t4"}
  BatchMax = 2
  PriceAttempts = 2
  PriceArgs <- MCPriceArgs
  OldPrices <- MCOldPrices
  MaxPriceFaults = 2
  MaxPriceCrashes = 1
  Feed <- MCFeed
  Shown = 3
  MinSlot = 2
  MaxSlot = 3
  ChunkSize = 2
  MaxRounds = 3
  MaxPollFaults = 1
  MaxSiteCrashes = 1
INVARIANTS VerdictsSound ShortlistLosesNothing PolledIsMerged
PROPERTIES NeverAskedAgain BundlesPublished PricesQuoted
