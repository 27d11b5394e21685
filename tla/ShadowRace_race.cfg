\* Ticks against a provisional open, a flaky feed and failing reads and writes; deaths.
SPECIFICATION FairSpec
CONSTANTS
  None = None
  Params <- Defaults
  Active = "v7"
  LeftAt <- TwoUnits
  Levels <- TwoLevels
  Markets <- SomeMarkets
  LastWindow = 1
  MaxTicks = 2
  MaxReads = 2
  MaxFaults = 1
  Samples <- SomeSamples
  MinForClears = 4
  MinN = 2
  Alpha = 50
  PValues <- SomeP
INVARIANTS TypeOK  LedgerReplays VerdictsSound
PROPERTIES ShadowsResolve
