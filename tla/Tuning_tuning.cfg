\* Trades, fits, proposals, confirmations, prints and deaths in every order.
SPECIFICATION Spec
CONSTANTS
  None = None
  Env <- Defaults
  Ref = 10000
  Left = 200
  Levels <- ThreeLevels
  Prices <- ThreePrices
  Books <- SomeBooks
  Grid <- Corner
  Windows <- SomeWindows
  Histories <- SomeHistories
  FewestTrades = 2
  MinSamples = 2
  MaxPoints = 2
  MaxEvents = 5
INVARIANTS CalibratorSound ProposalSound
PROPERTIES ControlFollows FeedInOrder
