\* Ticks, exits, entries and shutdowns in every order, with failed statements and deaths.
SPECIFICATION Spec
CONSTANTS
  None = None
  EntryMinRemaining = 90
  EntryEdgeMin = 2
  ConfidentEdge = 2
  EntryPrices <- Moderate
  Quotes <- EitherEdge
  Lefts <- TwoTimes
  LastWindow = 2
  MaxTicks = 3
  MaxOrders = 2
  MaxFaults = 1
  MaxOpen = 1
  Notional = 1
  MaxExposure = 1
  MaxDrawdown = 1
  TimeExit = 45
  FaultSteps <- Fragile
CHECK_DEADLOCK FALSE
INVARIANTS TypeOK OnePosition BooksAgree OrdersTraced TapeReplays
