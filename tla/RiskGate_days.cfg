\* Whatever generation of keys the first boot finds: stops, restarts, midnights, crashes between awaits.
SPECIFICATION Spec
CONSTANTS
  None = None
  LossHalt = 2
  BankrollCap = 3
  MaxTrade = 2
  TradeSizes = {1}
  Notionals = {2}
  BumpMax = 0
  Pnls <- LossAndGain
  Modes <- PaperOnly
  Layouts <- EveryLayout
  Operator = "none"
  CrashPoints = {}
  LastDay = 1
  MaxPnl = 2
  MaxSpend = 4
INVARIANTS RestartRebuilds
PROPERTIES NoEntryAtFloor
