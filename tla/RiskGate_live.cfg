\* One day of live and paper loops: bumps, credits, resets, and the process dying inside persist().
SPECIFICATION Spec
CONSTANTS
  None = None
  LossHalt = 1
  BankrollCap = 3
  MaxTrade = 2
  TradeSizes = {}
  Notionals = {2}
  BumpMax = 1
  Pnls <- EitherWay
  Modes <- AllModes
  Layouts <- Current
  Operator = "patient"
  CrashPoints <- Anywhere
  LastDay = 0
  MaxPnl = 1
  MaxSpend = 5
INVARIANTS TypeOK PeakDominates SpendWithinCap
PROPERTIES HaltIsSticky CrashLosesAtMostOne ResetClearsHalt
