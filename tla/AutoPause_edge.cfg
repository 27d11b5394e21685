\* Evaluations, clears, restarts and crashes interleaved step by step.
SPECIFICATION Spec
CONSTANTS
  None = None
  Window = 2
  MinTrades = 2
  FloorPct <- MinusFifteen
  Pnls <- WinOrLose
  LastTrade = 5
  LastSecond = 6
INVARIANTS TypeOK BleedBounded
PROPERTIES EntersSound ClearSticks
