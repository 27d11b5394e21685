\* Real money only, and everything that may happen.
SPECIFICATION Spec
CONSTANTS
  None = None
  EnvMode = "live"
  Modes <- LiveOnly
  Events = {"wedge", "slow", "refuse", "startup", "flatten", "halt", "overlap", "poll", "crash"}
  MaxThreads = 3
INVARIANTS TypeOK OneLoopTrades
PROPERTIES NeverPaperClosed
