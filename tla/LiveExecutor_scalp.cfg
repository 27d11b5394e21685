\* Positions sold before resolution; every exchange call may fail before or after it took effect; crashes; Stop.
SPECIFICATION Spec
CONSTANTS
  None = None
  Style = "scalp"
  Size = 2
  Faults = {"post", "cancel", "lookup"}
  CrashPoints <- AllButJournal
  Stops = TRUE
  LastWindow = 2
  LastOrder = 3
INVARIANTS TypeOK MemoryInStep NeverOverbooked
