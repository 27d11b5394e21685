\* The response to an order may be lost.
SPECIFICATION Spec
CONSTANTS
  None = None
  Style = "settle"
  Size = 2
  Faults = {"post"}
  CrashPoints = {}
  Stops = FALSE
  LastWindow = 2
  LastOrder = 3
INVARIANTS OneClipPerWindow
