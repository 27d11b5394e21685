\* Fair scheduling; cancels and lookups may fail.
SPECIFICATION FairSpec
CONSTANTS
  None = None
  Style = "settle"
  Size = 2
  Faults = {"cancel", "lookup"}
  CrashPoints = {}
  Stops = FALSE
  LastWindow = 2
  LastOrder = 3
PROPERTIES RowsResolve
