\* Positions held to settlement; the process may die before any step but the journal of an entry; Stop.
SPECIFICATION Spec
CONSTANTS
  None = None
  Style = "settle"
  Size = 2
  Faults = {}
  CrashPoints <- AllButJournal
  Stops = TRUE
  LastWindow = 2
  LastOrder = 3
INVARIANTS BookedInFull KillQuiets OneClipPerWindow
PROPERTIES ImplementsSlot
