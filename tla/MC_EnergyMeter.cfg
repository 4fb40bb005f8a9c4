CONSTANTS
  None = None
  Config <- MeterWord
  MaxLen = 2
  Drainers = {mqtt, haas}
  WordBase = 3
  MaxWindows = 2
  MaxUsed = 3
  BoxDepth = 2
SPECIFICATION Spec
INVARIANTS
  NothingBookedTwice
