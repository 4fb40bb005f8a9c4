CONSTANTS
  None = None
  Config <- MeterPair
  MaxLen = 2
  Drainers = {mqtt}
  WordBase = 2
  MaxWindows = 3
  MaxUsed = 3
  BoxDepth = 1
SPECIFICATION Spec
INVARIANTS
  CapturedWhole
