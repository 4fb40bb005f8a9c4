CONSTANTS
  None = None
  Config <- PlainConfig
  MaxLen = 2
  Drainers = {mqtt, haas}
  Decoded = {1}
  BoxDepth = 1
  Readings = 2
SPECIFICATION FairSpec
INVARIANTS
  PublishedInPlace
  WholeWhenSettled
PROPERTIES
  EntriesServed
