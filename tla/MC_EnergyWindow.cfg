CONSTANTS
  Drainers = {mqtt, haas}
  MaxCycles = 2
  MaxAnswers = 1
  None = None
SPECIFICATION FairSpec
INVARIANTS
  PublishedOnce
  FlagsAgree
  OneValuePerWindow
PROPERTIES
  RetiredWasPublished
  RequestServed
  WindowClosed
