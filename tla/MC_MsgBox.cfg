CONSTANTS
  Readers = {mqtt, haas}
  Depth = 2
  MaxMessages = 6
  None = None
SPECIFICATION FairSpec
INVARIANTS
  BuffersAccounted
  OvertakingBounded
PROPERTIES
  IsLossyFifo
  QueueMoves
