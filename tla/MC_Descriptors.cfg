CONSTANTS
  None = None
  Fds = {0, 3, 4, 5, 6, 7, 8, 9, 10}
  Lines = {1, 2}
  Receivers = {1}
  Senders = {cmd, haas}
  Clients = {1, 2}
  Named = {1}
  Lineups <- SmallLineups
  MaxClosed = 3
SPECIFICATION Spec
INVARIANTS
  HandlesHold
  
CHECK_DEADLOCK FALSE
