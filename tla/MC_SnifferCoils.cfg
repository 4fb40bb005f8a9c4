CONSTANTS
  None = None
  MaxPending = 2
  Timeout = 1
  Channels = {1, 2}
  Slaves = {1, 2}
  Registers = {0, 1}
  MaxCount = 3
  Functions = {1, 3, 5, 6, 16}
  CoilsPerByte = 1
  FanRead = FALSE
  Sites = {"coils"}
  Asks <- CoilAsks
  Faults <- CoilFaults
  MaxWrites = 3
  Threads = {"cmd", "mqtt", "haas"}
  Jobs <- UserJobs
  MaxClock = 2
SPECIFICATION BothSpec
PROPERTIES
  AnswerIsStored
CHECK_DEADLOCK FALSE
