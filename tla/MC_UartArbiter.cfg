CONSTANTS
  NumDevices = 1
  FanRead = TRUE
  PollRetries = 2
  CtrlRetries = 1
  StealAfter = 1
  MaxTime = 3
  MaxClockSets = 1
SPECIFICATION ChannelSpec
INVARIANTS
  BusyHasHolder
  PendingIsControls
  ExclusionUnlessRaced
PROPERTIES
  ControlReturns
  PollWaitEnds
