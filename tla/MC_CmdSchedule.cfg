CONSTANTS
  UploadTime = 11
  Modulus = 8
  WindowTime = 7
  MaxRound = 2
  Sets <- ClockSteps
  MaxSets = 2
  Long = 32
  Tables <- DeviceTables
  Drainers = {mqtt, haas}
  MaxGiven = 1
  None = None
SPECIFICATION BothSpec
INVARIANTS
  FirstReadIsNotRepeated
  ReadInTime
  WindowInTime
  
PROPERTIES
  OwnedAgain
