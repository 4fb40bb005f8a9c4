SPECIFICATION Spec
CONSTANTS
  Topics = 3
  Refusals = {1, 2}
  MaxFaults = 2
INVARIANTS
  ReadyMeansJoined
  HeardIfGranted
PROPERTIES
  FirstContact
  Settles
