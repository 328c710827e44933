SPECIFICATION FairSpec
CONSTANTS
  Goroutines = {g1, g2}
  MaxRotations = 1
  MaxFaults = 1
  None = none
INVARIANTS TypeOK TransportRule
PROPERTIES RotationSurvived
CHECK_DEADLOCK FALSE
