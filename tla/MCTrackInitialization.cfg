CONSTANTS
  DR = {1, 2, 3, 4}
  SensorTime <- MCSensorTime
  MaxTime = 3
  Threshold = 1
  MaxRate = 2
SPECIFICATION FairSpec
INVARIANTS
  ResultIsPartition
  ThresholdDecides
PROPERTY Terminates
CHECK_DEADLOCK FALSE
