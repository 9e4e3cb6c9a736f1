CONSTANTS
  DR = {1, 2, 3, 4}
  SensorTime <- MCSensorTime
  MaxTime = 3
  Dt = 1
  MaxCollections = 2
  MaxGroups = 4
SPECIFICATION AlignmentSpec
INVARIANTS
  NothingLostOrRepeated
  GroupsAreAligned
CHECK_DEADLOCK FALSE
