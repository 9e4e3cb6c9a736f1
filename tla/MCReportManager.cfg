CONSTANTS
  DR = {1, 2, 3, 4, 5}
  SensorTime <- MCSensorTime
  MaxTime = 2
  Stamp <- MCStamp
  PacketSize = 2
SPECIFICATION Spec
INVARIANTS
  OnceInOrder
PROPERTIES
  TimeNeverGoesBack
  PresentRowsAreFetched
