CONSTANTS
  DR = {1, 2, 3, 4}
  SensorTime <- MCSensorTime
  MaxTime = 5
  TrackId = {t1, t2, t3, t4}
  TTL = 2
  Dt = 1
SPECIFICATION Spec
INVARIANT AssociatedTracksExist
CHECK_DEADLOCK FALSE
