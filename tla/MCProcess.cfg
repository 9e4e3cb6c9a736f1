SPECIFICATION FairSpec
CONSTANTS
  n1 = n1
  n2 = n2
  n3 = n3
  t1 = t1
  t2 = t2
  NaN = NaN
  Null = Null
  NoMap = NoMap
  TrackId = {t1, t2}
  Attempts = 3
  MaxSnapshots = 2
  MaxDistance = 3
  Street <- MCStreet
  Site <- MCSite
INVARIANTS
  TypeOK
  OutcomeIsKnown
  HealthyProcessKeepsRunning
  RatingIsSound
PROPERTIES
  ImplementsSnapshotLog
  OnlyTheDatabaseStopsIt
  TickEnds
