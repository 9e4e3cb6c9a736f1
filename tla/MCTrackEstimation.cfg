SPECIFICATION Spec
CONSTANTS
  TrackId = {t1, t2}
  NoTrack = NoTrack
  Place = {0, 1, 3}
  TimePassed <- MCTimePassed
  MaxGroup = 2
  MaxReports = 2
SYMMETRY TracksAreAlike
INVARIANTS
  TracksStayApart
  CorrectionApproaches
  CovarianceIsOptimal
