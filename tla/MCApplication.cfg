CONSTANTS
  Value <- MCValue
  Consumer = {controller}
  NoValue = NoValue
  TrackId = {t1, t2}
  MaxTicks = 2
  MaxQuits = 2
SPECIFICATION FairSpec
INVARIANTS
  TypeOK
  SceneIsOneSnapshot
  GuiOutlivesController
  FeedbackIsBounded
PROPERTIES
  QuitEndsProcess
  BackgroundReturns
CHECK_DEADLOCK FALSE
