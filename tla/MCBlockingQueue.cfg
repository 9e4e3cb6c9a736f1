CONSTANTS
  Producer = {timer, gui}
  Consumer = {c1, c2}
  NoThread = NoThread
  NoValue = NoValue
  MaxPushes = 2
SPECIFICATION FairSpec
INVARIANTS
  TypeOK
  MutualExclusion
  NoLostWakeup
PROPERTY ImplementsMessageQueue
