CONSTANTS
  Timer = {t1, t2, t3}
  NoTimer = NoTimer
  ThreadPoolSize = 2
SPECIFICATION TimersFairSpec
INVARIANTS
  TimersTypeOK
  CallbacksDoNotOverlap
  NoCallbackAfterStop
PROPERTIES
  StopTimersReturns
  TimersFire
CHECK_DEADLOCK FALSE
