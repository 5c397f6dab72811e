SPECIFICATION FairSpec
CONSTANTS
  idle0 = idle0
  idle1 = idle1
  Task = {main, gc, a, idle0}
  MainTask = main
  GcTask = gc
  SMP = 1
  IdleTask <- MCIdleTask
  WQ = {q1}
  MaxNow = 1
  MaxDur = 1
  Ops <- LiveOps
PROPERTIES SleepReturns ReadyRuns NotifyAllEnds
INVARIANTS WaitFlagExact CleanReturn NoEarlyTimeout
