SPECIFICATION Spec
CONSTANTS
  idle0 = idle0
  idle1 = idle1
  Task = {main, gc, idle0, idle1}
  MainTask = main
  GcTask = gc
  SMP = 2
  IdleTask <- MCIdleTask
  WQ = {q1}
  MaxNow = 1
  MaxDur = 1
  Ops <- LostOps
INVARIANTS NoReadyTaskLost
