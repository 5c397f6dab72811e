SPECIFICATION FairSpec
CONSTANTS
  idle0 = idle0
  idle1 = idle1
  None = None
  Task = {main, gc, a, idle0, idle1}
  MainTask = main
  GcTask = gc
  SMP = 2
  IdleTask <- MCIdleTask
  WQ = {1, 2}
INVARIANTS TypeOK RunQueueOK MutualExclusion OwnerHasGuard NoLostWakeup QueueIsBlocked
PROPERTIES Implements LockProgress
