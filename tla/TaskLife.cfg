SPECIFICATION Spec
CONSTANTS
  idle0 = idle0
  idle1 = idle1
  TheQueue = wait_for_exit
  None = None
  MainTask = main
  GcTask = gc
  UserTask = {a, b, c}
INVARIANTS TypeOK HaltOnlyWhenDone Collected FreedSafe ExitedOnce
CHECK_DEADLOCK FALSE
