SPECIFICATION Spec
CONSTANTS
  Task = {t1, t2, t3}
  Idle = idle
  MAX_TIME_SLICE = 2
  MaxLate = 1
  MaxDebt = 2
INVARIANTS WaitBounded QueuedOnce
PROPERTY KeepsPromise
