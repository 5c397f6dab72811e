SPECIFICATION Spec
CONSTANTS
  NUser = 2
  KSTACK_NUM = 10
  MaxTraps = 2
  MaxPolls = 1
INVARIANT StartedWasPreempted
CHECK_DEADLOCK FALSE
