SPECIFICATION Spec
CONSTANTS
  NUser = 5
  KSTACK_NUM = 5
  MaxTraps = 3
  MaxPolls = 2
INVARIANTS StacksExact NoCrash Resumable ReadyExact
PROPERTY EventuallyHalts
CHECK_DEADLOCK FALSE
