SPECIFICATION Spec
CONSTANTS
  NPage = 4
  FileLen = 3
  Offsets = {1}
  MaxCalls = 3
  R = R
  RW = RW
  Zero = Zero
  Dirty = Dirty
  Unused = Unused
  Fault = Fault
  None = None
INVARIANTS NoPanic PageTableAgrees FindFree CloneFaithful
PROPERTIES Implements MoveFaithful
CHECK_DEADLOCK FALSE
