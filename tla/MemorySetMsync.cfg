SPECIFICATION Spec
CONSTANTS
  NPage = 4
  FileLen = 4
  Offsets = {1}
  MaxCalls = 3
  R = R
  RW = RW
  Zero = Zero
  Dirty = Dirty
  Unused = Unused
  Fault = Fault
  None = None
PROPERTY MsyncWritesBack
CHECK_DEADLOCK FALSE
