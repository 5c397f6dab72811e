SPECIFICATION Spec
CONSTANTS
  Task = {t1, t2, t3}
  Idle = idle
  Prio <- SomePrio
  MaxDelta = 2
  MaxVruntime = 2
  MaxId = 5
INVARIANTS RemoveFinds
PROPERTIES KeepsPromise LagNoticed VruntimeMonotone
SYMMETRY Symmetry
