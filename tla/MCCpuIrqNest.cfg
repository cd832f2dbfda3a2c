\* One CPU, nested handlers and manual acknowledgements of two interrupts.
CONSTANTS
  NumCpus = 1
  NumSgis = 1
  NumLocal = 1
  NumIntIds = 2
  MaxPrio = 2
  DefaultPriority = 1
  SnapshotImages <- MCSnapshotImages
  MaxEpoch = 1000
  MaxExcDepth = 2
  Setups <- MCNest
SPECIFICATION Spec
INVARIANTS
  RunningPriorityIsLastAcked
  NestedIsMoreUrgent
VIEW MCView
