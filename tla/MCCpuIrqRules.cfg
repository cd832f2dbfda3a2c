\* A guest that ends interrupts in the reverse order of their acknowledgement.
CONSTANTS
  NumCpus = 1
  NumSgis = 1
  NumLocal = 1
  NumIntIds = 2
  MaxPrio = 2
  DefaultPriority = 1
  SnapshotImages <- MCSnapshotImages
  MaxEpoch = 1000
  MaxExcDepth = 2
  Setups <- MCRules
SPECIFICATION Spec
INVARIANTS
  RunningPriorityIsLastAcked
VIEW MCView
