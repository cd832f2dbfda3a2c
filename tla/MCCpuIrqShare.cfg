\* Two CPUs that share a line, or signal each other.
CONSTANTS
  NumCpus = 2
  NumSgis = 1
  NumLocal = 1
  NumIntIds = 2
  MaxPrio = 1
  DefaultPriority = 0
  SnapshotImages <- MCSnapshotImages
  MaxEpoch = 1000
  MaxExcDepth = 1
  Setups <- MCShare
SPECIFICATION Spec
INVARIANTS
  NegativeAnswerStillNegative
  AssertedLineServed
  LineSpiHandledOnce
VIEW MCView
