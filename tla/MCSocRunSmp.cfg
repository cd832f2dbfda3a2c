\* Two CPUs under both scheduler modes, and the ways they wake each other.
CONSTANTS
  NumCpus = 2
  NumSgis = 1
  NumLocal = 2
  NumIntIds = 3
  MaxPrio = 1
  DefaultPriority = 0
  SnapshotImages <- MCSnapshotImages
  MaxEpoch = 0
  TimerCpus = {0, 1}
  CyclesPerStep = 1
  Modulus = 64
  CompareValues = {3}
  TvalValues = {}
  MaxTick = 6
  Budget = 3
  ShortWindow = 1
  VirtId = 0
  PhysId = 1
  DeviceId = 2
  Setups <- MCSmp
SPECIFICATION FairSpec
INVARIANTS
  LinesFollowDevices
  BurstMeetsDeadline
  BurstEndsOnEvent
PROPERTY
  PendingEndsWfi
