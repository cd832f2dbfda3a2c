\* One CPU and a window that takes key presses.
CONSTANTS
  NumCpus = 1
  NumSgis = 1
  NumLocal = 2
  NumIntIds = 3
  MaxPrio = 1
  DefaultPriority = 0
  SnapshotImages <- MCSnapshotImages
  MaxEpoch = 0
  TimerCpus = {0}
  CyclesPerStep = 1
  Modulus = 64
  CompareValues = {}
  TvalValues = {}
  MaxTick = 0
  Budget = 3
  ShortWindow = 1
  VirtId = 0
  PhysId = 1
  DeviceId = 2
  Setups <- MCKeys
SPECIFICATION Spec
INVARIANTS
  LinesFollowDevices
