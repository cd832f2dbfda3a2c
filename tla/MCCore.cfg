\* Two CPUs with one SGI each and a shared SPI, and every caller; programs that
\* mask interrupts and programs that do not; registers of 8 units of 4 values
\* and pages of 32 units; two cores, two address spaces and two agents.
CONSTANTS
  NumCpus = 2
  NumSgis = 1
  NumLocal = 1
  NumIntIds = 2
  MaxPrio = 2
  DefaultPriority = 1
  SnapshotImages <- MCSnapshotImages
  MaxEpoch = 5
  UserIrqMask = {TRUE, FALSE}
  ByteMod = 4
  PageBytes = 32
  VecRegs = 4
  Fanout = 2
  RamPages <- MCPages
  IpsPages <- MCIpsPages
  Cores = {0, 1}
  Asids = {1, 2}
  Sets = 1
  Ways = 2
  UserVas <- MCUserVas
  KernelVas <- MCKernelVas
  Roots <- MCRoots
  HalfPages = 8
  Stores <- MCStores
  MaxStores = 1
  BlockPlaces <- MCBlockPlaces
  FreshTable = 7
  Agents = {a, b}
  PageCells = 2
  VirtualPages = 2
  RamFrames = {0, 1}
  Holes = {2}
  Contents = {"x", "y"}
  Zero = "x"
  DecodePages = 1
SYMMETRY MCSymmetry
SPECIFICATION MCSpec
INVARIANTS
  CachedAnswerIsScanAnswer
  MaskedStepsOne
  FaultIsPrecise
  RestartsExactly
  PredecodeAgrees
  BytesFindTheirPlace
  TlbCoherent
  SnapshotKeepsTlb
  WalkFollowsMapping
  UnprivilegedIsUser
  ExclusiveIsAtomic
  ReleaseWakesWaiter
  DecodedIsMemory
PROPERTIES
  NoEmptyStep
