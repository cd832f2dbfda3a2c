\* Several timer cycles in a step: rounding, and overflow of the rounding;
\* devices with short queues; rings whose size does not divide the index's
\* modulus, a disk of two sectors, and frames of which some begin with zeros.
CONSTANTS
  TimerCpus = {0}
  CyclesPerStep = 5
  Modulus = 64
  CompareValues = {10, 63}
  TvalValues <- MCTvalValues
  MaxTick = 2
  UartBytes = {1, 2}
  FifoLimit = 2
  StopPattern <- MCStopPattern
  ReplyPattern <- MCReplyPattern
  ReplyText <- MCReplyText
  MaxTyped = 4
  MaxSent = 4
  Keys = {"1C"}
  KmiLimit = 2
  Commands = {"00", "01", "ED", "F0", "F2", "F4", "F5", "FE", "FF"}
  RtcModulus = 8
  RtcTimes = {1, 6}
  MaxHostTime = 9
  BlockUnits = 2
  ImageBlocks = 2
  BufferRam <- MCBufferRam
  BufferAddrs = {1, 2, 4}
  Lbas = {0, 1, 2}
  Counts = {0, 1, 2}
  CellValues = {0, 1}
  HalfModulus = 4
  HalfValues = {1, 2}
  MaxCount = 2
  FirstRamCell = 8
  LastRamCell = 45
  IndexModulus = 6
  AddressHalf = 32
  QueueSize = 6
  SectorUnits = 2
  DiskUnits = 4
  OffsetModulus = 16
  IdUnits = 2
  DataValues = {1}
  BlkSetups <- MCBlkSetups
  FrameModulus = 3
  MaxPending = 2
  NetSetups <- MCNetSetups
SPECIFICATION MCSpec
INVARIANTS
  DeadlineIsExact
  ConsoleSeesPatterns
  KmiStaysInStep
  RtcAlarmSeen
  PerfMeasuresSession
  DriversTold
  NetFramesInOrder
  NetNoFrameStuck
PROPERTIES
  CounterFollowsTime
  UartDrains
  RtcTimeContinuous
  BlockAllOrNothing
  RingsAreQueues
  BlkWritesOnlyGiven
  BlkOkIsDone
  BlkChainsReturn
