\* The short header and a frame that begins with zeros, in one segment.
CONSTANTS
  FirstRamCell = 8
  LastRamCell = 45
  IndexModulus = 6
  AddressHalf = 32
  QueueSize = 6
  FrameModulus = 3
  MaxPending = 2
  NetSetups <- MCNetOneSegment
SPECIFICATION NetSpec
INVARIANTS
  NetFramesInOrder
