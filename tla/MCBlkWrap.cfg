\* A write request for a sector whose byte offset is 2^64: it should be refused.
CONSTANTS
  FirstRamCell = 8
  LastRamCell = 45
  IndexModulus = 6
  AddressHalf = 32
  QueueSize = 6
  SectorUnits = 2
  DiskUnits = 4
  OffsetModulus = 16
  IdUnits = 2
  DataValues = {1}
  BlkSetups <- MCBlkWrapped
SPECIFICATION BlkSpec
PROPERTIES
  BlkWritesOnlyGiven
