SPECIFICATION FairSpec
CONSTANTS
  QUEUE_REGION_SIZE = 9
  UE_REGION_SIZE = 1
  BufferHeaderSize = 1
  EntryHeaderSize = 2
  ByteBase = 4
  Sizes = {0, 1, 2}
  MaxEntries = 4
  FaultKinds = {"crash"}
  MaxFaults = 2
  AddressValues = 16
  LengthValues = 4
  RegionSizes = {2, 4, 6}
  MappedSize = 8
  AccessLengths = {0, 1, 3, 4, 5, 7}
INVARIANTS
  ReadPtrInRange
  CacheCoherent
PROPERTIES
  ImplementsLossyChannel
