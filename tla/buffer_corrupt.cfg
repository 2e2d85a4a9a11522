SPECIFICATION FairSpec
CONSTANTS
  QUEUE_REGION_SIZE = 8
  UE_REGION_SIZE = 1
  BufferHeaderSize = 1
  EntryHeaderSize = 2
  ByteBase = 4
  Sizes = {0, 2}
  MaxEntries = 2
  FaultKinds = {"crash", "pointer", "size", "cell"}
  MaxFaults = 1
  AddressValues = 16
  LengthValues = 4
  RegionSizes = {2, 4, 6}
  MappedSize = 8
  AccessLengths = {0, 1, 3, 4, 5, 7}
INVARIANTS
  AccessesStayInRegion
  TypeOK
PROPERTIES
  Recovers
