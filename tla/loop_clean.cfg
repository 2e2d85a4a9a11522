SPECIFICATION FairSpec
CONSTANTS
  UeOutcomes = {"good"}
  EntryOutcomes = {"log", "stop"}
  QueueCapacity = 2
  MaxUe = 3
  MaxEntries = 4
  FaultKinds = {}
  MaxFaults = 0
INVARIANTS
  AckedIsProcessed
PROPERTIES
  EverythingProcessed
  ImplementsReliableChannels
