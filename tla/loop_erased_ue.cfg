SPECIFICATION FairSpec
CONSTANTS
  UeOutcomes = {"good"}
  EntryOutcomes = {"log"}
  QueueCapacity = 1
  MaxUe = 1
  MaxEntries = 0
  FaultKinds = {"crash"}
  MaxFaults = 1
PROPERTIES
  AckFollowsProcessing
