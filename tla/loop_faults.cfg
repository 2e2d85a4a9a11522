SPECIFICATION FairSpec
CONSTANTS
  UeOutcomes = {"good", "bad"}
  EntryOutcomes = {"log", "stop", "refused", "throws"}
  QueueCapacity = 2
  MaxUe = 2
  MaxEntries = 3
  FaultKinds = {"crash", "size", "entry", "reinit", "timer"}
  MaxFaults = 2
CHECK_DEADLOCK FALSE
INVARIANTS
  FlagsCoherent
  AtMostOnceInOrder
PROPERTIES
  ReadyStays
  HandshakesSettle
