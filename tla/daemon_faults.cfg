SPECIFICATION FairDaemonSpec
CONSTANTS
  annotation = annotation
  schema = schema
  a1 = a1
  a2 = a2
  s1 = s1
  ResourceIds = {annotation, schema}
  annotationResourceId = annotation
  Chunks = {a1, a2, s1}
  logResourceId = schema
  Transfer <- MCTransfer
  AlteredPackets <- MCAlteredPackets
  LogResults = {"RdeOk", "throws"}
  MaxBoots = 2
  UeOutcomes = {"good", "bad"}
  EntryOutcomes = {"log", "stop", "refused", "throws"}
  QueueCapacity = 2
  MaxUe = 1
  MaxEntries = 7
  FaultKinds = {"crash", "size", "entry", "drop"}
  MaxFaults = 1
INVARIANTS
  ReadyMeansDictionaries
PROPERTIES
  QueueLogsDecodedWhole
  TransferMakesReady
  LogsFindDictionaries
