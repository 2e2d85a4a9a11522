SPECIFICATION Spec
CONSTANTS
  annotation = annotation
  schema = schema
  a1 = a1
  a2 = a2
  s1 = s1
  s2 = s2
  a3 = a3
  s3 = s3
  ResourceIds <- MCResourceIds
  annotationResourceId = annotation
  Chunks <- MCChunks
  Transfers <- MCTransfers
  StreamBytes <- MCStreamBytes
  MaxStream = 4
  MayLose = TRUE
  StrayPackets <- MisfitPackets
  MaxTransfers = 3
  MaxStray = 1
INVARIANTS
  DictionaryCount
  CompleteTransferAccepted
  AcceptedIsIntact
  WholeUnlessLost
  AcceptsReference
  NoCollision
