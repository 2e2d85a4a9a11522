SPECIFICATION Spec
CONSTANTS
  annotation = annotation
  schema = schema
  a1 = a1
  a2 = a2
  s1 = s1
  s2 = s2
  a3 = a3
  s3 = s3
  ResourceIds <- MCResourceIds
  annotationResourceId = annotation
  Chunks <- MCChunks
  Transfers <- MCTransfers
  StreamBytes <- MCStreamBytes
  MaxStream = 0
  MayLose = TRUE
  StrayPackets = {}
  MaxTransfers = 1
  MaxStray = 0
INVARIANTS
  DecodedWithWholeDictionaries
