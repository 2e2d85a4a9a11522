SPECIFICATION Spec
CONSTANTS
  baseDir <- MCBaseDir
  Paths <- MCPaths
  maxNumSavedLogEntries = 1
  maxNumLogEntries = 1
  Documents <- ServiceDocuments
  Uuids <- MCUuids
  MaxDocuments = 2
  FaultKinds = {"write"}
  MaxFaults = 1
  MaxParts = 0
CHECK_DEADLOCK FALSE
PROPERTIES
  ReportedIsStored
