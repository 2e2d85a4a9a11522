SPECIFICATION Spec
CONSTANTS
  baseDir <- MCBaseDir
  Paths <- MCPaths
  maxNumSavedLogEntries = 1
  maxNumLogEntries = 2
  Documents <- AllDocuments
  Uuids <- MCUuids
  MaxDocuments = 6
  FaultKinds = {"remove", "create", "write", "throw", "dbus", "crash"}
  MaxFaults = 2
  MaxParts = 5
CHECK_DEADLOCK FALSE
INVARIANTS
  TypeOK
  BelowRoot
  ValidIffInside
  KeepsFirstAndLatest
  OnlyRetainedOnDisk
  SavedForGood
  FoldersBounded
PROPERTIES
  AnnouncedIsStored
  ServicesSurviveRestarts
