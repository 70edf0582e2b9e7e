CONSTANTS
  HANDLE_COUNT = 2
  INVALID_HANDLE = 255
  ClusterBytes = 2
  OffsetMod = 8
  EOC = 90
  FatEntries <- MCFatEntries
  Fat <- MCFat
  Root <- MCRoot
  Dirs <- MCDirs
  ValidNames <- MCNames
  Requests <- MCRequests
SPECIFICATION FairSpec
INVARIANTS
  HandlesOnChain
  ExclusiveUse
PROPERTIES
  StrayWriteOnlyWhenFull
  CallsReturn
  FileTableSpec
