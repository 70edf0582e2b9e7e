CONSTANTS
  Images <- MCImages
  SectorSize = 512
  EntrySize = 32
  MinClusters = 4085
  MaxClusters = 65525
  MaxByte = 255
  MaxHalf = 65535
  Word = 1073741824
  MAX_BYTES_PER_CLUSTER = 32768
SPECIFICATION Spec
INVARIANTS
  BpbMatchesDisk
  LayoutInsideVolume
  OnlyFat16Mounted
  ClusterWithinMax
CHECK_DEADLOCK FALSE
