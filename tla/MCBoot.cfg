SPECIFICATION Spec
CONSTANTS
  sectors_per_track = 18
  heads = 2
  Stage2Lba = 1
  Stage2Sectors = 20
  Retries = 3
  None = None
  NoDisk = None
  Machines <- MCMachines
  Bpbs <- MCBpbs
  SectorSize = 4
  EntrySize = 2
  FatEntrySize = 1
  MinClusters = 4
  MaxClusters = 7
  EndOfChain = 14
  Word = 4096
  ksize = 10
  MaxFaults = 1
INVARIANTS
  TypeOK
  Stage2EnteredWhole
  A20Opened
  KernelLoaded
PROPERTIES
  KernelReached
CHECK_DEADLOCK FALSE
