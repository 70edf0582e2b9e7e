CONSTANTS
  SECTOR_SIZE = 3
  FirstSector = 2
  SectorLimit = 6
  Offsets <- MCOffsets
  Lengths <- MCLengths
  StreamEnd = 15
  Junk = Junk
SPECIFICATION FairSpec
INVARIANTS
  ReadDelivers
  PointerInStep
PROPERTY ReadReturns
