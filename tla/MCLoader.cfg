SPECIFICATION LoaderSpec
CONSTANTS
  Images <- MCImages
  Symbols <- MCSymbols
  HeapEnd = 20
  BufferPointerSize = 1
  DlBufferSize = 3
  DlSlots = 3
  FileHandles = 3
  LibraryLengths = {2, 4}
  MaxOpens = 5
INVARIANTS
  TypeOK
  LoadHitsNoBlock
  ProgramIntact
  HandlesLeadToTheirLibrary
CHECK_DEADLOCK FALSE
