SPECIFICATION Spec
CONSTANTS
  Ports = {0, 1, 3}
  Slots = 2
  CapNcs = 2
  Alignment = 16
  PointerSize = 4
  HeaderSize = 4
  HeapStart = 42
  HeapEnd = 321
  ClbSize = 8
  FbSize = 4
  TableSize = 16
  EntrySectors = 3
  BufStep = 2
  SpinLimit = 2
  Counts = {1, 3, 4, 7}
  MaxReads = 2
  Configs <- MCConfigs
  Devices = 2
  Functions = 3
  BarSize = 13
INVARIANTS
  TypeOK
  TablesApart
  DisksFound
  SataReadTruthful
PROPERTIES
  TablesOfStoppedPorts
  SataReturns
CHECK_DEADLOCK FALSE
