CONSTANTS
  Half = 2
  StackPages <- MCStackPages
  UserPages <- MCUserPages
  KernelMemory <- MCKernelMemory
  NewTable <- MCNewTable
  Leftover <- Dirty
SPECIFICATION Spec
INVARIANTS
  MappedAsAsked
