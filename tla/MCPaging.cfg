CONSTANTS
  Half = 2
  StackPages <- MCStackPages
  UserPages <- MCUserPages
  KernelMemory <- MCKernelMemory
  NewTable <- MCNewTable
  Leftover <- Clean
SPECIFICATION Spec
INVARIANTS
  KernelIdentity
  MappedAsAsked
