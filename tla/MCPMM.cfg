CONSTANTS
  TotalPages = 6
  BootBase = 4096
  BootLength = 40960
  Counts = {0, 1, 2, 3}
  Regions <- MCRegions
  Ptrs <- MCPtrs
SPECIFICATION Spec
INVARIANT Accounting
PROPERTIES FailsOnlyWhenFull ImplementsPageAllocator
