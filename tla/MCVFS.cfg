CONSTANTS
  Images <- MCImages
  Paths <- MCPaths
  PciFunctions <- MCPciFunctions
  Slots = 4
  MAX_PCI_DEVICES = 4
  HeapNodes = 50
SPECIFICATION VFSSpec
CHECK_DEADLOCK FALSE
INVARIANTS LookupMatchesDisk InitChoice DevTreeComplete ListsDirectory
