CONSTANTS
  RAM <- MCRam
  Given <- MCGiven
  BootTables <- MCBoot
  Root = 20
  CELLS = 4
  LEVELS = 3
  Tuple <- MCTuple
  Stale = 5
  Files <- MCFiles
  HEADER = 2
  STACK = {17, 18}
  RUNS = 4
SPECIFICATION Spec
CHECK_DEADLOCK FALSE
INVARIANTS TablesPrivate StackPrivate SegmentsAsInFile OverlapWhenUsedUp
PROPERTIES TranslationStable
