CONSTANTS
  KBD_BUFFER_SIZE = 3
  MaxLen = 3
  MaxScancodes = 4
SPECIFICATION FairSpec
PROPERTIES ImplementsCharQueue ReaderCatchesUp
