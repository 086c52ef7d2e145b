SPECIFICATION FatSpec
CONSTANTS
  NULL = NULL
  Images <- TheImages
  EOC = 12
  cluster_size = 2
  WORD = 16
  Sizes <- TheSizes
  Indices = {0, 1, 2, 3}
  Wanted <- TheNames
INVARIANTS ReadsFile WalksDirectory
CHECK_DEADLOCK FALSE
