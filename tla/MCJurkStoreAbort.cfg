CONSTANTS
  Apps <- MCApps
  Repo <- MCRepo
  Local <- MCLocal
  MAX_APPS = 3
  Faults = {}
  MaxOps = 4
SPECIFICATION Spec
CHECK_DEADLOCK FALSE
PROPERTY AbortUntouched
