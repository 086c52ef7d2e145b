CONSTANTS
  Apps <- MCApps
  Repo <- MCRepo
  Local <- MCLocal
  MAX_APPS = 3
  Faults = {"mkdir", "cp", "rm", "meta", "ln"}
  MaxOps = 6
SPECIFICATION Spec
CHECK_DEADLOCK FALSE
INVARIANTS FlagsExact SuccessRuns CleanUninstall
PROPERTY InstalledAreListed
