CONSTANTS
  Paths <- MCPaths
  Mount <- MCMount
  Operands <- MCOperands
  Disk <- MCDisk
  CMDS = 2
  SEARCH = 4
  MAXSORT = 3
  Names = {"u", "w"}
  Passwords = {"p", "q"}
  ChosenNames = {"w"}
  ChosenPasswords = {"p"}
  Default = "u"
  STARTS = 1
SPECIFICATION Spec
CHECK_DEADLOCK FALSE
INVARIANTS LoginAsChosen CommandsStayInside CopyExact
