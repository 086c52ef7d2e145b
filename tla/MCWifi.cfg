CONSTANTS
  Airs <- MCAirs
  InName <- MCInName
  Points <- MCPoints
  MAX = 3
  CALLS = 2
SPECIFICATION Spec
CHECK_DEADLOCK FALSE
INVARIANTS EachListedOnce StrongestIsShown JoinsTheLastAsked StaysDisconnected
