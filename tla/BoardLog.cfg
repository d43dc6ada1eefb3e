CONSTANTS
  a = a
  b = b
  Board = {a, b}
  Outside = Outside
  Free = Free
  Plans <- MCLogPlans
  RecordCount = 3
  NumTests = 3
  MissedIrqMax = 3
  TestCount = 4
  MaxTestCount = 3
  BufSizes <- MCBufSizes
  Dcu      <- MCDcu
  Edited   <- MCEdited
  ResetIfs <- MCResetIfs
SPECIFICATION BoardLogSpec
PROPERTIES TimerIsPeriodic
