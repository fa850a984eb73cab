CONSTANTS
  Tasks = {1, 2}
  NoOne = NoOne
  MainCmds = 2
  TaskCmds = 1
  Critical = TRUE
  Nested = FALSE
  Interrupts = FALSE
  WaitsFor <- MCWaitsFor
SPECIFICATION FairSpec
PROPERTY JoinReturns
CHECK_DEADLOCK FALSE
