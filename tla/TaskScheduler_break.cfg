CONSTANTS
  Tasks = {1, 2}
  NoOne = NoOne
  MainCmds = 2
  TaskCmds = 1
  Critical = FALSE
  Nested = FALSE
  Interrupts = TRUE
  WaitsFor <- MCWaitsFor
SPECIFICATION Spec
PROPERTY JoinSeesResult
CHECK_DEADLOCK FALSE
