CONSTANTS
  Tasks = {1, 2}
  NoOne = NoOne
  MainCmds = 3
  TaskCmds = 1
  Critical = FALSE
  Nested = FALSE
  Interrupts = FALSE
  WaitsFor <- MCWaitsFor
SPECIFICATION FairSpec
 
PROPERTIES JoinSeesResult JoinReturns QuitProceeds
CHECK_DEADLOCK FALSE
