CONSTANTS
  Tasks = {1, 2}
  NoOne = NoOne
  MainCmds = 3
  TaskCmds = 1
  Critical = TRUE
  Nested = TRUE
  Interrupts = TRUE
  WaitsFor <- MCWaitsFor
SPECIFICATION Spec
INVARIANTS TypeOK StillbornNeverRuns CountsTheInside
CHECK_DEADLOCK FALSE
