SPECIFICATION ScheduleSpec
CONSTANTS
  MaxRows = 7
  NCol = 17
  NField = 16
  UIntWidth = 96
  SinceBound = 10
  DevData <- MCDevData
  DevCfgs <- MCDevCfgs
INVARIANT EveryRowLoaded
CHECK_DEADLOCK FALSE
