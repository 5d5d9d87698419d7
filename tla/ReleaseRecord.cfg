SPECIFICATION DeploySpec
CONSTANTS
  Jobs = {j1, j2}
  MaxQueue = 1
  MaxMain = 3
  Healthy = {1, 2}
  Null = Null
  j1 = j1
  j2 = j2
CHECK_DEADLOCK FALSE
PROPERTIES RollbackRecordsWhatRuns
