SPECIFICATION FairSpec
CONSTANTS
  j = j
  k = k
  shell = shell
  Clients = {c1, c2}
  Jobs = {j, k}
  Tools = {shell}
  Tool <- MCTool
  Interval <- MCInterval
  Threshold <- MCThreshold
  ReadLimit = 2
  Overlap = FALSE
  None = None
  MaxTime = 3
  MaxCount = 1
  MaxFaults = 1
PROPERTIES  PassRunsAll DueJobRuns
