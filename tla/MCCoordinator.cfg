SPECIFICATION FairSpec
CONSTANTS
  Names = {forge, eye}
  Infos = {i1, i2}
  Monitors = {h1, h2}
  Callers = {c1, c2}
  Tasks = {t1}
  Overlap = FALSE
  None = None
CHECK_DEADLOCK FALSE
INVARIANTS RegistryMirrored RunningIsMonitored
PROPERTIES StopLeavesNothing CoordinatorProgress
