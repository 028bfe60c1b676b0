SPECIFICATION BothSpec
CONSTANTS
  Threads = {t1, t2, t3}
  MaxBoxes = 4
  MaxWraps = 2
  MaxCalls = 4
  Callers = {u1, u2}
  Names = {tool}
  Files = {f1, f2}
  MaxCases = 2
SYMMETRY Symmetry
INVARIANTS
  RunsOnce
  
  ForgeSound
CHECK_DEADLOCK FALSE
