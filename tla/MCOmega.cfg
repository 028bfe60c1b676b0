SPECIFICATION OmegaSpec
CONSTANTS
  e1 = e1
  a = a
  b = b
  Star = Star
  NoEvent = NoEvent
  Callbacks = {c1, c2}
  Types = {a, b}
  Events = {e1, e2}
  TypeOf <- MCTypeOf
  Loops = {l1, l2}
  MaxListed = 2
  Goals = {g1, g2}
  NoGoal = NoGoal
  MaxIterations = 5
  MaxGoals = 6
  Nodes = {n1, n2}
  Tags = {s1, s2}
INVARIANTS
  FanOutComplete
  StopBound
  SwarmBudget
  TagsFind
PROPERTY QueuedIsTaken
CHECK_DEADLOCK FALSE
