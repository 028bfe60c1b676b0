SPECIFICATION FairSpec
CONSTANTS
  m1 = m1
  m2 = m2
  m3 = m3
  s1 = s1
  s2 = s2
  Words <- MCWords
  Begins <- MCBegins
  Messages = {m1, m2, m3}
  Topic <- MCTopic
  Subs = {s1, s2}
  Pattern <- MCPattern
  Verdict <- MCFaulty
  Stoppers = {c1}
  Dispatchers = {d1, d2}
  Overlap = FALSE
  None = None
CHECK_DEADLOCK FALSE
INVARIANTS
  Delivery
  StopFinishesTask
PROPERTIES
  BusProgress
