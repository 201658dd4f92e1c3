\* Two threads on either side, objects of two bytes, room for three.
CONSTANTS
  ServerThreads = {s1, s2}
  ClientThreads = {c1, c2}
  Size = 2
  Capacity = 3
  MaxCount = 1
  MaxCalls = 2
SPECIFICATION FairSpec
INVARIANTS ObjectsWhole
PROPERTIES CallsReturn
\* Both ends may be closed.
CHECK_DEADLOCK FALSE
