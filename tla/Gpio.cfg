SPECIFICATION Spec
CONSTANTS
  Lines = {3, 23}
  QueueLen = 2
  Wanteds = {0, 2}
  Settings <- SomeSettings
  MaxEdges = 3
  MaxChanges = 1
INVARIANTS EdgesConserved FairToLines EndsInTime
PROPERTIES EdgesServed ConfigTakesEffect
CHECK_DEADLOCK FALSE
