SPECIFICATION Spec
CONSTANTS
  Init0 = 115200  Target = 3000000
  Records = 3  Budget = 6  Backlog = 1
  Junk = "junk"
INVARIANTS AttachedAgrees AttachedSetUp
PROPERTIES AttemptEnds Attaches
