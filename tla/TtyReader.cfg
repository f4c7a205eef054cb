SPECIFICATION Spec
CONSTANTS
  Base = 16  SOF = 5  HDR = 10
  Frames <- Kinds
  Count = 2
  HistorySize = 2  MaxIdle = 1  MaxGaps = 1
  Garbage = {0, 1}
INVARIANTS OnlySent WholeIsHeard VoltageBetween
PROPERTIES McuSpec Decided
CHECK_DEADLOCK FALSE
