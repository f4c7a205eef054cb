SPECIFICATION Spec
CONSTANTS CpuMin = 6  CpuMax = 9
INVARIANTS NoStuckBoost DarkIsSlow LitIsUsers
PROPERTIES BoostEnds
