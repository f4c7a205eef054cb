SPECIFICATION Spec
CONSTANTS CpuMin = 6  CpuMax = 9
INVARIANTS LitFollowsProperty
