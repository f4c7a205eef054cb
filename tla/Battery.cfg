SPECIFICATION BatterySpec
CONSTANTS
  Levels <- ThreeLevels
  Voltages <- AroundThem
INVARIANTS Consistent
PROPERTIES NeverHigher BatteryAppears
