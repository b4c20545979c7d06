SPECIFICATION Spec
CONSTANTS
  MinBatch = 1
  MaxBatch = 10
  DefaultSize = 2
  ScaleUpStep = 1
  ThresholdNum = 1
  ThresholdDen = 5
  MaxEvents = 10
INVARIANT ScalesUpUnderPressure
CHECK_DEADLOCK FALSE
