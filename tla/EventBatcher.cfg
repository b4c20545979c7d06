SPECIFICATION FairSpec
CONSTANTS
  MinBatch = 1
  MaxBatch = 6
  DefaultSize = 4
  ScaleUpStep = 2
  ThresholdNum = 1
  ThresholdDen = 5
  MaxEvents = 8
INVARIANTS SizerNeverThrows WaitingHasWindow BatchWithinLimit EachEventOnce
PROPERTY EventFlushed
CHECK_DEADLOCK FALSE
