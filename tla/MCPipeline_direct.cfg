CONSTANTS
  w1 = w1
  w2 = w2
  Writers <- MCWriters
  BatchSize = 2
  SrcCap = 1
  SinkCap = 2
  MaxRecords = 3
  MaxCheckpoints = 2
  MaxCrashes = 1
  EsMayFail = FALSE
  NoOffset = NoOffset
  OffsetRange = "Direct"
  RangeBegin = 0
SYMMETRY MCSymmetry
SPECIFICATION Spec
PROPERTY RecoveryPointMonotone
CHECK_DEADLOCK FALSE
