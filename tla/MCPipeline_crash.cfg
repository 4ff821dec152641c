CONSTANTS
  w1 = w1
  w2 = w2
  Writers <- MCWriters
  BatchSize = 2
  SrcCap = 1
  SinkCap = 2
  MaxRecords = 3
  MaxCheckpoints = 2
  MaxCrashes = 1
  EsMayFail = TRUE
  NoOffset = NoOffset
  OffsetRange = "None"
  RangeBegin = NoOffset
SYMMETRY MCSymmetry
SPECIFICATION Spec
INVARIANT TypeOK
INVARIANT SourceAtLeastOnce
INVARIANT DuplicatesOnlyFromRecovery
PROPERTY RecoveryPointMonotone
PROPERTY ReplaySpec
PROPERTY SinkSpec
CHECK_DEADLOCK FALSE
