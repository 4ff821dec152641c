CONSTANTS
  ChannelSize = 2
  MaxQueue = 3
  Wrap = 3
SPECIFICATION Spec
INVARIANT DrainBeforeClose
CHECK_DEADLOCK FALSE
