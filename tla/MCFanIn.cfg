CONSTANTS
  ChannelSize = 2
  MaxQueue = 3
  Wrap = 3
SPECIFICATION FairSpec
INVARIANT TypeOK
PROPERTY NoStarvation
\* the head stops once its iterator has ended or panicked
CHECK_DEADLOCK FALSE
