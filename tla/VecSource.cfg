CONSTANTS
  MaxData = 10
  MaxTasks = 3
  Width = 3
SPECIFICATION Spec
INVARIANT TypeOK EveryRecordOnce
\* every task has built its iterator: the source has nothing more to do
CHECK_DEADLOCK FALSE
