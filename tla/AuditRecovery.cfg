\* Four records on three segments of two units; every file operation may fail, and process or
\* machine may stop before it.
SPECIFICATION FairSpec
CONSTANTS
  None = None
  MaxRecords = 4
  Sizes = {1, 2}
  SegmentMax = 2
  MaxSegments = 3
  Retention = 2
  MaxTime = 2
INVARIANTS TypeOK NothingAcknowledgedLost CleanRestart
PROPERTIES RetentionKept OperationsEnd
CHECK_DEADLOCK FALSE
