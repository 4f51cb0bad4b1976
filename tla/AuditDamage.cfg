\* An append that fails half way, then a rotation.
SPECIFICATION Spec
CONSTANTS
  None = None
  MaxRecords = 4
  Sizes = {1, 2}
  SegmentMax = 2
  MaxSegments = 2
  Retention = 2
  MaxTime = 2
PROPERTY ManifestBindsFiles
CHECK_DEADLOCK FALSE
