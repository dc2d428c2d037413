SPECIFICATION Spec
CONSTANTS
  Kinds = {"artifact"}
  MaxUploads = 1
  MaxCalls = 2
  QueueSize = 2
  Permits = 1
  BatchSize = 2
  MaxFailures = 1
  MaxTimeouts = 1
CHECK_DEADLOCK FALSE
INVARIANT
  FlushReports
