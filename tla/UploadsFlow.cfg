SPECIFICATION FairSpec
CONSTANTS
  Kinds = {"metric", "invalid", "artifact", "asset"}
  MaxUploads = 2
  MaxCalls = 2
  QueueSize = 2
  Permits = 1
  BatchSize = 2
  MaxFailures = 1
  MaxTimeouts = 1
CHECK_DEADLOCK FALSE
INVARIANTS
  FlushCovers
  FlushWaits
  SavesInOrder
  NoSilentFailure
PROPERTIES
  EverythingEnds
