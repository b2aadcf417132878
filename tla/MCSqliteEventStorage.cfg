SPECIFICATION FairSpec
CONSTANTS
  MaxMessages = 2
  SizeLimit = 1
  MaxDbAmount = 2
  BatchSize = 1
  MaxReadRecords = 2
  MaxDatabases = 4
  MaxCrashes = 1
CHECK_DEADLOCK FALSE
INVARIANTS  RereadWasInFlight
PROPERTIES ReaderKeepsDatabase QueueIsDrained
