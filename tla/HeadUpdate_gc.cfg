SPECIFICATION Spec
CONSTANTS
  Uploads = {up}
  Replaces = {}
  Syncs = {sy}
  Deletes = {del}
  Reverts = {}
  Origin = origin
  InitialFiles = 1
  b1 = b1
  b2 = b2
  b3 = b3
  KeepHistory = FALSE
  RmFS = FALSE
  Faults = {}
  MaxFaults = 0
  MaxGC = 1
  MaxAttempts = 3
  MaxSends = 2
  MaxRetry = 3
  MaxSyncRetry = 2
  BlockOf <- MCBlockOf
INVARIANTS TypeOK HeadBlocksPresent SyncNeverWinsByRetrying AckedInHistory
PROPERTIES GCDeletesOnlyGarbage AtomicLibrarySpec
