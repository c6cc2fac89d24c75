SPECIFICATION Spec
CONSTANTS
  Uploads = {}
  Replaces = {rp}
  Syncs = {sy}
  Deletes = {}
  Reverts = {}
  Origin = origin
  InitialFiles = 1
  b1 = b1
  b2 = b2
  b3 = b3
  KeepHistory = FALSE
  RmFS = TRUE
  Faults = {"lostanswer"}
  MaxFaults = 1
  MaxGC = 2
  MaxAttempts = 3
  MaxSends = 2
  MaxRetry = 3
  MaxSyncRetry = 2
  BlockOf <- MCBlockOf
INVARIANTS HeadTreePresent HeadBlocksPresent AckedInHistory
