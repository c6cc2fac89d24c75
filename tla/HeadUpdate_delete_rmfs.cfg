SPECIFICATION Spec
CONSTANTS
  Uploads = {up}
  Replaces = {}
  Syncs = {}
  Deletes = {del}
  Reverts = {}
  Origin = origin
  InitialFiles = 2
  b1 = b1
  b2 = b2
  b3 = b3
  KeepHistory = FALSE
  RmFS = TRUE
  Faults = {}
  MaxFaults = 0
  MaxGC = 1
  MaxAttempts = 3
  MaxSends = 2
  MaxRetry = 3
  MaxSyncRetry = 2
  BlockOf <- MCBlockOf
INVARIANTS HeadTreePresent
