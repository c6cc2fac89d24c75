SPECIFICATION Spec
CONSTANTS
  Uploads = {}
  Replaces = {}
  Syncs = {}
  Deletes = {del}
  Reverts = {rev}
  Origin = origin
  InitialFiles = 1
  b1 = b1
  b2 = b2
  b3 = b3
  KeepHistory = FALSE
  RmFS = FALSE
  Faults = {}
  MaxFaults = 0
  MaxGC = 1
  MaxAttempts = 3
  MaxSends = 2
  MaxRetry = 3
  MaxSyncRetry = 2
  BlockOf <- MCBlockOf
PROPERTIES GCDeletesOnlyGarbage
