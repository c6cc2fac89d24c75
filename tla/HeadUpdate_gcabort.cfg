SPECIFICATION Spec
CONSTANTS
  Uploads = {up}
  Replaces = {}
  Syncs = {}
  Deletes = {}
  Reverts = {}
  Origin = origin
  InitialFiles = 1
  b1 = b1
  b2 = b2
  b3 = b3
  KeepHistory = FALSE
  RmFS = FALSE
  Faults = {"gcabort"}
  MaxFaults = 1
  MaxGC = 1
  MaxAttempts = 3
  MaxSends = 2
  MaxRetry = 3
  MaxSyncRetry = 2
  BlockOf <- MCBlockOf
INVARIANTS HeadBlocksPresent
