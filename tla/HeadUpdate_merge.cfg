SPECIFICATION Spec
CONSTANTS
  Uploads = {up}
  Replaces = {rp}
  Syncs = {}
  Deletes = {del}
  Reverts = {rev}
  Origin = origin
  InitialFiles = 1
  b1 = b1
  b2 = b2
  b3 = b3
  KeepHistory = TRUE
  RmFS = FALSE
  Faults = {}
  MaxFaults = 0
  MaxGC = 0
  MaxAttempts = 4
  MaxSends = 2
  MaxRetry = 3
  MaxSyncRetry = 2
  BlockOf <- MCBlockOf
INVARIANTS AckedInHistory AppliedAtMostOnce LostRacesHaveWinners
PROPERTIES HeadOnlyAdvances AtomicLibrarySpec
