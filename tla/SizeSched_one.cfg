SPECIFICATION FairSpec
CONSTANTS
  go = go
  c = c
  w1 = w1
  w2 = w2
  Servers = {go}
  Workers = {w1}
  ServerOf <- OneServer
  Names = {"m", "n"}
  Contents = {"a", "b"}
  SizeOf <- MCSizeOf
  MaxHeads = 3
  MaxFailures = 1
INVARIANTS TypeOK SizeIsOfStoredHead QuietMeansUpToDate
PROPERTIES SizeOnlyAdvances SizeCatchesUp
