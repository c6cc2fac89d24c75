SPECIFICATION Spec
CONSTANTS
  go = go
  c = c
  w1 = w1
  w2 = w2
  Servers = {go, c}
  Workers = {w1, w2}
  ServerOf <- TwoServers
  Names = {"m"}
  Contents = {"a", "b"}
  SizeOf <- MCSizeOf
  MaxHeads = 4
  MaxFailures = 1
INVARIANT SizeIsOfStoredHead
