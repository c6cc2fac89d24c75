---------------------------- MODULE MCSizeSched ----------------------------
(* Values for the constants of SizeSched that a .cfg cannot write.         *)
EXTENDS SizeSched

CONSTANTS go, c, w1, w2    \* servers and workers

OneServer == [w \in Workers |-> go]
TwoServers == [w \in Workers |-> IF w = w1 THEN go ELSE c]
MCSizeOf == [x \in Contents |-> IF x = "a" THEN 1 ELSE 3]
=============================================================================
