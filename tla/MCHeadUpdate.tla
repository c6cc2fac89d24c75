---------------------------- MODULE MCHeadUpdate ----------------------------
(* Values for the constants of HeadUpdate that a .cfg cannot write.        *)
EXTENDS HeadUpdate

CONSTANTS b1, b2, b3    \* blocks

(* Every author has a block of its own, except that the content of the     *)
(* first web upload may also be lying in the store as garbage (Init).      *)
MCBlockOf ==
  [a \in Authors |-> IF a = Origin THEN b1
                     ELSE IF a \in Uploads \cup Syncs THEN b2 ELSE b3]
=============================================================================
