--------------------------- MODULE AtomicLibrary ---------------------------
(***************************************************************************)
(* What a library promises to everyone who changes it at the same time:    *)
(* one tree of files, to which every request is applied as a whole, at one *)
(* moment, at most once.  A request says which entries to add and which to *)
(* remove; what others changed in the meantime is left alone.              *)
(***************************************************************************)
EXTENDS Naturals

CONSTANTS InitialTree, Entries

VARIABLES tree,     \* the entries of the library
          asked,    \* the requests that were made
          applied   \* those that took effect

Init == tree = InitialTree /\ asked = {} /\ applied = {}

(* A request is made, with an id of its own.                               *)
Ask ==
  /\ \E r \in asked' :
       /\ asked' = asked \cup {r}
       /\ \A q \in asked : q.id # r.id
       /\ r.add \subseteq Entries /\ r.del \subseteq Entries
  /\ UNCHANGED <<tree, applied>>

(* It takes effect.                                                        *)
Apply ==
  /\ \E r \in asked \ applied :
       /\ tree' = (tree \ r.del) \cup r.add
       /\ applied' = applied \cup {r}
  /\ UNCHANGED asked

Next == Ask \/ Apply

Spec == Init /\ [][Next]_<<tree, asked, applied>>
=============================================================================
