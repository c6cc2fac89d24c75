----------------------------- MODULE EntryMerge -----------------------------
(* A merge seen from a distance: a tree is the set of what it holds.  The  *)
(* module ThreeWayMerge shows that the merge of directories comes down to  *)
(* this, and HeadUpdate uses it.                                           *)

KeepDeleted(ancestor, ours, theirs) ==            \* mutant: deletions are not merged
  ours \cup (theirs \ ancestor)

(* The three-way merge of two trees and their base, entry by entry: what   *)
(* `theirs' removed is removed from `ours', what it added is added.  Two   *)
(* different files of one name both survive, one under a conflict name.    *)
Merge(ancestor, ours, theirs) ==
  (ours \ (ancestor \ theirs)) \cup (theirs \ ancestor)
=============================================================================
