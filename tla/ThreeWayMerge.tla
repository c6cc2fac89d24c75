--------------------------- MODULE ThreeWayMerge ---------------------------
(***************************************************************************)
(* mergeTrees: how the tree a user made is merged with the head that has   *)
(* moved meanwhile.  Users edit trees of files and directories and push    *)
(* them; a push onto a head that is not the one the user started from is a *)
(* merge with three parents: the tree started from (base), the head        *)
(* (head) and the user's own (remote).                                     *)
(*                                                                         *)
(* A tree is the set of its <<name, entry>> pairs, as a directory object   *)
(* is a list of dirents; an entry is a file, known by its content, or a    *)
(* directory, known by its tree (ids are hashes).  A name is a sequence:   *)
(* what the user called it, then one mark for each conflict that renamed   *)
(* it.  A mark stands for the modifier and the second written into the     *)
(* name; no two conflicts on one name are taken to fall in one second.     *)
(* Modification times, modes and sizes are left out.                       *)
(***************************************************************************)
EXTENDS Integers, Sequences, EntryMerge

CONSTANTS
  Users,
  Names,      \* names a user may give
  Contents,   \* contents a user may write
  MaxDepth,   \* bound: levels of directories a user makes
  MaxEdits    \* bound: edits of one user

ASSUME BoundsAssumption == MaxDepth \in Nat /\ MaxEdits \in Nat

File(content) == <<"file", content>>
Dir(tree) == <<"dir", tree>>
Absent == <<"absent">>
IsFile(entry) == entry[1] = "file"
IsDir(entry) == entry[1] = "dir"
Kids(entry) == IF IsDir(entry) THEN entry[2] ELSE {}

NamesOf(tree) == {pair[1] : pair \in tree}
At(tree, name) ==
  IF name \in NamesOf(tree) THEN (CHOOSE pair \in tree : pair[1] = name)[2] ELSE Absent

VARIABLES
  head,    \* the tree of the head
  base,    \* the tree each user started from
  mine,    \* the tree each user has now
  edits,   \* edits each user has made
  mark     \* marks used so far

vars == <<head, base, mine, edits, mark>>
-----------------------------------------------------------------------------
(* mergeEntries and mergeDirectories give the remote dirent a conflict     *)
(* name when both sides changed the name, not in the same way, and at      *)
(* least one of them made it a file.                                       *)
NoClash(b, h, r) == FALSE                          \* mutant: the name is kept
Clash(b, h, r) ==
  /\ h # Absent /\ r # Absent
  /\ h # r /\ h # b /\ r # b
  /\ IsFile(h) \/ IsFile(r)

RemoteName(name, m, b, h, r) == IF Clash(b, h, r) THEN Append(name, m) ELSE name

(* Of the files of one name, each side's survives if that side changed it, *)
(* and one copy of it if both sides have the same.                         *)
KeepUnchanged(name, m, b, h, r) ==                 \* mutant: a deleted file comes back
  (IF IsFile(h) /\ (h = r \/ h # b) THEN {<<name, h>>} ELSE {})
    \cup (IF IsFile(r) /\ r # h THEN {<<RemoteName(name, m, b, h, r), r>>} ELSE {})
MergeEntries(name, m, b, h, r) ==
  (IF IsFile(h) /\ (h = r \/ h # b) THEN {<<name, h>>} ELSE {})
    \cup (IF IsFile(r) /\ r # h /\ r # b THEN {<<RemoteName(name, m, b, h, r), r>>} ELSE {})

(* Of the directories of one name, a side that did not change it takes the *)
(* other side's; if both did, they are merged, and so is a changed one     *)
(* with the base when the other side removed it.                           *)
DropEmpty(name, m, b, h, r, merged) ==             \* mutant: an empty result is left out
  CASE IsDir(h) /\ IsDir(r) ->
         IF h = r \/ r = b THEN {<<name, h>>} ELSE IF h = b THEN {<<name, r>>}
         ELSE {<<name, x>> : x \in {merged} \ {Dir({})}}
    [] IsDir(h) /\ ~IsDir(r) -> IF h = b THEN {} ELSE {<<name, IF IsDir(b) THEN merged ELSE h>>}
    [] ~IsDir(h) /\ IsDir(r) ->
         IF r = b THEN {} ELSE {<<RemoteName(name, m, b, h, r), IF IsDir(b) THEN merged ELSE r>>}
    [] OTHER                 -> {}
NoMask5(name, m, b, h, r, merged) ==               \* mutant: mask 5 does not compare with the base
  CASE IsDir(h) /\ IsDir(r)  -> {<<name, IF h = r \/ r = b THEN h ELSE IF h = b THEN r ELSE merged>>}
    [] IsDir(h) /\ ~IsDir(r) -> IF h = b THEN {} ELSE {<<name, IF IsDir(b) THEN merged ELSE h>>}
    [] ~IsDir(h) /\ IsDir(r) -> {<<RemoteName(name, m, b, h, r), IF IsDir(b) THEN merged ELSE r>>}
    [] OTHER                 -> {}
MergeDirectories(name, m, b, h, r, merged) ==
  CASE IsDir(h) /\ IsDir(r)  -> {<<name, IF h = r \/ r = b THEN h ELSE IF h = b THEN r ELSE merged>>}
    [] IsDir(h) /\ ~IsDir(r) -> IF h = b THEN {} ELSE {<<name, IF IsDir(b) THEN merged ELSE h>>}
    [] ~IsDir(h) /\ IsDir(r) ->
         IF r = b THEN {} ELSE {<<RemoteName(name, m, b, h, r), IF IsDir(b) THEN merged ELSE r>>}
    [] OTHER                 -> {}

RECURSIVE MergeTrees(_, _, _, _)
MergeTrees(m, baseTree, headTree, remoteTree) ==
  LET Of(name) ==
        LET b == At(baseTree, name)
            h == At(headTree, name)
            r == At(remoteTree, name)
        IN  MergeEntries(name, m, b, h, r)
              \cup MergeDirectories(name, m, b, h, r, Dir(MergeTrees(m, Kids(b), Kids(h), Kids(r))))
  IN  UNION {Of(name) : name \in NamesOf(baseTree) \cup NamesOf(headTree) \cup NamesOf(remoteTree)}
-----------------------------------------------------------------------------
(* What one edit makes of a tree: write a file, make or move a directory,  *)
(* remove a name, or edit within a directory.                              *)
Without(tree, name) == {pair \in tree : pair[1] # name}

RECURSIVE Edited(_, _)
Edited(tree, depth) ==
  LET given == {<<n>> : n \in Names}
      put == given \X ({File(c) : c \in Contents} \cup (IF depth > 1 THEN {Dir({})} ELSE {}))
  IN  {Without(tree, pair[1]) \cup {pair} : pair \in put}
        \cup {Without(tree, name) : name \in NamesOf(tree)}
        \cup {Without(tree, p[1]) \cup {<<p[2], At(tree, p[1])>>} :
                p \in NamesOf(tree) \X (given \ NamesOf(tree))}
        \cup UNION {{Without(tree, name) \cup {<<name, Dir(kids)>>} :
                       kids \in Edited(Kids(At(tree, name)), depth - 1)} :
                    name \in {n \in NamesOf(tree) : IsDir(At(tree, n))}}

(* The first head: some files of one content, at the top or in one         *)
(* directory.                                                              *)
FirstTrees ==
  LET some == CHOOSE c \in Contents : TRUE
      flat == SUBSET {<<<<n>>, File(some)>> : n \in Names}
  IN  flat \cup {{<<<<n>>, Dir(kids)>>} : <<n, kids>> \in Names \X flat}

Init ==
  /\ head \in FirstTrees
  /\ base = [u \in Users |-> head]
  /\ mine = [u \in Users |-> head]
  /\ edits = [u \in Users |-> 0]
  /\ mark = 0

Edit(u) ==
  /\ edits[u] < MaxEdits
  /\ \E tree \in Edited(mine[u], MaxDepth) \ {mine[u]} : mine' = [mine EXCEPT ![u] = tree]
  /\ edits' = [edits EXCEPT ![u] = @ + 1]
  /\ UNCHANGED <<head, base, mark>>

(* genCommitNeedRetry: install the user's tree if the head has not moved,  *)
(* else the merge.  The user goes on from there.                           *)
FastForward(u) ==
  /\ mine[u] # base[u]
  /\ head = base[u]
  /\ head' = mine[u]
  /\ base' = [base EXCEPT ![u] = head']
  /\ UNCHANGED <<mine, edits, mark>>

SwapRoots(u) ==                                    \* mutant: the pushed tree is taken for the head
  /\ mine[u] # base[u]
  /\ head # base[u]
  /\ mark' = mark + 1
  /\ head' = MergeTrees(mark', base[u], mine[u], head)
  /\ base' = [base EXCEPT ![u] = head']
  /\ mine' = [mine EXCEPT ![u] = head']
  /\ UNCHANGED edits
MergePush(u) ==
  /\ mine[u] # base[u]
  /\ head # base[u]
  /\ mark' = mark + 1
  /\ head' = MergeTrees(mark', base[u], head, mine[u])
  /\ base' = [base EXCEPT ![u] = head']
  /\ mine' = [mine EXCEPT ![u] = head']
  /\ UNCHANGED edits

Done == /\ \A u \in Users : edits[u] = MaxEdits /\ mine[u] = base[u]
        /\ UNCHANGED vars

Next == (\E u \in Users : Edit(u) \/ FastForward(u) \/ MergePush(u)) \/ Done

Spec == Init /\ [][Next]_vars
-----------------------------------------------------------------------------
(* Trees are well formed: no directory holds two entries of one name.      *)
RECURSIVE WellFormed(_)
WellFormed(tree) ==
  /\ \A p, q \in tree : p[1] = q[1] => p = q
  /\ \A p \in tree : \/ IsFile(p[2]) /\ p[2][2] \in Contents
                     \/ IsDir(p[2]) /\ WellFormed(p[2][2])

(* Every tree is well formed, those that merges made included: the         *)
(* conflict names that mergeEntries makes up are free, at every level and  *)
(* in merges of trees that hold conflict names.                            *)
TypeOK ==
  /\ WellFormed(head)
  /\ \A u \in Users : WellFormed(base[u]) /\ WellFormed(mine[u])
  /\ edits \in [Users -> 0 .. MaxEdits]
  /\ mark \in Nat

(* The files of a tree, each with its path.                                *)
RECURSIVE Files(_, _)
Files(tree, path) ==
  UNION {IF IsFile(p[2]) THEN {<<Append(path, p[1]), p[2][2]>>}
         ELSE Files(p[2][2], Append(path, p[1])) : p \in tree}

(* A path without the conflict marks of merge m.                           *)
Unmarked(path, m) ==
  [i \in DOMAIN path |->
     LET last == Len(path[i])
     IN  IF last > 1 /\ path[i][last] = m THEN SubSeq(path[i], 1, last - 1) ELSE path[i]]
UnmarkedFiles(tree, m) == {<<Unmarked(f[1], m), f[2]>> : f \in Files(tree, <<>>)}

(* The directories of a tree.                                              *)
RECURSIVE Dirs(_, _)
Dirs(tree, path) ==
  UNION {{Append(path, p[1])} \cup Dirs(p[2][2], Append(path, p[1])) :
           p \in {q \in tree : IsDir(q[2])}}

(* Up to conflict names, mergeTrees merges the sets of files: whatever     *)
(* either side wrote is in the result, whatever either side removed or     *)
(* overwrote is not, and nothing else changes, however files and           *)
(* directories replace one another.  This is the Merge of HeadUpdate.      *)
MergeKeepsEveryonesWork ==
  [][\A u \in Users : MergePush(u) =>
       UnmarkedFiles(head', mark')
         = Merge(Files(base[u], <<>>), Files(head, <<>>), Files(mine[u], <<>>))]_vars

(* Only what is pushed gets a conflict name: a file of the head that       *)
(* survives the merge does so under the path that others know it by.       *)
HeadKeepsItsPaths ==
  [][\A u \in Users : MergePush(u) =>
       \A f \in Files(head, <<>>) :
         f \in UnmarkedFiles(head', mark') => f \in Files(head', <<>>)]_vars

(* Did merge m rename anything?  (opt.conflict)                            *)
RECURSIVE Conflicted(_, _)
Conflicted(tree, m) ==
  \E p \in tree : \/ Unmarked(<<p[1]>>, m) # <<p[1]>>
                  \/ Conflicted(Kids(p[2]), m)

(* The same of directories, empty ones too: one that either side made and  *)
(* nobody removed is there, and the merge makes none of its own.  (One that *)
(* one side removed and the other wrote into may come back.)               *)
MergeKeepsDirectories ==
  [][\A u \in Users : MergePush(u) =>
       LET before(tree) == Dirs(tree, <<>>)
           after == {Unmarked(path, mark') : path \in Dirs(head', <<>>)}
       IN  /\ Merge(before(base[u]), before(head), before(mine[u])) \subseteq after
           /\ after \subseteq before(head) \cup before(mine[u])]_vars

(* Without conflicts it does not matter who pushed first: head and remote  *)
(* may change places.                                                      *)
MergeIsFair ==
  [][\A u \in Users : MergePush(u) /\ ~Conflicted(head', mark') =>
       MergeTrees(mark', base[u], mine[u], head) = head']_vars
=============================================================================
