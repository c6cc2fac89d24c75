-------------------------------- MODULE DirTree --------------------------------
(***************************************************************************)
(* The tree of folders beside a file list of the web site                  *)
(* (frontend/src/components/tree-view).  A node is an object that keeps    *)
(* its own path: it names the place of the node only as long as whoever    *)
(* moves or renames a node keeps it up to date.  A tree is its root node,  *)
(* and nodes are reached by address, the indices that lead to them.        *)
(***************************************************************************)
EXTENDS Naturals, Sequences, SequencesExt

CONSTANTS
    Dirs, Files,   \* the names that folders and files have
    NameOrder      \* all names, folders first: the order of sortDirents

Names == Dirs \cup Files

Sorted(names) == SelectSeq(NameOrder, LAMBDA n : n \in names)

TreeNode(n) == [name |-> n, path |-> <<n>>, loaded |-> FALSE,
                expanded |-> FALSE, kids |-> <<>>]

BuildTree(root) == [name |-> root, path |-> <<>>, loaded |-> FALSE,
                    expanded |-> TRUE, kids |-> <<>>]

-----------------------------------------------------------------------------
(* Reaching nodes *)

NodeAt(t, at) == FoldLeft(LAMBDA n, i : n.kids[i], t, at)

(* t with n at this address *)
Put(t, at, n) ==
    FoldRight(LAMBDA k, m : [NodeAt(t, SubSeq(at, 1, k - 1)) EXCEPT !.kids[at[k]] = m],
              [k \in DOMAIN at |-> k], n)

(* traverseDF: every node with its address, parents first *)
Walk(t) ==
    LET From[at \in Seq(Nat)] ==
          LET n == NodeAt(t, at) IN
          <<[at |-> at, node |-> n]>>
            \o FlattenSeq([i \in DOMAIN n.kids |-> From[Append(at, i)]])
    IN  From[<<>>]

(* getNodeByPath: the first node that says it has this path *)
Hits(t, p) == SelectSeq(Walk(t), LAMBDA e : e.node.path = p)
Has(t, p) == Hits(t, p) # <<>>
At(t, p) == Head(Hits(t, p)).at
GetNodeByPath(t, p) == Head(Hits(t, p)).node

-----------------------------------------------------------------------------
(* tree-node.js *)

SetParent(n, parent) == [n EXCEPT !.path = Append(parent.path, n.name),
                                  !.loaded = FALSE]

FirstFile(kids) ==
    LET files == {i \in DOMAIN kids : kids[i].name \in Files} IN
    IF files = {} THEN Len(kids) + 1
    ELSE CHOOSE i \in files : \A j \in files : i <= j

(* addChild: folders go first, files before the first file. *)
AddChild(parent, n) ==
    LET place == IF n.name \in Dirs THEN 1 ELSE FirstFile(parent.kids) IN
    [parent EXCEPT !.kids = InsertAt(@, place, SetParent(n, parent))]

(* addChildren, as addResponseListToNode of the page calls it: what the     *)
(* server lists replaces all there was below the node.                     *)
AddResponse(n, names) ==
    LET list == Sorted(names) IN
    [n EXCEPT !.loaded = TRUE, !.expanded = TRUE,
              !.kids = [i \in DOMAIN list |-> SetParent(TreeNode(list[i]), n)]]

(* updateChildrenPath: a node that is not expanded is loaded anew later.    *)
UpdateChildrenPath(n) ==
    LET Updated[at \in Seq(Nat), path \in Seq(Names)] ==
          LET kids == NodeAt(n, at).kids IN
          [NodeAt(n, at) EXCEPT !.path = path, !.kids = [i \in DOMAIN kids |->
              LET to == Append(path, kids[i].name) IN
              IF kids[i].expanded THEN Updated[Append(at, i), to]
              ELSE [kids[i] EXCEPT !.path = to, !.loaded = FALSE]]]
    IN  Updated[<<>>, n.path]

(* Mutant of Rename: what is below keeps its old path.                     *)
RenameAlone(n, parent, new) ==
    [n EXCEPT !.name = new, !.path = Append(parent.path, new)]

Rename(n, parent, new) ==
    LET renamed == [n EXCEPT !.name = new, !.path = Append(parent.path, new)] IN
    IF n.expanded THEN UpdateChildrenPath(renamed)
    ELSE [renamed EXCEPT !.loaded = FALSE]

-----------------------------------------------------------------------------
(* tree.js and tree-helper.js *)

AddNodeToParentByPath(t, n, p) ==
    IF Has(t, p) THEN Put(t, At(t, p), AddChild(GetNodeByPath(t, p), n)) ELSE t

(* The parent is sought by its path: nothing is deleted when another node   *)
(* with that path comes first.                                             *)
DeleteNode(t, at) ==
    IF at = <<>> THEN t
    ELSE LET parent == NodeAt(t, Front(at)) IN
         IF At(t, parent.path) # Front(at) THEN t
         ELSE Put(t, Front(at), [parent EXCEPT !.kids = RemoveAt(@, Last(at))])

DeleteNodeByPath(t, p) == IF Has(t, p) THEN DeleteNode(t, At(t, p)) ELSE t

DeleteNodeListByPaths(t, paths) == FoldLeft(DeleteNodeByPath, t, paths)

RenameNodeByPath(t, p, new) ==
    IF ~Has(t, p) \/ p = <<>> THEN t
    ELSE LET at == At(t, p) IN
         Put(t, at, Rename(NodeAt(t, at), NodeAt(t, Front(at)), new))

(* moveNode: the node goes below dest, and what is below it stays as it is. *)
MoveNode(t, p, dest) ==
    IF ~Has(t, p) \/ p = dest THEN t
    ELSE LET n == GetNodeByPath(t, p) IN
         AddNodeToParentByPath(DeleteNodeByPath(t, p), n, dest)

SortKids(kids) ==
    FlattenSeq([i \in DOMAIN NameOrder |->
        LET same == SelectSeq(kids, LAMBDA k : k.name = NameOrder[i])
        IN  [j \in DOMAIN same |-> same[1]]])

(* moveNodeListByPaths, and the sorting that onMoveItems has it followed by. *)
(* When the tree does not have the destination, it calls a method that Tree *)
(* does not define: it throws, and the tree is never replaced.             *)
MoveNodeListByPaths(t, paths, dest) ==
    LET moved == FoldLeft(LAMBDA s, p : MoveNode(s, p, dest), t, paths) IN
    IF ~Has(t, dest) THEN t
    ELSE Put(moved, At(moved, dest),
             [GetNodeByPath(moved, dest) EXCEPT !.kids = SortKids(@)])

SetExpanded(t, at, e) == Put(t, at, [NodeAt(t, at) EXCEPT !.expanded = e])

(* expandNode: with all above it *)
ExpandNode(t, at) ==
    FoldLeft(LAMBDA s, k : SetExpanded(s, SubSeq(at, 1, k - 1), TRUE),
             t, [k \in 1 .. Len(at) + 1 |-> k])
=============================================================================
