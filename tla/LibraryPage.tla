------------------------------ MODULE LibraryPage ------------------------------
(***************************************************************************)
(* The page of one library on the web site                                 *)
(* (frontend/src/pages/lib-content-view/lib-content-view.js).              *)
(*                                                                         *)
(* The page keeps several copies of what the server stores: the list of    *)
(* the folder it shows, the tree of folders beside it, the selection and   *)
(* the address in the browser.  Clicks and the answers of the server       *)
(* change them, in any order: requests run side by side, nothing numbers   *)
(* or cancels them.  React commits one event at a time, so a click, an     *)
(* answer or a notice is one step, and what it reads of the state is the   *)
(* state before it.                                                        *)
(*                                                                         *)
(* A path is the sequence of the names on it, <<>> the root.               *)
(***************************************************************************)
EXTENDS DirTree, FiniteSets

CONSTANTS
    Openings       \* how the page may be opened: the paths stored, the path,
                   \* the mode of the view, whether the tree is shown, the
                   \* link, and three bounds: what kinds of clicks, operations
                   \* and changes by other clients there are (acts), how many
                   \* (ops), and how many requests and connections fail
                   \* (failures)

VARIABLES
    page,          \* the state of the component, and of the browser's history
    requests,      \* those sent and not yet served
    answers,       \* those served and not yet handled, in the order served
    server,        \* the paths that the server stores
    link,          \* to the notification server: off (there is none), on, down
    notices,       \* repo-update notices on their way
    ops, failures, \* how many there may still be
    trouble        \* what happened that the page does not recover from

vars == <<page, requests, answers, server, link, notices, ops, failures, trouble>>

Paths == Seq(Names)
Child(dir, n) == Append(dir, n)
ChildNames(s, dir) == {n \in Names : Child(dir, n) \in s}
IsDir(s, p) == p = <<>> \/ (p \in s /\ Last(p) \in Dirs)

(* What is stored is a tree: everything is in a folder that is stored too.  *)
IsTree(s) == \A q \in s : q \in Paths /\ q # <<>> /\ IsDir(s, Front(q))

ASSUME OpeningsAssumption == \A o \in Openings : o.path \in Paths /\ IsTree(o.stored)

Kind(n) == IF n \in Dirs THEN Dirs ELSE Files
PathSeq(dir, names) ==
    LET sorted == Sorted(names) IN [i \in DOMAIN sorted |-> Child(dir, sorted[i])]

(* isAncestorPath: the one path occurs somewhere in the other.             *)
Occurs(anc, p, i) == SubSeq(p, i, i + Len(anc) - 1) = anc
Places(anc, p) == {i \in 1 .. Len(p) + 1 - Len(anc) : Occurs(anc, p, i)}
IsAncestorPath(anc, p) == Places(anc, p) # {}

(* renameAncestorPath: its first occurrence is replaced.                   *)
RenameAncestorPath(p, anc, new) ==
    LET i == CHOOSE j \in Places(anc, p) : \A k \in Places(anc, p) : j <= k
    IN  SubSeq(p, 1, i - 1) \o new \o SubSeq(p, i + Len(anc), Len(p))

(* Where a path leads after p has become new.                              *)
Rebased(q, p, new) ==
    IF IsPrefix(p, q) THEN new \o SubSeq(q, Len(p) + 1, Len(q)) ELSE q

-----------------------------------------------------------------------------
(* Requests *)

(* dir: the folder it is about; names: what in it; to: the folder or name   *)
(* it goes to; tree: the clone of the tree that the answer is written to.   *)
Request(kind, dir, names, to, tree) ==
    [kind |-> kind, dir |-> dir, names |-> names, to |-> to, tree |-> tree,
     reply |-> "sent", got |-> {}]

NoTree == [name |-> <<>>, path |-> <<>>, loaded |-> FALSE, expanded |-> FALSE,
           kids |-> <<>>]

Fetch(kind, dir) == Request(kind, dir, {}, <<>>, NoTree)
FetchInto(kind, dir, tree) == Request(kind, dir, {}, <<>>, tree)

Listings == {"list", "notice", "root", "node", "click", "expand", "into", "parents"}

(* listDir: what is in the folder, and for with_parents what is in every    *)
(* folder on the way to it.                                                *)
Listing(r) ==
    {q \in server : IF r.kind = "parents" THEN IsPrefix(Front(q), r.dir)
                    ELSE Front(q) = r.dir}

Send(pg, r) == [pg EXCEPT !.sends = Append(@, r)]

-----------------------------------------------------------------------------
(* The list *)

(* loadDirentList *)
LoadDirentList(pg, p) ==
    Send([pg EXCEPT !.loading = TRUE, !.list = {}, !.marked = {}, !.path = p],
         Fetch("list", p))

(* Mutant of ShowDir: what is selected stays selected.                     *)
ShowDirStillSelected(pg, p) ==
    LET shown == LoadDirentList(pg, p) IN
    IF pg.push THEN [shown EXCEPT !.hist = Append(@, p)]
    ELSE [shown EXCEPT !.push = TRUE]

(* showDir, with the address that it pushes *)
ShowDir(pg, p) ==
    LET shown == LoadDirentList([pg EXCEPT !.selected = {}], p) IN
    IF pg.push THEN [shown EXCEPT !.hist = Append(@, p)]
    ELSE [shown EXCEPT !.push = TRUE]

ResetSelected(pg) == [pg EXCEPT !.selected = {}, !.marked = {}]

(* Mutant of DeleteDirents: rows that are gone stay marked.                *)
DeleteDirentsStillMarked(pg, names) ==
    [pg EXCEPT !.list = @ \ names, !.selected = @ \ names]

(* deleteDirents, with recalculateSelectedDirents *)
DeleteDirents(pg, names) ==
    [pg EXCEPT !.list = @ \ names, !.marked = @ \ names, !.selected = @ \ names]

(* moveDirents *)
MoveDirents(pg, names) == [DeleteDirents(pg, names) EXCEPT !.selected = {}]

(* moveDirent *)
MoveDirent(pg, p, to) ==
    IF to = pg.path THEN LoadDirentList(pg, pg.path)
    ELSE DeleteDirents(pg, {Last(p)})

(* addDirent *)
AddDirent(pg, n) == [pg EXCEPT !.list = @ \cup {n}]

(* Mutant of DeleteDirent: a folder above the one shown is not noticed.     *)
DeleteDirentHereOnly(pg, p) ==
    IF p = pg.path THEN ShowDir(pg, Front(p))
    ELSE IF Front(p) = pg.path THEN DeleteDirents(pg, {Last(p)})
    ELSE pg

(* deleteDirent *)
DeleteDirent(pg, p) ==
    IF p = pg.path THEN ShowDir(pg, Front(p))
    ELSE IF Front(p) = pg.path THEN DeleteDirents(pg, {Last(p)})
    ELSE IF IsAncestorPath(p, pg.path) THEN ShowDir(pg, Front(p))
    ELSE pg

(* renameDirent: the selected dirents are the objects of the list unless    *)
(* the list has been loaded since, and then none of the list is marked.     *)
Renamed(names, n, new) == IF n \in names THEN (names \ {n}) \cup {new} ELSE names

(* Mutant of MoveAddress: the address stays.                               *)
MoveUnaddressed(pg, p) == [pg EXCEPT !.path = p, !.picked = IF @ = pg.path THEN p ELSE @]

MoveAddress(pg, p) ==
    [pg EXCEPT !.path = p, !.hist = Append(Front(@), p),
               !.picked = IF @ = pg.path THEN p ELSE @]

RenameDirent(pg, p, new) ==
    LET n == Last(p) IN
    IF p = pg.path THEN MoveAddress(pg, Child(Front(p), new))
    ELSE IF Front(p) = pg.path
    THEN [pg EXCEPT !.list = Renamed(@, n, new),
                    !.marked = Renamed(@, n, new),
                    !.selected = IF n \in pg.marked THEN Renamed(@, n, new) ELSE @]
    ELSE IF IsAncestorPath(p, pg.path)
    THEN MoveAddress(pg, RenameAncestorPath(pg.path, p, Child(Front(p), new)))
    ELSE pg

-----------------------------------------------------------------------------
(* The tree *)

SetTree(pg, t) == [pg EXCEPT !.tree = t]

(* loadNodeAndParentsByPath and loadSidePanel *)
LoadSidePanel(pg, p) ==
    Send(pg, IF p = <<>> THEN Fetch("root", p) ELSE FetchInto("parents", p, pg.tree))

(* loadTreeNodeByPath, of a folder that the tree knows *)
ExpandParent(t, at) == SetExpanded(t, At(t, NodeAt(t, Front(at)).path), TRUE)

LoadTreeNodeByPath(pg, p) ==
    IF GetNodeByPath(pg.tree, p).loaded
    THEN SetTree(pg, ExpandParent(pg.tree, At(pg.tree, p)))
    ELSE Send(pg, FetchInto("node", p, pg.tree))

(* addNodeToTree *)
AddNodeToTree(pg, dir, n) ==
    IF pg.treeLoading THEN pg
    ELSE SetTree(pg, AddNodeToParentByPath(pg.tree, TreeNode(n), dir))

(* updateMoveCopyTreeNode *)
UpdateMoveCopyTreeNode(pg, p) ==
    IF Has(pg.tree, p) THEN Send(pg, FetchInto("into", p, pg.tree)) ELSE pg

InTree(pg, change) == IF pg.panel THEN change ELSE pg

-----------------------------------------------------------------------------
(* Steps *)

(* The page becomes pg, and sends its requests.                            *)
Commit(pg) ==
    /\ page' = [pg EXCEPT !.sends = <<>>]
    /\ requests' = requests \o pg.sends

(* A click or an operation, which is one of those counted.                 *)
Click(act, pg, tags) ==
    /\ act \in page.acts
    /\ ops > 0 /\ ops' = ops - 1
    /\ Commit(pg)
    /\ trouble' = trouble \cup tags
    /\ UNCHANGED <<answers, server, link, notices, failures>>

(* Kinds of clicks that are not operations                                 *)
Ways == {"go", "view", "tree", "select"}

NewPage(p, grid, panel, acts) ==
    LET start == [acts |-> acts, path |-> p, exists |-> TRUE, loading |-> TRUE, list |-> {},
                  marked |-> {}, selected |-> {}, picked |-> p, grid |-> grid, push |-> TRUE,
                  hist |-> <<p>>, panel |-> panel, tree |-> BuildTree(<<>>),
                  treeLoading |-> TRUE, sends |-> <<Fetch("list", p)>>]
    IN  IF panel THEN LoadSidePanel(start, p) ELSE start

Init ==
    \E o \in Openings :
        LET start == NewPage(o.path, o.grid, o.panel, o.acts) IN
        /\ server = o.stored
        /\ page = [start EXCEPT !.sends = <<>>]
        /\ requests = start.sends /\ answers = <<>>
        /\ link = o.link /\ ops = o.ops /\ failures = o.failures
        /\ notices = 0 /\ trouble = {}

-----------------------------------------------------------------------------
(* Clicks *)

(* onItemClick: the page throws before it opens the folder when the tree    *)
(* does not have it (yet).                                                 *)
ItemClick(n) ==
    LET p == Child(page.path, n)  start == ResetSelected(page) IN
    /\ n \in page.list \cap Dirs
    /\ IF page.panel /\ ~Has(page.tree, p) THEN Click("go", start, {"dead"})
       ELSE Click("go", ShowDir(InTree(start, LoadTreeNodeByPath(start, p)), p), {})

Visible(e) == \A k \in 0 .. Len(e.at) - 1 : NodeAt(page.tree, SubSeq(e.at, 1, k)).expanded
Nodes(t) == {e \in Range(Walk(t)) : e.at # <<>>}

(* onTreeNodeClick, of a folder *)
TreeNodeClick(e) ==
    LET p == e.node.path
        start == [ResetSelected(page) EXCEPT !.exists = TRUE, !.path = p]
        loading == IF e.node.loaded THEN start
                   ELSE Send(start, FetchInto("click", p, page.tree))
        toggled == IF e.node.expanded
                   THEN SetExpanded(page.tree, At(page.tree, p), FALSE)
                   ELSE ExpandNode(page.tree, At(page.tree, p))
    IN
    /\ page.panel /\ Visible(e) /\ e.node.name \in Dirs
    /\ Click("go", IF p # page.path THEN ShowDir(loading, p)
             ELSE IF e.node.loaded THEN SetTree(loading, toggled)
             ELSE loading, IF p = page.path /\ ~page.exists THEN {"phantom"} ELSE {})

(* onTreeNodeExpanded *)
TreeNodeExpanded(e) ==
    /\ page.panel /\ Visible(e) /\ e.node.name \in Dirs /\ ~e.node.expanded
    /\ LET at == At(page.tree, e.node.path) IN
       Click("tree", IF NodeAt(page.tree, at).loaded
             THEN SetTree(page, ExpandNode(page.tree, at))
             ELSE Send(page, FetchInto("expand", e.node.path, page.tree)), {})

(* onTreeNodeCollapse *)
TreeNodeCollapse(e) ==
    /\ page.panel /\ Visible(e) /\ e.node.expanded
    /\ Click("tree", SetTree(page, SetExpanded(page.tree, At(page.tree, e.node.path), FALSE)), {})

(* onMainNavBarClick, of a folder above the one that is shown *)
MainNavBarClick(p) ==
    LET start == ResetSelected(page) IN
    Click("go", ShowDir(IF page.panel /\ Has(page.tree, p)
                  THEN SetTree(start, ExpandNode(page.tree, At(page.tree, p)))
                  ELSE start, p), {})

(* onpopstate, which is called twice: as window.onpopstate and as a         *)
(* listener.  The folder is loaded in the list mode only.                  *)
Back ==
    LET hist == Front(page.hist)
        there == [page EXCEPT !.hist = hist, !.path = Last(hist)]
    IN
    /\ Len(page.hist) > 1
    /\ IF page.grid THEN Click("go", there, {"grid", "back"})
       ELSE Click("go", LoadDirentList(LoadDirentList(there, Last(hist)), Last(hist)), {"back"})

(* switchViewMode *)
SwitchViewMode ==
    LET start == [page EXCEPT !.push = FALSE, !.grid = ~@] IN
    Click("view", ShowDir(InTree(start, LoadSidePanel(start, page.path)), page.path), {})

(* toggleTreePanel *)
ToggleTreePanel ==
    LET start == [page EXCEPT !.panel = ~@] IN
    Click("view", InTree(start, LoadSidePanel(start, page.path)), {})

(* onDirentSelected: the selection becomes what is marked.                  *)
DirentSelected(n) ==
    LET marked == IF n \in page.marked THEN page.marked \ {n}
                  ELSE page.marked \cup {n}
    IN  n \in page.list /\ Click("select", [page EXCEPT !.marked = marked, !.selected = marked, !.picked = page.path], {})

-----------------------------------------------------------------------------
(* Operations: what they send.  A row of the list, or a node of the tree.   *)

Rows == {Child(page.path, n) : n \in page.list}
TreeItems == IF page.panel THEN {e.node.path : e \in {d \in Nodes(page.tree) : Visible(d)}}
             ELSE {}

Ask(kind, dir, names, to) ==
    Click(kind, Send(page, Request(kind, dir, names, to, NoTree)), {})

(* onAddFolder and onAddFile; the dialog refuses a name of the list         *)
AddItem(n) == n \notin page.list /\ Ask("add", page.path, {n}, <<>>)

(* renameItem *)
RenameItem(p, new) ==
    /\ new \in Kind(Last(p)) \ {Last(p)}
    /\ p \in Rows => new \notin page.list
    /\ Ask("rename", Front(p), {Last(p)}, <<new>>)

(* deleteItem and deleteFolder *)
DeleteItem(p) == Ask("delete", Front(p), {Last(p)}, <<>>)

(* onDeleteItems, onMoveItems, onCopyItems: what is selected, in the folder *)
(* that is shown; the folders to go to are those of a dialog of its own.   *)
DeleteItems == page.selected # {} /\ Ask("deleteItems", page.path, page.selected, <<>>)

MoveItems(to) ==
    /\ page.selected # {} /\ to # page.path
    /\ Ask("moveItems", page.path, page.selected, to)

CopyItems(to) == page.selected # {} /\ Ask("copyItems", page.path, page.selected, to)

(* onMoveItem *)
MoveItem(p, to) == to # Front(p) /\ Ask("moveItem", Front(p), {Last(p)}, to)

-----------------------------------------------------------------------------
(* The server *)

(* The names that the server may give: another one where the name is taken. *)
Namings(names, dir) ==
    {f \in [names -> Names] :
        /\ IsInjective(f)
        /\ \A n \in names :
              /\ f[n] \in Kind(n) /\ Child(dir, f[n]) \notin server
              /\ Child(dir, n) \notin server => f[n] = n}

Below(dir, names) == {q \in server : \E n \in names : IsPrefix(Child(dir, n), q)}

Copied(dir, names, to, f) ==
    UNION {{Rebased(q, Child(dir, n), Child(to, f[n])) : q \in Below(dir, {n})} : n \in names}

Writes == {"add", "rename", "delete", "deleteItems", "moveItems", "moveItem", "copyItems"}

(* What the library may be after the request; none when it is refused.      *)
Outcomes(r) ==
    LET here == Below(r.dir, r.names)
        known == \A n \in r.names : Child(r.dir, n) \in server
        into == IsDir(server, r.to) /\ \A n \in r.names : ~IsPrefix(Child(r.dir, n), r.to)
    IN
    CASE r.kind = "add" ->
           {server \cup {Child(r.dir, f[n]) : n \in r.names} :
               f \in IF IsDir(server, r.dir) THEN Namings(r.names, r.dir) ELSE {}}
      [] r.kind = "rename" ->
           {(server \ here) \cup
              {Rebased(q, Child(r.dir, n), Child(r.dir, f[r.to[1]])) : n \in r.names, q \in here} :
               f \in IF known THEN Namings(Range(r.to), r.dir) ELSE {}}
      [] r.kind = "delete" ->
           IF known \/ r.names \subseteq Files THEN {server \ here} ELSE {}
      [] r.kind = "deleteItems" ->
           IF IsDir(server, r.dir) THEN {server \ here} ELSE {}
      [] r.kind \in {"moveItems", "moveItem"} ->
           {(server \ here) \cup Copied(r.dir, r.names, r.to, f) :
               f \in IF known /\ into THEN Namings(r.names, r.to) ELSE {}}
      [] r.kind = "copyItems" ->
           {server \cup Copied(r.dir, r.names, r.to, f) :
               f \in IF known /\ into THEN Namings(r.names, r.to) ELSE {}}
      [] OTHER -> {}

(* The server gives another name than the page believes.                   *)
Taken(r) ==
    CASE r.kind = "add" -> \E n \in r.names : Child(r.dir, n) \in server
      [] r.kind = "rename" -> Child(r.dir, r.to[1]) \in server
      [] r.kind = "moveItems" -> \E n \in r.names : Child(r.to, n) \in server
      [] OTHER -> FALSE

Notify(now) == notices' = IF link = "on" /\ now # server THEN notices + 1 ELSE notices

Reply(i, reply, got) ==
    /\ requests' = RemoveAt(requests, i)
    /\ answers' = Append(answers, [requests[i] EXCEPT !.reply = reply, !.got = got])

(* The server takes the requests in any order.                             *)
ServerLists(i) ==
    LET r == requests[i] IN
    /\ r.kind \in Listings
    /\ IF IsDir(server, r.dir) THEN Reply(i, "done", Listing(r)) ELSE Reply(i, "refused", {})
    /\ UNCHANGED <<page, server, link, notices, ops, failures, trouble>>

ServerWrites(i) ==
    LET r == requests[i] IN
    /\ r.kind \in Writes
    /\ IF Outcomes(r) = {} THEN Reply(i, "refused", {}) /\ UNCHANGED <<server, notices>>
       ELSE server' \in Outcomes(r) /\ Reply(i, "done", {}) /\ Notify(server')
    /\ trouble' = IF Taken(r) THEN trouble \cup {"spare"} ELSE trouble
    /\ UNCHANGED <<page, link, ops, failures>>

(* It fails, or it is done and the answer is lost.                         *)
RequestFails(i) ==
    /\ failures > 0 /\ failures' = failures - 1
    /\ server' \in {server} \cup Outcomes(requests[i])
    /\ Reply(i, "refused", {}) /\ Notify(server')
    /\ trouble' = trouble \cup {"failed"}
    /\ UNCHANGED <<page, link, ops>>

(* Another client adds or deletes something.                               *)
OtherClient ==
    /\ "others" \in page.acts /\ ops > 0 /\ ops' = ops - 1
    /\ \/ \E dir \in {<<>>} \cup {q \in server : IsDir(server, q)}, n \in Names :
             server' = server \cup {Child(dir, n)}
       \/ \E p \in server : server' = server \ {q \in server : IsPrefix(p, q)}
    /\ server' # server /\ Notify(server')
    /\ trouble' = trouble \cup {IF link = "on" THEN "others" ELSE "missed"}
    /\ UNCHANGED <<page, requests, answers, link, failures>>

(* onclose, and the timer of reconnect: nobody asks for what was missed.    *)
(* The client gives up after five attempts, and never counts from 0 again:  *)
(* nothing obliges the link to come back.                                  *)
ConnectionLost ==
    /\ link = "on" /\ link' = "down" /\ notices' = 0
    /\ failures > 0 /\ failures' = failures - 1
    /\ trouble' = IF notices > 0 THEN trouble \cup {"missed"} ELSE trouble
    /\ UNCHANGED <<page, requests, answers, server, ops>>

Reconnected ==
    /\ link = "down" /\ link' = "on"
    /\ UNCHANGED <<page, requests, answers, server, notices, ops, failures, trouble>>

-----------------------------------------------------------------------------
(* Answers *)

NamesIn(r, dir) == {Last(q) : q \in {p \in r.got : Front(p) = dir}}

(* The handler of loadDirentList *)
ListShown(r) ==
    [page EXCEPT !.exists = TRUE, !.loading = FALSE, !.marked = {},
                 !.list = NamesIn(r, r.dir), !.path = r.dir]

(* Mutant of ListRefused: the error is shown, and loading not ended.        *)
ListRefusedLoading == [page EXCEPT !.exists = FALSE]

ListRefused == [page EXCEPT !.loading = FALSE, !.exists = FALSE]

(* The handler of repo-update: the listing is of the folder that was shown  *)
(* when it was asked for.                                                  *)
NoticeShown(r) ==
    LET names == NamesIn(r, r.dir)
        shown == [page EXCEPT !.exists = TRUE, !.loading = FALSE, !.marked = {},
                              !.list = names]
        at == At(page.tree, page.path)
    IN  IF /\ page.panel /\ ~page.treeLoading /\ Has(page.tree, page.path)
           /\ NodeAt(page.tree, at).loaded
        THEN SetTree(shown, Put(page.tree, at, AddResponse(NodeAt(page.tree, at), names)))
        ELSE shown

Filled(t, p, names) == Put(t, At(t, p), AddResponse(GetNodeByPath(t, p), names))

(* loadNodeAndParentsByPath: from the root down, folders that are not       *)
(* loaded and not empty; it fails when the clone lacks one of them.        *)
Keys(r) == SelectSeq([k \in 1 .. Len(r.dir) + 1 |-> SubSeq(r.dir, 1, k - 1)],
                     LAMBDA p : NamesIn(r, p) # {})

FillUnlessLoaded(r, t, p) ==
    IF t = NoTree \/ ~Has(t, p) THEN NoTree
    ELSE IF GetNodeByPath(t, p).loaded THEN t ELSE Filled(t, p, NamesIn(r, p))

WithParents(r) == FoldLeft(LAMBDA t, p : FillUnlessLoaded(r, t, p), r.tree, Keys(r))

(* What each answer to a listing for the tree writes.                      *)
TreeAnswered(r) ==
    LET names == NamesIn(r, r.dir) IN
    CASE r.kind = "root" ->
           [SetTree(page, AddResponse(page.tree, names)) EXCEPT !.treeLoading = FALSE]
      [] r.kind = "parents" ->
           IF WithParents(r) = NoTree THEN page
           ELSE [SetTree(page, WithParents(r)) EXCEPT !.treeLoading = FALSE]
      [] r.kind = "node" ->
           SetTree(page, LET t == Filled(r.tree, r.dir, names)
                         IN  ExpandParent(t, At(t, r.dir)))
      [] r.kind = "click" ->
           SetTree(page, LET t == Filled(r.tree, r.dir, names)
                         IN  SetExpanded(t, At(t, r.dir), FALSE))
      [] r.kind = "expand" -> SetTree(page, Filled(r.tree, r.dir, names))
      [] r.kind = "into" ->
           LET there == {k.name : k \in Range(GetNodeByPath(r.tree, r.dir).kids)} IN
           SetTree(page, FoldLeft(LAMBDA t, n : AddNodeToParentByPath(t, TreeNode(n), r.dir),
                                  r.tree, Sorted(names \ there)))

Written(r) ==
    LET n == CHOOSE m \in r.names : TRUE
        p == Child(r.dir, n)
        paths == PathSeq(r.dir, r.names)
    IN
    CASE r.kind = "add" ->
           LET inTree == InTree(page, AddNodeToTree(page, r.dir, n)) IN
           IF r.dir = page.path THEN AddDirent(inTree, n) ELSE inTree
      [] r.kind = "rename" ->
           RenameDirent(InTree(page, SetTree(page, RenameNodeByPath(page.tree, p, r.to[1]))),
                        p, r.to[1])
      [] r.kind = "delete" ->
           DeleteDirent(InTree(page, SetTree(page, DeleteNodeByPath(page.tree, p))), p)
      [] r.kind = "deleteItems" ->
           DeleteDirents(InTree(page, SetTree(page, DeleteNodeListByPaths(page.tree, paths))),
                         r.names)
      [] r.kind = "moveItems" ->
           MoveDirents(InTree(page, SetTree(page, MoveNodeListByPaths(page.tree, paths, r.to))),
                       r.names)
      [] r.kind = "moveItem" ->
           LET inTree == SetTree(page, DeleteNodeByPath(page.tree, p)) IN
           MoveDirent(InTree(page, UpdateMoveCopyTreeNode(inTree, r.to)), p, r.to)
      [] r.kind = "copyItems" ->
           LET inTree == InTree(ResetSelected(page),
                                UpdateMoveCopyTreeNode(ResetSelected(page), r.to))
           IN  IF r.to = page.path THEN LoadDirentList(inTree, page.path) ELSE inTree

Refused(r) ==
    CASE r.kind = "list" -> ListRefused
      [] r.kind = "root" -> [page EXCEPT !.treeLoading = FALSE]
      [] OTHER -> page

Answered(r) ==
    IF r.reply = "refused" THEN Refused(r)
    ELSE CASE r.kind = "list" -> ListShown(r)
           [] r.kind = "notice" -> NoticeShown(r)
           [] r.kind \in Writes -> Written(r)
           [] OTHER -> TreeAnswered(r)

(* What an answer may do that the page does not recover from.              *)
OnList == {"list", "notice"} \cup Writes

(* Two answers that change the list are not handled in the order served.    *)
Overtakes(i) ==
    /\ answers[i].kind \in OnList
    /\ \E j \in 1 .. i - 1 : answers[j].kind \in OnList

(* The same with the tree; or it has changed since the clone was taken that *)
(* now replaces it.                                                        *)
LosesTree(i) ==
    LET r == answers[i] IN
    \/ r.tree # NoTree /\ r.tree # page.tree
    \/ \E j \in 1 .. i - 1 : answers[j].kind # "list"

(* The handlers of these take what was deleted or moved for rows of the     *)
(* folder shown; it may be another folder's, or that folder itself.        *)
WrongRows(r) ==
    /\ r.kind \in {"deleteItems", "moveItems", "moveItem"} /\ r.reply = "done"
    /\ r.dir # page.path
    /\ \/ r.names \cap page.list # {}
       \/ r.kind = "moveItems" /\ r.to = page.path
       \/ \E n \in r.names : IsPrefix(Child(r.dir, n), page.path)

(* isAncestorPath is fooled by a name further down.                        *)
WrongAncestor(r) ==
    /\ r.kind \in {"rename", "delete"} /\ r.reply = "done"
    /\ LET p == Child(r.dir, CHOOSE n \in r.names : TRUE)
       IN  r.dir # page.path /\ IsAncestorPath(p, page.path) /\ ~IsPrefix(p, page.path)

(* moveNode leaves what is below a folder with the paths it had, and does   *)
(* nothing for what the tree does not have.  Nothing at all moves in a tree *)
(* that does not have the destination.                                     *)
MovesBadly(r) ==
    /\ r.kind = "moveItems" /\ r.reply = "done" /\ page.panel
    /\ \E p \in {Child(r.dir, n) : n \in r.names} :
          IF Has(page.tree, r.to)
          THEN Has(page.tree, p) => GetNodeByPath(page.tree, p).kids # <<>>
          ELSE Has(page.tree, p)

(* A repo-update is answered for a folder that is not shown any more.       *)
WrongFolder(r) == r.kind = "notice" /\ r.reply = "done" /\ r.dir # page.path

(* The folder was deleted, moved or renamed when it was to be listed after  *)
(* a notice: the page keeps what it shows.                                 *)
Gone(r) == r.kind = "notice" /\ r.reply = "refused"

(* A listing of a folder that the user has left shows that folder again.    *)
Stray(r) == r.kind = "list" /\ r.dir # page.path

Troubles(i) ==
    LET r == answers[i] IN
    {t[1] : t \in {u \in {<<"overtaken", Overtakes(i)>>, <<"lost", LosesTree(i)>>,
                         <<"rows", WrongRows(r)>>, <<"ancestor", WrongAncestor(r)>>,
                         <<"folder", WrongFolder(r)>>, <<"moved", MovesBadly(r)>>,
                         <<"stray", Stray(r)>>, <<"gone", Gone(r)>>} : u[2]}}

(* Answers arrive in any order.                                            *)
Answer(i) ==
    LET to == Answered(answers[i]) IN
    /\ Commit(to)
    /\ answers' = RemoveAt(answers, i)
    /\ trouble' = trouble \cup Troubles(i)
    /\ UNCHANGED <<server, link, notices, ops, failures>>

(* onMessageCallback of a repo-update *)
RepoUpdate ==
    /\ notices > 0 /\ notices' = notices - 1
    /\ Commit(Send(page, Fetch("notice", page.path)))
    /\ UNCHANGED <<answers, server, link, ops, failures, trouble>>

-----------------------------------------------------------------------------

UserActs ==
    \/ \E n \in page.list : ItemClick(n) \/ DirentSelected(n)
    \/ \E e \in Nodes(page.tree) : TreeNodeClick(e) \/ TreeNodeExpanded(e) \/ TreeNodeCollapse(e)
    \/ \E k \in 1 .. Len(page.path) : MainNavBarClick(SubSeq(page.path, 1, k - 1))
    \/ Back \/ SwitchViewMode \/ ToggleTreePanel
    \/ \E n \in Names : AddItem(n)
    \/ \E p \in Rows \cup TreeItems :
          \/ DeleteItem(p)
          \/ \E new \in Names : RenameItem(p, new)
          \/ \E to \in {q \in server \cup {<<>>} : IsDir(server, q)} : MoveItem(p, to)
    \/ DeleteItems
    \/ \E to \in {q \in server \cup {<<>>} : IsDir(server, q)} : MoveItems(to) \/ CopyItems(to)

ServerActs == \E i \in DOMAIN requests : ServerLists(i) \/ ServerWrites(i)
Answers == \E i \in DOMAIN answers : Answer(i)

Next ==
    \/ UserActs \/ OtherClient
    \/ ServerActs \/ Answers \/ RepoUpdate
    \/ \E i \in DOMAIN requests : RequestFails(i)
    \/ ConnectionLost \/ Reconnected

(* Of the requests, those that load the list are taken and answered.       *)
ListServed == \E i \in DOMAIN requests : requests[i].kind = "list" /\ ServerLists(i)
ListAnswered == \E i \in DOMAIN answers : answers[i].kind = "list" /\ Answer(i)

Spec == Init /\ [][Next]_vars /\ WF_vars(ListServed) /\ WF_vars(ListAnswered)

-----------------------------------------------------------------------------

(* What the nodes of the tree say where they are is a path.                 *)
TreeOK ==
    /\ page.tree.path = <<>>
    /\ \A e \in Nodes(page.tree) : e.node.path \in Paths \ {<<>>}

(* Types; what is marked is a row of the list, whatever was deleted, moved, *)
(* renamed or loaded since; and the library is a tree.                     *)
TypeOK ==
    /\ page.path \in Paths /\ page.list \subseteq Names
    /\ page.marked \subseteq page.list /\ page.selected \subseteq Names
    /\ page.hist # <<>>
    /\ TreeOK /\ IsTree(server)
    /\ trouble \subseteq {"dead", "back", "grid", "failed", "missed", "others",
                          "spare", "overtaken", "lost", "rows", "ancestor",
                          "folder", "moved", "phantom", "gone", "stray"}

(* Nothing is on its way.                                                  *)
Quiet == requests = <<>> /\ answers = <<>> /\ notices = 0

(* Once nothing is on its way, a page that shows a folder shows what the    *)
(* server stores there, and the folder is there: so much do the handlers of *)
(* loadDirentList, of repo-update and of the operations achieve together,   *)
(* without asking for the list again after an operation.  The exceptions    *)
(* are the named troubles.  A click that throws, a selection or an address  *)
(* of another folder, a wrong tree (unless the user follows it into what it *)
(* still believes) and, with a notification server, other clients are not   *)
(* among them.  (That the page says a folder is missing may be out of date: *)
(* a rename or a move can bring it there, and the page does not ask again.) *)
QuietShowsServer ==
    /\ Quiet /\ page.exists
    /\ trouble \ {"dead", "back", "lost", "moved", "others", "stray"} = {}
    => IsDir(server, page.path) /\ page.list = ChildNames(server, page.path)

NamePath(t, at) == [k \in DOMAIN at |-> NodeAt(t, SubSeq(at, 1, k)).name]

(* Once nothing is on its way, every node of the tree that the user can see *)
(* has the path that its place in the tree says, is stored, and if it is    *)
(* loaded, has below it what is stored there, each once.  The tree classes  *)
(* keep the paths in the nodes and change them by hand on a rename or move. *)
QuietTreeShowsServer ==
    /\ Quiet /\ page.panel /\ ~page.treeLoading
    /\ trouble \ {"dead", "back", "grid"} = {}
    => \A e \in {d \in Range(Walk(page.tree)) : Visible(d)} :
         LET kids == {k.name : k \in Range(e.node.kids)} IN
         /\ e.node.path = NamePath(page.tree, e.at)
         /\ e.node.path = <<>> \/ e.node.path \in server
         /\ e.node.loaded => kids = ChildNames(server, e.node.path)
         /\ e.node.expanded => Cardinality(kids) = Len(e.node.kids)

(* What is selected was selected in the folder that is shown: delete, move  *)
(* and copy join the path of the page and the names of the selection, and   *)
(* would act on namesakes elsewhere.  Whatever leads the page to another    *)
(* folder has to drop the selection; Back does not, nor does a stray list.  *)
SelectionIsOfFolder ==
    page.selected # {} /\ trouble \cap {"back", "stray"} = {} =>
      page.picked = page.path

(* The address in the browser is that of the folder shown, also after it,   *)
(* or one above it, was renamed or deleted: reloading the page, or sending  *)
(* the address to somebody, leads there.  A stray list shows a folder       *)
(* without its address.                                                    *)
AddressIsPath == "stray" \notin trouble => Last(page.hist) = page.path

(* The list does not say "loading" for ever, whatever fails.               *)
ListLoadingEnds == page.loading ~> ~page.loading
=============================================================================
