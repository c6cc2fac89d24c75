--------------------------- MODULE LibraryPageProofs ---------------------------
(***************************************************************************)
(* LibraryPage for every library, every opening and any number of clicks,  *)
(* requests and failures.                                                  *)
(*                                                                         *)
(* First, where the page is, what its address says and what is selected    *)
(* belong together.  Nothing is assumed of the tree: its operations write  *)
(* the tree of the page and nothing else.                                  *)
(*                                                                         *)
(* Then, the list: once nothing is on its way it is what the server        *)
(* stores.  The argument follows the answers.  A view is what the page     *)
(* shows; each answer makes another view of it (After), and what all the   *)
(* answers that wait would make of it, in the order served, is what the    *)
(* server stores now, unless a list or a notice is still on its way        *)
(* (ListInv).  An operation that the server does changes what it stores    *)
(* and adds the answer that makes the same change of the view.  Here the   *)
(* nodes of the tree are assumed to have paths for places (TreeOK): they   *)
(* are walked by recursion, and TLC checks it as part of TypeOK.           *)
(***************************************************************************)
EXTENDS LibraryPage, TLAPS, SequenceTheorems, WellFoundedInduction

PageFields ==
    {"acts", "path", "exists", "loading", "list", "marked", "selected", "picked",
     "grid", "push", "hist", "panel", "tree", "treeLoading", "sends"}

IsSeq(s) == \E S : s \in Seq(S)

IsRequest(r) ==
    /\ DOMAIN r = {"kind", "dir", "names", "to", "tree", "reply", "got"}
    /\ r.kind \in Listings \cup Writes

Requested(q) == \E S : q \in Seq(S) /\ \A r \in S : IsRequest(r)

IsPage(pg) == DOMAIN pg = PageFields /\ Requested(pg.sends)

(* q is where pg is: nothing more is selected, and the address is the same. *)
Keeps(pg, q) ==
    /\ IsPage(q)
    /\ q.push = pg.push /\ q.hist = pg.hist
    /\ q.path = pg.path /\ q.picked = pg.picked
    /\ q.selected # {} => pg.selected # {}

(* q shows p with nothing selected, and p is a new entry of the history. *)
Goes(pg, q, p) ==
    /\ IsPage(q)
    /\ q.push = TRUE /\ q.hist = Append(pg.hist, p)
    /\ q.path = p /\ q.selected = {}

(* The folder shown has another path: address and selection follow. *)
Moves(pg, q, p) ==
    /\ IsPage(q)
    /\ q.push = pg.push /\ q.hist = Append(Front(pg.hist), p) /\ q.path = p
    /\ q.selected # {} => pg.selected # {}
    /\ pg.picked = pg.path => q.picked = p

Leads(pg, q) == Keeps(pg, q) \/ \E p : Goes(pg, q, p) \/ Moves(pg, q, p)

PlaceInv ==
    /\ IsPage(page) /\ page.push = TRUE
    /\ IsSeq(page.hist) /\ page.hist # <<>>
    /\ Requested(requests) /\ Requested(answers)
    /\ AddressIsPath
    /\ SelectionIsOfFolder

-----------------------------------------------------------------------------
(* Sequences *)

LEMMA AppendSeq ==
    ASSUME NEW s, NEW x, IsSeq(s)
    PROVE  /\ IsSeq(Append(s, x)) /\ Append(s, x) # <<>>
           /\ Last(Append(s, x)) = x
<1>1. PICK S : s \in Seq(S)
  BY DEF IsSeq
<1>2. s \in Seq(S \cup {x}) /\ x \in S \cup {x}
  <2>1. \A i \in 1 .. Len(s) : s[i] \in S \cup {x}
    BY <1>1
  <2> QED
    BY <1>1, <2>1
<1>3. /\ Append(s, x) \in Seq(S \cup {x}) /\ Len(s) \in Nat
      /\ Len(Append(s, x)) = Len(s) + 1
      /\ Append(s, x)[Len(s) + 1] = x
  BY <1>2
<1> QED
  BY <1>3 DEF IsSeq, Last

LEMMA FrontSeq ==
    ASSUME NEW s, IsSeq(s), s # <<>>
    PROVE  /\ IsSeq(Front(s))
           /\ Len(s) > 1 => Front(s) # <<>>
<1>1. PICK S : s \in Seq(S)
  BY DEF IsSeq
<1>2. Len(s) \in Nat /\ Len(s) >= 1
  BY <1>1
<1> DEFINE n == Len(s) - 1
<1>3. n \in Nat /\ n <= Len(s) /\ (Len(s) > 1 => n # 0)
  <2>1. \A k \in Nat : k >= 1 => k - 1 \in Nat /\ k - 1 <= k /\ (k > 1 => k - 1 # 0)
    OBVIOUS
  <2> QED
    BY <1>1, <1>2, <2>1
<1> HIDE DEF n
<1>4. \A i \in 1 .. n : s[i] \in S
  <2>1. \A i \in 1 .. Len(s) : s[i] \in S
    BY <1>1
  <2>2. \A i \in 1 .. n : i \in 1 .. Len(s)
    BY <1>2, <1>3
  <2> QED
    BY <2>1, <2>2
<1>5. SubSeq(s, 1, n) \in Seq(S) /\ Len(SubSeq(s, 1, n)) = n
  BY <1>1, <1>3, <1>4, SubSeqProperties
<1>6. Front(s) = SubSeq(s, 1, n)
  BY DEF Front, n
<1>7. \A x \in Seq(S) : Len(x) # 0 => x # <<>>
  OBVIOUS
<1> QED
  BY <1>3, <1>5, <1>6, <1>7 DEF IsSeq

LEMMA AppendRequested ==
    ASSUME NEW q, NEW r, Requested(q), IsRequest(r)
    PROVE  Requested(Append(q, r))
<1>1. PICK S : q \in Seq(S) /\ \A x \in S : IsRequest(x)
  BY DEF Requested
<1>2. q \in Seq(S \cup {r}) /\ r \in S \cup {r}
  <2>1. \A i \in 1 .. Len(q) : q[i] \in S \cup {r}
    BY <1>1
  <2> QED
    BY <1>1, <2>1
<1>3. Append(q, r) \in Seq(S \cup {r}) /\ \A x \in S \cup {r} : IsRequest(x)
  BY <1>1, <1>2
<1> QED
  BY <1>3 DEF Requested

LEMMA ConcatRequested ==
    ASSUME NEW q, NEW p, Requested(q), Requested(p)
    PROVE  Requested(q \o p)
<1>1. PICK S : q \in Seq(S) /\ \A x \in S : IsRequest(x)
  BY DEF Requested
<1>2. PICK T : p \in Seq(T) /\ \A x \in T : IsRequest(x)
  BY DEF Requested
<1>3. q \in Seq(S \cup T) /\ p \in Seq(S \cup T)
  <2>1. /\ \A i \in 1 .. Len(q) : q[i] \in S \cup T
        /\ \A i \in 1 .. Len(p) : p[i] \in S \cup T
    BY <1>1, <1>2
  <2> QED
    BY <1>1, <1>2, <2>1
<1>4. q \o p \in Seq(S \cup T) /\ \A x \in S \cup T : IsRequest(x)
  BY <1>1, <1>2, <1>3
<1> QED
  BY <1>4 DEF Requested

LEMMA RemoveRequested ==
    ASSUME NEW q, Requested(q), NEW i \in DOMAIN q
    PROVE  Requested(RemoveAt(q, i)) /\ IsRequest(q[i])
<1>1. PICK S : q \in Seq(S) /\ \A x \in S : IsRequest(x)
  BY DEF Requested
<1>2. i \in Nat /\ 1 <= i /\ i <= Len(q) /\ Len(q) \in Nat /\ q[i] \in S
  BY <1>1
<1>3. SubSeq(q, 1, i - 1) \in Seq(S) /\ SubSeq(q, i + 1, Len(q)) \in Seq(S)
  BY <1>1, <1>2, SubSeqProperties
<1>4. RemoveAt(q, i) \in Seq(S)
  BY <1>3 DEF RemoveAt
<1> QED
  BY <1>1, <1>2, <1>4 DEF Requested

LEMMA NoneRequested == Requested(<<>>)
<1> DEFINE S == {}
<1>1. <<>> \in Seq(S) /\ \A r \in S : IsRequest(r)
  OBVIOUS
<1> HIDE DEF S
<1> QED
  BY <1>1 DEF Requested

-----------------------------------------------------------------------------
(* Changes of the page *)

LEMMA KeepsItself == ASSUME NEW pg, IsPage(pg) PROVE Keeps(pg, pg)
BY DEF Keeps

LEMMA KeepsMore ==
    ASSUME NEW pg, NEW q, NEW p, Keeps(pg, q), Keeps(q, p)
    PROVE  Keeps(pg, p)
BY DEF Keeps

LEMMA SetTreeKeeps == ASSUME NEW pg, IsPage(pg), NEW t PROVE Keeps(pg, SetTree(pg, t))
BY DEF SetTree, Keeps, IsPage, PageFields

LEMMA SendKeeps ==
    ASSUME NEW pg, IsPage(pg), NEW r, IsRequest(r)
    PROVE  Keeps(pg, Send(pg, r))
<1>1. Requested(Append(pg.sends, r))
  BY AppendRequested DEF IsPage
<1> QED
  BY <1>1 DEF Send, Keeps, IsPage, PageFields

LEMMA RequestIsRequest ==
    ASSUME NEW kind \in Listings \cup Writes, NEW dir, NEW names, NEW to, NEW tree
    PROVE  IsRequest(Request(kind, dir, names, to, tree))
BY DEF IsRequest, Request

LEMMA FetchIsRequest ==
    ASSUME NEW kind \in Listings, NEW dir, NEW tree
    PROVE  IsRequest(Fetch(kind, dir)) /\ IsRequest(FetchInto(kind, dir, tree))
BY RequestIsRequest DEF Fetch, FetchInto

LEMMA ResetSelectedKeeps ==
    ASSUME NEW pg, IsPage(pg) PROVE Keeps(pg, ResetSelected(pg))
BY DEF ResetSelected, Keeps, IsPage, PageFields

LEMMA DeleteDirentsKeeps ==
    ASSUME NEW pg, IsPage(pg), NEW names
    PROVE  Keeps(pg, DeleteDirents(pg, names)) /\ Keeps(pg, MoveDirents(pg, names))
BY DEF DeleteDirents, MoveDirents, Keeps, IsPage, PageFields

LEMMA AddDirentKeeps ==
    ASSUME NEW pg, IsPage(pg), NEW n PROVE Keeps(pg, AddDirent(pg, n))
BY DEF AddDirent, Keeps, IsPage, PageFields

LEMMA InTreeKeeps ==
    ASSUME NEW pg, IsPage(pg), NEW change, Keeps(pg, change)
    PROVE  Keeps(pg, InTree(pg, change))
BY KeepsItself DEF InTree

(* Loading the list of the folder that is shown *)
LEMMA LoadDirentListLoads ==
    ASSUME NEW pg, IsPage(pg), NEW p
    PROVE  /\ IsPage(LoadDirentList(pg, p))
           /\ LoadDirentList(pg, p).path = p
           /\ LoadDirentList(pg, p).hist = pg.hist
           /\ LoadDirentList(pg, p).push = pg.push
           /\ LoadDirentList(pg, p).selected = pg.selected
           /\ p = pg.path => Keeps(pg, LoadDirentList(pg, p))
<1> DEFINE q == [pg EXCEPT !.loading = TRUE, !.list = {}, !.marked = {}, !.path = p]
<1>1. /\ IsPage(q) /\ q.path = p /\ q.hist = pg.hist /\ q.push = pg.push
      /\ q.selected = pg.selected /\ q.picked = pg.picked
  BY DEF IsPage, PageFields
<1>2. IsRequest(Fetch("list", p))
  BY FetchIsRequest DEF Listings
<1> HIDE DEF q
<1>3. Keeps(q, Send(q, Fetch("list", p))) /\ Send(q, Fetch("list", p)).selected = q.selected
  <2>1. Send(q, Fetch("list", p)).selected = q.selected
    BY <1>1 DEF Send, IsPage, PageFields
  <2> QED
    BY <1>1, <1>2, <2>1, SendKeeps
<1>4. LoadDirentList(pg, p) = Send(q, Fetch("list", p))
  BY DEF LoadDirentList, q
<1> QED
  BY <1>1, <1>3, <1>4 DEF Keeps

(* showDir, without the address *)
LEMMA ShowDirLoads ==
    ASSUME NEW pg, IsPage(pg), NEW p
    PROVE  \E l : /\ IsPage(l) /\ l.path = p /\ l.hist = pg.hist /\ l.selected = {}
                  /\ ShowDir(pg, p) = IF pg.push THEN [l EXCEPT !.hist = Append(@, p)]
                                      ELSE [l EXCEPT !.push = TRUE]
                  /\ l.push = pg.push
<1> DEFINE q == [pg EXCEPT !.selected = {}]
           l == LoadDirentList(q, p)
<1>1. IsPage(q) /\ q.hist = pg.hist /\ q.push = pg.push /\ q.selected = {}
  BY DEF IsPage, PageFields
<1> HIDE DEF q
<1>2. /\ IsPage(l) /\ l.path = p /\ l.hist = pg.hist /\ l.push = pg.push /\ l.selected = {}
  BY <1>1, LoadDirentListLoads
<1>3. ShowDir(pg, p) = IF pg.push THEN [l EXCEPT !.hist = Append(@, p)]
                       ELSE [l EXCEPT !.push = TRUE]
  BY DEF ShowDir, q
<1> HIDE DEF l
<1> QED
  BY <1>2, <1>3

(* The address is pushed. *)
LEMMA ShowDirGoes ==
    ASSUME NEW pg, IsPage(pg), pg.push = TRUE, NEW p
    PROVE  Goes(pg, ShowDir(pg, p), p)
<1>1. PICK l : /\ IsPage(l) /\ l.path = p /\ l.hist = pg.hist /\ l.selected = {}
               /\ ShowDir(pg, p) = [l EXCEPT !.hist = Append(@, p)]
               /\ l.push = TRUE
  BY ShowDirLoads
<1> QED
  BY <1>1 DEF Goes, IsPage, PageFields

(* It is not, the once, when the page was told so. *)
LEMMA ShowDirStays ==
    ASSUME NEW pg, IsPage(pg), pg.push = FALSE, NEW p
    PROVE  /\ IsPage(ShowDir(pg, p)) /\ ShowDir(pg, p).push = TRUE
           /\ ShowDir(pg, p).hist = pg.hist /\ ShowDir(pg, p).path = p
           /\ ShowDir(pg, p).selected = {}
<1>1. PICK l : /\ IsPage(l) /\ l.path = p /\ l.hist = pg.hist /\ l.selected = {}
               /\ ShowDir(pg, p) = [l EXCEPT !.push = TRUE]
  BY ShowDirLoads
<1> QED
  BY <1>1 DEF IsPage, PageFields

LEMMA MoveAddressMoves ==
    ASSUME NEW pg, IsPage(pg), NEW p
    PROVE  Moves(pg, MoveAddress(pg, p), p)
BY DEF MoveAddress, Moves, IsPage, PageFields

LEMMA LoadSidePanelKeeps ==
    ASSUME NEW pg, IsPage(pg), NEW p PROVE Keeps(pg, LoadSidePanel(pg, p))
BY SendKeeps, FetchIsRequest DEF LoadSidePanel, Listings

LEMMA LoadTreeNodeByPathKeeps ==
    ASSUME NEW pg, IsPage(pg), NEW p PROVE Keeps(pg, LoadTreeNodeByPath(pg, p))
BY SendKeeps, SetTreeKeeps, FetchIsRequest DEF LoadTreeNodeByPath, Listings

LEMMA AddNodeToTreeKeeps ==
    ASSUME NEW pg, IsPage(pg), NEW dir, NEW n PROVE Keeps(pg, AddNodeToTree(pg, dir, n))
BY SetTreeKeeps, KeepsItself DEF AddNodeToTree

LEMMA UpdateMoveCopyTreeNodeKeeps ==
    ASSUME NEW pg, IsPage(pg), NEW p PROVE Keeps(pg, UpdateMoveCopyTreeNode(pg, p))
BY SendKeeps, KeepsItself, FetchIsRequest DEF UpdateMoveCopyTreeNode, Listings

LEMMA MoveDirentKeeps ==
    ASSUME NEW pg, IsPage(pg), NEW p, NEW to PROVE Keeps(pg, MoveDirent(pg, p, to))
BY LoadDirentListLoads, DeleteDirentsKeeps DEF MoveDirent

-----------------------------------------------------------------------------
(* Where a change of the page leads *)

LEMMA KeepsLeads == ASSUME NEW pg, NEW q, Keeps(pg, q) PROVE Leads(pg, q)
BY DEF Leads

LEMMA LeadsOn ==
    ASSUME NEW pg, NEW q, NEW s, Keeps(pg, q), Leads(q, s)
    PROVE  Leads(pg, s)
<1>1. Keeps(q, s) => Keeps(pg, s)
  BY DEF Keeps
<1>2. \A p : Goes(q, s, p) => Goes(pg, s, p)
  BY DEF Keeps, Goes
<1>3. \A p : Moves(q, s, p) => Moves(pg, s, p)
  BY DEF Keeps, Moves
<1> QED
  BY <1>1, <1>2, <1>3 DEF Leads

LEMMA ShowDirLeads ==
    ASSUME NEW pg, NEW q, Keeps(pg, q), pg.push = TRUE, NEW p
    PROVE  Leads(pg, ShowDir(q, p))
<1>1. IsPage(q) /\ q.push = TRUE
  BY DEF Keeps
<1>2. Goes(q, ShowDir(q, p), p)
  BY <1>1, ShowDirGoes
<1> QED
  BY <1>2, LeadsOn DEF Leads

LEMMA DeleteDirentLeads ==
    ASSUME NEW pg, NEW q, Keeps(pg, q), pg.push = TRUE, NEW p
    PROVE  Leads(pg, DeleteDirent(q, p))
<1>1. IsPage(q)
  BY DEF Keeps
<1>2. Leads(pg, ShowDir(q, Front(p)))
  BY ShowDirLeads
<1>3. Leads(pg, DeleteDirents(q, {Last(p)})) /\ Leads(pg, q)
  BY <1>1, DeleteDirentsKeeps, KeepsMore, KeepsLeads
<1> QED
  BY <1>2, <1>3 DEF DeleteDirent

LEMMA RenameDirentLeads ==
    ASSUME NEW pg, NEW q, Keeps(pg, q), NEW p, NEW new
    PROVE  Leads(pg, RenameDirent(q, p, new))
<1>1. IsPage(q)
  BY DEF Keeps
<1>2. \A d : Leads(pg, MoveAddress(q, d))
  BY <1>1, MoveAddressMoves, LeadsOn DEF Leads
<1> DEFINE n == Last(p)
           s == [q EXCEPT !.list = Renamed(@, n, new),
                          !.marked = Renamed(@, n, new),
                          !.selected = IF n \in q.marked THEN Renamed(@, n, new) ELSE @]
<1>3. Keeps(q, s)
  <2>1. Renamed({}, n, new) = {}
    BY DEF Renamed
  <2>2. s.selected = q.selected \/ s.selected = Renamed(q.selected, n, new)
    BY <1>1 DEF IsPage, PageFields
  <2>3. s.selected # {} => q.selected # {}
    BY <2>1, <2>2
  <2>4. DOMAIN s = DOMAIN q /\ s.sends = q.sends /\ s.push = q.push /\ s.hist = q.hist
        /\ s.path = q.path /\ s.picked = q.picked
    BY <1>1 DEF IsPage, PageFields
  <2> QED
    BY <1>1, <2>3, <2>4 DEF Keeps, IsPage
<1>4. Leads(pg, s) /\ Leads(pg, q)
  BY <1>3, KeepsMore, KeepsLeads
<1>5. RenameDirent(q, p, new) =
        IF p = q.path THEN MoveAddress(q, Child(Front(p), new))
        ELSE IF Front(p) = q.path THEN s
        ELSE IF IsAncestorPath(p, q.path)
        THEN MoveAddress(q, RenameAncestorPath(q.path, p, Child(Front(p), new)))
        ELSE q
  BY DEF RenameDirent
<1> HIDE DEF s
<1> QED
  BY <1>2, <1>4, <1>5

-----------------------------------------------------------------------------
(* Answers *)

LEMMA RefusedKeeps == ASSUME IsPage(page), NEW r PROVE Keeps(page, Refused(r))
<1>1. Keeps(page, ListRefused)
  BY DEF ListRefused, Keeps, IsPage, PageFields
<1>2. Keeps(page, [page EXCEPT !.treeLoading = FALSE])
  BY DEF Keeps, IsPage, PageFields
<1> QED
  BY <1>1, <1>2, KeepsItself DEF Refused

(* A list leads to the folder that it lists. *)
LEMMA ListShownStrays ==
    ASSUME IsPage(page), NEW r
    PROVE  /\ r.dir = page.path => Keeps(page, ListShown(r))
           /\ IsPage(ListShown(r))
           /\ ListShown(r).push = page.push /\ ListShown(r).hist = page.hist
<1>1. /\ IsPage(ListShown(r))
      /\ ListShown(r).push = page.push /\ ListShown(r).hist = page.hist
      /\ ListShown(r).picked = page.picked /\ ListShown(r).selected = page.selected
      /\ ListShown(r).path = r.dir
  BY DEF ListShown, IsPage, PageFields
<1> QED
  BY <1>1 DEF Keeps

LEMMA NoticeShownKeeps == ASSUME IsPage(page), NEW r PROVE Keeps(page, NoticeShown(r))
<1> DEFINE shown == [page EXCEPT !.exists = TRUE, !.loading = FALSE, !.marked = {},
                                 !.list = NamesIn(r, r.dir)]
<1>1. Keeps(page, shown) /\ IsPage(shown)
  BY DEF Keeps, IsPage, PageFields
<1>2. NoticeShown(r) = shown \/ \E t : NoticeShown(r) = SetTree(shown, t)
  BY DEF NoticeShown
<1> HIDE DEF shown
<1> QED
  BY <1>1, <1>2, SetTreeKeeps, KeepsMore

LEMMA TreeAnsweredKeeps ==
    ASSUME IsPage(page), NEW r, IsRequest(r),
           r.kind \notin Writes, r.kind \notin {"list", "notice"}
    PROVE  Keeps(page, TreeAnswered(r))
<1>1. r.kind \in {"root", "parents", "node", "click", "expand", "into"}
  BY DEF IsRequest, Listings
<1>2. \A t : /\ Keeps(page, SetTree(page, t))
             /\ Keeps(page, [SetTree(page, t) EXCEPT !.treeLoading = FALSE])
  <2>1. \A q : IsPage(q) => Keeps(q, [q EXCEPT !.treeLoading = FALSE])
    BY DEF Keeps, IsPage, PageFields
  <2> QED
    BY <2>1, SetTreeKeeps, KeepsMore DEF Keeps
<1>3. \/ TreeAnswered(r) = page
      \/ \E t : TreeAnswered(r) \in {SetTree(page, t),
                                     [SetTree(page, t) EXCEPT !.treeLoading = FALSE]}
  <2>1. CASE r.kind = "root"
    BY <2>1 DEF TreeAnswered
  <2>2. CASE r.kind = "parents"
    BY <2>2 DEF TreeAnswered
  <2>3. CASE r.kind = "node"
    BY <2>3 DEF TreeAnswered
  <2>4. CASE r.kind = "click"
    BY <2>4 DEF TreeAnswered
  <2>5. CASE r.kind = "expand"
    BY <2>5 DEF TreeAnswered
  <2>6. CASE r.kind = "into"
    BY <2>6 DEF TreeAnswered
  <2> QED
    BY <1>1, <2>1, <2>2, <2>3, <2>4, <2>5, <2>6
<1> QED
  BY <1>2, <1>3, KeepsItself

LEMMA WrittenLeads ==
    ASSUME IsPage(page), page.push = TRUE, NEW r, r.kind \in Writes
    PROVE  Leads(page, Written(r))
<1> DEFINE n == CHOOSE m \in r.names : TRUE
           p == Child(r.dir, n)
           paths == PathSeq(r.dir, r.names)
<1>1. \A t : Keeps(page, InTree(page, SetTree(page, t)))
  BY SetTreeKeeps, InTreeKeeps
<1>2. CASE r.kind = "add"
  <2> DEFINE q == InTree(page, AddNodeToTree(page, r.dir, n))
  <2>1. Keeps(page, q)
    BY AddNodeToTreeKeeps, InTreeKeeps
  <2>2. Written(r) = IF r.dir = page.path THEN AddDirent(q, n) ELSE q
    BY <1>2 DEF Written
  <2> HIDE DEF q, n
  <2> QED
    BY <2>1, <2>2, AddDirentKeeps, KeepsMore, KeepsLeads DEF Keeps
<1>3. CASE r.kind = "rename"
  <2> DEFINE q == InTree(page, SetTree(page, RenameNodeByPath(page.tree, p, r.to[1])))
  <2>1. Written(r) = RenameDirent(q, p, r.to[1])
    BY <1>3 DEF Written
  <2>2. Keeps(page, q)
    BY <1>1
  <2> HIDE DEF q, p
  <2> QED
    BY <2>1, <2>2, RenameDirentLeads
<1>4. CASE r.kind = "delete"
  <2> DEFINE q == InTree(page, SetTree(page, DeleteNodeByPath(page.tree, p)))
  <2>1. Written(r) = DeleteDirent(q, p)
    BY <1>4 DEF Written
  <2>2. Keeps(page, q)
    BY <1>1
  <2> HIDE DEF q, p
  <2> QED
    BY <2>1, <2>2, DeleteDirentLeads
<1>5. CASE r.kind = "deleteItems"
  <2> DEFINE q == InTree(page, SetTree(page, DeleteNodeListByPaths(page.tree, paths)))
  <2>1. Written(r) = DeleteDirents(q, r.names)
    BY <1>5 DEF Written
  <2>2. Keeps(page, q)
    BY <1>1
  <2> HIDE DEF q
  <2> QED
    BY <2>1, <2>2, DeleteDirentsKeeps, KeepsMore, KeepsLeads DEF Keeps
<1>6. CASE r.kind = "moveItems"
  <2> DEFINE q == InTree(page, SetTree(page, MoveNodeListByPaths(page.tree, paths, r.to)))
  <2>1. Written(r) = MoveDirents(q, r.names)
    BY <1>6 DEF Written
  <2>2. Keeps(page, q)
    BY <1>1
  <2> HIDE DEF q
  <2> QED
    BY <2>1, <2>2, DeleteDirentsKeeps, KeepsMore, KeepsLeads DEF Keeps
<1>7. CASE r.kind = "moveItem"
  <2> DEFINE t == SetTree(page, DeleteNodeByPath(page.tree, p))
             u == UpdateMoveCopyTreeNode(t, r.to)
             q == InTree(page, u)
  <2>1. Written(r) = MoveDirent(q, p, r.to)
    BY <1>7 DEF Written
  <2>2. Keeps(page, t)
    BY SetTreeKeeps
  <2> HIDE DEF t, p
  <2>3. Keeps(page, u)
    BY <2>2, UpdateMoveCopyTreeNodeKeeps, KeepsMore DEF Keeps
  <2> HIDE DEF u
  <2>4. Keeps(page, q)
    BY <2>3, InTreeKeeps
  <2> HIDE DEF q
  <2> QED
    BY <2>1, <2>4, MoveDirentKeeps, KeepsMore, KeepsLeads DEF Keeps
<1>8. CASE r.kind = "copyItems"
  <2> DEFINE s == ResetSelected(page)
             u == UpdateMoveCopyTreeNode(s, r.to)
             q == InTree(s, u)
  <2>1. Written(r) = IF r.to = page.path THEN LoadDirentList(q, page.path) ELSE q
    BY <1>8 DEF Written
  <2>2. Keeps(page, s)
    BY ResetSelectedKeeps
  <2> HIDE DEF s
  <2>3. IsPage(s) /\ Keeps(s, u)
    BY <2>2, UpdateMoveCopyTreeNodeKeeps DEF Keeps
  <2> HIDE DEF u
  <2>4. Keeps(page, q)
    BY <2>2, <2>3, InTreeKeeps, KeepsMore
  <2> HIDE DEF q
  <2>5. IsPage(q) /\ page.path = q.path
    BY <2>4 DEF Keeps
  <2>6. Keeps(q, LoadDirentList(q, page.path))
    BY <2>5, LoadDirentListLoads
  <2> QED
    BY <2>1, <2>4, <2>6, KeepsMore, KeepsLeads
<1> HIDE DEF n, p, paths
<1> QED
  BY <1>2, <1>3, <1>4, <1>5, <1>6, <1>7, <1>8 DEF Writes

LEMMA AnsweredLeads ==
    ASSUME IsPage(page), page.push = TRUE, NEW r, IsRequest(r)
    PROVE  \/ Leads(page, Answered(r))
           \/ /\ Stray(r)
              /\ IsPage(Answered(r)) /\ Answered(r).push = TRUE
              /\ Answered(r).hist = page.hist
<1>1. CASE r.reply = "refused"
  BY <1>1, RefusedKeeps, KeepsLeads DEF Answered
<1>2. CASE r.reply # "refused"
  <2>1. CASE r.kind = "list"
    <3>1. Answered(r) = ListShown(r)
      BY <1>2, <2>1 DEF Answered, Writes
    <3> QED
      BY <2>1, <3>1, ListShownStrays, KeepsLeads DEF Stray
  <2>2. CASE r.kind = "notice"
    <3>1. Answered(r) = NoticeShown(r)
      BY <1>2, <2>2 DEF Answered, Writes
    <3> QED
      BY <3>1, NoticeShownKeeps, KeepsLeads
  <2>3. CASE r.kind \in Writes
    <3>1. Answered(r) = Written(r)
      BY <1>2, <2>3 DEF Answered, Writes
    <3> QED
      BY <2>3, <3>1, WrittenLeads
  <2>4. CASE r.kind \notin Writes /\ r.kind \notin {"list", "notice"}
    <3>1. Answered(r) = TreeAnswered(r)
      BY <1>2, <2>4 DEF Answered
    <3> QED
      BY <2>4, <3>1, TreeAnsweredKeeps, KeepsLeads
  <2> QED
    BY <2>1, <2>2, <2>3, <2>4
<1> QED
  BY <1>1, <1>2

LEMMA StrayIsTrouble ==
    ASSUME NEW i, Stray(answers[i]) PROVE "stray" \in Troubles(i)
<1> DEFINE u == <<"stray", Stray(answers[i])>>
<1>1. u[1] = "stray"
  OBVIOUS
<1>2. u[2]
  <2>1. u[2] = Stray(answers[i])
    BY Zenon
  <2> QED
    BY <2>1
<1>3. u \in {v \in {<<"overtaken", Overtakes(i)>>, <<"lost", LosesTree(i)>>,
                 <<"rows", WrongRows(answers[i])>>, <<"ancestor", WrongAncestor(answers[i])>>,
                 <<"folder", WrongFolder(answers[i])>>, <<"moved", MovesBadly(answers[i])>>,
                 <<"stray", Stray(answers[i])>>, <<"gone", Gone(answers[i])>>} : v[2]}
  BY <1>2, Zenon
<1> HIDE DEF u
<1> QED
  BY <1>1, <1>3, Zenon DEF Troubles

-----------------------------------------------------------------------------
(* Steps *)

LEMMA CommitRequests ==
    ASSUME PlaceInv, NEW q, IsPage(q), Commit(q)
    PROVE  /\ IsPage(page)' /\ Requested(requests)'
           /\ page'.push = q.push /\ page'.hist = q.hist /\ page'.path = q.path
           /\ page'.picked = q.picked /\ page'.selected = q.selected
<1>1. Requested(requests \o q.sends)
  BY ConcatRequested DEF PlaceInv, IsPage
<1>2. Requested(requests)'
  BY <1>1 DEF Commit
<1>3. /\ DOMAIN page' = PageFields /\ page'.sends = <<>>
      /\ page'.push = q.push /\ page'.hist = q.hist /\ page'.path = q.path
      /\ page'.picked = q.picked /\ page'.selected = q.selected
  BY DEF Commit, IsPage, PageFields
<1>4. Requested(page'.sends)
  BY <1>3, NoneRequested
<1> QED
  BY <1>2, <1>3, <1>4 DEF IsPage

LEMMA LeadsStep ==
    ASSUME PlaceInv, NEW q, Leads(page, q), Commit(q),
           trouble \subseteq trouble', Requested(answers)'
    PROVE  PlaceInv'
<1>1. IsPage(q)
  BY DEF Leads, Keeps, Goes, Moves
<1>2. /\ IsPage(page)' /\ Requested(requests)'
      /\ page'.push = q.push /\ page'.hist = q.hist /\ page'.path = q.path
      /\ page'.picked = q.picked /\ page'.selected = q.selected
  BY <1>1, CommitRequests
<1>3. trouble' \cap {"back", "stray"} = {} => trouble \cap {"back", "stray"} = {}
  OBVIOUS
<1>4. "stray" \notin trouble' => "stray" \notin trouble
  OBVIOUS
<1>5. page.push = TRUE /\ IsSeq(page.hist) /\ page.hist # <<>>
  BY DEF PlaceInv
<1>6. CASE Keeps(page, q)
  BY <1>2, <1>3, <1>4, <1>6 DEF Keeps, PlaceInv, AddressIsPath, SelectionIsOfFolder
<1>7. ASSUME NEW p, Goes(page, q, p) PROVE PlaceInv'
  <2>1. /\ IsSeq(Append(page.hist, p)) /\ Append(page.hist, p) # <<>>
        /\ Last(Append(page.hist, p)) = p
    BY <1>5, AppendSeq
  <2> QED
    BY <1>2, <1>7, <2>1 DEF Goes, PlaceInv, AddressIsPath, SelectionIsOfFolder
<1>8. ASSUME NEW p, Moves(page, q, p) PROVE PlaceInv'
  <2>1. IsSeq(Front(page.hist))
    BY <1>5, FrontSeq
  <2>2. /\ IsSeq(Append(Front(page.hist), p)) /\ Append(Front(page.hist), p) # <<>>
        /\ Last(Append(Front(page.hist), p)) = p
    BY <2>1, AppendSeq
  <2>3. page.selected # {} /\ trouble \cap {"back", "stray"} = {} => page.picked = page.path
    BY DEF PlaceInv, SelectionIsOfFolder
  <2> QED
    BY <1>2, <1>3, <1>5, <1>8, <2>2, <2>3 DEF Moves, PlaceInv, AddressIsPath, SelectionIsOfFolder
<1> QED
  BY <1>6, <1>7, <1>8 DEF Leads

LEMMA ClickStep ==
    ASSUME PlaceInv, NEW act, NEW q, NEW tags, Click(act, q, tags), Leads(page, q)
    PROVE  PlaceInv'
<1>1. Commit(q) /\ trouble \subseteq trouble' /\ Requested(answers)'
  BY DEF Click, PlaceInv
<1> QED
  BY <1>1, LeadsStep

(* A step of the server, or of the connection to it *)
LEMMA ServerStep ==
    ASSUME PlaceInv, page' = page, trouble \subseteq trouble',
           Requested(requests)', Requested(answers)'
    PROVE  PlaceInv'
<1>1. trouble' \cap {"back", "stray"} = {} => trouble \cap {"back", "stray"} = {}
  OBVIOUS
<1>2. "stray" \notin trouble' => "stray" \notin trouble
  OBVIOUS
<1> QED
  BY <1>1, <1>2 DEF PlaceInv, AddressIsPath, SelectionIsOfFolder

LEMMA ReplyMoves ==
    ASSUME PlaceInv, NEW i \in DOMAIN requests, NEW reply, NEW got, Reply(i, reply, got)
    PROVE  Requested(requests)' /\ Requested(answers)'
<1>1. Requested(RemoveAt(requests, i)) /\ IsRequest(requests[i])
  BY RemoveRequested DEF PlaceInv
<1> DEFINE r == [requests[i] EXCEPT !.reply = reply, !.got = got]
<1>2. IsRequest(r)
  BY <1>1 DEF IsRequest
<1>3. requests' = RemoveAt(requests, i) /\ answers' = Append(answers, r)
  BY DEF Reply
<1> HIDE DEF r
<1>4. Requested(Append(answers, r))
  BY <1>2, AppendRequested DEF PlaceInv
<1> QED
  BY <1>1, <1>3, <1>4

LEMMA SendLeads ==
    ASSUME IsPage(page), NEW r, IsRequest(r) PROVE Leads(page, Send(page, r))
BY SendKeeps, KeepsLeads

LEMMA AskStep ==
    ASSUME PlaceInv, NEW kind \in Writes, NEW dir, NEW names, NEW to, Ask(kind, dir, names, to)
    PROVE  PlaceInv'
<1>1. Leads(page, Send(page, Request(kind, dir, names, to, NoTree)))
  BY RequestIsRequest, SendLeads DEF PlaceInv
<1> QED
  BY <1>1, ClickStep DEF Ask

LEMMA ItemClickStep == ASSUME PlaceInv, NEW n, ItemClick(n) PROVE PlaceInv'
<1> DEFINE p == Child(page.path, n)
           start == ResetSelected(page)
           q == InTree(start, LoadTreeNodeByPath(start, p))
<1>1. IsPage(page) /\ page.push = TRUE
  BY DEF PlaceInv
<1>2. \/ Click("go", start, {"dead"})
      \/ Click("go", ShowDir(q, p), {})
  BY DEF ItemClick
<1>3. Keeps(page, start) /\ IsPage(start)
  BY <1>1, ResetSelectedKeeps DEF Keeps
<1> HIDE DEF start, p
<1>4. Keeps(page, q)
  BY <1>3, LoadTreeNodeByPathKeeps, InTreeKeeps, KeepsMore
<1> HIDE DEF q
<1>5. Leads(page, start) /\ Leads(page, ShowDir(q, p))
  BY <1>1, <1>3, <1>4, KeepsLeads, ShowDirLeads
<1> QED
  BY <1>2, <1>5, ClickStep

LEMMA TreeNodeClickStep == ASSUME PlaceInv, NEW e, TreeNodeClick(e) PROVE PlaceInv'
<1> DEFINE p == e.node.path
           reset == ResetSelected(page)
           start == [reset EXCEPT !.exists = TRUE, !.path = p]
           loading == IF e.node.loaded THEN start
                      ELSE Send(start, FetchInto("click", p, page.tree))
           toggled == IF e.node.expanded
                      THEN SetExpanded(page.tree, At(page.tree, p), FALSE)
                      ELSE ExpandNode(page.tree, At(page.tree, p))
           q == IF p # page.path THEN ShowDir(loading, p)
                ELSE IF e.node.loaded THEN SetTree(loading, toggled)
                ELSE loading
<1>1. IsPage(page) /\ page.push = TRUE
  BY DEF PlaceInv
<1>2. \E tags : Click("go", q, tags)
  BY DEF TreeNodeClick
<1>3. Keeps(page, reset)
  BY <1>1, ResetSelectedKeeps
<1> HIDE DEF reset
<1>4. /\ IsPage(start) /\ start.push = TRUE /\ start.hist = page.hist
      /\ p = page.path => Keeps(page, start)
  BY <1>1, <1>3 DEF Keeps, IsPage, PageFields
<1> HIDE DEF start
<1>5. IsRequest(FetchInto("click", p, page.tree))
  BY FetchIsRequest DEF Listings
<1>6. Keeps(start, loading)
  BY <1>4, <1>5, SendKeeps, KeepsItself
<1> HIDE DEF loading
<1>7. IsPage(loading) /\ loading.push = TRUE /\ loading.hist = page.hist
  BY <1>4, <1>6 DEF Keeps
<1>8. Leads(page, q)
  <2>1. CASE p # page.path
    <3>1. Goes(loading, ShowDir(loading, p), p)
      BY <1>7, ShowDirGoes
    <3>2. Goes(page, ShowDir(loading, p), p)
      BY <1>7, <3>1 DEF Goes
    <3> QED
      BY <2>1, <3>2 DEF Leads
  <2>2. CASE p = page.path
    <3>1. Keeps(page, loading)
      BY <1>4, <1>6, <2>2, KeepsMore
    <3>2. Keeps(page, SetTree(loading, toggled))
      BY <1>7, <3>1, SetTreeKeeps, KeepsMore
    <3> QED
      BY <2>2, <3>1, <3>2, KeepsLeads
  <2> QED
    BY <2>1, <2>2
<1> HIDE DEF q
<1> QED
  BY <1>2, <1>8, ClickStep

LEMMA TreeStep ==
    ASSUME PlaceInv, NEW e, TreeNodeExpanded(e) \/ TreeNodeCollapse(e)
    PROVE  PlaceInv'
<1>1. IsPage(page)
  BY DEF PlaceInv
<1>2. /\ \A t : Leads(page, SetTree(page, t))
      /\ Leads(page, Send(page, FetchInto("expand", e.node.path, page.tree)))
  BY <1>1, SetTreeKeeps, KeepsLeads, SendLeads, FetchIsRequest DEF Listings
<1>3. \E q : Leads(page, q) /\ Click("tree", q, {})
  BY <1>2 DEF TreeNodeExpanded, TreeNodeCollapse
<1> QED
  BY <1>3, ClickStep

LEMMA MainNavBarClickStep == ASSUME PlaceInv, NEW p, MainNavBarClick(p) PROVE PlaceInv'
<1> DEFINE start == ResetSelected(page)
           q == IF page.panel /\ Has(page.tree, p)
                THEN SetTree(start, ExpandNode(page.tree, At(page.tree, p)))
                ELSE start
<1>1. IsPage(page) /\ page.push = TRUE
  BY DEF PlaceInv
<1>2. Click("go", ShowDir(q, p), {})
  BY DEF MainNavBarClick
<1>3. Keeps(page, start) /\ IsPage(start)
  BY <1>1, ResetSelectedKeeps DEF Keeps
<1> HIDE DEF start
<1>4. Keeps(page, q)
  BY <1>3, SetTreeKeeps, KeepsMore
<1> HIDE DEF q
<1> QED
  BY <1>1, <1>2, <1>4, ShowDirLeads, ClickStep

(* Going back leads to the address before, and keeps the selection. *)
LEMMA BackStep == ASSUME PlaceInv, Back PROVE PlaceInv'
<1> DEFINE hist == Front(page.hist)
           p == Last(hist)
           there == [page EXCEPT !.hist = hist, !.path = p]
           once == LoadDirentList(there, p)
           twice == LoadDirentList(once, p)
<1>1. IsPage(page) /\ page.push = TRUE
  BY DEF PlaceInv
<1>2. IsSeq(hist) /\ hist # <<>>
  BY FrontSeq DEF PlaceInv, Back
<1>3. \E tags : "back" \in tags /\ (Click("go", there, tags) \/ Click("go", twice, tags))
  BY DEF Back
<1> HIDE DEF hist, p
<1>4. IsPage(there) /\ there.push = TRUE /\ there.hist = hist /\ there.path = p
  BY <1>1 DEF IsPage, PageFields
<1> HIDE DEF there
<1>5. IsPage(once) /\ once.push = TRUE /\ once.hist = hist /\ once.path = p
  BY <1>4, LoadDirentListLoads
<1> HIDE DEF once
<1>6. IsPage(twice) /\ twice.push = TRUE /\ twice.hist = hist /\ twice.path = p
  BY <1>5, LoadDirentListLoads
<1> HIDE DEF twice
<1>7. PICK q, tags : q \in {there, twice} /\ "back" \in tags /\ Click("go", q, tags)
  BY <1>3
<1>8. IsPage(q) /\ q.push = TRUE /\ q.hist = hist /\ q.path = p
  BY <1>4, <1>6, <1>7
<1>9. Commit(q) /\ "back" \in trouble' /\ Requested(answers)'
  BY <1>7 DEF Click, PlaceInv
<1>10. /\ IsPage(page)' /\ Requested(requests)'
       /\ page'.push = TRUE /\ page'.hist = hist /\ page'.path = p
  BY <1>8, <1>9, CommitRequests
<1>11. AddressIsPath'
  BY <1>10 DEF AddressIsPath, p
<1>12. SelectionIsOfFolder'
  BY <1>9 DEF SelectionIsOfFolder
<1> QED
  BY <1>2, <1>9, <1>10, <1>11, <1>12 DEF PlaceInv

LEMMA SwitchViewModeStep == ASSUME PlaceInv, SwitchViewMode PROVE PlaceInv'
<1> DEFINE p == page.path
           start == [page EXCEPT !.push = FALSE, !.grid = ~@]
           q == InTree(start, LoadSidePanel(start, p))
<1>1. IsPage(page) /\ page.push = TRUE
  BY DEF PlaceInv
<1>2. Click("view", ShowDir(q, p), {})
  BY DEF SwitchViewMode
<1>3. /\ IsPage(start) /\ start.push = FALSE
      /\ start.hist = page.hist /\ start.picked = page.picked
  BY <1>1 DEF IsPage, PageFields
<1> HIDE DEF start
<1>4. Keeps(start, q)
  BY <1>3, LoadSidePanelKeeps, InTreeKeeps
<1> HIDE DEF q
<1>5. IsPage(q) /\ q.push = FALSE /\ q.hist = page.hist
  BY <1>3, <1>4 DEF Keeps
<1>6. /\ IsPage(ShowDir(q, p)) /\ ShowDir(q, p).push = TRUE
      /\ ShowDir(q, p).hist = q.hist /\ ShowDir(q, p).path = p
      /\ ShowDir(q, p).selected = {}
  BY <1>5, ShowDirStays
<1> DEFINE s == ShowDir(q, p)
<1>7. Commit(s) /\ trouble \subseteq trouble' /\ Requested(answers)'
  BY <1>2 DEF Click, PlaceInv
<1> HIDE DEF s
<1>8. /\ IsPage(page)' /\ Requested(requests)'
      /\ page'.push = TRUE /\ page'.hist = page.hist /\ page'.path = page.path
      /\ page'.selected = {}
  BY <1>5, <1>6, <1>7, CommitRequests DEF s
<1>9. "stray" \notin trouble' => "stray" \notin trouble
  BY <1>7
<1> QED
  BY <1>7, <1>8, <1>9 DEF PlaceInv, AddressIsPath, SelectionIsOfFolder

LEMMA ToggleTreePanelStep == ASSUME PlaceInv, ToggleTreePanel PROVE PlaceInv'
<1> DEFINE start == [page EXCEPT !.panel = ~@]
           q == InTree(start, LoadSidePanel(start, page.path))
<1>1. IsPage(page)
  BY DEF PlaceInv
<1>2. Click("view", q, {})
  BY DEF ToggleTreePanel
<1>3. Keeps(page, start) /\ IsPage(start)
  BY <1>1 DEF Keeps, IsPage, PageFields
<1> HIDE DEF start
<1>4. Leads(page, q)
  BY <1>3, LoadSidePanelKeeps, InTreeKeeps, KeepsMore, KeepsLeads
<1> HIDE DEF q
<1> QED
  BY <1>2, <1>4, ClickStep

(* What is selected is selected in the folder shown. *)
LEMMA DirentSelectedStep == ASSUME PlaceInv, NEW n, DirentSelected(n) PROVE PlaceInv'
<1> DEFINE marked == IF n \in page.marked THEN page.marked \ {n}
                     ELSE page.marked \cup {n}
           q == [page EXCEPT !.marked = marked, !.selected = marked, !.picked = page.path]
<1>1. IsPage(page) /\ page.push = TRUE
  BY DEF PlaceInv
<1>2. Click("select", q, {})
  BY DEF DirentSelected
<1>3. /\ IsPage(q) /\ q.push = TRUE /\ q.hist = page.hist
      /\ q.path = page.path /\ q.picked = page.path
  BY <1>1 DEF IsPage, PageFields
<1> HIDE DEF q
<1>4. Commit(q) /\ trouble \subseteq trouble' /\ Requested(answers)'
  BY <1>2 DEF Click, PlaceInv
<1>5. /\ IsPage(page)' /\ Requested(requests)'
      /\ page'.push = TRUE /\ page'.hist = page.hist
      /\ page'.path = page.path /\ page'.picked = page.path
  BY <1>3, <1>4, CommitRequests
<1>6. "stray" \notin trouble' => "stray" \notin trouble
  BY <1>4
<1> QED
  BY <1>4, <1>5, <1>6 DEF PlaceInv, AddressIsPath, SelectionIsOfFolder

LEMMA OperationStep ==
    ASSUME PlaceInv, NEW n, NEW p, NEW new, NEW to,
           \/ AddItem(n) \/ DeleteItem(p) \/ RenameItem(p, new) \/ MoveItem(p, to)
           \/ DeleteItems \/ MoveItems(to) \/ CopyItems(to)
    PROVE  PlaceInv'
<1>1. \E kind \in Writes : \E dir, names, into : Ask(kind, dir, names, into)
  BY DEF AddItem, DeleteItem, RenameItem, MoveItem, DeleteItems, MoveItems, CopyItems, Writes
<1> QED
  BY <1>1, AskStep

LEMMA UserStep == ASSUME PlaceInv, UserActs PROVE PlaceInv'
<1>1. ASSUME NEW n, ItemClick(n) \/ DirentSelected(n) PROVE PlaceInv'
  BY <1>1, ItemClickStep, DirentSelectedStep
<1>2. ASSUME NEW e, TreeNodeClick(e) \/ TreeNodeExpanded(e) \/ TreeNodeCollapse(e)
      PROVE  PlaceInv'
  BY <1>2, TreeNodeClickStep, TreeStep
<1>3. ASSUME NEW p, MainNavBarClick(p) PROVE PlaceInv'
  BY <1>3, MainNavBarClickStep
<1>4. ASSUME NEW n, AddItem(n) PROVE PlaceInv'
  BY <1>4, OperationStep
<1>5. ASSUME NEW p, NEW new, NEW to, DeleteItem(p) \/ RenameItem(p, new) \/ MoveItem(p, to)
      PROVE  PlaceInv'
  BY <1>5, OperationStep
<1>6. ASSUME NEW to, DeleteItems \/ MoveItems(to) \/ CopyItems(to) PROVE PlaceInv'
  BY <1>6, OperationStep
<1> QED
  BY <1>1, <1>2, <1>3, <1>4, <1>5, <1>6, BackStep, SwitchViewModeStep, ToggleTreePanelStep
     DEF UserActs

LEMMA ServerActStep ==
    ASSUME PlaceInv, NEW i \in DOMAIN requests,
           ServerLists(i) \/ ServerWrites(i) \/ RequestFails(i)
    PROVE  PlaceInv'
<1>1. \E reply, got : Reply(i, reply, got)
  BY DEF ServerLists, ServerWrites, RequestFails
<1>2. page' = page /\ trouble \subseteq trouble'
  BY DEF ServerLists, ServerWrites, RequestFails
<1>3. Requested(requests)' /\ Requested(answers)'
  BY <1>1, ReplyMoves
<1> QED
  BY <1>2, <1>3, ServerStep

LEMMA OtherStep ==
    ASSUME PlaceInv, OtherClient \/ ConnectionLost \/ Reconnected PROVE PlaceInv'
<1>1. page' = page /\ trouble \subseteq trouble' /\ requests' = requests /\ answers' = answers
  BY DEF OtherClient, ConnectionLost, Reconnected
<1>2. Requested(requests)' /\ Requested(answers)'
  BY <1>1 DEF PlaceInv
<1> QED
  BY <1>1, <1>2, ServerStep

LEMMA RepoUpdateStep == ASSUME PlaceInv, RepoUpdate PROVE PlaceInv'
<1>1. Leads(page, Send(page, Fetch("notice", page.path)))
  BY SendLeads, FetchIsRequest DEF PlaceInv, Listings
<1>2. Commit(Send(page, Fetch("notice", page.path)))
      /\ trouble \subseteq trouble' /\ Requested(answers)'
  BY DEF RepoUpdate, PlaceInv
<1> QED
  BY <1>1, <1>2, LeadsStep

LEMMA AnswerStep == ASSUME PlaceInv, NEW i \in DOMAIN answers, Answer(i) PROVE PlaceInv'
<1> DEFINE r == answers[i]
           q == Answered(r)
<1>1. IsPage(page) /\ page.push = TRUE
  BY DEF PlaceInv
<1>2. Requested(RemoveAt(answers, i)) /\ IsRequest(r)
  BY RemoveRequested DEF PlaceInv
<1>3. /\ Commit(q) /\ answers' = RemoveAt(answers, i)
      /\ trouble' = trouble \cup Troubles(i)
  BY DEF Answer
<1>4. Requested(answers)' /\ trouble \subseteq trouble'
  BY <1>2, <1>3
<1> HIDE DEF r
<1>5. \/ Leads(page, q)
      \/ Stray(r) /\ IsPage(q) /\ q.push = TRUE /\ q.hist = page.hist
  BY <1>1, <1>2, AnsweredLeads
<1> HIDE DEF q
<1>6. CASE Leads(page, q)
  BY <1>3, <1>4, <1>6, LeadsStep
<1>7. CASE Stray(r) /\ IsPage(q) /\ q.push = TRUE /\ q.hist = page.hist
  <2>1. "stray" \in trouble'
    BY <1>3, <1>7, StrayIsTrouble DEF r
  <2>2. /\ IsPage(page)' /\ Requested(requests)'
        /\ page'.push = TRUE /\ page'.hist = page.hist
    BY <1>3, <1>7, CommitRequests
  <2> QED
    BY <1>4, <2>1, <2>2 DEF PlaceInv, AddressIsPath, SelectionIsOfFolder
<1> QED
  BY <1>5, <1>6, <1>7

LEMMA InitPlace == ASSUME Init PROVE PlaceInv
<1>1. PICK o \in Openings :
        LET start == NewPage(o.path, o.grid, o.panel, o.acts) IN
        /\ page = [start EXCEPT !.sends = <<>>]
        /\ requests = start.sends /\ answers = <<>> /\ trouble = {}
  BY DEF Init
<1> DEFINE p == o.path
           first == [acts |-> o.acts, path |-> p, exists |-> TRUE, loading |-> TRUE,
                     list |-> {}, marked |-> {}, selected |-> {}, picked |-> p,
                     grid |-> o.grid, push |-> TRUE, hist |-> <<p>>, panel |-> o.panel,
                     tree |-> BuildTree(<<>>), treeLoading |-> TRUE,
                     sends |-> <<Fetch("list", p)>>]
           start == IF o.panel THEN LoadSidePanel(first, p) ELSE first
<1>2. Requested(<<Fetch("list", p)>>)
  <2> DEFINE r == Fetch("list", p)
  <2>1. IsRequest(r)
    BY FetchIsRequest DEF Listings
  <2> HIDE DEF r
  <2>2. Requested(Append(<<>>, r))
    BY <2>1, NoneRequested, AppendRequested
  <2>3. Append(<<>>, r) = <<r>>
    OBVIOUS
  <2> QED
    BY <2>2, <2>3 DEF r
<1>3. /\ IsPage(first) /\ first.push = TRUE /\ first.hist = <<p>> /\ first.path = p
      /\ first.selected = {}
  BY <1>2 DEF IsPage, PageFields
<1> HIDE DEF first
<1>4. Keeps(first, start)
  BY <1>3, LoadSidePanelKeeps, KeepsItself
<1>5. /\ page = [start EXCEPT !.sends = <<>>]
      /\ requests = start.sends /\ answers = <<>> /\ trouble = {}
  BY <1>1 DEF NewPage, first
<1> HIDE DEF start
<1>6. /\ DOMAIN page = PageFields /\ page.sends = <<>> /\ page.push = TRUE
      /\ page.hist = <<p>> /\ page.path = p /\ page.selected = {}
      /\ Requested(requests)
  BY <1>3, <1>4, <1>5 DEF Keeps, IsPage, PageFields
<1>7. IsSeq(<<>>)
  BY NoneRequested DEF Requested, IsSeq
<1>8. IsSeq(<<p>>) /\ <<p>> # <<>> /\ Last(<<p>>) = p
  <2>1. Append(<<>>, p) = <<p>>
    OBVIOUS
  <2> QED
    BY <1>7, <2>1, AppendSeq
<1> QED
  BY <1>5, <1>6, <1>8, NoneRequested DEF PlaceInv, IsPage, AddressIsPath, SelectionIsOfFolder

LEMMA PlaceStep == PlaceInv /\ [Next]_vars => PlaceInv'
<1> SUFFICES ASSUME PlaceInv, [Next]_vars PROVE PlaceInv'
  OBVIOUS
<1>1. CASE UNCHANGED vars
  BY <1>1, ServerStep DEF vars, PlaceInv
<1>2. CASE UserActs
  BY <1>2, UserStep
<1>3. CASE OtherClient \/ ConnectionLost \/ Reconnected
  BY <1>3, OtherStep
<1>4. CASE ServerActs \/ \E i \in DOMAIN requests : RequestFails(i)
  BY <1>4, ServerActStep DEF ServerActs
<1>5. CASE Answers
  BY <1>5, AnswerStep DEF Answers
<1>6. CASE RepoUpdate
  BY <1>6, RepoUpdateStep
<1> QED
  BY <1>1, <1>2, <1>3, <1>4, <1>5, <1>6 DEF Next

(* Folder, address and selection belong together after every event of the  *)
(* page, and what it has sent is known to it.                              *)
THEOREM PlaceInvAlways == Spec => []PlaceInv
<1>1. Init => PlaceInv
  BY InitPlace
<1>2. PlaceInv /\ [Next]_vars => PlaceInv'
  BY PlaceStep
<1> QED
  BY <1>1, <1>2, PTL DEF Spec

(* The address in the browser follows the page wherever clicks, operations  *)
(* and answers lead it, in any order, but for a stray list: reloading the   *)
(* page leads to the folder shown (pushState and replaceState in showDir    *)
(* and renameDirent, and what onpopstate relies on).                       *)
THEOREM AddressFollows == Spec => []AddressIsPath
<1>1. PlaceInv => AddressIsPath
  BY DEF PlaceInv
<1> QED
  BY <1>1, PlaceInvAlways, PTL

(* Delete, move and copy join the path of the page and the names selected:  *)
(* these were selected in that folder, unless the user went back or a stray *)
(* list came (resetSelected in every handler that leads elsewhere, and      *)
(* recalculateSelectedDirents).                                            *)
THEOREM SelectionFollows == Spec => []SelectionIsOfFolder
<1>1. PlaceInv => SelectionIsOfFolder
  BY DEF PlaceInv
<1> QED
  BY <1>1, PlaceInvAlways, PTL

-----------------------------------------------------------------------------
(* Paths *)

LEMMA ChildPath ==
    ASSUME NEW p \in Paths, NEW n \in Names
    PROVE  /\ Child(p, n) \in Paths /\ Child(p, n) # <<>>
           /\ Front(Child(p, n)) = p /\ Last(Child(p, n)) = n
<1> DEFINE q == Append(p, n)
<1>1. /\ q \in Seq(Names) /\ q # <<>> /\ Len(q) = Len(p) + 1 /\ q[Len(p) + 1] = n
      /\ \A i \in 1 .. Len(p) : q[i] = p[i]
  BY AppendProperties DEF Paths
<1>2. Len(p) \in Nat /\ p \in Seq(Names)
  BY LenProperties DEF Paths
<1> HIDE DEF q
<1>3. Last(q) = n
  BY <1>1 DEF Last
<1> DEFINE m == Len(p)
           s == SubSeq(q, 1, m)
<1>4. Front(q) = s
  <2>1. Len(q) - 1 = m
    BY <1>1, <1>2
  <2> QED
    BY <2>1 DEF Front
<1>5. \A i \in 1 .. m : q[i] \in Names
  BY <1>1, <1>2, ElementOfSeq
<1>6. m \in Nat /\ 1 \in Int /\ m \in Int
  BY <1>2
<1> HIDE DEF m
<1>7. /\ s \in Seq(Names) /\ Len(s) = IF 1 <= m THEN m - 1 + 1 ELSE 0
      /\ \A i \in 1 .. m - 1 + 1 : s[i] = q[1 + i - 1]
  BY <1>5, <1>6, SubSeqProperties
<1>8. Len(s) = m /\ \A i \in 1 .. m : s[i] = q[i]
  <2>1. (IF 1 <= m THEN m - 1 + 1 ELSE 0) = m /\ m - 1 + 1 = m
    BY <1>6
  <2>2. \A i \in 1 .. m : 1 + i - 1 = i
    OBVIOUS
  <2> QED
    BY <1>7, <2>1, <2>2
<1> HIDE DEF s
<1>9. s = p
  BY <1>1, <1>2, <1>7, <1>8, SeqEqual DEF m
<1> QED
  BY <1>1, <1>3, <1>4, <1>9 DEF q, Child, Paths

LEMMA PathOfChild ==
    ASSUME NEW q \in Paths, q # <<>>
    PROVE  /\ Front(q) \in Paths /\ Last(q) \in Names
           /\ q = Child(Front(q), Last(q))
<1>1. PICK p \in Paths, n \in Names : q = Child(p, n)
  BY SequenceEmptyOrAppend DEF Paths, Child
<1> QED
  BY <1>1, ChildPath

LEMMA SameChild ==
    ASSUME NEW p \in Paths, NEW q \in Paths, NEW n \in Names, NEW m \in Names,
           Child(p, n) = Child(q, m)
    PROVE  p = q /\ n = m
BY ChildPath

LEMMA RootPath == <<>> \in Paths
BY EmptySeq DEF Paths

LEMMA Joined ==
    ASSUME NEW p \in Paths, NEW x \in Paths
    PROVE  /\ p \o x \in Paths /\ p \o <<>> = p /\ <<>> \o x = x
           /\ Len(p \o x) = Len(p) + Len(x)
           /\ p \o x = <<>> => p = <<>> /\ x = <<>>
BY ConcatProperties, ConcatEmptySeq, ConcatEqualIffEmpty DEF Paths

LEMMA JoinedTwice ==
    ASSUME NEW p \in Paths, NEW x \in Paths, NEW y \in Paths
    PROVE  (p \o x) \o y = p \o (x \o y)
BY ConcatAssociative DEF Paths

LEMMA SameRest ==
    ASSUME NEW p \in Paths, NEW x \in Paths, NEW y \in Paths, p \o x = p \o y
    PROVE  x = y
<1>1. \A s, t, v \in Seq(Names) : s \o t = s \o v => t = v
  BY ConcatSimplifications
<1> QED
  BY <1>1 DEF Paths

LEMMA JoinedChild ==
    ASSUME NEW p \in Paths, NEW x \in Paths, NEW n \in Names
    PROVE  p \o Child(x, n) = Child(p \o x, n)
<1>1. /\ Child(x, n) = x \o <<n>> /\ Child(p \o x, n) = (p \o x) \o <<n>>
      /\ <<n>> \in Paths
  <2>1. p \o x \in Seq(Names)
    BY Joined DEF Paths
  <2>2. <<n>> \in Seq(Names)
    OBVIOUS
  <2> QED
    BY <2>1, <2>2, AppendIsConcat DEF Child, Paths
<1> QED
  BY <1>1, JoinedTwice

LEMMA PrefixJoined ==
    ASSUME NEW p \in Paths, NEW x \in Paths
    PROVE  /\ IsPrefix(p, p \o x)
           /\ SubSeq(p \o x, 1, Len(p)) = p
           /\ SubSeq(p \o x, Len(p) + 1, Len(p \o x)) = x
<1> DEFINE n == Len(p)
           m == Len(x)
           q == p \o x
<1>1. /\ n \in Nat /\ m \in Nat /\ Len(q) = n + m
      /\ q \in Seq(Names) /\ p \in Seq(Names) /\ x \in Seq(Names)
      /\ \A i \in 1 .. n + m : q[i] = IF i <= n THEN p[i] ELSE x[i - n]
  BY ConcatProperties, LenProperties DEF Paths
<1>2. \A i \in 1 .. n : p[i] \in Names /\ q[i] = p[i]
  <2>1. \A i \in 1 .. n : i \in 1 .. n + m /\ i <= n
    BY <1>1
  <2> QED
    BY <1>1, <2>1, ElementOfSeq
<1>3. \A i \in 1 .. m : x[i] \in Names /\ q[n + 1 + i - 1] = x[i]
  <2>1. \A i \in 1 .. m : /\ n + 1 + i - 1 \in 1 .. n + m /\ ~(n + 1 + i - 1 <= n)
                          /\ n + 1 + i - 1 - n = i
    BY <1>1
  <2> QED
    BY <1>1, <2>1, ElementOfSeq
<1> DEFINE k == n + 1
           l == n + m
           s == SubSeq(q, 1, n)
           t == SubSeq(q, k, l)
<1> HIDE DEF n, m, q
<1>4. \A i \in 1 .. n : q[i] \in Names
  BY <1>2
<1>5. k \in Int /\ l \in Int /\ \A i \in k .. l : q[i] \in Names
  BY <1>1, ElementOfSeq DEF q
<1>6. /\ s \in Seq(Names) /\ Len(s) = (IF 1 <= n THEN n - 1 + 1 ELSE 0)
      /\ \A i \in 1 .. n - 1 + 1 : s[i] = q[1 + i - 1]
  BY <1>1, <1>4, SubSeqProperties
<1> HIDE DEF k, l
<1>7. /\ t \in Seq(Names) /\ Len(t) = (IF k <= l THEN l - k + 1 ELSE 0)
      /\ \A i \in 1 .. l - k + 1 : t[i] = q[k + i - 1]
  BY <1>5, SubSeqProperties
<1>8. /\ (IF 1 <= n THEN n - 1 + 1 ELSE 0) = n /\ n - 1 + 1 = n
      /\ (IF k <= l THEN l - k + 1 ELSE 0) = m /\ l - k + 1 = m
      /\ \A i \in 1 .. n : 1 + i - 1 = i
      /\ \A i \in 1 .. m : k + i - 1 = n + 1 + i - 1
  BY <1>1 DEF k, l
<1> HIDE DEF s, t
<1>9. s = p
  <2>1. Len(s) = Len(p) /\ \A i \in 1 .. Len(s) : s[i] = p[i]
    BY <1>2, <1>6, <1>8 DEF n
  <2> QED
    BY <1>1, <1>6, <2>1, SeqEqual
<1>10. t = x
  <2>1. Len(t) = Len(x) /\ \A i \in 1 .. Len(t) : t[i] = x[i]
    BY <1>3, <1>7, <1>8 DEF m
  <2> QED
    BY <1>1, <1>7, <2>1, SeqEqual
<1>11. IsPrefix(p, q)
  <2>1. Len(p) <= Len(q)
    BY <1>1 DEF n
  <2>2. SubSeq(p, 1, Len(p)) = p
    BY <1>1, SubSeqFull
  <2> QED
    BY <1>9, <2>1, <2>2 DEF IsPrefix, s, n
<1> QED
  BY <1>1, <1>9, <1>10, <1>11 DEF q, s, t, n, k, l

LEMMA PrefixIsJoined ==
    ASSUME NEW p \in Paths, NEW q \in Paths, IsPrefix(p, q)
    PROVE  \E x \in Paths : q = p \o x
<1>1. p \in Seq(Names) /\ q \in Seq(Names) /\ Len(p) \in Nat /\ Len(q) \in Nat
  BY LenProperties DEF Paths
<1>2. Len(p) <= Len(q) /\ SubSeq(q, 1, Len(p)) = p
  <2>1. SubSeq(p, 1, Len(p)) = p
    BY <1>1, SubSeqFull
  <2> QED
    BY <2>1 DEF IsPrefix
<1> DEFINE k == Len(p)
           n == Len(q)
           x == SubSeq(q, k + 1, n)
<1>3. /\ 1 \in 1 .. n + 1 /\ k \in 1 - 1 .. n /\ n \in k .. n
      /\ k + 1 \in Int /\ n \in Int
  BY <1>1, <1>2
<1>4. SubSeq(q, 1, k) \o x = SubSeq(q, 1, n)
  BY <1>1, <1>3, ConcatAdjacentSubSeq
<1>5. SubSeq(q, 1, n) = q
  BY <1>1, SubSeqFull
<1>6. \A i \in k + 1 .. n : q[i] \in Names
  BY <1>1, ElementOfSeq
<1>7. x \in Seq(Names)
  BY <1>3, <1>6, SubSeqProperties
<1> QED
  BY <1>2, <1>4, <1>5, <1>7 DEF Paths

LEMMA PrefixSelf == ASSUME NEW p \in Paths PROVE IsPrefix(p, p)
<1>1. p \o <<>> = p /\ <<>> \in Paths
  BY RootPath, Joined
<1>2. IsPrefix(p, p \o <<>>)
  BY <1>1, PrefixJoined
<1> QED
  BY <1>1, <1>2

LEMMA PrefixOn ==
    ASSUME NEW p \in Paths, NEW q \in Paths, NEW s \in Paths, IsPrefix(p, q), IsPrefix(q, s)
    PROVE  IsPrefix(p, s)
<1>1. PICK x \in Paths : q = p \o x
  BY PrefixIsJoined
<1>2. PICK y \in Paths : s = q \o y
  BY PrefixIsJoined
<1>3. s = p \o (x \o y) /\ x \o y \in Paths
  BY <1>1, <1>2, JoinedTwice, Joined
<1> QED
  BY <1>3, PrefixJoined

LEMMA PrefixOfRoot == ASSUME NEW p \in Paths, IsPrefix(p, <<>>) PROVE p = <<>>
<1>1. PICK x \in Paths : <<>> = p \o x
  BY PrefixIsJoined, RootPath
<1> QED
  BY <1>1, Joined

LEMMA PrefixLen ==
    ASSUME NEW p \in Paths, NEW q \in Paths, IsPrefix(p, q)
    PROVE  Len(p) <= Len(q) /\ Len(p) \in Nat /\ Len(q) \in Nat
<1>1. Len(p) <= Len(q)
  BY DEF IsPrefix
<1>2. Len(p) \in Nat /\ Len(q) \in Nat
  BY LenProperties DEF Paths
<1> QED
  BY <1>1, <1>2

LEMMA ChildLen ==
    ASSUME NEW p \in Paths, NEW n \in Names
    PROVE  Len(Child(p, n)) = Len(p) + 1 /\ Len(p) \in Nat
BY AppendProperties, LenProperties DEF Paths, Child

LEMMA ChildIsBelow ==
    ASSUME NEW p \in Paths, NEW n \in Names
    PROVE  IsPrefix(p, Child(p, n)) /\ ~IsPrefix(Child(p, n), p)
<1>1. IsPrefix(p, Child(p, n))
  <2>1. Child(p, n) = p \o <<n>> /\ <<n>> \in Paths
    BY AppendIsConcat DEF Child, Paths
  <2> QED
    BY <2>1, PrefixJoined
<1>2. ASSUME IsPrefix(Child(p, n), p) PROVE FALSE
  <2>1. Len(Child(p, n)) <= Len(p)
    BY <1>2, ChildPath, PrefixLen
  <2>2. Len(Child(p, n)) = Len(p) + 1 /\ Len(p) \in Nat
    BY ChildLen
  <2> QED
    BY <2>1, <2>2
<1> QED
  BY <1>1, <1>2

LEMMA PrefixOfChild ==
    ASSUME NEW p \in Paths, NEW q \in Paths, NEW m \in Names
    PROVE  IsPrefix(p, Child(q, m)) <=> p = Child(q, m) \/ IsPrefix(p, q)
<1>1. Child(q, m) \in Paths
  BY ChildPath
<1>2. ASSUME IsPrefix(p, Child(q, m)), p # Child(q, m) PROVE IsPrefix(p, q)
  <2>1. PICK x \in Paths : Child(q, m) = p \o x
    BY <1>1, <1>2, PrefixIsJoined
  <2>2. x # <<>>
    BY <1>2, <2>1, Joined
  <2>3. PICK f \in Paths, l \in Names : x = Child(f, l)
    BY <2>2, PathOfChild
  <2>4. Child(q, m) = Child(p \o f, l) /\ p \o f \in Paths
    <3>1. p \o f \in Paths
      BY Joined
    <3>2. p \o Child(f, l) = Child(p \o f, l)
      BY JoinedChild
    <3> QED
      BY <2>1, <2>3, <3>1, <3>2
  <2>5. q = p \o f
    BY <2>4, SameChild
  <2> QED
    BY <2>5, PrefixJoined
<1>3. ASSUME IsPrefix(p, q) PROVE IsPrefix(p, Child(q, m))
  BY <1>1, <1>3, ChildIsBelow, PrefixOn
<1> QED
  BY <1>1, <1>2, <1>3, PrefixSelf

(* The row m of q is n of p, or what it is in is below n. *)
LEMMA ChildBelowChild ==
    ASSUME NEW p \in Paths, NEW n \in Names, NEW q \in Paths, NEW m \in Names
    PROVE  IsPrefix(Child(p, n), Child(q, m)) <=>
             \/ p = q /\ n = m
             \/ IsPrefix(Child(p, n), q)
<1>1. Child(p, n) \in Paths
  BY ChildPath
<1>2. Child(p, n) = Child(q, m) <=> p = q /\ n = m
  BY SameChild
<1> QED
  BY <1>1, <1>2, PrefixOfChild

LEMMA RebasedJoined ==
    ASSUME NEW p \in Paths, NEW x \in Paths, NEW new \in Paths
    PROVE  Rebased(p \o x, p, new) = new \o x
BY PrefixJoined DEF Rebased

LEMMA RenameAncestorIsRebased ==
    ASSUME NEW p \in Paths, NEW q \in Paths, NEW new \in Paths, IsPrefix(p, q)
    PROVE  /\ IsAncestorPath(p, q)
           /\ RenameAncestorPath(q, p, new) = Rebased(q, p, new)
<1>1. PICK x \in Paths : q = p \o x
  BY PrefixIsJoined
<1>2. /\ SubSeq(q, 1, Len(p)) = p /\ SubSeq(q, Len(p) + 1, Len(q)) = x
      /\ Len(p) \in Nat /\ Len(q) \in Nat /\ Len(p) <= Len(q)
  BY <1>1, PrefixJoined, PrefixLen
<1> DEFINE a == Len(p)
           b == Len(q)
           places == Places(p, q)
<1>3. /\ 1 + a - 1 = a /\ 1 \in 1 .. b + 1 - a /\ 1 - 1 = 0 /\ 1 + a = a + 1
      /\ \A j \in 1 .. b + 1 - a : 1 <= j /\ (j <= 1 => j = 1)
  BY <1>2
<1>4. 1 \in places
  BY <1>2, <1>3 DEF Places, Occurs
<1>5. \A j \in places : 1 <= j /\ (j <= 1 => j = 1)
  BY <1>3 DEF Places
<1> HIDE DEF places
<1> DEFINE i == CHOOSE j \in places : \A k \in places : j <= k
<1>6. i \in places /\ \A k \in places : i <= k
  BY <1>4, <1>5
<1>7. i = 1
  BY <1>4, <1>5, <1>6
<1> HIDE DEF i
<1>8. RenameAncestorPath(q, p, new) =
        SubSeq(q, 1, i - 1) \o new \o SubSeq(q, i + Len(p), Len(q))
  BY DEF RenameAncestorPath, i, places
<1>9. SubSeq(q, 1, 0) = <<>>
  BY SubSeqEmpty
<1>10. RenameAncestorPath(q, p, new) = (<<>> \o new) \o x
  BY <1>2, <1>3, <1>7, <1>8, <1>9
<1>11. RenameAncestorPath(q, p, new) = new \o x
  BY <1>10, Joined
<1> QED
  BY <1>1, <1>4, <1>11, RebasedJoined DEF IsAncestorPath, places

-----------------------------------------------------------------------------
(* Trees of paths *)

LEMMA Least ==
    ASSUME NEW S \in SUBSET Nat, S # {}
    PROVE  \E n \in S : \A m \in S : n <= m
<1> DEFINE R == OpToRel(<, Nat)
<1>1. IsWellFoundedOn(R, Nat)
  BY NatLessThanWellFounded
<1>2. \A x, y \in Nat : <<x, y>> \in R <=> x < y
  BY DEF OpToRel
<1> HIDE DEF R
<1>3. PICK x \in S : \A y \in S : ~(<<y, x>> \in R)
  BY <1>1, WFMin
<1>4. \A y \in S : ~(y < x)
  BY <1>2, <1>3
<1> QED
  BY <1>4

LEMMA TreeMember ==
    ASSUME NEW s, IsTree(s), NEW q \in s
    PROVE  /\ q \in Paths /\ q # <<>>
           /\ Front(q) \in Paths /\ Last(q) \in Names /\ q = Child(Front(q), Last(q))
           /\ IsDir(s, Front(q))
           /\ Front(q) = <<>> \/ Front(q) \in s
<1>1. q \in Paths /\ q # <<>> /\ IsDir(s, Front(q))
  BY DEF IsTree
<1> QED
  BY <1>1, PathOfChild DEF IsDir

LEMMA DirIsPath == ASSUME NEW s, IsTree(s), NEW p, IsDir(s, p) PROVE p \in Paths
BY TreeMember, RootPath DEF IsDir

(* What something stored is below is stored. *)
LEMMA Rooted ==
    ASSUME NEW s, IsTree(s), NEW q \in s, NEW p \in Paths, p # <<>>, IsPrefix(p, q)
    PROVE  p \in s
<1> SUFFICES ASSUME p \notin s PROVE FALSE
  OBVIOUS
<1> DEFINE S == {Len(z) : z \in {y \in s : IsPrefix(p, y)}}
<1>1. S \in SUBSET Nat /\ S # {}
  <2>1. \A z \in s : Len(z) \in Nat
    BY TreeMember, LenProperties DEF Paths
  <2>2. Len(q) \in S
    BY Zenon
  <2> QED
    BY <2>1, <2>2
<1>2. PICK n \in S : \A m \in S : n <= m
  BY <1>1, Least
<1>3. PICK z \in s : IsPrefix(p, z) /\ Len(z) = n
  BY <1>2
<1>4. /\ z \in Paths /\ z # <<>> /\ Front(z) \in Paths /\ Last(z) \in Names
      /\ z = Child(Front(z), Last(z))
      /\ Front(z) = <<>> \/ Front(z) \in s
  BY TreeMember
<1>5. IsPrefix(p, Front(z))
  <2>1. p # z
    OBVIOUS
  <2> QED
    BY <1>3, <1>4, <2>1, PrefixOfChild
<1>6. Front(z) \in s
  BY <1>4, <1>5, PrefixOfRoot
<1>7. Len(Front(z)) \in S
  BY <1>5, <1>6, Zenon
<1>8. Len(z) = Len(Front(z)) + 1 /\ Len(Front(z)) \in Nat
  BY <1>4, ChildLen
<1> QED
  BY <1>2, <1>3, <1>7, <1>8

LEMMA RootedDir ==
    ASSUME NEW s, IsTree(s), NEW q, IsDir(s, q), NEW p \in Paths, p # <<>>, IsPrefix(p, q)
    PROVE  p \in s
BY Rooted, PrefixOfRoot DEF IsDir

-----------------------------------------------------------------------------
(* What the server stores after a write *)

(* q is below F as an old path is below P. *)
LEMMA Grafted ==
    ASSUME IsTree(server), NEW dir \in Paths, NEW n \in Names, NEW to \in Paths,
           NEW g \in Names, n \in Dirs => g \in Dirs,
           NEW x \in Paths, Child(dir, n) \o x \in server, NEW s, IsDir(s, to),
           \A y \in Paths : Child(dir, n) \o y \in server => Child(to, g) \o y \in s
    PROVE  /\ Child(to, g) \o x \in Paths /\ Child(to, g) \o x # <<>>
           /\ IsDir(s, Front(Child(to, g) \o x))
           /\ IsDir(server, Child(dir, n) \o x) => IsDir(s, Child(to, g) \o x)
<1> DEFINE P == Child(dir, n)
           F == Child(to, g)
<1>1. P \in Paths /\ F \in Paths /\ F # <<>> /\ P # <<>>
      /\ Last(P) = n /\ Last(F) = g /\ Front(F) = to
  BY ChildPath
<1>2. n \in Dirs => g \in Dirs
  OBVIOUS
<1>3. P \o x \in server /\ \A y \in Paths : P \o y \in server => F \o y \in s
  OBVIOUS
<1> HIDE DEF P, F
<1>4. \A y \in Paths : /\ P \o y \in Paths /\ F \o y \in Paths
                       /\ P \o y # <<>> /\ F \o y # <<>>
  BY <1>1, Joined
<1>5. \A y \in Paths, k \in Names :
        /\ P \o Child(y, k) = Child(P \o y, k) /\ F \o Child(y, k) = Child(F \o y, k)
        /\ Last(P \o Child(y, k)) = k /\ Last(F \o Child(y, k)) = k
        /\ Front(P \o Child(y, k)) = P \o y /\ Front(F \o Child(y, k)) = F \o y
  <2> TAKE y \in Paths, k \in Names
  <2>1. P \o Child(y, k) = Child(P \o y, k) /\ F \o Child(y, k) = Child(F \o y, k)
    BY <1>1, JoinedChild
  <2>2. /\ Last(Child(P \o y, k)) = k /\ Last(Child(F \o y, k)) = k
        /\ Front(Child(P \o y, k)) = P \o y /\ Front(Child(F \o y, k)) = F \o y
    BY <1>4, ChildPath
  <2> QED
    BY <2>1, <2>2
<1>6. P \o <<>> = P /\ F \o <<>> = F
  BY <1>1, Joined
<1>7. \A y \in Paths : P \o y \in server /\ Last(P \o y) \in Dirs => Last(F \o y) \in Dirs
  <2> SUFFICES ASSUME NEW y \in Paths, P \o y \in server, Last(P \o y) \in Dirs
               PROVE  Last(F \o y) \in Dirs
    OBVIOUS
  <2>1. CASE y = <<>>
    BY <1>1, <1>2, <1>6, <2>1
  <2>2. CASE y # <<>>
    <3>1. PICK z \in Paths, k \in Names : y = Child(z, k)
      BY <2>2, PathOfChild
    <3> QED
      BY <1>5, <3>1
  <2> QED
    BY <2>1, <2>2
<1>8. \A y \in Paths : IsDir(server, P \o y) => IsDir(s, F \o y)
  BY <1>3, <1>4, <1>7 DEF IsDir
<1>9. IsDir(s, Front(F \o x))
  <2>1. CASE x = <<>>
    BY <1>1, <1>6, <2>1
  <2>2. CASE x # <<>>
    <3>1. PICK y \in Paths, k \in Names : x = Child(y, k)
      BY <2>2, PathOfChild
    <3>2. IsDir(server, Front(P \o x))
      BY <1>3, TreeMember
    <3>3. Front(P \o x) = P \o y /\ Front(F \o x) = F \o y
      BY <1>5, <3>1
    <3> QED
      BY <1>8, <3>2, <3>3
  <2> QED
    BY <2>1, <2>2
<1> QED
  BY <1>4, <1>8, <1>9 DEF P, F

LEMMA BelowType ==
    ASSUME IsTree(server), NEW dir \in Paths, NEW names \in SUBSET Names, NEW q
    PROVE  /\ q \in Below(dir, names) =>
                \E n \in names, x \in Paths : q = Child(dir, n) \o x /\ q \in server
           /\ q \in server /\ (\E n \in names : IsPrefix(Child(dir, n), q))
                => q \in Below(dir, names)
<1>1. ASSUME q \in Below(dir, names)
      PROVE  \E n \in names, x \in Paths : q = Child(dir, n) \o x /\ q \in server
  <2>1. PICK n \in names : IsPrefix(Child(dir, n), q)
    BY <1>1 DEF Below
  <2>2. q \in server /\ q \in Paths
    BY <1>1, TreeMember DEF Below
  <2>3. Child(dir, n) \in Paths
    BY ChildPath
  <2>4. PICK x \in Paths : q = Child(dir, n) \o x
    BY <2>1, <2>2, <2>3, PrefixIsJoined
  <2> QED
    BY <2>2, <2>4
<1> QED
  BY <1>1 DEF Below

(* What is left when some rows of a folder are gone is a tree. *)
LEMMA RestIsTree ==
    ASSUME IsTree(server), NEW dir \in Paths, NEW names \in SUBSET Names
    PROVE  IsTree(server \ Below(dir, names))
<1> SUFFICES ASSUME NEW q \in server \ Below(dir, names)
             PROVE  /\ q \in Paths /\ q # <<>>
                    /\ IsDir(server \ Below(dir, names), Front(q))
  BY DEF IsTree
<1>1. /\ q \in Paths /\ q # <<>> /\ Front(q) \in Paths /\ Last(q) \in Names
      /\ q = Child(Front(q), Last(q)) /\ IsDir(server, Front(q))
  BY TreeMember
<1>2. IsPrefix(Front(q), q)
  BY <1>1, ChildIsBelow
<1>3. Front(q) \notin Below(dir, names)
  <2>1. ASSUME NEW n \in names, IsPrefix(Child(dir, n), Front(q))
        PROVE  IsPrefix(Child(dir, n), q)
    BY <1>1, <1>2, <2>1, ChildPath, PrefixOn
  <2> QED
    BY <2>1 DEF Below
<1> QED
  BY <1>1, <1>3 DEF IsDir

(* What a folder loses when rows of some folder are gone *)
Lost(dir, names, path) == IF dir = path THEN names ELSE {}

KeepsRest(left, dir, names, path) ==
    /\ IsDir(left, path)
    /\ ChildNames(left, path) = ChildNames(server, path) \ Lost(dir, names, path)

LEMMA RowsGone ==
    ASSUME IsTree(server), NEW dir \in Paths, NEW names \in SUBSET Names,
           NEW path \in Paths, IsDir(server, path),
           \A n \in names : ~IsPrefix(Child(dir, n), path)
    PROVE  KeepsRest(server \ Below(dir, names), dir, names, path)
<1> DEFINE here == Below(dir, names)
<1>1. path \notin here
  BY DEF Below
<1>2. \A m \in Names : Child(path, m) \in server =>
        (Child(path, m) \in here <=> dir = path /\ m \in names)
  <2> SUFFICES ASSUME NEW m \in Names, Child(path, m) \in server
               PROVE  Child(path, m) \in here <=> dir = path /\ m \in names
    OBVIOUS
  <2>1. \A n \in names : IsPrefix(Child(dir, n), Child(path, m)) <=> dir = path /\ n = m
    BY ChildBelowChild
  <2> QED
    BY <2>1 DEF Below
<1> HIDE DEF here
<1>3. IsDir(server \ here, path)
  BY <1>1 DEF IsDir
<1>4. ChildNames(server \ here, path)
        = ChildNames(server, path) \ Lost(dir, names, path)
  BY <1>2 DEF ChildNames, Lost
<1> QED
  BY <1>3, <1>4 DEF here, KeepsRest

(* New paths, below new rows of another folder, are no rows of this one. *)
LEMMA RowsElsewhere ==
    ASSUME IsTree(server), NEW path \in Paths, IsDir(server, path), NEW s, IsDir(s, path),
           NEW to \in Paths, to # path, NEW new,
           \A q \in new : \E g \in Names : Child(to, g) \notin server /\ IsPrefix(Child(to, g), q)
    PROVE  /\ IsDir(s \cup new, path)
           /\ ChildNames(s \cup new, path) = ChildNames(s, path)
<1>1. ASSUME NEW m \in Names, Child(path, m) \in new PROVE FALSE
  <2>1. PICK g \in Names : /\ Child(to, g) \notin server
                           /\ IsPrefix(Child(to, g), Child(path, m))
    BY <1>1
  <2>2. IsPrefix(Child(to, g), path)
    BY <2>1, ChildBelowChild
  <2>3. Child(to, g) \in server
    BY <2>2, ChildPath, RootedDir
  <2> QED
    BY <2>1, <2>3
<1>2. ChildNames(s \cup new, path) = ChildNames(s, path)
  BY <1>1 DEF ChildNames
<1> QED
  BY <1>2 DEF IsDir

LEMMA NamingType ==
    ASSUME NEW names, NEW dir, NEW f \in Namings(names, dir), NEW n \in names
    PROVE  /\ f[n] \in Names /\ f[n] \in Kind(n)
           /\ Child(dir, f[n]) \notin server
           /\ Child(dir, n) \notin server => f[n] = n
BY DEF Namings

LEMMA CopiedType ==
    ASSUME IsTree(server), NEW dir \in Paths, NEW names \in SUBSET Names,
           NEW to \in Paths, NEW f \in Namings(names, to), NEW q
    PROVE  q \in Copied(dir, names, to, f) <=>
             \E n \in names, x \in Paths :
               Child(dir, n) \o x \in server /\ q = Child(to, f[n]) \o x
<1>1. \A n \in names : Child(dir, n) \in Paths /\ Child(to, f[n]) \in Paths
  BY ChildPath, NamingType
<1>2. ASSUME q \in Copied(dir, names, to, f)
      PROVE  \E n \in names, x \in Paths :
               Child(dir, n) \o x \in server /\ q = Child(to, f[n]) \o x
  <2>1. PICK n \in names : q \in {Rebased(z, Child(dir, n), Child(to, f[n])) :
                                    z \in Below(dir, {n})}
    BY <1>2 DEF Copied
  <2>2. PICK z \in Below(dir, {n}) : q = Rebased(z, Child(dir, n), Child(to, f[n]))
    BY <2>1
  <2>3. PICK x \in Paths : z = Child(dir, n) \o x /\ z \in server
    <3>1. {n} \in SUBSET Names
      OBVIOUS
    <3>2. z \in Below(dir, {n}) =>
            \E k \in {n}, x \in Paths : z = Child(dir, k) \o x /\ z \in server
      BY <3>1, BelowType
    <3>3. PICK k \in {n}, x \in Paths : z = Child(dir, k) \o x /\ z \in server
      BY <2>2, <3>2
    <3> QED
      BY <3>3
  <2>4. q = Child(to, f[n]) \o x
    BY <1>1, <2>2, <2>3, RebasedJoined
  <2> QED
    BY <2>3, <2>4
<1>3. ASSUME NEW n \in names, NEW x \in Paths, Child(dir, n) \o x \in server,
             q = Child(to, f[n]) \o x
      PROVE  q \in Copied(dir, names, to, f)
  <2> DEFINE z == Child(dir, n) \o x
  <2>1. IsPrefix(Child(dir, n), z)
    BY <1>1, PrefixJoined
  <2>2. z \in Below(dir, {n})
    BY <1>3, <2>1 DEF Below
  <2>3. q = Rebased(z, Child(dir, n), Child(to, f[n]))
    BY <1>1, <1>3, RebasedJoined
  <2>4. q \in {Rebased(y, Child(dir, n), Child(to, f[n])) : y \in Below(dir, {n})}
    BY <2>2, <2>3
  <2> HIDE DEF z
  <2> QED
    BY <2>4 DEF Copied
<1> QED
  BY <1>2, <1>3

(* What is copied is a tree where it is copied to. *)
LEMMA CopyIsTree ==
    ASSUME IsTree(server), NEW dir \in Paths, NEW names \in SUBSET Names,
           NEW to \in Paths, NEW f \in Namings(names, to),
           NEW s, IsTree(s), IsDir(s, to)
    PROVE  IsTree(s \cup Copied(dir, names, to, f))
<1> DEFINE new == Copied(dir, names, to, f)
<1>1. \A q : q \in new <=> \E n \in names, x \in Paths :
                 Child(dir, n) \o x \in server /\ q = Child(to, f[n]) \o x
  BY CopiedType
<1> HIDE DEF new
<1>2. \A p : IsDir(s, p) => IsDir(s \cup new, p)
  BY DEF IsDir
<1>3. ASSUME NEW q \in new PROVE q \in Paths /\ q # <<>> /\ IsDir(s \cup new, Front(q))
  <2>1. PICK n \in names, x \in Paths :
          Child(dir, n) \o x \in server /\ q = Child(to, f[n]) \o x
    BY <1>1, <1>3
  <2>2. f[n] \in Names /\ n \in Names /\ (n \in Dirs => f[n] \in Dirs)
    BY NamingType DEF Kind
  <2>3. \A y \in Paths : Child(dir, n) \o y \in server => Child(to, f[n]) \o y \in s \cup new
    BY <1>1
  <2>4. IsDir(s \cup new, to)
    BY <1>2
  <2> QED
    BY <2>1, <2>2, <2>3, <2>4, Grafted
<1>4. \A q \in s : q \in Paths /\ q # <<>> /\ IsDir(s \cup new, Front(q))
  BY <1>2 DEF IsTree
<1> QED
  BY <1>3, <1>4 DEF IsTree, new

-----------------------------------------------------------------------------
(* Requests that are about something *)

TypedRequest(r) ==
    /\ IsRequest(r)
    /\ r.dir \in Paths /\ r.names \subseteq Names /\ r.got \subseteq Paths \ {<<>>}
    /\ r.kind \in {"add", "rename", "delete", "moveItem"} => \E n \in Names : r.names = {n}
    /\ r.kind = "rename" =>
         \E new \in Names : r.to = <<new>> /\ \A n \in r.names : new \in Kind(n)
    /\ r.kind \in {"moveItems", "moveItem", "copyItems"} => r.to \in Paths

(* The only name of a request about one *)
LEMMA OnlyName ==
    ASSUME NEW r, TypedRequest(r), r.kind \in {"add", "rename", "delete", "moveItem"}
    PROVE  /\ r.names = {CHOOSE m \in r.names : TRUE}
           /\ (CHOOSE m \in r.names : TRUE) \in Names
<1>1. PICK n \in Names : r.names = {n}
  BY DEF TypedRequest
<1> DEFINE m == CHOOSE k \in r.names : TRUE
<1>2. m \in r.names
  BY <1>1
<1> HIDE DEF m
<1>3. m = n
  BY <1>1, <1>2
<1> QED
  BY <1>1, <1>3 DEF m

LEMMA AddOutcome ==
    ASSUME IsTree(server), NEW r, TypedRequest(r), r.kind = "add", NEW s \in Outcomes(r)
    PROVE  \E n, g \in Names :
             /\ r.names = {n} /\ IsDir(server, r.dir)
             /\ Child(r.dir, g) \notin server
             /\ Child(r.dir, n) \notin server => g = n
             /\ s = server \cup {Child(r.dir, g)}
<1>1. PICK n \in Names : r.names = {n}
  BY DEF TypedRequest
<1>2. s \in {server \cup {Child(r.dir, f[m]) : m \in r.names} :
               f \in IF IsDir(server, r.dir) THEN Namings(r.names, r.dir) ELSE {}}
  BY DEF Outcomes
<1>3. IsDir(server, r.dir)
  BY <1>2
<1>4. PICK f \in Namings(r.names, r.dir) :
        s = server \cup {Child(r.dir, f[m]) : m \in r.names}
  BY <1>2, <1>3
<1>5. /\ f[n] \in Names /\ Child(r.dir, f[n]) \notin server
      /\ Child(r.dir, n) \notin server => f[n] = n
  <2>1. n \in r.names
    BY <1>1
  <2> QED
    BY <2>1, NamingType
<1>6. s = server \cup {Child(r.dir, f[n])}
  BY <1>1, <1>4
<1> QED
  BY <1>1, <1>3, <1>5, <1>6

(* n of the folder has become g, and what is below it has moved along; the  *)
(* page believes that it has become new.                                   *)
Grafts(dir, n, g) == {Child(dir, g) \o x : x \in {y \in Paths : Child(dir, n) \o y \in server}}

Renaming(r, s, n, new, g) ==
    /\ r.names = {n} /\ r.to[1] = new
    /\ n \in Dirs => new \in Dirs /\ g \in Dirs
    /\ Child(r.dir, n) \in server /\ Child(r.dir, g) \notin server
    /\ Child(r.dir, new) \notin server => g = new
    /\ s = (server \ Below(r.dir, {n})) \cup Grafts(r.dir, n, g)

LEMMA RenameOutcome ==
    ASSUME IsTree(server), NEW r, TypedRequest(r), r.kind = "rename", NEW s \in Outcomes(r)
    PROVE  \E n, new, g \in Names : Renaming(r, s, n, new, g)
<1> DEFINE dir == r.dir
<1>1. PICK n \in Names : r.names = {n}
  BY DEF TypedRequest
<1>2. PICK new \in Names : r.to = <<new>> /\ new \in Kind(n)
  BY <1>1 DEF TypedRequest
<1>3. r.to[1] = new /\ Range(r.to) = {new} /\ dir \in Paths
  BY <1>2 DEF Range, TypedRequest
<1> DEFINE here == Below(dir, r.names)
           known == \A m \in r.names : Child(dir, m) \in server
<1>4. s \in {(server \ here) \cup
               {Rebased(q, Child(dir, m), Child(dir, f[r.to[1]])) : m \in r.names, q \in here} :
               f \in IF known THEN Namings(Range(r.to), dir) ELSE {}}
  BY DEF Outcomes
<1>5. known
  BY <1>4
<1>6. PICK f \in Namings({new}, dir) :
        s = (server \ here) \cup
               {Rebased(q, Child(dir, m), Child(dir, f[new])) : m \in r.names, q \in here}
  <2> HIDE DEF known, here
  <2>1. PICK f \in Namings(Range(r.to), dir) :
          s = (server \ here) \cup
                {Rebased(q, Child(dir, m), Child(dir, f[r.to[1]])) : m \in r.names, q \in here}
    BY <1>4, <1>5
  <2>2. f \in Namings({new}, dir)
    BY <1>3, <2>1
  <2> QED
    BY <1>3, <2>1, <2>2
<1> DEFINE g == f[new]
           P == Child(dir, n)
           N == Child(dir, g)
           grafts == {Rebased(q, Child(dir, m), Child(dir, f[new])) : m \in r.names, q \in here}
<1>7. /\ g \in Names /\ g \in Kind(new) /\ N \notin server
      /\ Child(dir, new) \notin server => g = new
  BY NamingType
<1>8. P \in Paths /\ N \in Paths /\ P \in server
  BY <1>1, <1>3, <1>5, <1>7, ChildPath
<1>9. \A q : q \in grafts <=> \E z \in here : q = Rebased(z, P, N)
  BY <1>1
<1>10. \A z : z \in here <=> \E x \in Paths : z = P \o x /\ z \in server
  <2> HIDE DEF P
  <2>1. r.names \in SUBSET Names /\ dir \in Paths /\ \A m \in r.names : Child(dir, m) = P
    BY <1>1, <1>3 DEF P
  <2> HIDE DEF dir
  <2>2. \A z : z \in here => \E m \in r.names, x \in Paths : z = Child(dir, m) \o x /\ z \in server
    BY <2>1, BelowType
  <2>3. \A z : z \in server /\ IsPrefix(P, z) => z \in here
    BY <1>1, <2>1 DEF Below
  <2>4. \A x \in Paths : IsPrefix(P, P \o x)
    BY <1>8, PrefixJoined
  <2> QED
    BY <2>1, <2>2, <2>3, <2>4
<1>11. \A x \in Paths : Rebased(P \o x, P, N) = N \o x
  BY <1>8, RebasedJoined
<1>12. s = (server \ here) \cup grafts
  BY <1>6
<1> HIDE DEF grafts, here, P, N
<1>13. \A q : q \in grafts <=> \E x \in Paths : P \o x \in server /\ q = N \o x
  <2>1. ASSUME NEW q \in grafts PROVE \E x \in Paths : P \o x \in server /\ q = N \o x
    <3>1. PICK z \in here : q = Rebased(z, P, N)
      BY <1>9
    <3>2. PICK x \in Paths : z = P \o x /\ z \in server
      BY <1>10
    <3> QED
      BY <1>11, <3>1, <3>2
  <2>2. ASSUME NEW x \in Paths, P \o x \in server PROVE N \o x \in grafts
    <3>1. P \o x \in here
      BY <1>10, <2>2
    <3> QED
      BY <1>9, <1>11, <3>1
  <2> QED
    BY <2>1, <2>2
<1>14. n \in Dirs => new \in Dirs /\ g \in Dirs
  BY <1>2, <1>7 DEF Kind
<1>15. here = Below(dir, {n})
  BY <1>1 DEF here
<1>16. grafts = Grafts(dir, n, g)
  BY <1>13 DEF Grafts, P, N
<1>17. Child(r.dir, n) \in server /\ Child(r.dir, g) \notin server
  BY <1>7, <1>8 DEF P, N
<1> HIDE DEF g
<1>18. Renaming(r, s, n, new, g)
  BY <1>1, <1>3, <1>7, <1>12, <1>14, <1>15, <1>16, <1>17 DEF Renaming
<1> QED
  BY <1>7, <1>18

LEMMA DeleteOutcome ==
    ASSUME NEW r, r.kind \in {"delete", "deleteItems"}, NEW s \in Outcomes(r)
    PROVE  s = server \ Below(r.dir, r.names)
<1>1. CASE r.kind = "delete"
  BY <1>1 DEF Outcomes
<1>2. CASE r.kind = "deleteItems"
  BY <1>2 DEF Outcomes
<1> QED
  BY <1>1, <1>2

LEMMA MoveOutcome ==
    ASSUME NEW r, r.kind \in {"moveItems", "moveItem", "copyItems"}, NEW s \in Outcomes(r)
    PROVE  /\ \A n \in r.names : Child(r.dir, n) \in server
           /\ IsDir(server, r.to) /\ \A n \in r.names : ~IsPrefix(Child(r.dir, n), r.to)
           /\ \E f \in Namings(r.names, r.to) :
                s = (IF r.kind = "copyItems" THEN server ELSE server \ Below(r.dir, r.names))
                      \cup Copied(r.dir, r.names, r.to, f)
<1> DEFINE known == \A n \in r.names : Child(r.dir, n) \in server
           into == IsDir(server, r.to) /\ \A n \in r.names : ~IsPrefix(Child(r.dir, n), r.to)
           here == Below(r.dir, r.names)
<1>1. CASE r.kind \in {"moveItems", "moveItem"}
  <2>1. s \in {(server \ here) \cup Copied(r.dir, r.names, r.to, f) :
                 f \in IF known /\ into THEN Namings(r.names, r.to) ELSE {}}
    BY <1>1 DEF Outcomes
  <2>2. known /\ into
    BY <2>1
  <2>3. PICK f \in Namings(r.names, r.to) :
          s = (server \ here) \cup Copied(r.dir, r.names, r.to, f)
    BY <2>1, <2>2
  <2> QED
    BY <1>1, <2>2, <2>3
<1>2. CASE r.kind = "copyItems"
  <2>1. s \in {server \cup Copied(r.dir, r.names, r.to, f) :
                 f \in IF known /\ into THEN Namings(r.names, r.to) ELSE {}}
    BY <1>2 DEF Outcomes
  <2>2. known /\ into
    BY <2>1
  <2>3. PICK f \in Namings(r.names, r.to) : s = server \cup Copied(r.dir, r.names, r.to, f)
    BY <2>1, <2>2
  <2> QED
    BY <1>2, <2>2, <2>3
<1> QED
  BY <1>1, <1>2

LEMMA ChildIsTree ==
    ASSUME IsTree(server), NEW dir, IsDir(server, dir), NEW n \in Names
    PROVE  IsTree(server \cup {Child(dir, n)})
<1>1. dir \in Paths
  BY DirIsPath
<1>2. /\ Child(dir, n) \in Paths /\ Child(dir, n) # <<>> /\ Front(Child(dir, n)) = dir
  BY <1>1, ChildPath
<1>3. \A p : IsDir(server, p) => IsDir(server \cup {Child(dir, n)}, p)
  BY DEF IsDir
<1> QED
  BY <1>2, <1>3 DEF IsTree

LEMMA OutcomeIsTree ==
    ASSUME IsTree(server), NEW r, TypedRequest(r), NEW s \in Outcomes(r)
    PROVE  IsTree(s)
<1>1. r.dir \in Paths /\ r.names \in SUBSET Names
  BY DEF TypedRequest
<1>2. CASE r.kind = "add"
  BY <1>2, AddOutcome, ChildIsTree
<1>3. CASE r.kind = "rename"
  <2>1. PICK n, new, g \in Names : Renaming(r, s, n, new, g)
    BY <1>3, RenameOutcome
  <2> DEFINE grafts == Grafts(r.dir, n, g)
             rest == server \ Below(r.dir, {n})
  <2>2. \A q : q \in grafts <=>
          \E x \in Paths : Child(r.dir, n) \o x \in server /\ q = Child(r.dir, g) \o x
    BY DEF Grafts
  <2> HIDE DEF grafts
  <2>3. {n} \in SUBSET Names
    OBVIOUS
  <2>4. IsTree(rest)
    BY <1>1, <2>3, RestIsTree
  <2>5. IsDir(rest, r.dir)
    <3>1. IsDir(server, r.dir)
      <4>1. Front(Child(r.dir, n)) = r.dir
        BY <1>1, ChildPath
      <4> QED
        BY <2>1, <4>1, TreeMember DEF Renaming
    <3>2. \A m \in {n} : ~IsPrefix(Child(r.dir, m), r.dir)
      BY <1>1, ChildIsBelow
    <3> QED
      BY <1>1, <2>3, <3>1, <3>2, RowsGone DEF KeepsRest
  <2> HIDE DEF rest
  <2>6. s = rest \cup grafts
    BY <2>1 DEF rest, grafts, Renaming
  <2>7. IsDir(s, r.dir) /\ \A p : IsDir(rest, p) => IsDir(s, p)
    BY <2>5, <2>6 DEF IsDir
  <2>8. ASSUME NEW q \in grafts PROVE q \in Paths /\ q # <<>> /\ IsDir(s, Front(q))
    <3>1. PICK x \in Paths : Child(r.dir, n) \o x \in server /\ q = Child(r.dir, g) \o x
      BY <2>2, <2>8
    <3>2. \A y \in Paths : Child(r.dir, n) \o y \in server => Child(r.dir, g) \o y \in s
      BY <2>2, <2>6
    <3>3. n \in Names /\ g \in Names /\ (n \in Dirs => g \in Dirs)
      BY <2>1 DEF Renaming
    <3>4. Child(r.dir, n) \o x \in server
      BY <3>1
    <3> HIDE DEF rest
    <3>5. Child(r.dir, g) \o x \in Paths /\ Child(r.dir, g) \o x # <<>>
          /\ IsDir(s, Front(Child(r.dir, g) \o x))
      BY <1>1, <2>7, <3>2, <3>3, <3>4, Grafted
    <3> QED
      BY <3>1, <3>5
  <2>9. \A q \in rest : q \in Paths /\ q # <<>> /\ IsDir(s, Front(q))
    BY <2>4, <2>7 DEF IsTree
  <2> QED
    BY <2>6, <2>8, <2>9 DEF IsTree
<1>4. CASE r.kind \in {"delete", "deleteItems"}
  BY <1>1, <1>4, DeleteOutcome, RestIsTree
<1>5. CASE r.kind \in {"moveItems", "moveItem", "copyItems"}
  <2>1. /\ IsDir(server, r.to) /\ \A n \in r.names : ~IsPrefix(Child(r.dir, n), r.to)
        /\ \E f \in Namings(r.names, r.to) :
             s = (IF r.kind = "copyItems" THEN server ELSE server \ Below(r.dir, r.names))
                   \cup Copied(r.dir, r.names, r.to, f)
    BY <1>5, MoveOutcome
  <2>2. r.to \in Paths
    BY <2>1, DirIsPath
  <2>3. IsTree(server \ Below(r.dir, r.names)) /\ IsDir(server \ Below(r.dir, r.names), r.to)
    BY <1>1, <2>1, <2>2, RestIsTree, RowsGone DEF KeepsRest
  <2> QED
    BY <1>1, <2>1, <2>2, <2>3, CopyIsTree
<1>6. r.kind \in {"add", "rename", "delete", "deleteItems", "moveItems", "moveItem", "copyItems"}
  BY DEF Outcomes
<1> QED
  BY <1>2, <1>3, <1>4, <1>5, <1>6

-----------------------------------------------------------------------------
(* What the page will show: the list, as the answers change it that the     *)
(* server has given and the page has not handled.  sent: one of them makes  *)
(* the page ask for the list.                                              *)

IsView(v) == DOMAIN v = {"path", "exists", "list", "sent"}

View(pg) == [path |-> pg.path, exists |-> pg.exists, list |-> pg.list, sent |-> FALSE]

Shows(s, v) == v.exists => IsDir(s, v.path) /\ v.list = ChildNames(s, v.path)

Reloaded(v, p) == [v EXCEPT !.path = p, !.list = {}, !.sent = TRUE]

Without(v, names) == [v EXCEPT !.list = @ \ names]

AfterDelete(v, p) ==
    IF p = v.path THEN Reloaded(v, Front(p))
    ELSE IF Front(p) = v.path THEN Without(v, {Last(p)})
    ELSE IF IsAncestorPath(p, v.path) THEN Reloaded(v, Front(p))
    ELSE v

AfterRename(v, p, new) ==
    IF p = v.path THEN [v EXCEPT !.path = Child(Front(p), new)]
    ELSE IF Front(p) = v.path THEN [v EXCEPT !.list = Renamed(@, Last(p), new)]
    ELSE IF IsAncestorPath(p, v.path)
    THEN [v EXCEPT !.path = RenameAncestorPath(@, p, Child(Front(p), new))]
    ELSE v

AfterWrite(v, r) ==
    LET n == CHOOSE m \in r.names : TRUE
        p == Child(r.dir, n)
    IN
    CASE r.kind = "add" ->
           IF r.dir = v.path THEN [v EXCEPT !.list = @ \cup {n}] ELSE v
      [] r.kind = "rename" -> AfterRename(v, p, r.to[1])
      [] r.kind = "delete" -> AfterDelete(v, p)
      [] r.kind \in {"deleteItems", "moveItems"} -> Without(v, r.names)
      [] r.kind = "moveItem" ->
           IF r.to = v.path THEN Reloaded(v, v.path) ELSE Without(v, {Last(p)})
      [] r.kind = "copyItems" -> IF r.to = v.path THEN Reloaded(v, v.path) ELSE v

After(v, r) ==
    IF r.reply = "refused" THEN IF r.kind = "list" THEN [v EXCEPT !.exists = FALSE] ELSE v
    ELSE CASE r.kind = "list" ->
                [v EXCEPT !.exists = TRUE, !.path = r.dir, !.list = NamesIn(r, r.dir)]
           [] r.kind = "notice" -> [v EXCEPT !.exists = TRUE, !.list = NamesIn(r, r.dir)]
           [] r.kind \in Writes -> AfterWrite(v, r)
           [] OTHER -> v

(* The handler of a write does what the write did.                         *)
WriteFits(v, r) ==
    /\ r.kind \in {"deleteItems", "moveItems", "moveItem"} /\ r.dir # v.path =>
         /\ r.names \cap v.list = {}
         /\ r.kind = "moveItems" => r.to # v.path
         /\ \A n \in r.names : ~IsPrefix(Child(r.dir, n), v.path)
    /\ r.kind \in {"rename", "delete"} /\ r.dir # v.path =>
         LET p == Child(r.dir, CHOOSE n \in r.names : TRUE)
         IN  IsAncestorPath(p, v.path) => IsPrefix(p, v.path)

Fits(v, r) ==
    /\ r.kind = "notice" => r.reply # "refused" /\ (r.reply = "done" => r.dir = v.path)
    /\ r.reply = "done" => WriteFits(v, r)

-----------------------------------------------------------------------------
(* A view that was right is right after each write *)

LEMMA AddShows ==
    ASSUME IsTree(server), NEW r, TypedRequest(r), r.kind = "add", NEW s \in Outcomes(r),
           ~Taken(r), NEW v, IsView(v), Shows(server, v)
    PROVE  Shows(s, AfterWrite(v, r))
<1> DEFINE w == AfterWrite(v, r)
<1>1. PICK n, g \in Names :
             /\ r.names = {n} /\ IsDir(server, r.dir)
             /\ Child(r.dir, g) \notin server
             /\ Child(r.dir, n) \notin server => g = n
             /\ s = server \cup {Child(r.dir, g)}
  BY AddOutcome
<1>2. g = n
  <2>1. Child(r.dir, n) \notin server
    BY <1>1 DEF Taken
  <2> QED
    BY <1>1, <2>1
<1>3. (CHOOSE m \in r.names : TRUE) = n
  BY <1>1, OnlyName
<1>4. w = IF r.dir = v.path THEN [v EXCEPT !.list = v.list \cup {n}] ELSE v
  BY <1>3 DEF AfterWrite
<1>5. /\ w.exists = v.exists /\ w.path = v.path
      /\ w.list = IF r.dir = v.path THEN v.list \cup {n} ELSE v.list
  BY <1>4 DEF IsView
<1> HIDE DEF w
<1> SUFFICES ASSUME v.exists
             PROVE  IsDir(s, v.path) /\ w.list = ChildNames(s, v.path)
  BY <1>5 DEF Shows, w
<1>6. IsDir(server, v.path) /\ v.list = ChildNames(server, v.path) /\ v.path \in Paths
  BY DirIsPath DEF Shows
<1>7. r.dir \in Paths /\ Child(r.dir, n) \in Paths
  BY ChildPath DEF TypedRequest
<1>8. IsDir(s, v.path)
  BY <1>1, <1>6 DEF IsDir
<1>9. CASE r.dir = v.path
  <2>1. \A m \in Names : Child(v.path, m) = Child(r.dir, n) <=> m = n
    BY <1>6, <1>7, <1>9, SameChild
  <2>2. ChildNames(s, v.path) = ChildNames(server, v.path) \cup {n}
    BY <1>1, <1>2, <2>1 DEF ChildNames
  <2> QED
    BY <1>5, <1>6, <1>8, <1>9, <2>2
<1>10. CASE r.dir # v.path
  <2>1. \A q \in {Child(r.dir, n)} :
          \E k \in Names : Child(r.dir, k) \notin server /\ IsPrefix(Child(r.dir, k), q)
    BY <1>1, <1>2, <1>7, PrefixSelf
  <2>2. ChildNames(s, v.path) = ChildNames(server, v.path)
    BY <1>1, <1>2, <1>6, <1>7, <1>10, <2>1, RowsElsewhere
  <2> QED
    BY <1>5, <1>6, <1>8, <1>10, <2>2
<1> QED
  BY <1>9, <1>10

LEMMA DeleteShows ==
    ASSUME IsTree(server), NEW r, TypedRequest(r), r.kind = "delete", NEW s \in Outcomes(r),
           NEW v, IsView(v), Shows(server, v), ~AfterWrite(v, r).sent
    PROVE  Shows(s, AfterWrite(v, r))
<1> DEFINE w == AfterWrite(v, r)
           n == CHOOSE m \in r.names : TRUE
           p == Child(r.dir, n)
<1>1. n \in Names /\ r.names = {n} /\ r.dir \in Paths
  BY OnlyName DEF TypedRequest
<1>2. s = server \ Below(r.dir, {n})
  <2>1. s = server \ Below(r.dir, r.names)
    BY DeleteOutcome
  <2> QED
    BY <1>1, <2>1
<1>3. w = AfterDelete(v, p)
  BY DEF AfterWrite
<1> HIDE DEF n
<1>4. p \in Paths /\ Front(p) = r.dir /\ Last(p) = n
  BY <1>1, ChildPath
<1> HIDE DEF p
<1>5. /\ p # v.path
      /\ w = IF r.dir = v.path THEN Without(v, {n}) ELSE v
      /\ r.dir # v.path => ~IsAncestorPath(p, v.path)
  <2>1. \A q : Reloaded(v, q).sent = TRUE
    BY DEF Reloaded, IsView
  <2>2. ~w.sent
    BY DEF w
  <2> HIDE DEF w
  <2> QED
    BY <1>3, <1>4, <2>1, <2>2 DEF AfterDelete
<1>6. /\ w.exists = v.exists /\ w.path = v.path
      /\ w.list = IF r.dir = v.path THEN v.list \ {n} ELSE v.list
  BY <1>5 DEF IsView, Without
<1> HIDE DEF w
<1> SUFFICES ASSUME v.exists
             PROVE  IsDir(s, v.path) /\ w.list = ChildNames(s, v.path)
  BY <1>6 DEF Shows, w
<1>7. IsDir(server, v.path) /\ v.list = ChildNames(server, v.path) /\ v.path \in Paths
  BY DirIsPath DEF Shows
<1>8. ~IsPrefix(p, v.path)
  <2>1. CASE r.dir = v.path
    BY <1>1, <2>1, ChildIsBelow DEF p
  <2>2. CASE r.dir # v.path
    BY <1>4, <1>5, <1>7, <2>2, RenameAncestorIsRebased
  <2> QED
    BY <2>1, <2>2
<1>9. {n} \in SUBSET Names /\ \A m \in {n} : ~IsPrefix(Child(r.dir, m), v.path)
  BY <1>1, <1>8 DEF p
<1>10. /\ IsDir(s, v.path)
       /\ r.dir = v.path => ChildNames(s, v.path) = ChildNames(server, v.path) \ {n}
       /\ r.dir # v.path => ChildNames(s, v.path) = ChildNames(server, v.path)
  <2> DEFINE left == server \ Below(r.dir, {n})
  <2>1. /\ IsDir(left, v.path)
        /\ r.dir = v.path => ChildNames(left, v.path) = ChildNames(server, v.path) \ {n}
        /\ r.dir # v.path => ChildNames(left, v.path) = ChildNames(server, v.path)
    <3>1. KeepsRest(left, r.dir, {n}, v.path)
      BY <1>1, <1>7, <1>9, RowsGone
    <3> HIDE DEF left
    <3> QED
      BY <3>1 DEF KeepsRest, Lost
  <2>2. left = s
    BY <1>2
  <2> HIDE DEF left
  <2> QED
    BY <2>1, <2>2
<1> QED
  BY <1>6, <1>7, <1>10

LEMMA DeleteItemsShows ==
    ASSUME IsTree(server), NEW r, TypedRequest(r), r.kind = "deleteItems",
           NEW s \in Outcomes(r), NEW v, IsView(v), Shows(server, v), WriteFits(v, r)
    PROVE  Shows(s, AfterWrite(v, r))
<1> DEFINE w == AfterWrite(v, r)
<1>1. r.names \in SUBSET Names /\ r.dir \in Paths
  BY DEF TypedRequest
<1>2. s = server \ Below(r.dir, r.names)
  BY DeleteOutcome
<1>3. w = Without(v, r.names)
  BY DEF AfterWrite
<1>4. w.exists = v.exists /\ w.path = v.path /\ w.list = v.list \ r.names
  BY <1>3 DEF IsView, Without
<1> HIDE DEF w
<1> SUFFICES ASSUME v.exists
             PROVE  IsDir(s, v.path) /\ w.list = ChildNames(s, v.path)
  BY <1>4 DEF Shows, w
<1>5. IsDir(server, v.path) /\ v.list = ChildNames(server, v.path) /\ v.path \in Paths
  BY DirIsPath DEF Shows
<1>6. /\ \A n \in r.names : ~IsPrefix(Child(r.dir, n), v.path)
      /\ r.dir # v.path => v.list \ r.names = v.list
  <2>1. CASE r.dir = v.path
    BY <1>1, <2>1, ChildIsBelow
  <2>2. CASE r.dir # v.path
    BY <2>2 DEF WriteFits
  <2> QED
    BY <2>1, <2>2
<1>7. /\ IsDir(s, v.path)
      /\ r.dir = v.path => ChildNames(s, v.path) = ChildNames(server, v.path) \ r.names
      /\ r.dir # v.path => ChildNames(s, v.path) = ChildNames(server, v.path)
  <2> DEFINE left == server \ Below(r.dir, r.names)
  <2>1. /\ IsDir(left, v.path)
        /\ r.dir = v.path => ChildNames(left, v.path) = ChildNames(server, v.path) \ r.names
        /\ r.dir # v.path => ChildNames(left, v.path) = ChildNames(server, v.path)
    <3>1. KeepsRest(left, r.dir, r.names, v.path)
      BY <1>1, <1>5, <1>6, RowsGone
    <3> HIDE DEF left
    <3> QED
      BY <3>1 DEF KeepsRest, Lost
  <2>2. left = s
    BY <1>2
  <2> HIDE DEF left
  <2> QED
    BY <2>1, <2>2
<1> QED
  BY <1>4, <1>5, <1>6, <1>7

(* What was moved or copied elsewhere is below new rows of another folder. *)
LEMMA CopiesElsewhere ==
    ASSUME IsTree(server), NEW dir \in Paths, NEW names \in SUBSET Names,
           NEW to \in Paths, NEW f \in Namings(names, to),
           NEW path \in Paths, IsDir(server, path), NEW s, IsDir(s, path), to # path
    PROVE  /\ IsDir(s \cup Copied(dir, names, to, f), path)
           /\ ChildNames(s \cup Copied(dir, names, to, f), path) = ChildNames(s, path)
<1>1. ASSUME NEW q \in Copied(dir, names, to, f)
      PROVE  \E g \in Names : Child(to, g) \notin server /\ IsPrefix(Child(to, g), q)
  <2>1. PICK n \in names, x \in Paths :
          Child(dir, n) \o x \in server /\ q = Child(to, f[n]) \o x
    <3>1. \A z : z \in Copied(dir, names, to, f) <=> \E n \in names, x \in Paths :
                   Child(dir, n) \o x \in server /\ z = Child(to, f[n]) \o x
      BY CopiedType
    <3> QED
      BY <1>1, <3>1
  <2>2. f[n] \in Names /\ Child(to, f[n]) \notin server
    BY NamingType
  <2>3. Child(to, f[n]) \in Paths
    BY <2>2, ChildPath
  <2> QED
    BY <2>1, <2>2, <2>3, PrefixJoined
<1> QED
  BY <1>1, RowsElsewhere

LEMMA MoveShows ==
    ASSUME IsTree(server), NEW r, TypedRequest(r), r.kind \in {"moveItems", "moveItem"},
           NEW s \in Outcomes(r), ~Taken(r), NEW v, IsView(v), Shows(server, v),
           WriteFits(v, r), ~AfterWrite(v, r).sent
    PROVE  Shows(s, AfterWrite(v, r))
<1> DEFINE w == AfterWrite(v, r)
           rest == server \ Below(r.dir, r.names)
<1>1. r.names \in SUBSET Names /\ r.dir \in Paths
  BY DEF TypedRequest
<1>2. /\ IsDir(server, r.to) /\ \A n \in r.names : Child(r.dir, n) \in server
      /\ \E f \in Namings(r.names, r.to) : s = rest \cup Copied(r.dir, r.names, r.to, f)
  BY MoveOutcome
<1>3. /\ w = Without(v, r.names)
      /\ r.kind = "moveItem" => r.to # v.path
  <2>1. CASE r.kind = "moveItems"
    BY <2>1 DEF AfterWrite
  <2>2. CASE r.kind = "moveItem"
    <3> DEFINE n == CHOOSE m \in r.names : TRUE
    <3>1. r.names = {n} /\ n \in Names
      BY <2>2, OnlyName
    <3>2. Last(Child(r.dir, n)) = n
      BY <1>1, <3>1, ChildPath
    <3>3. w = IF r.to = v.path THEN Reloaded(v, v.path) ELSE Without(v, {Last(Child(r.dir, n))})
      BY <2>2 DEF AfterWrite
    <3>4. Reloaded(v, v.path).sent = TRUE /\ ~w.sent
      BY DEF Reloaded, IsView
    <3> HIDE DEF n, w
    <3> QED
      BY <2>2, <3>1, <3>2, <3>3, <3>4
  <2> QED
    BY <2>1, <2>2
<1>4. w.exists = v.exists /\ w.path = v.path /\ w.list = v.list \ r.names
  BY <1>3 DEF IsView, Without
<1> HIDE DEF w, rest
<1> SUFFICES ASSUME v.exists
             PROVE  IsDir(s, v.path) /\ w.list = ChildNames(s, v.path)
  BY <1>4 DEF Shows, w
<1>5. /\ IsDir(server, v.path) /\ v.list = ChildNames(server, v.path) /\ v.path \in Paths
      /\ r.to \in Paths
  BY <1>2, DirIsPath DEF Shows
<1>6. /\ \A n \in r.names : ~IsPrefix(Child(r.dir, n), v.path)
      /\ r.dir # v.path => v.list \ r.names = v.list
  <2>1. CASE r.dir = v.path
    BY <1>1, <2>1, ChildIsBelow
  <2>2. CASE r.dir # v.path
    BY <2>2 DEF WriteFits
  <2> QED
    BY <2>1, <2>2
<1>7. /\ IsDir(rest, v.path)
      /\ r.dir = v.path => ChildNames(rest, v.path) = ChildNames(server, v.path) \ r.names
      /\ r.dir # v.path => ChildNames(rest, v.path) = ChildNames(server, v.path)
  <2> DEFINE left == server \ Below(r.dir, r.names)
  <2>1. /\ IsDir(left, v.path)
        /\ r.dir = v.path => ChildNames(left, v.path) = ChildNames(server, v.path) \ r.names
        /\ r.dir # v.path => ChildNames(left, v.path) = ChildNames(server, v.path)
    <3>1. KeepsRest(left, r.dir, r.names, v.path)
      BY <1>1, <1>5, <1>6, RowsGone
    <3> HIDE DEF left
    <3> QED
      BY <3>1 DEF KeepsRest, Lost
  <2>2. left = rest
    BY DEF rest
  <2> HIDE DEF left
  <2> QED
    BY <2>1, <2>2
<1>8. ChildNames(rest, v.path) = v.list \ r.names
  BY <1>5, <1>6, <1>7
<1>9. CASE r.to # v.path
  <2>1. PICK f \in Namings(r.names, r.to) : s = rest \cup Copied(r.dir, r.names, r.to, f)
    BY <1>2
  <2>2. IsDir(s, v.path) /\ ChildNames(s, v.path) = ChildNames(rest, v.path)
    BY <1>1, <1>5, <1>7, <1>9, <2>1, CopiesElsewhere
  <2> QED
    BY <1>4, <1>8, <2>2
<1>10. CASE r.to = v.path
  <2>1. r.kind = "moveItems" /\ r.dir = v.path
    BY <1>3, <1>10 DEF WriteFits
  <2>2. r.names = {}
    BY <1>2, <1>10, <2>1 DEF Taken
  <2>3. PICK f \in Namings(r.names, r.to) : s = rest \cup Copied(r.dir, r.names, r.to, f)
    BY <1>2
  <2>4. Copied(r.dir, r.names, r.to, f) = {}
    BY <2>2 DEF Copied
  <2>5. s = rest
    BY <2>3, <2>4
  <2> QED
    BY <1>4, <1>7, <1>8, <2>5
<1> QED
  BY <1>9, <1>10

LEMMA CopyShows ==
    ASSUME IsTree(server), NEW r, TypedRequest(r), r.kind = "copyItems", NEW s \in Outcomes(r),
           NEW v, IsView(v), Shows(server, v), ~AfterWrite(v, r).sent
    PROVE  Shows(s, AfterWrite(v, r))
<1> DEFINE w == AfterWrite(v, r)
<1>1. r.names \in SUBSET Names /\ r.dir \in Paths
  BY DEF TypedRequest
<1>2. /\ IsDir(server, r.to)
      /\ \E f \in Namings(r.names, r.to) : s = server \cup Copied(r.dir, r.names, r.to, f)
  BY MoveOutcome
<1>3. w = v /\ r.to # v.path
  <2>1. w = IF r.to = v.path THEN Reloaded(v, v.path) ELSE v
    BY DEF AfterWrite
  <2>2. Reloaded(v, v.path).sent = TRUE /\ ~w.sent
    BY DEF Reloaded, IsView
  <2> HIDE DEF w
  <2> QED
    BY <2>1, <2>2
<1> HIDE DEF w
<1> SUFFICES ASSUME v.exists
             PROVE  IsDir(s, v.path) /\ v.list = ChildNames(s, v.path)
  BY <1>3 DEF Shows, w
<1>4. /\ IsDir(server, v.path) /\ v.list = ChildNames(server, v.path) /\ v.path \in Paths
      /\ r.to \in Paths
  BY <1>2, DirIsPath DEF Shows
<1> QED
  BY <1>1, <1>2, <1>3, <1>4, CopiesElsewhere

(* What a renamed folder holds is what it held. *)
LEMMA GraftNames ==
    ASSUME IsTree(server), NEW dir \in Paths, NEW n \in Names, NEW g \in Names,
           Child(dir, g) \notin server, NEW x \in Paths, NEW rest \in SUBSET server
    PROVE  \A m \in Names : Child(Child(dir, g) \o x, m) \in rest \cup Grafts(dir, n, g)
                              <=> Child(Child(dir, n) \o x, m) \in server
<1> DEFINE P == Child(dir, n)
           N == Child(dir, g)
           grafts == Grafts(dir, n, g)
<1>1. P \in Paths /\ N \in Paths /\ N # <<>>
  BY ChildPath
<1>2. \A q : q \in grafts <=> \E y \in Paths : P \o y \in server /\ q = N \o y
  BY DEF Grafts
<1> HIDE DEF grafts, P, N
<1>3. ASSUME NEW m \in Names
      PROVE  Child(N \o x, m) \in rest \cup grafts <=> Child(P \o x, m) \in server
  <2>1. /\ Child(x, m) \in Paths /\ N \o Child(x, m) = Child(N \o x, m)
        /\ P \o Child(x, m) = Child(P \o x, m)
    <3>1. Child(x, m) \in Paths
      BY ChildPath
    <3>2. N \o Child(x, m) = Child(N \o x, m)
      BY <1>1, JoinedChild
    <3>3. P \o Child(x, m) = Child(P \o x, m)
      BY <1>1, JoinedChild
    <3> QED
      BY <3>1, <3>2, <3>3
  <2>2. Child(N \o x, m) \notin rest
    <3>1. IsPrefix(N, N \o Child(x, m))
      BY <1>1, <2>1, PrefixJoined
    <3>2. N \notin server
      BY DEF N
    <3> QED
      BY <1>1, <2>1, <3>1, <3>2, Rooted
  <2>3. \A y \in Paths : N \o Child(x, m) = N \o y => y = Child(x, m)
    BY <1>1, <2>1, SameRest
  <2> QED
    BY <1>2, <2>1, <2>2, <2>3
<1> QED
  BY <1>3 DEF grafts, P, N

LEMMA RenameShows ==
    ASSUME IsTree(server), NEW r, TypedRequest(r), r.kind = "rename", NEW s \in Outcomes(r),
           ~Taken(r), NEW v, IsView(v), Shows(server, v), WriteFits(v, r)
    PROVE  Shows(s, AfterWrite(v, r))
<1> DEFINE w == AfterWrite(v, r)
           dir == r.dir
           path == v.path
<1>1. PICK n, new, g \in Names : Renaming(r, s, n, new, g)
  BY RenameOutcome
<1>2. /\ r.names = {n} /\ r.to[1] = new /\ dir \in Paths
      /\ n \in Dirs => new \in Dirs
  BY <1>1 DEF Renaming, TypedRequest
<1>3. g = new
  BY <1>1, <1>2 DEF Renaming, Taken
<1> DEFINE P == Child(dir, n)
           N == Child(dir, new)
           rest == server \ Below(dir, {n})
           grafts == Grafts(dir, n, new)
<1>4. /\ P \in server /\ N \notin server /\ s = rest \cup grafts
  BY <1>1, <1>3 DEF Renaming
<1>5. /\ P \in Paths /\ N \in Paths /\ P # <<>> /\ N # <<>>
      /\ Front(P) = dir /\ Last(P) = n
  BY <1>2, ChildPath
<1>6. (CHOOSE m \in r.names : TRUE) = n
  BY <1>2, OnlyName
<1>7. w = AfterRename(v, P, new)
  BY <1>2, <1>6 DEF AfterWrite
<1>8. path # dir => (IsAncestorPath(P, path) => IsPrefix(P, path))
  BY <1>6 DEF WriteFits
<1>9. w.exists = v.exists
  BY <1>7 DEF AfterRename, IsView
<1>10. \A q : q \in grafts <=> \E x \in Paths : P \o x \in server /\ q = N \o x
  BY DEF Grafts
<1> SUFFICES ASSUME v.exists
             PROVE  IsDir(s, w.path) /\ w.list = ChildNames(s, w.path)
  BY <1>9 DEF Shows
<1>11. IsDir(server, path) /\ v.list = ChildNames(server, path) /\ path \in Paths
  BY DirIsPath DEF Shows
<1>12. ~IsPrefix(P, path) => KeepsRest(rest, dir, {n}, path)
  BY <1>2, <1>11, RowsGone
<1>13. ~IsPrefix(P, dir) /\ ~IsPrefix(N, dir)
  BY <1>2, ChildIsBelow
<1>14. KeepsRest(rest, dir, {n}, dir)
  <2>1. IsDir(server, dir)
    BY <1>4, <1>5, TreeMember
  <2>2. {n} \in SUBSET Names /\ \A m \in {n} : ~IsPrefix(Child(dir, m), dir)
    BY <1>13
  <2> QED
    BY <1>2, <2>1, <2>2, RowsGone
<1>15. CASE IsPrefix(P, path)
  <2>1. PICK x \in Paths : path = P \o x
    BY <1>5, <1>11, <1>15, PrefixIsJoined
  <2>2. w.path = N \o x /\ w.list = v.list
    <3>1. dir # path
      BY <1>13, <1>15
    <3>2. CASE P = path
      <4>1. x = <<>>
        <5>1. P \o <<>> = P /\ <<>> \in Paths
          BY <1>5, Joined, RootPath
        <5> QED
          BY <1>5, <2>1, <3>2, <5>1, SameRest
      <4>2. N \o x = N
        BY <1>5, <4>1, Joined
      <4>3. w = [v EXCEPT !.path = N]
        BY <1>5, <1>7, <3>2 DEF AfterRename
      <4> QED
        BY <4>2, <4>3 DEF IsView
    <3>3. CASE P # path
      <4>1. /\ IsAncestorPath(P, path)
            /\ RenameAncestorPath(path, P, N) = Rebased(path, P, N)
        BY <1>5, <1>11, <1>15, RenameAncestorIsRebased
      <4>2. Rebased(path, P, N) = N \o x
        BY <1>5, <2>1, RebasedJoined
      <4>3. w = [v EXCEPT !.path = N \o x]
        BY <1>5, <1>7, <3>1, <3>3, <4>1, <4>2 DEF AfterRename
      <4> QED
        BY <4>3 DEF IsView
    <3> QED
      BY <3>2, <3>3
  <2>3. IsDir(s, N \o x)
    <3>1. IsDir(s, dir)
      BY <1>4, <1>14 DEF KeepsRest, IsDir
    <3>2. P \o x \in server
      <4>1. path # <<>>
        BY <1>5, <1>15, PrefixOfRoot
      <4> QED
        BY <1>11, <2>1, <4>1 DEF IsDir
    <3>3. \A y \in Paths : P \o y \in server => N \o y \in s
      BY <1>4, <1>10
    <3>4. IsDir(server, P \o x)
      BY <1>11, <2>1
    <3> HIDE DEF rest, grafts, w
    <3> QED
      BY <1>2, <3>1, <3>2, <3>3, <3>4, Grafted
  <2>4. ChildNames(s, N \o x) = ChildNames(server, P \o x)
    <3>1. rest \in SUBSET server
      OBVIOUS
    <3> HIDE DEF rest, w
    <3>2. Child(dir, new) \notin server
      BY <1>4
    <3>3. \A m \in Names : Child(N \o x, m) \in rest \cup grafts <=> Child(P \o x, m) \in server
      BY <1>2, <3>1, <3>2, GraftNames
    <3> HIDE DEF grafts
    <3> QED
      BY <1>4, <3>3 DEF ChildNames
  <2> HIDE DEF w
  <2> QED
    BY <1>11, <2>1, <2>2, <2>3, <2>4
<1>16. CASE dir = path
  <2>1. w = [v EXCEPT !.list = Renamed(v.list, n, new)]
    <3>1. P # path
      BY <1>5, <1>13, <1>16, PrefixSelf
    <3> QED
      BY <1>5, <1>7, <1>16, <3>1 DEF AfterRename
  <2>2. w.path = path /\ w.list = Renamed(v.list, n, new)
    BY <2>1 DEF IsView
  <2>3. IsDir(s, path)
    BY <1>4, <1>14, <1>16 DEF KeepsRest, IsDir
  <2>4. n \in v.list
    BY <1>4, <1>11, <1>16 DEF ChildNames
  <2>5. ChildNames(rest, path) = v.list \ {n}
    BY <1>11, <1>14, <1>16 DEF KeepsRest, Lost
  <2>6. \A m \in Names : Child(dir, m) \in grafts <=> m = new
    <3> SUFFICES ASSUME NEW m \in Names PROVE Child(dir, m) \in grafts <=> m = new
      OBVIOUS
    <3>1. N \in grafts
      <4>1. N \o <<>> = N /\ P \o <<>> = P /\ <<>> \in Paths
        BY <1>5, Joined, RootPath
      <4> QED
        BY <1>4, <1>10, <4>1
    <3>2. ASSUME Child(dir, m) \in grafts PROVE m = new
      <4>1. PICK x \in Paths : Child(dir, m) = N \o x
        BY <1>10, <3>2
      <4>2. IsPrefix(N, Child(dir, m))
        BY <1>5, <4>1, PrefixJoined
      <4> QED
        BY <1>2, <1>13, <4>2, ChildBelowChild
    <3> QED
      BY <3>1, <3>2
  <2>7. ChildNames(s, path) = (v.list \ {n}) \cup {new}
    BY <1>4, <1>16, <2>5, <2>6 DEF ChildNames
  <2>8. Renamed(v.list, n, new) = (v.list \ {n}) \cup {new}
    BY <2>4 DEF Renamed
  <2> HIDE DEF w
  <2> QED
    BY <2>2, <2>3, <2>7, <2>8
<1>17. CASE dir # path /\ ~IsPrefix(P, path)
  <2>1. w = v
    <3>1. P # path
      BY <1>5, <1>17, PrefixSelf
    <3>2. ~IsAncestorPath(P, path)
      BY <1>8, <1>17
    <3> QED
      BY <1>5, <1>7, <1>17, <3>1, <3>2 DEF AfterRename
  <2>2. IsDir(rest, path) /\ ChildNames(rest, path) = v.list
    BY <1>11, <1>12, <1>17 DEF KeepsRest, Lost
  <2>3. \A q \in grafts : \E k \in Names : Child(dir, k) \notin server /\ IsPrefix(Child(dir, k), q)
    <3> SUFFICES ASSUME NEW q \in grafts PROVE IsPrefix(N, q)
      BY <1>4
    <3>1. PICK x \in Paths : q = N \o x
      BY <1>10
    <3> QED
      BY <1>5, <3>1, PrefixJoined
  <2> HIDE DEF rest, grafts, w
  <2>4. IsDir(rest \cup grafts, path) /\ ChildNames(rest \cup grafts, path) = ChildNames(rest, path)
    BY <1>2, <1>11, <1>17, <2>2, <2>3, RowsElsewhere
  <2> QED
    BY <1>4, <2>1, <2>2, <2>4
<1> QED
  BY <1>15, <1>16, <1>17

LEMMA WriteShows ==
    ASSUME IsTree(server), NEW r, TypedRequest(r), NEW s \in Outcomes(r), ~Taken(r),
           NEW v, IsView(v), Shows(server, v), WriteFits(v, r), ~AfterWrite(v, r).sent
    PROVE  Shows(s, AfterWrite(v, r))
<1>1. r.kind \in {"add", "rename", "delete", "deleteItems", "moveItems", "moveItem", "copyItems"}
  BY DEF Outcomes
<1> QED
  BY <1>1, AddShows, RenameShows, DeleteShows, DeleteItemsShows, MoveShows, CopyShows

-----------------------------------------------------------------------------
(* Pages that are typed, and ask for what is typed *)

Asked(q) == \E S : q \in Seq(S) /\ \A r \in S : TypedRequest(r)

TypedPage(pg) ==
    /\ IsPage(pg) /\ Asked(pg.sends)
    /\ pg.path \in Paths /\ pg.exists \in BOOLEAN
    /\ pg.list \subseteq Names /\ pg.marked \subseteq pg.list
    /\ pg.selected \subseteq Names /\ pg.hist \in Seq(Paths)

AsksForList(q) == \E i \in DOMAIN q : q[i].kind = "list"

(* q shows what pg shows. *)
Stays(pg, q) ==
    /\ TypedPage(q)
    /\ q.path = pg.path /\ q.exists = pg.exists /\ q.list = pg.list

(* The page asks for the list where the view says so, and shows it otherwise. *)
Mirrors(q, v) ==
    /\ TypedPage(q)
    /\ IF v.sent THEN AsksForList(q.sends)
       ELSE q.path = v.path /\ q.exists = v.exists /\ q.list = v.list

LEMMA AskedSeq ==
    ASSUME NEW q, Asked(q)
    PROVE  /\ DOMAIN q = 1 .. Len(q) /\ Len(q) \in Nat /\ IsSeq(q)
           /\ \A i \in 1 .. Len(q) : TypedRequest(q[i])
<1>1. PICK S : q \in Seq(S) /\ \A r \in S : TypedRequest(r)
  BY DEF Asked
<1>2. DOMAIN q = 1 .. Len(q) /\ Len(q) \in Nat
  BY <1>1, LenProperties
<1>3. \A i \in 1 .. Len(q) : q[i] \in S
  BY <1>1, ElementOfSeq
<1> QED
  BY <1>1, <1>2, <1>3 DEF IsSeq

LEMMA AppendAsked ==
    ASSUME NEW q, NEW r, Asked(q), TypedRequest(r)
    PROVE  /\ Asked(Append(q, r))
           /\ AsksForList(q) => AsksForList(Append(q, r))
           /\ r.kind = "list" => AsksForList(Append(q, r))
<1>1. PICK S : q \in Seq(S) /\ \A x \in S : TypedRequest(x)
  BY DEF Asked
<1> DEFINE T == S \cup {r}
<1>2. q \in Seq(T) /\ r \in T /\ \A x \in T : TypedRequest(x)
  <2>1. S \subseteq T
    OBVIOUS
  <2>2. q \in Seq(T)
    BY <1>1, <2>1, SeqMonotonic
  <2> QED
    BY <1>1, <2>2
<1> HIDE DEF T
<1> DEFINE a == Append(q, r)
<1>3. /\ a \in Seq(T) /\ Len(a) = Len(q) + 1
      /\ \A i \in 1 .. Len(q) : a[i] = q[i]
      /\ a[Len(q) + 1] = r
  BY <1>2, AppendProperties
<1>4. DOMAIN a = 1 .. Len(a) /\ DOMAIN q = 1 .. Len(q) /\ Len(q) \in Nat
  BY <1>2, <1>3, LenProperties
<1> HIDE DEF a
<1>5. Len(q) + 1 \in DOMAIN a /\ \A i \in DOMAIN q : i \in DOMAIN a /\ a[i] = q[i]
  BY <1>3, <1>4
<1>6. Asked(a)
  BY <1>2, <1>3 DEF Asked
<1>7. (r.kind = "list" => AsksForList(a)) /\ (AsksForList(q) => AsksForList(a))
  BY <1>3, <1>5 DEF AsksForList
<1> QED
  BY <1>6, <1>7 DEF a

LEMMA ConcatAsked ==
    ASSUME NEW q, NEW p, Asked(q), Asked(p)
    PROVE  /\ Asked(q \o p)
           /\ \A i \in 1 .. Len(q) : (q \o p)[i] = q[i]
           /\ AsksForList(p) => AsksForList(q \o p)
           /\ Len(q \o p) = Len(q) + Len(p)
<1>1. PICK S : q \in Seq(S) /\ \A x \in S : TypedRequest(x)
  BY DEF Asked
<1>2. PICK T : p \in Seq(T) /\ \A x \in T : TypedRequest(x)
  BY DEF Asked
<1> DEFINE U == S \cup T
           a == q \o p
<1>3. q \in Seq(U) /\ p \in Seq(U) /\ \A x \in U : TypedRequest(x)
  <2>1. S \subseteq U /\ T \subseteq U
    OBVIOUS
  <2>2. q \in Seq(U) /\ p \in Seq(U)
    BY <1>1, <1>2, <2>1, SeqMonotonic
  <2> QED
    BY <1>1, <1>2, <2>2
<1> HIDE DEF U
<1>4. /\ a \in Seq(U) /\ Len(a) = Len(q) + Len(p)
      /\ \A i \in 1 .. Len(q) + Len(p) : a[i] = IF i <= Len(q) THEN q[i] ELSE p[i - Len(q)]
  BY <1>3, ConcatProperties
<1>5. /\ DOMAIN a = 1 .. Len(a) /\ DOMAIN p = 1 .. Len(p)
      /\ Len(q) \in Nat /\ Len(p) \in Nat
  BY <1>3, <1>4, LenProperties
<1> HIDE DEF a
<1>6. \A i \in 1 .. Len(q) : a[i] = q[i]
  BY <1>4, <1>5
<1>7. \A i \in DOMAIN p : Len(q) + i \in DOMAIN a /\ a[Len(q) + i] = p[i]
  <2> SUFFICES ASSUME NEW i \in 1 .. Len(p)
               PROVE  Len(q) + i \in 1 .. Len(a) /\ a[Len(q) + i] = p[i]
    BY <1>5
  <2>1. /\ Len(q) + i \in 1 .. Len(q) + Len(p) /\ ~(Len(q) + i <= Len(q))
        /\ Len(q) + i - Len(q) = i
    BY <1>5
  <2> QED
    BY <1>4, <2>1
<1>8. Asked(a)
  BY <1>3, <1>4 DEF Asked
<1>9. AsksForList(p) => AsksForList(a)
  BY <1>7 DEF AsksForList
<1> QED
  BY <1>4, <1>6, <1>8, <1>9 DEF a

(* The others keep their places, one less after the one removed. *)
LEMMA RemoveAsked ==
    ASSUME NEW q, Asked(q), NEW i \in 1 .. Len(q)
    PROVE  /\ Asked(RemoveAt(q, i)) /\ TypedRequest(q[i])
           /\ Len(RemoveAt(q, i)) = Len(q) - 1
           /\ \A k \in 1 .. Len(q) - 1 :
                RemoveAt(q, i)[k] = IF k < i THEN q[k] ELSE q[k + 1]
<1>1. PICK S : q \in Seq(S) /\ \A x \in S : TypedRequest(x)
  BY DEF Asked
<1> DEFINE n == Len(q)
           left == SubSeq(q, 1, i - 1)
           j == i + 1
           right == SubSeq(q, j, n)
           a == left \o right
<1>2. n \in Nat /\ i \in Nat /\ 1 <= i /\ i <= n /\ q[i] \in S
  BY <1>1, LenProperties, ElementOfSeq
<1>3. /\ left \in Seq(S) /\ Len(left) = i - 1
      /\ \A k \in 1 .. i - 1 : left[k] = q[k]
  <2> DEFINE l == i - 1
  <2>1. l \in Int /\ 1 \in Int /\ l \in Nat /\ \A k \in 1 .. l : k \in 1 .. n
    BY <1>2
  <2>2. \A k \in 1 .. l : q[k] \in S
    BY <1>1, <2>1, ElementOfSeq
  <2> HIDE DEF l
  <2>3. /\ SubSeq(q, 1, l) \in Seq(S) /\ Len(SubSeq(q, 1, l)) = IF 1 <= l THEN l - 1 + 1 ELSE 0
        /\ \A k \in 1 .. l - 1 + 1 : SubSeq(q, 1, l)[k] = q[1 + k - 1]
    BY <2>1, <2>2, SubSeqProperties
  <2>4. /\ (IF 1 <= l THEN l - 1 + 1 ELSE 0) = l /\ l - 1 + 1 = l
        /\ \A k \in 1 .. l : 1 + k - 1 = k
    BY <2>1
  <2>5. /\ SubSeq(q, 1, l) \in Seq(S) /\ Len(SubSeq(q, 1, l)) = l
        /\ \A k \in 1 .. l : SubSeq(q, 1, l)[k] = q[k]
    BY <2>3, <2>4
  <2> QED
    BY <2>5 DEF l
<1>4. /\ right \in Seq(S) /\ Len(right) = n - i
      /\ \A k \in 1 .. n - i : right[k] = q[i + k]
  <2>1. j \in Int /\ n \in Int /\ \A k \in j .. n : k \in 1 .. n
    BY <1>2
  <2>2. \A k \in j .. n : q[k] \in S
    BY <1>1, <2>1, ElementOfSeq
  <2> HIDE DEF j, n
  <2>3. /\ right \in Seq(S) /\ Len(right) = IF j <= n THEN n - j + 1 ELSE 0
        /\ \A k \in 1 .. n - j + 1 : right[k] = q[j + k - 1]
    BY <2>1, <2>2, SubSeqProperties
  <2>4. /\ (IF j <= n THEN n - j + 1 ELSE 0) = n - i /\ n - j + 1 = n - i
        /\ \A k \in 1 .. n - i : j + k - 1 = i + k
    BY <1>2 DEF j
  <2> QED
    BY <2>3, <2>4
<1> HIDE DEF n, left, right, j
<1>5. /\ a \in Seq(S) /\ Len(a) = Len(left) + Len(right)
      /\ \A k \in 1 .. Len(left) + Len(right) :
           a[k] = IF k <= Len(left) THEN left[k] ELSE right[k - Len(left)]
  BY <1>3, <1>4, ConcatProperties
<1>6. Len(left) + Len(right) = n - 1
  BY <1>2, <1>3, <1>4
<1>7. \A k \in 1 .. n - 1 : a[k] = IF k < i THEN q[k] ELSE q[k + 1]
  <2> SUFFICES ASSUME NEW k \in 1 .. n - 1 PROVE a[k] = IF k < i THEN q[k] ELSE q[k + 1]
    OBVIOUS
  <2>1. a[k] = IF k <= Len(left) THEN left[k] ELSE right[k - Len(left)]
    BY <1>5, <1>6
  <2>2. CASE k < i
    <3>1. k <= i - 1 /\ k \in 1 .. i - 1
      BY <1>2, <2>2
    <3> QED
      BY <1>3, <2>1, <2>2, <3>1
  <2>3. CASE ~(k < i)
    <3>1. /\ ~(k <= i - 1) /\ k - (i - 1) \in 1 .. n - i /\ i + (k - (i - 1)) = k + 1
      BY <1>2, <2>3
    <3>2. right[k - (i - 1)] = q[k + 1]
      BY <1>4, <3>1
    <3> QED
      BY <1>3, <2>1, <2>3, <3>1, <3>2
  <2> QED
    BY <2>2, <2>3
<1>8. RemoveAt(q, i) = a
  BY DEF RemoveAt, left, right, j, n
<1> HIDE DEF a
<1> QED
  BY <1>1, <1>2, <1>5, <1>6, <1>7, <1>8 DEF Asked, n

LEMMA NoneAsked == Asked(<<>>)
<1> DEFINE S == {}
<1>1. <<>> \in Seq(S) /\ \A r \in S : TypedRequest(r)
  OBVIOUS
<1> HIDE DEF S
<1> QED
  BY <1>1 DEF Asked

LEMMA RequestTyped ==
    ASSUME NEW kind \in Listings \cup Writes, NEW dir \in Paths, NEW names \in SUBSET Names,
           NEW to, NEW tree,
           kind \in {"add", "rename", "delete", "moveItem"} => \E n \in Names : names = {n},
           kind = "rename" => \E new \in Names : to = <<new>> /\ \A n \in names : new \in Kind(n),
           kind \in {"moveItems", "moveItem", "copyItems"} => to \in Paths
    PROVE  /\ TypedRequest(Request(kind, dir, names, to, tree))
           /\ Request(kind, dir, names, to, tree).kind = kind
BY RequestIsRequest DEF TypedRequest, Request

LEMMA FetchTyped ==
    ASSUME NEW kind \in Listings, NEW dir \in Paths, NEW tree
    PROVE  /\ TypedRequest(Fetch(kind, dir)) /\ Fetch(kind, dir).kind = kind
           /\ TypedRequest(FetchInto(kind, dir, tree))
<1>1. kind \notin {"add", "rename", "delete", "moveItem", "moveItems", "copyItems"}
  BY DEF Listings
<1>2. \A t : /\ TypedRequest(Request(kind, dir, {}, <<>>, t))
             /\ Request(kind, dir, {}, <<>>, t).kind = kind
  BY <1>1, RequestTyped
<1> QED
  BY <1>2 DEF Fetch, FetchInto

LEMMA StaysItself == ASSUME NEW pg, TypedPage(pg) PROVE Stays(pg, pg)
BY DEF Stays

LEMMA StaysMore ==
    ASSUME NEW pg, NEW q, NEW s, Stays(pg, q), Stays(q, s) PROVE Stays(pg, s)
BY DEF Stays

LEMMA SetTreeStays == ASSUME NEW pg, TypedPage(pg), NEW t PROVE Stays(pg, SetTree(pg, t))
BY DEF SetTree, Stays, TypedPage, IsPage, PageFields

LEMMA TreeLoadingStays ==
    ASSUME NEW pg, TypedPage(pg), NEW b PROVE Stays(pg, [pg EXCEPT !.treeLoading = b])
BY DEF Stays, TypedPage, IsPage, PageFields

LEMMA SendStays ==
    ASSUME NEW pg, TypedPage(pg), NEW r, TypedRequest(r)
    PROVE  /\ Stays(pg, Send(pg, r))
           /\ AsksForList(pg.sends) \/ r.kind = "list" => AsksForList(Send(pg, r).sends)
<1> DEFINE a == Append(pg.sends, r)
<1>1. Asked(a) /\ (AsksForList(pg.sends) \/ r.kind = "list" => AsksForList(a))
  BY AppendAsked DEF TypedPage
<1>2. Requested(a)
  BY AppendRequested DEF TypedPage, IsPage, TypedRequest
<1>3. Send(pg, r) = [pg EXCEPT !.sends = a]
  BY DEF Send
<1> HIDE DEF a
<1> QED
  BY <1>1, <1>2, <1>3 DEF Stays, TypedPage, IsPage, PageFields

LEMMA ResetSelectedStays ==
    ASSUME NEW pg, TypedPage(pg) PROVE Stays(pg, ResetSelected(pg))
BY DEF ResetSelected, Stays, TypedPage, IsPage, PageFields

LEMMA InTreeStays ==
    ASSUME NEW pg, TypedPage(pg), NEW change, Stays(pg, change)
    PROVE  Stays(pg, InTree(pg, change))
BY StaysItself DEF InTree

LEMMA LoadSidePanelStays ==
    ASSUME NEW pg, TypedPage(pg), NEW p \in Paths
    PROVE  /\ Stays(pg, LoadSidePanel(pg, p))
           /\ AsksForList(pg.sends) => AsksForList(LoadSidePanel(pg, p).sends)
<1>1. /\ TypedRequest(Fetch("root", p))
      /\ TypedRequest(FetchInto("parents", p, pg.tree))
  BY FetchTyped DEF Listings
<1> QED
  BY <1>1, SendStays DEF LoadSidePanel

LEMMA LoadTreeNodeByPathStays ==
    ASSUME NEW pg, TypedPage(pg), NEW p \in Paths PROVE Stays(pg, LoadTreeNodeByPath(pg, p))
<1>1. TypedRequest(FetchInto("node", p, pg.tree))
  BY FetchTyped DEF Listings
<1> QED
  BY <1>1, SendStays, SetTreeStays DEF LoadTreeNodeByPath

LEMMA AddNodeToTreeStays ==
    ASSUME NEW pg, TypedPage(pg), NEW dir, NEW n PROVE Stays(pg, AddNodeToTree(pg, dir, n))
BY SetTreeStays, StaysItself DEF AddNodeToTree

(* The tree asks for a folder that the server gave as one to move to. *)
LEMMA UpdateMoveCopyTreeNodeStays ==
    ASSUME NEW pg, TypedPage(pg), NEW p \in Paths
    PROVE  Stays(pg, UpdateMoveCopyTreeNode(pg, p))
<1>1. TypedRequest(FetchInto("into", p, pg.tree))
  BY FetchTyped DEF Listings
<1> QED
  BY <1>1, SendStays, StaysItself DEF UpdateMoveCopyTreeNode

(* The list that is loaded is asked for. *)
LEMMA LoadDirentListAsks ==
    ASSUME NEW pg, TypedPage(pg), NEW p \in Paths
    PROVE  /\ TypedPage(LoadDirentList(pg, p)) /\ AsksForList(LoadDirentList(pg, p).sends)
<1> DEFINE q == [pg EXCEPT !.loading = TRUE, !.list = {}, !.marked = {}, !.path = p]
<1>1. TypedPage(q)
  BY DEF TypedPage, IsPage, PageFields
<1>2. TypedRequest(Fetch("list", p)) /\ Fetch("list", p).kind = "list"
  BY FetchTyped DEF Listings
<1>3. LoadDirentList(pg, p) = Send(q, Fetch("list", p))
  BY DEF LoadDirentList
<1> HIDE DEF q
<1> QED
  BY <1>1, <1>2, <1>3, SendStays DEF Stays

LEMMA ShowDirAsks ==
    ASSUME NEW pg, TypedPage(pg), NEW p \in Paths
    PROVE  /\ TypedPage(ShowDir(pg, p)) /\ AsksForList(ShowDir(pg, p).sends)
<1> DEFINE q == [pg EXCEPT !.selected = {}]
           l == LoadDirentList(q, p)
<1>1. TypedPage(q)
  BY DEF TypedPage, IsPage, PageFields
<1> HIDE DEF q
<1>2. TypedPage(l) /\ AsksForList(l.sends)
  BY <1>1, LoadDirentListAsks
<1>3. ShowDir(pg, p) = IF pg.push THEN [l EXCEPT !.hist = Append(@, p)]
                       ELSE [l EXCEPT !.push = TRUE]
  BY DEF ShowDir, q
<1> HIDE DEF l
<1>4. Append(l.hist, p) \in Seq(Paths)
  BY <1>2, AppendProperties DEF TypedPage
<1>5. CASE pg.push
  <2>1. ShowDir(pg, p) = [l EXCEPT !.hist = Append(@, p)]
    BY <1>3, <1>5
  <2> QED
    BY <1>2, <1>4, <2>1 DEF TypedPage, IsPage, PageFields
<1>6. CASE ~pg.push
  <2>1. ShowDir(pg, p) = [l EXCEPT !.push = TRUE]
    BY <1>3, <1>6
  <2> QED
    BY <1>2, <2>1 DEF TypedPage, IsPage, PageFields
<1> QED
  BY <1>5, <1>6

LEMMA FrontOfHist ==
    ASSUME NEW h \in Seq(Paths)
    PROVE  /\ Front(h) \in Seq(Paths)
           /\ Len(h) > 1 => Last(Front(h)) \in Paths
<1> DEFINE n == Len(h) - 1
<1>1. Len(h) \in Nat /\ n \in Int /\ 1 \in Int /\ \A i \in 1 .. n : i \in 1 .. Len(h)
  BY LenProperties
<1>2. \A i \in 1 .. n : h[i] \in Paths
  BY <1>1, ElementOfSeq
<1>3. n - 1 + 1 = n /\ (Len(h) > 1 => 1 <= n /\ n \in 1 .. n)
  BY <1>1
<1>4. Front(h) = SubSeq(h, 1, n)
  BY DEF Front
<1> HIDE DEF n
<1>5. SubSeq(h, 1, n) \in Seq(Paths) /\ Len(SubSeq(h, 1, n)) = IF 1 <= n THEN n - 1 + 1 ELSE 0
  BY <1>1, <1>2, SubSeqProperties
<1>6. Len(h) > 1 => Len(Front(h)) = n /\ n \in 1 .. Len(Front(h))
  BY <1>3, <1>4, <1>5
<1>7. Front(h) \in Seq(Paths)
  BY <1>4, <1>5
<1>8. Len(h) > 1 => Front(h)[n] \in Paths
  BY <1>6, <1>7, ElementOfSeq
<1> QED
  BY <1>6, <1>7, <1>8 DEF Last

LEMMA MoveAddressTyped ==
    ASSUME NEW pg, TypedPage(pg), NEW p \in Paths
    PROVE  /\ TypedPage(MoveAddress(pg, p)) /\ MoveAddress(pg, p).path = p
           /\ MoveAddress(pg, p).exists = pg.exists /\ MoveAddress(pg, p).list = pg.list
<1> DEFINE h == Append(Front(pg.hist), p)
           k == IF pg.picked = pg.path THEN p ELSE pg.picked
<1>1. h \in Seq(Paths)
  BY FrontOfHist, AppendProperties DEF TypedPage
<1>2. MoveAddress(pg, p) = [pg EXCEPT !.path = p, !.hist = h, !.picked = k]
  BY DEF MoveAddress, TypedPage, IsPage, PageFields
<1> HIDE DEF h, k
<1> QED
  BY <1>1, <1>2 DEF TypedPage, IsPage, PageFields

(* A renamed path is a path, wherever the old name occurs in it. *)
LEMMA RenameAncestorPathType ==
    ASSUME NEW p \in Paths, NEW anc \in Paths, NEW new \in Paths, IsAncestorPath(anc, p)
    PROVE  RenameAncestorPath(p, anc, new) \in Paths
<1> DEFINE S == Places(anc, p)
           i == CHOOSE j \in S : \A k \in S : j <= k
<1>1. Len(p) \in Nat /\ Len(anc) \in Nat
  BY LenProperties DEF Paths
<1>2. S \subseteq 1 .. Len(p) + 1 - Len(anc) /\ S # {}
  BY DEF IsAncestorPath, Places
<1>3. S \in SUBSET Nat
  BY <1>1, <1>2
<1>4. RenameAncestorPath(p, anc, new) =
        (SubSeq(p, 1, i - 1) \o new) \o SubSeq(p, i + Len(anc), Len(p))
  BY DEF RenameAncestorPath
<1> HIDE DEF S
<1>5. \E j \in S : \A k \in S : j <= k
  BY <1>2, <1>3, Least
<1>6. i \in S
  BY <1>5
<1> HIDE DEF i
<1>7. i \in Nat /\ 1 <= i /\ i <= Len(p) + 1
  BY <1>1, <1>2, <1>6
<1> DEFINE l == i - 1
           m == i + Len(anc)
           n == Len(p)
<1>8. /\ l \in Int /\ m \in Int /\ n \in Int /\ 1 \in Int
      /\ \A k \in 1 .. l : k \in 1 .. n
      /\ \A k \in m .. n : k \in 1 .. n
  BY <1>1, <1>7
<1>9. \A k \in 1 .. n : p[k] \in Names
  BY ElementOfSeq DEF Paths
<1>10. (\A k \in 1 .. l : p[k] \in Names) /\ (\A k \in m .. n : p[k] \in Names)
  BY <1>8, <1>9
<1> HIDE DEF l, m, n
<1>11. SubSeq(p, 1, l) \in Paths /\ SubSeq(p, m, n) \in Paths
  BY <1>8, <1>10, SubSeqProperties DEF Paths
<1>12. (SubSeq(p, 1, l) \o new) \o SubSeq(p, m, n) \in Paths
  BY <1>11, Joined
<1> QED
  BY <1>4, <1>12 DEF l, m, n

LEMMA NamesInType ==
    ASSUME NEW r, TypedRequest(r), NEW dir PROVE NamesIn(r, dir) \subseteq Names
BY PathOfChild DEF NamesIn, TypedRequest

-----------------------------------------------------------------------------
(* What an answer does to the page is what the view says *)

LEMMA ViewFields ==
    /\ View(page).path = page.path /\ View(page).exists = page.exists
    /\ View(page).list = page.list /\ View(page).sent = FALSE
    /\ IsView(View(page))
BY DEF View, IsView

LEMMA StaysMirrors == ASSUME NEW q, Stays(page, q) PROVE Mirrors(q, View(page))
BY ViewFields DEF Stays, Mirrors

LEMMA AsksMirrors ==
    ASSUME NEW q, TypedPage(q), AsksForList(q.sends), NEW v, v.sent = TRUE
    PROVE  Mirrors(q, v)
BY DEF Mirrors

LEMMA DeleteDirentsLooks ==
    ASSUME NEW q, Stays(page, q), NEW names
    PROVE  /\ Mirrors(DeleteDirents(q, names), Without(View(page), names))
           /\ Mirrors(MoveDirents(q, names), Without(View(page), names))
<1>1. TypedPage(q) /\ q.path = page.path /\ q.exists = page.exists /\ q.list = page.list
  BY DEF Stays
<1>2. LET d == DeleteDirents(q, names) IN
      /\ TypedPage(d) /\ d.path = page.path /\ d.exists = page.exists
      /\ d.list = page.list \ names
  BY <1>1 DEF DeleteDirents, TypedPage, IsPage, PageFields
<1>3. LET d == MoveDirents(q, names) IN
      /\ TypedPage(d) /\ d.path = page.path /\ d.exists = page.exists
      /\ d.list = page.list \ names
  BY <1>1 DEF DeleteDirents, MoveDirents, TypedPage, IsPage, PageFields
<1>4. LET w == Without(View(page), names) IN
      /\ w.path = page.path /\ w.exists = page.exists /\ w.list = page.list \ names
      /\ w.sent = FALSE
  BY DEF Without, View
<1> QED
  BY <1>2, <1>3, <1>4 DEF Mirrors

LEMMA ReloadedIsSent == ASSUME NEW p PROVE Reloaded(View(page), p).sent = TRUE
BY DEF Reloaded, View

LEMMA DeleteDirentLooks ==
    ASSUME NEW q, Stays(page, q), NEW p \in Paths, p # <<>>
    PROVE  Mirrors(DeleteDirent(q, p), AfterDelete(View(page), p))
<1>1. TypedPage(q) /\ q.path = page.path
  BY DEF Stays
<1>2. Front(p) \in Paths
  BY PathOfChild
<1>3. Mirrors(ShowDir(q, Front(p)), Reloaded(View(page), Front(p)))
  BY <1>1, <1>2, ShowDirAsks, ReloadedIsSent, AsksMirrors
<1>4. Mirrors(DeleteDirents(q, {Last(p)}), Without(View(page), {Last(p)}))
  BY DeleteDirentsLooks
<1>5. Mirrors(q, View(page))
  BY StaysMirrors
<1> QED
  BY <1>1, <1>3, <1>4, <1>5, ViewFields DEF DeleteDirent, AfterDelete

LEMMA RenameDirentLooks ==
    ASSUME NEW q, Stays(page, q), NEW p \in Paths, p # <<>>, NEW new \in Names
    PROVE  Mirrors(RenameDirent(q, p, new), AfterRename(View(page), p, new))
<1> DEFINE v == View(page)
           n == Last(p)
           row == [q EXCEPT !.list = Renamed(@, n, new),
                            !.marked = Renamed(@, n, new),
                            !.selected = IF n \in q.marked THEN Renamed(@, n, new) ELSE @]
           there == Child(Front(p), new)
           below == RenameAncestorPath(q.path, p, there)
<1>1. /\ TypedPage(q) /\ q.path = page.path /\ q.exists = page.exists /\ q.list = page.list
      /\ page.path \in Paths
  BY DEF Stays, TypedPage
<1>2. there \in Paths
  BY PathOfChild, ChildPath
<1>3. ASSUME NEW d \in Paths PROVE Mirrors(MoveAddress(q, d), [v EXCEPT !.path = d])
  <2>1. LET w == [v EXCEPT !.path = d] IN
        /\ w.path = d /\ w.exists = page.exists /\ w.list = page.list /\ w.sent = FALSE
    BY DEF View
  <2> QED
    BY <1>1, <2>1, MoveAddressTyped DEF Mirrors
<1>4. IsAncestorPath(p, q.path) => below \in Paths
  BY <1>1, <1>2, RenameAncestorPathType
<1>5. Mirrors(row, [v EXCEPT !.list = Renamed(@, n, new)])
  <2>1. LET w == [v EXCEPT !.list = Renamed(@, n, new)] IN
        /\ w.path = page.path /\ w.exists = page.exists /\ w.sent = FALSE
        /\ w.list = Renamed(page.list, n, new)
    BY DEF View
  <2> DEFINE sel == IF n \in q.marked THEN Renamed(q.selected, n, new) ELSE q.selected
  <2>2. /\ Renamed(q.list, n, new) \subseteq Names
        /\ Renamed(q.marked, n, new) \subseteq Renamed(q.list, n, new)
        /\ sel \subseteq Names
    BY <1>1 DEF Renamed, TypedPage
  <2>3. row = [q EXCEPT !.list = Renamed(q.list, n, new), !.marked = Renamed(q.marked, n, new),
                        !.selected = sel]
    BY <1>1 DEF TypedPage, IsPage, PageFields
  <2> HIDE DEF sel, row
  <2>4. /\ TypedPage(row) /\ row.path = page.path /\ row.exists = page.exists
        /\ row.list = Renamed(page.list, n, new)
    BY <1>1, <2>2, <2>3 DEF TypedPage, IsPage, PageFields
  <2> QED
    BY <2>1, <2>4 DEF Mirrors
<1>6. Mirrors(q, v)
  BY StaysMirrors
<1>7. RenameDirent(q, p, new) =
        IF p = q.path THEN MoveAddress(q, there)
        ELSE IF Front(p) = q.path THEN row
        ELSE IF IsAncestorPath(p, q.path) THEN MoveAddress(q, below)
        ELSE q
  BY DEF RenameDirent
<1>8. AfterRename(v, p, new) =
        IF p = q.path THEN [v EXCEPT !.path = there]
        ELSE IF Front(p) = q.path THEN [v EXCEPT !.list = Renamed(@, n, new)]
        ELSE IF IsAncestorPath(p, q.path) THEN [v EXCEPT !.path = below]
        ELSE v
  <2>1. v.path = q.path
    BY <1>1, ViewFields
  <2>2. [v EXCEPT !.path = below] = [v EXCEPT !.path = RenameAncestorPath(@, p, there)]
    BY <2>1 DEF View
  <2> QED
    BY <2>1, <2>2 DEF AfterRename
<1> HIDE DEF row, there, below, v
<1>9. CASE p = q.path
  BY <1>2, <1>3, <1>7, <1>8, <1>9 DEF v
<1>10. CASE p # q.path /\ Front(p) = q.path
  BY <1>5, <1>7, <1>8, <1>10 DEF v
<1>11. CASE p # q.path /\ Front(p) # q.path /\ IsAncestorPath(p, q.path)
  BY <1>3, <1>4, <1>7, <1>8, <1>11 DEF v
<1>12. CASE p # q.path /\ Front(p) # q.path /\ ~IsAncestorPath(p, q.path)
  BY <1>6, <1>7, <1>8, <1>12 DEF v
<1> QED
  BY <1>9, <1>10, <1>11, <1>12

LEMMA WrittenLooks ==
    ASSUME TypedPage(page), NEW r, TypedRequest(r), r.kind \in Writes
    PROVE  Mirrors(Written(r), AfterWrite(View(page), r))
<1> DEFINE n == CHOOSE m \in r.names : TRUE
           p == Child(r.dir, n)
           paths == PathSeq(r.dir, r.names)
           v == View(page)
<1>1. \A t : Stays(page, InTree(page, SetTree(page, t)))
  BY SetTreeStays, InTreeStays
<1>2. r.kind \in {"add", "rename", "delete", "moveItem"} => n \in Names /\ p \in Paths /\ p # <<>>
  <2>1. r.kind \in {"add", "rename", "delete", "moveItem"} => n \in Names
    BY OnlyName
  <2>2. r.dir \in Paths
    BY DEF TypedRequest
  <2> HIDE DEF n
  <2> QED
    BY <2>1, <2>2, ChildPath
<1>3. v.path = page.path
  BY ViewFields
<1>4. CASE r.kind = "add"
  <2> DEFINE q == InTree(page, AddNodeToTree(page, r.dir, n))
  <2>1. Stays(page, q)
    BY AddNodeToTreeStays, InTreeStays
  <2>2. Written(r) = IF r.dir = page.path THEN AddDirent(q, n) ELSE q
    BY <1>4 DEF Written
  <2>3. AfterWrite(v, r) = IF r.dir = page.path THEN [v EXCEPT !.list = @ \cup {n}] ELSE v
    BY <1>3, <1>4 DEF AfterWrite
  <2> HIDE DEF q
  <2>4. Mirrors(AddDirent(q, n), [v EXCEPT !.list = @ \cup {n}])
    <3>1. n \in Names
      BY <1>2, <1>4
    <3> HIDE DEF n
    <3>2. TypedPage(q) /\ q.path = page.path /\ q.exists = page.exists /\ q.list = page.list
      BY <2>1 DEF Stays
    <3>3. LET a == AddDirent(q, n) IN
          /\ TypedPage(a) /\ a.path = page.path /\ a.exists = page.exists
          /\ a.list = page.list \cup {n}
      BY <3>1, <3>2 DEF AddDirent, TypedPage, IsPage, PageFields
    <3>4. LET w == [v EXCEPT !.list = @ \cup {n}] IN
          /\ w.path = page.path /\ w.exists = page.exists /\ w.list = page.list \cup {n}
          /\ w.sent = FALSE
      BY DEF View
    <3> QED
      BY <3>3, <3>4 DEF Mirrors
  <2> HIDE DEF n
  <2> QED
    BY <2>1, <2>2, <2>3, <2>4, StaysMirrors
<1>5. CASE r.kind = "rename"
  <2> DEFINE q == InTree(page, SetTree(page, RenameNodeByPath(page.tree, p, r.to[1])))
  <2>1. Written(r) = RenameDirent(q, p, r.to[1])
    BY <1>5 DEF Written
  <2>2. AfterWrite(v, r) = AfterRename(v, p, r.to[1])
    BY <1>5 DEF AfterWrite
  <2>3. Stays(page, q)
    BY <1>1
  <2>4. r.to[1] \in Names
    BY <1>5 DEF TypedRequest
  <2>5. p \in Paths /\ p # <<>>
    BY <1>2, <1>5
  <2> HIDE DEF q, p
  <2> QED
    BY <2>1, <2>2, <2>3, <2>4, <2>5, RenameDirentLooks
<1>6. CASE r.kind = "delete"
  <2> DEFINE q == InTree(page, SetTree(page, DeleteNodeByPath(page.tree, p)))
  <2>1. Written(r) = DeleteDirent(q, p)
    BY <1>6 DEF Written
  <2>2. AfterWrite(v, r) = AfterDelete(v, p)
    BY <1>6 DEF AfterWrite
  <2>3. Stays(page, q)
    BY <1>1
  <2>4. p \in Paths /\ p # <<>>
    BY <1>2, <1>6
  <2> HIDE DEF q, p
  <2> QED
    BY <2>1, <2>2, <2>3, <2>4, DeleteDirentLooks
<1>7. CASE r.kind = "deleteItems"
  <2> DEFINE q == InTree(page, SetTree(page, DeleteNodeListByPaths(page.tree, paths)))
  <2>1. Written(r) = DeleteDirents(q, r.names)
    BY <1>7 DEF Written
  <2>2. AfterWrite(v, r) = Without(v, r.names)
    BY <1>7 DEF AfterWrite
  <2>3. Stays(page, q)
    BY <1>1
  <2> HIDE DEF q
  <2> QED
    BY <2>1, <2>2, <2>3, DeleteDirentsLooks
<1>8. CASE r.kind = "moveItems"
  <2> DEFINE q == InTree(page, SetTree(page, MoveNodeListByPaths(page.tree, paths, r.to)))
  <2>1. Written(r) = MoveDirents(q, r.names)
    BY <1>8 DEF Written
  <2>2. AfterWrite(v, r) = Without(v, r.names)
    BY <1>8 DEF AfterWrite
  <2>3. Stays(page, q)
    BY <1>1
  <2> HIDE DEF q
  <2> QED
    BY <2>1, <2>2, <2>3, DeleteDirentsLooks
<1>9. CASE r.kind = "moveItem"
  <2> DEFINE t == SetTree(page, DeleteNodeByPath(page.tree, p))
             u == UpdateMoveCopyTreeNode(t, r.to)
             q == InTree(page, u)
  <2>1. Written(r) = IF r.to = q.path THEN LoadDirentList(q, q.path)
                     ELSE DeleteDirents(q, {Last(p)})
    BY <1>9 DEF Written, MoveDirent
  <2>2. AfterWrite(v, r) = IF r.to = v.path THEN Reloaded(v, v.path) ELSE Without(v, {Last(p)})
    BY <1>9 DEF AfterWrite
  <2>3. Stays(page, t)
    BY SetTreeStays
  <2> HIDE DEF t, p
  <2>4. r.to \in Paths
    BY <1>9 DEF TypedRequest
  <2>5. Stays(page, u)
    BY <2>3, <2>4, UpdateMoveCopyTreeNodeStays, StaysMore DEF Stays
  <2> HIDE DEF u
  <2>6. Stays(page, q)
    BY <2>5, InTreeStays
  <2> HIDE DEF q
  <2>7. TypedPage(q) /\ q.path \in Paths /\ q.path = v.path
    BY <1>3, <2>6 DEF Stays, TypedPage
  <2>8. Mirrors(LoadDirentList(q, q.path), Reloaded(v, v.path))
    BY <2>7, LoadDirentListAsks, ReloadedIsSent, AsksMirrors
  <2>9. Mirrors(DeleteDirents(q, {Last(p)}), Without(v, {Last(p)}))
    BY <2>6, DeleteDirentsLooks
  <2> QED
    BY <2>1, <2>2, <2>7, <2>8, <2>9
<1>10. CASE r.kind = "copyItems"
  <2> DEFINE s == ResetSelected(page)
             u == UpdateMoveCopyTreeNode(s, r.to)
             q == InTree(s, u)
  <2>1. Written(r) = IF r.to = page.path THEN LoadDirentList(q, page.path) ELSE q
    BY <1>10 DEF Written
  <2>2. AfterWrite(v, r) = IF r.to = page.path THEN Reloaded(v, v.path) ELSE v
    BY <1>3, <1>10 DEF AfterWrite
  <2>3. Stays(page, s) /\ TypedPage(s)
    BY ResetSelectedStays DEF Stays
  <2> HIDE DEF s
  <2>4. r.to \in Paths
    BY <1>10 DEF TypedRequest
  <2>5. Stays(s, u)
    BY <2>3, <2>4, UpdateMoveCopyTreeNodeStays
  <2> HIDE DEF u
  <2>6. Stays(page, q)
    BY <2>3, <2>5, InTreeStays, StaysMore
  <2> HIDE DEF q
  <2>7. TypedPage(q) /\ page.path \in Paths
    BY <2>6 DEF Stays, TypedPage
  <2>8. Mirrors(LoadDirentList(q, page.path), Reloaded(v, v.path))
    BY <2>7, LoadDirentListAsks, ReloadedIsSent, AsksMirrors
  <2>9. Mirrors(q, v)
    BY <2>6, StaysMirrors
  <2> QED
    BY <2>1, <2>2, <2>8, <2>9
<1> HIDE DEF n, p, paths, v
<1> QED
  BY <1>4, <1>5, <1>6, <1>7, <1>8, <1>9, <1>10 DEF Writes, v

LEMMA TreeAnsweredStays ==
    ASSUME TypedPage(page), NEW r, TypedRequest(r),
           r.kind \notin Writes, r.kind \notin {"list", "notice"}
    PROVE  Stays(page, TreeAnswered(r))
<1>1. r.kind \in {"root", "parents", "node", "click", "expand", "into"}
  BY DEF TypedRequest, IsRequest, Listings
<1>2. \A t : /\ Stays(page, SetTree(page, t))
             /\ Stays(page, [SetTree(page, t) EXCEPT !.treeLoading = FALSE])
  BY SetTreeStays, TreeLoadingStays, StaysMore DEF Stays
<1>3. \/ TreeAnswered(r) = page
      \/ \E t : TreeAnswered(r) \in {SetTree(page, t),
                                     [SetTree(page, t) EXCEPT !.treeLoading = FALSE]}
  <2>1. CASE r.kind = "root"
    BY <2>1 DEF TreeAnswered
  <2>2. CASE r.kind = "parents"
    BY <2>2 DEF TreeAnswered
  <2>3. CASE r.kind = "node"
    BY <2>3 DEF TreeAnswered
  <2>4. CASE r.kind = "click"
    BY <2>4 DEF TreeAnswered
  <2>5. CASE r.kind = "expand"
    BY <2>5 DEF TreeAnswered
  <2>6. CASE r.kind = "into"
    BY <2>6 DEF TreeAnswered
  <2> QED
    BY <1>1, <2>1, <2>2, <2>3, <2>4, <2>5, <2>6
<1> QED
  BY <1>2, <1>3, StaysItself

LEMMA RefusedLooks ==
    ASSUME TypedPage(page), NEW r
    PROVE  Mirrors(Refused(r), IF r.kind = "list" THEN [View(page) EXCEPT !.exists = FALSE]
                               ELSE View(page))
<1>1. CASE r.kind = "list"
  <2>1. /\ TypedPage(ListRefused) /\ ListRefused.path = page.path
        /\ ListRefused.exists = FALSE /\ ListRefused.list = page.list
    BY DEF ListRefused, TypedPage, IsPage, PageFields
  <2>2. LET w == [View(page) EXCEPT !.exists = FALSE] IN
        w.path = page.path /\ w.exists = FALSE /\ w.list = page.list /\ w.sent = FALSE
    BY DEF View
  <2>3. Refused(r) = ListRefused
    BY <1>1 DEF Refused
  <2> QED
    BY <1>1, <2>1, <2>2, <2>3 DEF Mirrors
<1>2. CASE r.kind # "list"
  <2>1. Refused(r) = page \/ Refused(r) = [page EXCEPT !.treeLoading = FALSE]
    BY <1>2 DEF Refused
  <2>2. Stays(page, Refused(r))
    BY <2>1, StaysItself, TreeLoadingStays
  <2> QED
    BY <1>2, <2>2, StaysMirrors
<1> QED
  BY <1>1, <1>2

LEMMA ListShownLooks ==
    ASSUME TypedPage(page), NEW r, TypedRequest(r)
    PROVE  Mirrors(ListShown(r), [View(page) EXCEPT !.exists = TRUE, !.path = r.dir,
                                                    !.list = NamesIn(r, r.dir)])
<1> DEFINE names == NamesIn(r, r.dir)
           w == [View(page) EXCEPT !.exists = TRUE, !.path = r.dir, !.list = names]
<1>1. names \subseteq Names /\ r.dir \in Paths
  BY NamesInType DEF TypedRequest
<1>2. ListShown(r) = [page EXCEPT !.exists = TRUE, !.loading = FALSE, !.marked = {},
                                  !.list = names, !.path = r.dir]
  BY DEF ListShown
<1>3. w.path = r.dir /\ w.exists = TRUE /\ w.list = names /\ w.sent = FALSE
  BY DEF View
<1> HIDE DEF names, w
<1>4. /\ TypedPage(ListShown(r)) /\ ListShown(r).path = r.dir
      /\ ListShown(r).exists = TRUE /\ ListShown(r).list = names
  BY <1>1, <1>2 DEF TypedPage, IsPage, PageFields
<1>5. Mirrors(ListShown(r), w)
  BY <1>3, <1>4 DEF Mirrors
<1> QED
  BY <1>5 DEF w, names

LEMMA NoticeShownLooks ==
    ASSUME TypedPage(page), NEW r, TypedRequest(r)
    PROVE  Mirrors(NoticeShown(r), [View(page) EXCEPT !.exists = TRUE,
                                                      !.list = NamesIn(r, r.dir)])
<1> DEFINE names == NamesIn(r, r.dir)
           w == [View(page) EXCEPT !.exists = TRUE, !.list = names]
           shown == [page EXCEPT !.exists = TRUE, !.loading = FALSE, !.marked = {},
                                 !.list = names]
<1>1. names \subseteq Names
  BY NamesInType
<1>2. NoticeShown(r) = shown \/ \E t : NoticeShown(r) = SetTree(shown, t)
  BY DEF NoticeShown
<1>3. w.path = page.path /\ w.exists = TRUE /\ w.list = names /\ w.sent = FALSE
  BY DEF View
<1> HIDE DEF names, w
<1>4. /\ TypedPage(shown) /\ shown.path = page.path
      /\ shown.exists = TRUE /\ shown.list = names
  BY <1>1 DEF TypedPage, IsPage, PageFields
<1> HIDE DEF shown
<1>5. /\ TypedPage(NoticeShown(r)) /\ NoticeShown(r).path = page.path
      /\ NoticeShown(r).exists = TRUE /\ NoticeShown(r).list = names
  BY <1>2, <1>4, SetTreeStays DEF Stays
<1>6. Mirrors(NoticeShown(r), w)
  BY <1>3, <1>5 DEF Mirrors
<1> QED
  BY <1>6 DEF w, names

LEMMA AnsweredLooks ==
    ASSUME TypedPage(page), NEW r, TypedRequest(r)
    PROVE  Mirrors(Answered(r), After(View(page), r))
<1>1. CASE r.reply = "refused"
  <2>1. /\ Answered(r) = Refused(r)
        /\ After(View(page), r) = IF r.kind = "list" THEN [View(page) EXCEPT !.exists = FALSE]
                                  ELSE View(page)
    BY <1>1 DEF Answered, After
  <2> QED
    BY <2>1, RefusedLooks
<1>2. CASE r.reply # "refused"
  <2>1. CASE r.kind = "list"
    <3>1. /\ Answered(r) = ListShown(r)
          /\ After(View(page), r) = [View(page) EXCEPT !.exists = TRUE, !.path = r.dir,
                                                       !.list = NamesIn(r, r.dir)]
      BY <1>2, <2>1 DEF Answered, After, Writes
    <3> QED
      BY <3>1, ListShownLooks
  <2>2. CASE r.kind = "notice"
    <3>1. /\ Answered(r) = NoticeShown(r)
          /\ After(View(page), r) = [View(page) EXCEPT !.exists = TRUE,
                                                       !.list = NamesIn(r, r.dir)]
      BY <1>2, <2>2 DEF Answered, After, Writes
    <3> QED
      BY <3>1, NoticeShownLooks
  <2>3. CASE r.kind \in Writes
    <3>1. Answered(r) = Written(r) /\ After(View(page), r) = AfterWrite(View(page), r)
      <4>1. r.kind # "list" /\ r.kind # "notice"
        BY <2>3 DEF Writes
      <4> QED
        BY <1>2, <2>3, <4>1 DEF Answered, After
    <3> QED
      BY <2>3, <3>1, WrittenLooks
  <2>4. CASE r.kind \notin Writes /\ r.kind \notin {"list", "notice"}
    <3>1. Answered(r) = TreeAnswered(r) /\ After(View(page), r) = View(page)
      BY <1>2, <2>4 DEF Answered, After
    <3> QED
      BY <2>4, <3>1, TreeAnsweredStays, StaysMirrors
  <2> QED
    BY <2>1, <2>2, <2>3, <2>4
<1> QED
  BY <1>1, <1>2

(* An answer that is not about the list leaves the view as it is. *)
LEMMA OffList ==
    ASSUME NEW r, r.kind \notin OnList, NEW v
    PROVE  After(v, r) = v /\ Fits(v, r)
<1>1. r.kind \notin {"list", "notice"} /\ r.kind \notin Writes
  BY DEF OnList
<1>2. After(v, r) = v
  BY <1>1 DEF After
<1>3. Fits(v, r)
  BY <1>1 DEF Fits, WriteFits, Writes
<1> QED
  BY <1>2, <1>3

-----------------------------------------------------------------------------
(* The views that the answers lead through *)

Exact(v) ==
    /\ v = [path |-> v.path, exists |-> v.exists, list |-> v.list, sent |-> v.sent]
    /\ v.sent \in BOOLEAN

(* V[k] is what the page will show before the k-th answer is handled.      *)
Through(V, v, q) ==
    /\ V[1] = v
    /\ \A k \in 1 .. Len(q) : V[k + 1] = After(V[k], q[k])

AllFit(V, q) == \A k \in 1 .. Len(q) : Fits(V[k], q[k])

(* A list or a notice is on its way, and will say what is stored.          *)
Awaited(q) == \E i \in DOMAIN q : q[i].kind \in {"list", "notice"}

Waiting == notices > 0 \/ Awaited(requests)

(* Whatever the order of the answers, what they make of the list is what is *)
(* stored, or they make the page ask for it.                               *)
Settled(view, q, s) ==
    \A V : Through(V, view, q) /\ AllFit(V, q) =>
            V[Len(q) + 1].sent \/ Shows(s, V[Len(q) + 1])

Forgiven == {"dead", "back", "lost", "moved", "others", "stray"}

ListInv == trouble \ Forgiven = {} => Waiting \/ Settled(View(page), answers, server)

LEMMA ExactPath == ASSUME NEW v, Exact(v), NEW x PROVE Exact([v EXCEPT !.path = x])
BY DEF Exact

LEMMA ExactExists == ASSUME NEW v, Exact(v), NEW x PROVE Exact([v EXCEPT !.exists = x])
BY DEF Exact

LEMMA ExactList == ASSUME NEW v, Exact(v), NEW x PROVE Exact([v EXCEPT !.list = x])
BY DEF Exact

LEMMA ExactSent ==
    ASSUME NEW v, Exact(v), NEW x \in BOOLEAN PROVE Exact([v EXCEPT !.sent = x])
BY DEF Exact

LEMMA ExactField ==
    ASSUME NEW v, Exact(v), NEW x
    PROVE  /\ [v EXCEPT !.path = x].sent = v.sent
           /\ [v EXCEPT !.exists = x].sent = v.sent
           /\ [v EXCEPT !.list = x].sent = v.sent
           /\ IsView(v)
<1>1. DOMAIN v = {"path", "exists", "list", "sent"}
  BY DEF Exact
<1> QED
  BY <1>1 DEF IsView

LEMMA AfterExact ==
    ASSUME NEW v, Exact(v), NEW r
    PROVE  /\ Exact(After(v, r)) /\ (v.sent => After(v, r).sent)
           /\ IsView(v)
<1> DEFINE n == CHOOSE m \in r.names : TRUE
           p == Child(r.dir, n)
           Good(w) == Exact(w) /\ (v.sent => w.sent)
<1>1. ASSUME NEW w, Good(w), NEW x
      PROVE  Good([w EXCEPT !.path = x]) /\ Good([w EXCEPT !.exists = x])
             /\ Good([w EXCEPT !.list = x])
  BY <1>1, ExactPath, ExactExists, ExactList, ExactField
<1>2. ASSUME NEW w, Good(w) PROVE Good([w EXCEPT !.sent = TRUE])
  <2>1. Exact([w EXCEPT !.sent = TRUE])
    BY <1>2, ExactSent
  <2>2. [w EXCEPT !.sent = TRUE].sent
    BY <1>2, ExactField DEF IsView
  <2> QED
    BY <2>1, <2>2
<1>3. Good(v)
  OBVIOUS
<1> HIDE DEF Good
<1>4. ASSUME NEW l PROVE Good([v EXCEPT !.list = l])
  BY <1>1, <1>3
<1>5. /\ Good(v) /\ \A names : Good(Without(v, names))
      /\ \A q : Good(Reloaded(v, q))
  <2>1. ASSUME NEW names PROVE Good(Without(v, names))
    <3>1. Without(v, names) = [v EXCEPT !.list = v.list \ names]
      BY ExactField DEF Without, IsView
    <3> QED
      BY <1>4, <3>1
  <2>2. ASSUME NEW q PROVE Good(Reloaded(v, q))
    <3> DEFINE u == [v EXCEPT !.path = q]
               w == [u EXCEPT !.list = {}]
    <3>1. Good(u)
      BY <1>1, <1>3
    <3> HIDE DEF u
    <3>2. Good(w)
      BY <1>1, <3>1
    <3> HIDE DEF w
    <3>3. Good([w EXCEPT !.sent = TRUE])
      BY <1>2, <3>2
    <3> QED
      BY <3>3 DEF Reloaded, u, w
  <2> QED
    BY <1>3, <2>1, <2>2
<1>6. ASSUME NEW q, NEW e, NEW l
      PROVE  /\ Good([v EXCEPT !.path = q]) /\ Good([v EXCEPT !.exists = e])
             /\ Good([v EXCEPT !.exists = e, !.list = l])
             /\ Good([v EXCEPT !.exists = e, !.path = q, !.list = l])
  <2> DEFINE u == [v EXCEPT !.exists = e]
             w == [u EXCEPT !.path = q]
  <2>1. Good(u) /\ Good([v EXCEPT !.path = q])
    BY <1>1, <1>3
  <2> HIDE DEF u
  <2>2. Good(w) /\ Good([u EXCEPT !.list = l])
    BY <1>1, <2>1
  <2> HIDE DEF w
  <2>3. Good([w EXCEPT !.list = l])
    BY <1>1, <2>2
  <2> QED
    BY <2>1, <2>2, <2>3 DEF u, w
<1>7. Good(AfterDelete(v, p))
  BY <1>5 DEF AfterDelete
<1>8. Good(AfterRename(v, p, r.to[1]))
  BY <1>4, <1>5, <1>6 DEF AfterRename
<1>9. r.kind \in Writes => Good(AfterWrite(v, r))
  <2>1. CASE r.kind = "add"
    <3>1. AfterWrite(v, r) = v \/ \E names : AfterWrite(v, r) = [v EXCEPT !.list = names]
      BY <2>1 DEF AfterWrite
    <3> QED
      BY <1>4, <1>5, <3>1
  <2>2. CASE r.kind = "rename"
    <3>1. AfterWrite(v, r) = AfterRename(v, p, r.to[1])
      BY <2>2 DEF AfterWrite
    <3> QED
      BY <1>8, <3>1
  <2>3. CASE r.kind = "delete"
    <3>1. AfterWrite(v, r) = AfterDelete(v, p)
      BY <2>3 DEF AfterWrite
    <3> QED
      BY <1>7, <3>1
  <2>4. CASE r.kind \in {"deleteItems", "moveItems"}
    <3>1. AfterWrite(v, r) = Without(v, r.names)
      BY <2>4 DEF AfterWrite
    <3> QED
      BY <1>4, <1>5, <3>1
  <2>5. CASE r.kind = "moveItem"
    <3>1. AfterWrite(v, r) \in {Reloaded(v, v.path), Without(v, {Last(p)})}
      BY <2>5 DEF AfterWrite
    <3> QED
      BY <1>4, <1>5, <3>1
  <2>6. CASE r.kind = "copyItems"
    <3>1. AfterWrite(v, r) \in {Reloaded(v, v.path), v}
      BY <2>6 DEF AfterWrite
    <3> QED
      BY <1>4, <1>5, <3>1
  <2>7. r.kind \in Writes =>
          r.kind \in {"add", "rename", "delete", "deleteItems", "moveItems", "moveItem", "copyItems"}
    BY DEF Writes
  <2> QED
    BY <2>1, <2>2, <2>3, <2>4, <2>5, <2>6, <2>7
<1>10. Good(After(v, r))
  <2> DEFINE Some ==
               \/ After(v, r) = v
               \/ After(v, r) = [v EXCEPT !.exists = FALSE]
               \/ After(v, r) = [v EXCEPT !.exists = TRUE, !.path = r.dir,
                                          !.list = NamesIn(r, r.dir)]
               \/ After(v, r) = [v EXCEPT !.exists = TRUE, !.list = NamesIn(r, r.dir)]
               \/ r.kind \in Writes /\ After(v, r) = AfterWrite(v, r)
  <2>1. Some
    <3>0. r.reply = "refused" \/ (r.reply # "refused" /\ r.kind = "list")
            \/ (r.reply # "refused" /\ r.kind = "notice")
            \/ (r.reply # "refused" /\ r.kind \in Writes)
            \/ (r.reply # "refused" /\ r.kind \notin Writes \cup {"list", "notice"})
      OBVIOUS
    <3>1. CASE r.reply = "refused"
      BY <3>1 DEF After
    <3>2. CASE r.reply # "refused" /\ r.kind = "list"
      BY <3>2 DEF After, Writes
    <3>3. CASE r.reply # "refused" /\ r.kind = "notice"
      BY <3>3 DEF After, Writes
    <3>4. CASE r.reply # "refused" /\ r.kind \in Writes
      BY <3>4 DEF After, Writes
    <3>5. CASE r.reply # "refused" /\ r.kind \notin Writes \cup {"list", "notice"}
      BY <3>5 DEF After
    <3> HIDE DEF Some
    <3> QED
      BY <3>0, <3>1, <3>2, <3>3, <3>4, <3>5
  <2>2. ASSUME After(v, r) = [v EXCEPT !.exists = FALSE] PROVE Good(After(v, r))
    BY <1>6, <2>2
  <2>3. ASSUME After(v, r) = [v EXCEPT !.exists = TRUE, !.path = r.dir, !.list = NamesIn(r, r.dir)]
        PROVE  Good(After(v, r))
    <3>1. \A l : Good([v EXCEPT !.exists = TRUE, !.path = r.dir, !.list = l])
      BY <1>6
    <3> QED
      BY <2>3, <3>1
  <2>4. ASSUME After(v, r) = [v EXCEPT !.exists = TRUE, !.list = NamesIn(r, r.dir)]
        PROVE  Good(After(v, r))
    <3>1. \A l : Good([v EXCEPT !.exists = TRUE, !.list = l])
      BY <1>6
    <3> QED
      BY <2>4, <3>1
  <2>5. ASSUME r.kind \in Writes, After(v, r) = AfterWrite(v, r) PROVE Good(After(v, r))
    BY <1>9, <2>5
  <2> QED
    BY <1>3, <2>1, <2>2, <2>3, <2>4, <2>5 DEF Some
<1> QED
  BY <1>10, ExactField DEF Good

LEMMA ViewExact == Exact(View(page))
BY DEF Exact, View

(* What holds at the start and is kept by each answer holds throughout. *)
LEMMA ThroughExact ==
    ASSUME NEW V, NEW q, Len(q) \in Nat, Through(V, View(page), q)
    PROVE  \A k \in 1 .. Len(q) + 1 : Exact(V[k])
<1> DEFINE S == {k \in 1 .. Len(q) + 1 : ~Exact(V[k])}
<1>1. S = {}
  <2> SUFFICES ASSUME S # {} PROVE FALSE
    OBVIOUS
  <2>1. S \in SUBSET Nat
    OBVIOUS
  <2> HIDE DEF S
  <2>2. PICK k \in S : \A m \in S : k <= m
    BY <2>1, Least
  <2>3. k \in 1 .. Len(q) + 1 /\ ~Exact(V[k])
    BY DEF S
  <2>4. k # 1
    BY <2>3, ViewExact DEF Through
  <2> DEFINE j == k - 1
  <2>5. j \in 1 .. Len(q) /\ j \in 1 .. Len(q) + 1 /\ j + 1 = k /\ ~(k <= j)
    BY <2>3, <2>4
  <2> HIDE DEF j
  <2>6. Exact(V[j])
    BY <2>2, <2>5 DEF S
  <2>7. V[k] = After(V[j], q[j])
    BY <2>5 DEF Through
  <2> QED
    BY <2>3, <2>6, <2>7, AfterExact
<1> QED
  BY <1>1

(* Answers that are not about the list do not change the view. *)
LEMMA ThroughStill ==
    ASSUME NEW V, NEW v, NEW q, Len(q) \in Nat, Through(V, v, q),
           NEW n \in Nat, n <= Len(q), \A k \in 1 .. n : q[k].kind \notin OnList
    PROVE  \A k \in 1 .. n + 1 : V[k] = v
<1> DEFINE S == {k \in 1 .. n + 1 : V[k] # v}
<1>1. S = {}
  <2> SUFFICES ASSUME S # {} PROVE FALSE
    OBVIOUS
  <2>1. S \in SUBSET Nat
    OBVIOUS
  <2> HIDE DEF S
  <2>2. PICK k \in S : \A m \in S : k <= m
    BY <2>1, Least
  <2>3. k \in 1 .. n + 1 /\ V[k] # v
    BY DEF S
  <2>4. k # 1
    BY <2>3 DEF Through
  <2> DEFINE j == k - 1
  <2>5. j \in 1 .. n /\ j \in 1 .. Len(q) /\ j \in 1 .. n + 1 /\ j + 1 = k /\ ~(k <= j)
    BY <2>3, <2>4
  <2> HIDE DEF j
  <2>6. V[j] = v
    BY <2>2, <2>5 DEF S
  <2>7. V[k] = After(V[j], q[j])
    BY <2>5 DEF Through
  <2>8. After(V[j], q[j]) = V[j]
    BY <2>5, OffList
  <2> QED
    BY <2>3, <2>6, <2>7, <2>8
<1> QED
  BY <1>1

(* The views of fewer answers, when the last is one more. *)
LEMMA ThroughFront ==
    ASSUME NEW q, NEW r, Asked(q), NEW V, Through(V, View(page), Append(q, r)),
           AllFit(V, Append(q, r))
    PROVE  /\ Through(V, View(page), q) /\ AllFit(V, q)
           /\ Len(Append(q, r)) = Len(q) + 1
           /\ V[Len(q) + 2] = After(V[Len(q) + 1], r)
           /\ Fits(V[Len(q) + 1], r) /\ Exact(V[Len(q) + 1])
<1> DEFINE a == Append(q, r)
<1>1. Len(q) \in Nat
  BY AskedSeq
<1>2. PICK S : q \in Seq(S)
  BY DEF Asked
<1>3. /\ Len(a) = Len(q) + 1 /\ \A k \in 1 .. Len(q) : a[k] = q[k]
      /\ a[Len(q) + 1] = r
  <2> DEFINE T == S \cup {r}
  <2>1. S \subseteq T /\ r \in T
    OBVIOUS
  <2>2. q \in Seq(T)
    BY <1>2, <2>1, SeqMonotonic
  <2> HIDE DEF T
  <2> QED
    BY <2>1, <2>2, AppendProperties
<1> HIDE DEF a
<1>4. /\ \A k \in 1 .. Len(q) : k \in 1 .. Len(a)
      /\ Len(q) + 1 \in 1 .. Len(a) /\ Len(q) + 1 + 1 = Len(q) + 2
      /\ Len(q) + 1 \in 1 .. Len(q) + 1
  BY <1>1, <1>3
<1>5. Through(V, View(page), a) /\ AllFit(V, a)
  BY DEF a
<1>6. Through(V, View(page), q) /\ AllFit(V, q)
  BY <1>3, <1>4, <1>5 DEF Through, AllFit
<1>7. V[Len(q) + 2] = After(V[Len(q) + 1], r) /\ Fits(V[Len(q) + 1], r)
  BY <1>3, <1>4, <1>5 DEF Through, AllFit
<1>8. Exact(V[Len(q) + 1])
  BY <1>1, <1>4, <1>6, ThroughExact
<1> QED
  BY <1>3, <1>6, <1>7, <1>8 DEF a

-----------------------------------------------------------------------------
(* Steps, and the views *)

Types ==
    /\ TypedPage(page) /\ Asked(requests) /\ Asked(answers)
    /\ IsTree(server) /\ notices \in Nat

(* Nothing changed of what the page will show. *)
LEMMA Unchanged ==
    ASSUME ListInv, trouble \subseteq trouble', View(page') = View(page),
           answers' = answers, server' = server, Waiting => Waiting'
    PROVE  ListInv'
<1>1. trouble' \ Forgiven = {} => trouble \ Forgiven = {}
  OBVIOUS
<1>2. Settled(View(page), answers, server) => Settled(View(page'), answers', server')
  OBVIOUS
<1> QED
  BY <1>1, <1>2 DEF ListInv

LEMMA StillWaiting == ASSUME Waiting' PROVE ListInv'
BY DEF ListInv

LEMMA TroubledNow == ASSUME trouble' \ Forgiven # {} PROVE ListInv'
BY DEF ListInv

(* What the page sends is on its way. *)
LEMMA CommitTyped ==
    ASSUME Types, NEW q, TypedPage(q), Commit(q)
    PROVE  /\ TypedPage(page)' /\ Asked(requests)'
           /\ View(page') = [path |-> q.path, exists |-> q.exists, list |-> q.list,
                             sent |-> FALSE]
           /\ Awaited(requests) => Awaited(requests')
           /\ AsksForList(q.sends) => Awaited(requests')
<1>1. /\ page' = [q EXCEPT !.sends = <<>>] /\ requests' = requests \o q.sends
  BY DEF Commit
<1>2. /\ Asked(requests \o q.sends)
      /\ \A i \in 1 .. Len(requests) : (requests \o q.sends)[i] = requests[i]
      /\ AsksForList(q.sends) => AsksForList(requests \o q.sends)
      /\ Len(requests \o q.sends) = Len(requests) + Len(q.sends)
  BY ConcatAsked DEF Types, TypedPage
<1>3. /\ DOMAIN requests = 1 .. Len(requests) /\ DOMAIN requests' = 1 .. Len(requests')
      /\ Len(requests) \in Nat /\ Len(q.sends) \in Nat
  BY <1>1, <1>2, AskedSeq DEF Types, TypedPage
<1>4. \A i \in DOMAIN requests : i \in DOMAIN requests' /\ requests'[i] = requests[i]
  BY <1>1, <1>2, <1>3
<1>5. Awaited(requests) => Awaited(requests')
  BY <1>4 DEF Awaited
<1>6. AsksForList(q.sends) => Awaited(requests')
  BY <1>1, <1>2 DEF AsksForList, Awaited
<1>7. TypedPage(page')
  BY <1>1, NoneAsked, NoneRequested DEF TypedPage, IsPage, PageFields
<1>8. page'.path = q.path /\ page'.exists = q.exists /\ page'.list = q.list
  BY <1>1 DEF TypedPage, IsPage, PageFields
<1> QED
  BY <1>1, <1>2, <1>5, <1>6, <1>7, <1>8 DEF View

(* A click asks for the list, leaves what is shown, or is a trouble. *)
LEMMA ClickLooks ==
    ASSUME Types, ListInv, NEW act, NEW q, NEW tags, Click(act, q, tags), TypedPage(q),
           AsksForList(q.sends) \/ Stays(page, q) \/ ~(tags \subseteq Forgiven)
    PROVE  Types' /\ ListInv'
<1>1. /\ Commit(q) /\ trouble' = trouble \cup tags
      /\ answers' = answers /\ server' = server /\ notices' = notices
  BY DEF Click
<1>2. /\ TypedPage(page)' /\ Asked(requests)'
      /\ View(page') = [path |-> q.path, exists |-> q.exists, list |-> q.list, sent |-> FALSE]
      /\ Awaited(requests) => Awaited(requests')
      /\ AsksForList(q.sends) => Awaited(requests')
  BY <1>1, CommitTyped
<1>3. Types'
  BY <1>1, <1>2 DEF Types
<1>4. CASE AsksForList(q.sends)
  BY <1>2, <1>3, <1>4, StillWaiting DEF Waiting
<1>5. CASE Stays(page, q)
  <2>1. View(page') = View(page)
    BY <1>2, <1>5 DEF Stays, View
  <2>2. trouble \subseteq trouble' /\ (Waiting => Waiting')
    BY <1>1, <1>2 DEF Waiting
  <2> QED
    BY <1>1, <1>3, <2>1, <2>2, Unchanged
<1>6. CASE ~(tags \subseteq Forgiven)
  BY <1>1, <1>3, <1>6, TroubledNow
<1> QED
  BY <1>4, <1>5, <1>6

Replied(r, reply, got) == [r EXCEPT !.reply = reply, !.got = got]

(* The answer a to the request r leaves these requests and these answers.  *)
Handed(r, a, reply, got, left, ready) ==
    /\ TypedRequest(r) /\ TypedRequest(a)
    /\ a.kind = r.kind /\ a.dir = r.dir /\ a.names = r.names /\ a.to = r.to
    /\ a.reply = reply /\ a.got = got
    /\ Asked(left) /\ Asked(ready) /\ ready = Append(answers, a)
    /\ Awaited(requests) /\ a.kind \notin {"list", "notice"} => Awaited(left)

(* An answer is typed when what the server found is. *)
LEMMA ReplyTyped ==
    ASSUME Types, NEW i \in DOMAIN requests, NEW reply, NEW got,
           got \in SUBSET (Paths \ {<<>>}), Reply(i, reply, got)
    PROVE  Handed(requests[i], Replied(requests[i], reply, got), reply, got,
                  requests', answers')
<1> DEFINE r == Replied(requests[i], reply, got)
<1>1. DOMAIN requests = 1 .. Len(requests) /\ Len(requests) \in Nat
  BY AskedSeq DEF Types
<1>2. requests' = RemoveAt(requests, i) /\ answers' = Append(answers, r)
  BY DEF Reply, Replied
<1> DEFINE left == RemoveAt(requests, i)
<1>3. /\ Asked(left) /\ TypedRequest(requests[i])
      /\ Len(left) = Len(requests) - 1
      /\ \A k \in 1 .. Len(requests) - 1 :
           left[k] = IF k < i THEN requests[k] ELSE requests[k + 1]
  BY <1>1, RemoveAsked DEF Types
<1> HIDE DEF left
<1>4. /\ r.kind = requests[i].kind /\ r.dir = requests[i].dir
      /\ r.names = requests[i].names /\ r.to = requests[i].to
      /\ r.reply = reply /\ r.got = got /\ DOMAIN r = DOMAIN requests[i]
  BY <1>3 DEF TypedRequest, IsRequest, Replied
<1> HIDE DEF r
<1>5. TypedRequest(r)
  BY <1>3, <1>4 DEF TypedRequest, IsRequest
<1>6. Asked(Append(answers, r))
  BY <1>5, AppendAsked DEF Types
<1>7. Awaited(requests) /\ r.kind \notin {"list", "notice"} => Awaited(left)
  <2> SUFFICES ASSUME NEW j \in DOMAIN requests, requests[j].kind \in {"list", "notice"},
                      r.kind \notin {"list", "notice"}
               PROVE  Awaited(left)
    BY DEF Awaited
  <2>1. j # i
    BY <1>4
  <2>2. DOMAIN left = 1 .. Len(left)
    BY <1>3, AskedSeq
  <2>3. CASE j < i
    <3>1. j \in 1 .. Len(requests) - 1 /\ j \in DOMAIN left
      BY <1>1, <1>3, <2>2, <2>3
    <3>2. left[j] = requests[j]
      BY <1>3, <2>3, <3>1
    <3> QED
      BY <3>1, <3>2 DEF Awaited
  <2>4. CASE i < j
    <3> DEFINE k == j - 1
    <3>1. k \in 1 .. Len(requests) - 1 /\ k \in DOMAIN left /\ ~(k < i) /\ k + 1 = j
      BY <1>1, <1>3, <2>2, <2>4
    <3> HIDE DEF k
    <3>2. left[k] = requests[j]
      BY <1>3, <3>1
    <3> QED
      BY <3>1, <3>2 DEF Awaited
  <2> QED
    BY <1>1, <2>1, <2>3, <2>4
<1> QED
  BY <1>2, <1>3, <1>4, <1>5, <1>6, <1>7 DEF left, r, Handed

(* What the server did is what the answer will make of the view. *)
LEMMA OneMore ==
    ASSUME NEW q, NEW r, NEW s, NEW t, Asked(q),
           \A v : /\ Exact(v) /\ Fits(v, r)
                  /\ Settled(View(page), q, s) => v.sent \/ Shows(s, v)
                  => After(v, r).sent \/ Shows(t, After(v, r))
    PROVE  Settled(View(page), Append(q, r), t)
<1> DEFINE a == Append(q, r)
<1> SUFFICES ASSUME NEW V, Through(V, View(page), a), AllFit(V, a)
             PROVE  V[Len(a) + 1].sent \/ Shows(t, V[Len(a) + 1])
  BY DEF Settled
<1>1. /\ Through(V, View(page), q) /\ AllFit(V, q)
      /\ Len(a) = Len(q) + 1
      /\ V[Len(q) + 2] = After(V[Len(q) + 1], r)
      /\ Fits(V[Len(q) + 1], r) /\ Exact(V[Len(q) + 1])
  BY ThroughFront
<1> DEFINE v == V[Len(q) + 1]
<1>2. Settled(View(page), q, s) => v.sent \/ Shows(s, v)
  BY <1>1 DEF Settled
<1>3. Len(a) + 1 = Len(q) + 2
  <2>1. Len(q) \in Nat
    BY AskedSeq
  <2> QED
    BY <1>1, <2>1
<1>4. V[Len(a) + 1] = After(v, r) /\ Fits(v, r) /\ Exact(v)
  BY <1>1, <1>3
<1> HIDE DEF v, a
<1> QED
  BY <1>2, <1>4

LEMMA ListingNames ==
    ASSUME IsTree(server), NEW r, r.kind # "parents", r.dir \in Paths,
           NEW a, a.got = Listing(r)
    PROVE  NamesIn(a, r.dir) = ChildNames(server, r.dir)
<1>1. a.got = {q \in server : Front(q) = r.dir}
  BY DEF Listing
<1>2. NamesIn(a, r.dir) \subseteq ChildNames(server, r.dir)
  BY <1>1, TreeMember DEF NamesIn, ChildNames
<1>3. ASSUME NEW n \in ChildNames(server, r.dir) PROVE n \in NamesIn(a, r.dir)
  <2>1. n \in Names /\ Child(r.dir, n) \in server
    BY DEF ChildNames
  <2>2. Front(Child(r.dir, n)) = r.dir /\ Last(Child(r.dir, n)) = n
    BY <2>1, ChildPath
  <2> QED
    BY <1>1, <2>1, <2>2 DEF NamesIn
<1> QED
  BY <1>2, <1>3

LEMMA ServerListsLooks ==
    ASSUME Types, ListInv, NEW i \in DOMAIN requests, ServerLists(i) PROVE Types' /\ ListInv'
<1> DEFINE r == requests[i]
<1>1. /\ r.kind \in Listings /\ page' = page /\ server' = server
      /\ notices' = notices /\ trouble' = trouble
      /\ \/ IsDir(server, r.dir) /\ Reply(i, "done", Listing(r))
         \/ ~IsDir(server, r.dir) /\ Reply(i, "refused", {})
  BY DEF ServerLists
<1>2. Listing(r) \in SUBSET (Paths \ {<<>>}) /\ {} \in SUBSET (Paths \ {<<>>})
  <2>1. \A q \in server : q \in Paths /\ q # <<>>
    BY TreeMember DEF Types
  <2>2. Listing(r) \subseteq server
    BY DEF Listing
  <2> QED
    BY <2>1, <2>2
<1>3. PICK reply, got :
        /\ got \in SUBSET (Paths \ {<<>>}) /\ Reply(i, reply, got)
        /\ \/ IsDir(server, r.dir) /\ reply = "done" /\ got = Listing(r)
           \/ reply = "refused"
  <2>1. CASE IsDir(server, r.dir) /\ Reply(i, "done", Listing(r))
    BY <1>2, <2>1, Zenon
  <2>2. CASE Reply(i, "refused", {})
    BY <1>2, <2>2, Zenon
  <2> HIDE DEF r
  <2> QED
    BY <1>1, <2>1, <2>2
<1> DEFINE a == Replied(r, reply, got)
<1> HIDE DEF a
<1>4. /\ TypedRequest(r) /\ TypedRequest(a) /\ a.kind = r.kind /\ a.dir = r.dir
      /\ a.reply = reply /\ a.got = got
      /\ Asked(requests)' /\ Asked(answers)' /\ answers' = Append(answers, a)
      /\ Awaited(requests) /\ a.kind \notin {"list", "notice"} => Awaited(requests')
  <2>1. Handed(r, a, reply, got, requests', answers')
    BY <1>3, ReplyTyped DEF a
  <2> QED
    BY <2>1 DEF Handed
<1> HIDE DEF r
<1>5. Types'
  BY <1>1, <1>4 DEF Types
<1>6. CASE r.kind \notin {"list", "notice"}
  <2>1. a.kind \notin OnList
    BY <1>1, <1>4, <1>6 DEF OnList, Listings, Writes
  <2>2. \A v : Settled(View(page), answers, server) /\
               (Settled(View(page), answers, server) => v.sent \/ Shows(server, v))
                 => After(v, a).sent \/ Shows(server, After(v, a))
    BY <2>1, OffList
  <2>3. Settled(View(page), answers, server) => Settled(View(page), Append(answers, a), server)
    BY <2>2, OneMore DEF Types
  <2>4. Waiting => Waiting'
    BY <1>1, <1>4, <1>6 DEF Waiting
  <2> QED
    BY <1>1, <1>4, <1>5, <2>3, <2>4 DEF ListInv
<1>7. CASE r.kind \in {"list", "notice"}
  <2>1. ASSUME NEW v, Exact(v), Fits(v, a) PROVE Shows(server, After(v, a))
    <3>1. IsView(v)
      BY <2>1, ExactField
    <3>2. CASE reply = "refused"
      <4>1. a.kind = "list"
        BY <1>4, <1>7, <2>1, <3>2 DEF Fits
      <4>2. After(v, a) = [v EXCEPT !.exists = FALSE]
        BY <1>4, <3>2, <4>1 DEF After
      <4>3. After(v, a).exists = FALSE
        BY <3>1, <4>2 DEF IsView
      <4> QED
        BY <4>3 DEF Shows
    <3>3. CASE IsDir(server, r.dir) /\ reply = "done" /\ got = Listing(r)
      <4> DEFINE names == NamesIn(a, a.dir)
      <4>1. names = ChildNames(server, r.dir)
        <5>1. r.kind # "parents" /\ r.dir \in Paths
          BY <1>4, <1>7 DEF TypedRequest
        <5> QED
          BY <1>4, <3>3, <5>1, ListingNames DEF Types
      <4>2. CASE a.kind = "list"
        <5>1. After(v, a) = [v EXCEPT !.exists = TRUE, !.path = a.dir, !.list = names]
          BY <1>4, <3>3, <4>2 DEF After, Writes
        <5> HIDE DEF names
        <5>2. After(v, a).path = r.dir /\ After(v, a).list = names
          BY <1>4, <3>1, <5>1 DEF IsView
        <5> QED
          BY <3>3, <4>1, <5>2 DEF Shows
      <4>3. CASE a.kind = "notice"
        <5>1. After(v, a) = [v EXCEPT !.exists = TRUE, !.list = names]
          BY <1>4, <3>3, <4>3 DEF After, Writes
        <5>2. v.path = r.dir
          BY <1>4, <2>1, <3>3, <4>3 DEF Fits
        <5> HIDE DEF names
        <5>3. After(v, a).path = r.dir /\ After(v, a).list = names
          BY <3>1, <5>1, <5>2 DEF IsView
        <5> QED
          BY <3>3, <4>1, <5>3 DEF Shows
      <4> QED
        BY <1>4, <1>7, <4>2, <4>3
    <3> QED
      BY <1>3, <3>2, <3>3
  <2>2. Settled(View(page), Append(answers, a), server)
    BY <2>1, OneMore DEF Types
  <2> QED
    BY <1>1, <1>4, <1>5, <2>2 DEF ListInv
<1> QED
  BY <1>6, <1>7

(* What a write makes of the view depends on what was asked, not on how the *)
(* server answered.                                                        *)
LEMMA WriteAlike ==
    ASSUME NEW r, NEW a, a.kind = r.kind, a.dir = r.dir, a.names = r.names, a.to = r.to, NEW v
    PROVE  AfterWrite(v, a) = AfterWrite(v, r) /\ (WriteFits(v, a) => WriteFits(v, r))
BY DEF AfterWrite, WriteFits

LEMMA ServerWritesLooks ==
    ASSUME Types, ListInv, NEW i \in DOMAIN requests, ServerWrites(i) PROVE Types' /\ ListInv'
<1> DEFINE r == requests[i]
<1>1. /\ r.kind \in Writes /\ page' = page
      /\ \/ Reply(i, "refused", {}) /\ server' = server /\ notices' = notices
         \/ server' \in Outcomes(r) /\ Reply(i, "done", {}) /\ Notify(server')
      /\ trouble' = IF Taken(r) THEN trouble \cup {"spare"} ELSE trouble
  BY DEF ServerWrites
<1>2. {} \in SUBSET (Paths \ {<<>>})
  OBVIOUS
<1>3. PICK reply : /\ Reply(i, reply, {})
                   /\ \/ reply = "refused" /\ server' = server /\ notices' = notices
                      \/ reply = "done" /\ server' \in Outcomes(r) /\ Notify(server')
  BY <1>1
<1> DEFINE a == Replied(r, reply, {})
<1> HIDE DEF a
<1>4. /\ TypedRequest(r) /\ TypedRequest(a) /\ a.kind = r.kind /\ a.dir = r.dir
      /\ a.names = r.names /\ a.to = r.to /\ a.reply = reply
      /\ Asked(requests)' /\ Asked(answers)' /\ answers' = Append(answers, a)
      /\ Awaited(requests) /\ a.kind \notin {"list", "notice"} => Awaited(requests')
  <2>1. Handed(r, a, reply, {}, requests', answers')
    BY <1>2, <1>3, ReplyTyped DEF a
  <2> QED
    BY <2>1 DEF Handed
<1> HIDE DEF r
<1>5. IsTree(server') /\ notices' \in Nat /\ (notices > 0 => notices' > 0)
  <2>1. notices \in Nat /\ IsTree(server)
    BY DEF Types
  <2>2. Notify(server') => notices' \in Nat /\ (notices > 0 => notices' > 0)
    BY <2>1 DEF Notify
  <2>3. server' \in Outcomes(r) => IsTree(server')
    BY <1>4, <2>1, OutcomeIsTree
  <2> QED
    BY <1>3, <2>1, <2>2, <2>3
<1>6. Types'
  BY <1>1, <1>4, <1>5 DEF Types
<1>7. Waiting => Waiting'
  BY <1>1, <1>4, <1>5 DEF Waiting, Writes
<1>8. CASE Taken(r)
  <2>1. "spare" \in trouble' \ Forgiven
    BY <1>1, <1>8 DEF Forgiven
  <2> QED
    BY <1>6, <2>1, TroubledNow
<1>9. CASE ~Taken(r)
  <2>1. ASSUME NEW v, Exact(v), Fits(v, a), v.sent \/ Shows(server, v)
        PROVE  After(v, a).sent \/ Shows(server', After(v, a))
    <3>1. CASE reply = "refused"
      <4>1. After(v, a) = v
        BY <1>1, <1>4, <3>1 DEF After, Writes
      <4> QED
        BY <1>3, <2>1, <3>1, <4>1
    <3>2. CASE reply = "done" /\ server' \in Outcomes(r)
      <4>1. After(v, a) = AfterWrite(v, r) /\ WriteFits(v, r)
        <5>1. a.kind # "list" /\ a.kind # "notice" /\ a.kind \in Writes
          BY <1>1, <1>4 DEF Writes
        <5>2. After(v, a) = AfterWrite(v, a)
          BY <1>4, <3>2, <5>1 DEF After
        <5>3. WriteFits(v, a)
          BY <1>4, <2>1, <3>2 DEF Fits
        <5> QED
          BY <1>4, <5>2, <5>3, WriteAlike
      <4>2. IsView(v) /\ (v.sent => After(v, a).sent)
        BY <2>1, AfterExact
      <4>3. CASE ~AfterWrite(v, r).sent
        <5>1. Shows(server, v)
          BY <2>1, <4>1, <4>2, <4>3
        <5>2. IsTree(server)
          BY DEF Types
        <5>3. Shows(server', AfterWrite(v, r))
          BY <1>4, <1>9, <3>2, <4>1, <4>2, <4>3, <5>1, <5>2, WriteShows
        <5> QED
          BY <4>1, <5>3
      <4> QED
        BY <4>1, <4>3
    <3> QED
      BY <1>3, <3>1, <3>2
  <2>2. Settled(View(page), answers, server) => Settled(View(page), Append(answers, a), server')
    BY <2>1, OneMore DEF Types
  <2> QED
    BY <1>1, <1>4, <1>6, <1>7, <1>9, <2>2 DEF ListInv
<1> QED
  BY <1>8, <1>9

LEMMA RequestFailsLooks ==
    ASSUME Types, NEW i \in DOMAIN requests, RequestFails(i) PROVE Types' /\ ListInv'
<1> DEFINE r == requests[i]
<1>1. /\ page' = page /\ Reply(i, "refused", {}) /\ Notify(server')
      /\ server' = server \/ server' \in Outcomes(r)
      /\ trouble' = trouble \cup {"failed"}
  BY DEF RequestFails
<1>2. {} \in SUBSET (Paths \ {<<>>})
  OBVIOUS
<1>3. TypedRequest(r) /\ Asked(requests)' /\ Asked(answers)'
  <2>1. Handed(r, Replied(r, "refused", {}), "refused", {}, requests', answers')
    BY <1>1, <1>2, ReplyTyped
  <2> QED
    BY <2>1 DEF Handed
<1> HIDE DEF r
<1>4. IsTree(server') /\ notices' \in Nat
  BY <1>1, <1>3, OutcomeIsTree DEF Types, Notify
<1>5. "failed" \in trouble' \ Forgiven
  BY <1>1 DEF Forgiven
<1> QED
  BY <1>1, <1>3, <1>4, <1>5, TroubledNow DEF Types

(* Another client leaves a tree, and a notice of it or a trouble. *)
LEMMA OtherClientLooks == ASSUME Types, OtherClient PROVE Types' /\ ListInv'
<1>1. /\ page' = page /\ requests' = requests /\ answers' = answers
      /\ server' # server /\ Notify(server')
      /\ trouble' = trouble \cup {IF link = "on" THEN "others" ELSE "missed"}
      /\ \/ \E dir \in {<<>>} \cup {q \in server : IsDir(server, q)}, n \in Names :
              server' = server \cup {Child(dir, n)}
         \/ \E p \in server : server' = server \ {q \in server : IsPrefix(p, q)}
  BY DEF OtherClient
<1>2. IsTree(server) /\ notices \in Nat
  BY DEF Types
<1>3. IsTree(server')
  <2>1. ASSUME NEW dir \in {<<>>} \cup {q \in server : IsDir(server, q)}, NEW n \in Names
        PROVE  IsTree(server \cup {Child(dir, n)})
    <3>1. IsDir(server, dir)
      BY DEF IsDir
    <3> QED
      BY <1>2, <3>1, ChildIsTree
  <2>2. ASSUME NEW p \in server PROVE IsTree(server \ {q \in server : IsPrefix(p, q)})
    <3>1. Front(p) \in Paths /\ Last(p) \in Names /\ p = Child(Front(p), Last(p))
      BY <1>2, TreeMember
    <3>2. {q \in server : IsPrefix(p, q)} = Below(Front(p), {Last(p)})
      BY <3>1 DEF Below
    <3>3. {Last(p)} \in SUBSET Names
      BY <3>1
    <3>4. IsTree(server \ Below(Front(p), {Last(p)}))
      BY <1>2, <3>1, <3>3, RestIsTree
    <3> QED
      BY <3>2, <3>4
  <2> QED
    BY <1>1, <2>1, <2>2
<1>4. Types'
  BY <1>1, <1>2, <1>3 DEF Types, Notify
<1>5. CASE link = "on"
  <2>1. notices' > 0
    BY <1>1, <1>2, <1>5 DEF Notify
  <2> QED
    BY <1>4, <2>1, StillWaiting DEF Waiting
<1>6. CASE link # "on"
  <2>1. "missed" \in trouble' \ Forgiven
    BY <1>1, <1>6 DEF Forgiven
  <2> QED
    BY <1>4, <2>1, TroubledNow
<1> QED
  BY <1>5, <1>6

LEMMA LinkLooks ==
    ASSUME Types, ListInv, ConnectionLost \/ Reconnected PROVE Types' /\ ListInv'
<1>1. page' = page /\ requests' = requests /\ answers' = answers /\ server' = server
  BY DEF ConnectionLost, Reconnected
<1>2. Types'
  BY <1>1 DEF Types, ConnectionLost, Reconnected
<1>3. CASE ConnectionLost /\ notices > 0
  <2>1. "missed" \in trouble' \ Forgiven
    BY <1>3 DEF ConnectionLost, Forgiven
  <2> QED
    BY <1>2, <2>1, TroubledNow
<1>4. CASE Reconnected \/ (ConnectionLost /\ ~(notices > 0))
  <2>1. trouble' = trouble /\ (Waiting => Waiting')
    BY <1>1, <1>4 DEF ConnectionLost, Reconnected, Waiting
  <2> QED
    BY <1>1, <1>2, <2>1, Unchanged
<1> QED
  BY <1>3, <1>4

(* The folder shown is asked for. *)
LEMMA RepoUpdateLooks == ASSUME Types, RepoUpdate PROVE Types' /\ ListInv'
<1> DEFINE r == Fetch("notice", page.path)
           q == Send(page, r)
<1>1. /\ Commit(q) /\ notices' \in Nat
      /\ answers' = answers /\ server' = server
  BY DEF RepoUpdate, Types
<1>2. TypedRequest(r) /\ r.kind = "notice"
  BY FetchTyped DEF Listings, Types, TypedPage
<1> HIDE DEF r
<1>3. TypedPage(q)
  BY <1>2, SendStays DEF Stays, Types
<1>4. TypedPage(page)' /\ Asked(requests)'
  BY <1>1, <1>3, CommitTyped
<1>5. requests' = requests \o Append(page.sends, r)
  BY <1>1 DEF Commit, Send, Types, TypedPage, IsPage, PageFields
<1>6. Awaited(requests')
  <2> DEFINE s == Append(page.sends, r)
             n == Len(page.sends)
             m == Len(requests)
  <2>1. PICK S : requests \in Seq(S) /\ \A x \in S : TypedRequest(x)
    BY DEF Types, Asked
  <2>2. PICK T : page.sends \in Seq(T) /\ \A x \in T : TypedRequest(x)
    BY DEF Types, TypedPage, Asked
  <2> DEFINE U == S \cup (T \cup {r})
  <2>3. requests \in Seq(U) /\ page.sends \in Seq(U) /\ r \in U
    <3>1. S \subseteq U /\ T \subseteq U /\ r \in U
      OBVIOUS
    <3> QED
      BY <2>1, <2>2, <3>1, SeqMonotonic
  <2> HIDE DEF U
  <2>4. s \in Seq(U) /\ Len(s) = n + 1 /\ s[n + 1] = r
    BY <2>3, AppendProperties
  <2>5. n \in Nat /\ m \in Nat
    BY <2>3, LenProperties
  <2> HIDE DEF s
  <2>6. /\ requests \o s \in Seq(U) /\ Len(requests \o s) = m + Len(s)
        /\ \A i \in 1 .. m + Len(s) :
             (requests \o s)[i] = IF i <= m THEN requests[i] ELSE s[i - m]
    BY <2>3, <2>4, ConcatProperties
  <2> HIDE DEF n, m
  <2> DEFINE k == m + (n + 1)
  <2>7. k \in 1 .. m + Len(s) /\ ~(k <= m) /\ k - m = n + 1
    BY <2>4, <2>5
  <2>8. DOMAIN (requests \o s) = 1 .. m + Len(s)
    BY <2>6, LenProperties
  <2> HIDE DEF k
  <2>9. k \in DOMAIN (requests \o s) /\ (requests \o s)[k] = r
    BY <2>4, <2>6, <2>7, <2>8
  <2>10. Awaited(requests \o s)
    BY <1>2, <2>9 DEF Awaited
  <2> QED
    BY <1>5, <2>10 DEF s
<1> QED
  BY <1>1, <1>4, <1>6, StillWaiting DEF Types, Waiting

LEMMA AsksLooks ==
    ASSUME Types, ListInv, NEW act, NEW q, NEW tags, NEW p \in Paths,
           TypedPage(q), Click(act, ShowDir(q, p), tags)
    PROVE  Types' /\ ListInv'
BY ShowDirAsks, ClickLooks

LEMMA StaysLooks ==
    ASSUME Types, ListInv, NEW act, NEW q, NEW tags, Stays(page, q), Click(act, q, tags)
    PROVE  Types' /\ ListInv'
BY ClickLooks DEF Stays

LEMMA ItemClickLooks ==
    ASSUME Types, ListInv, NEW n, ItemClick(n) PROVE Types' /\ ListInv'
<1> DEFINE p == Child(page.path, n)
           start == ResetSelected(page)
           q == InTree(start, LoadTreeNodeByPath(start, p))
<1>1. /\ n \in page.list \cap Dirs
      /\ Click("go", start, {"dead"}) \/ Click("go", ShowDir(q, p), {})
  BY DEF ItemClick
<1>2. p \in Paths
  <2>1. page.path \in Paths /\ n \in Names
    BY <1>1 DEF Types, TypedPage
  <2> QED
    BY <2>1, ChildPath
<1> HIDE DEF p
<1>3. Stays(page, start) /\ TypedPage(start)
  BY ResetSelectedStays DEF Types, Stays
<1> HIDE DEF start
<1>4. TypedPage(q)
  BY <1>2, <1>3, LoadTreeNodeByPathStays, InTreeStays DEF Stays
<1> HIDE DEF q
<1> QED
  BY <1>1, <1>2, <1>3, <1>4, AsksLooks, StaysLooks

(* What the nodes say where they are is a path: TreeOK. *)
LEMMA NodePath ==
    ASSUME TreeOK, NEW e \in Nodes(page.tree) PROVE e.node.path \in Paths /\ e.node.path # <<>>
BY DEF TreeOK

LEMMA TreeNodeClickLooks ==
    ASSUME Types, ListInv, TreeOK, NEW e \in Nodes(page.tree), TreeNodeClick(e)
    PROVE  Types' /\ ListInv'
<1> DEFINE p == e.node.path
           reset == ResetSelected(page)
           start == [reset EXCEPT !.exists = TRUE, !.path = p]
           loading == IF e.node.loaded THEN start
                      ELSE Send(start, FetchInto("click", p, page.tree))
           toggled == IF e.node.expanded
                      THEN SetExpanded(page.tree, At(page.tree, p), FALSE)
                      ELSE ExpandNode(page.tree, At(page.tree, p))
           q == IF p # page.path THEN ShowDir(loading, p)
                ELSE IF e.node.loaded THEN SetTree(loading, toggled)
                ELSE loading
           tags == IF p = page.path /\ ~page.exists THEN {"phantom"} ELSE {}
<1>1. Click("go", q, tags)
  BY DEF TreeNodeClick
<1>2. p \in Paths
  BY NodePath
<1>3. Stays(page, reset) /\ TypedPage(reset)
  BY ResetSelectedStays DEF Types, Stays
<1> HIDE DEF reset
<1>4. TypedPage(start) /\ start.path = p /\ start.exists = TRUE /\ start.list = page.list
  BY <1>2, <1>3 DEF Stays, TypedPage, IsPage, PageFields
<1> HIDE DEF start
<1>5. Stays(start, loading) /\ TypedPage(loading)
  <2>1. TypedRequest(FetchInto("click", p, page.tree))
    BY <1>2, FetchTyped DEF Listings
  <2> QED
    BY <1>4, <2>1, SendStays, StaysItself DEF Stays
<1> HIDE DEF loading, toggled
<1>6. CASE p # page.path
  <2>1. q = ShowDir(loading, p)
    BY <1>6
  <2> HIDE DEF q, p, tags
  <2> QED
    BY <1>1, <1>2, <1>5, <2>1, AsksLooks
<1>7. CASE p = page.path
  <2>1. Stays(start, q)
    <3>1. q = SetTree(loading, toggled) \/ q = loading
      BY <1>7
    <3> HIDE DEF q
    <3> QED
      BY <1>5, <3>1, SetTreeStays, StaysMore
  <2>2. CASE page.exists
    <3>1. page.exists = TRUE
      BY <2>2 DEF Types, TypedPage
    <3>2. Stays(page, q)
      BY <1>4, <1>7, <2>1, <3>1 DEF Stays
    <3> HIDE DEF q, tags
    <3> QED
      BY <1>1, <3>2, StaysLooks
  <2>3. CASE ~page.exists
    <3>1. ~(tags \subseteq Forgiven)
      BY <1>7, <2>3 DEF Forgiven
    <3>2. TypedPage(q)
      BY <2>1 DEF Stays
    <3> HIDE DEF q, tags
    <3> QED
      BY <1>1, <3>1, <3>2, ClickLooks
  <2> QED
    BY <2>2, <2>3
<1> QED
  BY <1>6, <1>7

LEMMA TreeLooks ==
    ASSUME Types, ListInv, TreeOK, NEW e \in Nodes(page.tree),
           TreeNodeExpanded(e) \/ TreeNodeCollapse(e)
    PROVE  Types' /\ ListInv'
<1>1. TypedRequest(FetchInto("expand", e.node.path, page.tree))
  BY NodePath, FetchTyped DEF Listings
<1>2. /\ \A t : Stays(page, SetTree(page, t))
      /\ Stays(page, Send(page, FetchInto("expand", e.node.path, page.tree)))
  BY <1>1, SetTreeStays, SendStays DEF Types
<1>3. \E q : Stays(page, q) /\ Click("tree", q, {})
  BY <1>2 DEF TreeNodeExpanded, TreeNodeCollapse
<1> QED
  BY <1>3, StaysLooks

LEMMA MainNavBarClickLooks ==
    ASSUME Types, ListInv, NEW p \in Paths, MainNavBarClick(p) PROVE Types' /\ ListInv'
<1> DEFINE start == ResetSelected(page)
           q == IF page.panel /\ Has(page.tree, p)
                THEN SetTree(start, ExpandNode(page.tree, At(page.tree, p)))
                ELSE start
<1>1. Click("go", ShowDir(q, p), {})
  BY DEF MainNavBarClick
<1>2. TypedPage(start)
  BY ResetSelectedStays DEF Types, Stays
<1> HIDE DEF start
<1>3. TypedPage(q)
  BY <1>2, SetTreeStays DEF Stays
<1> HIDE DEF q
<1> QED
  BY <1>1, <1>3, AsksLooks

LEMMA BackLooks == ASSUME Types, ListInv, Back PROVE Types' /\ ListInv'
<1> DEFINE hist == Front(page.hist)
           p == Last(hist)
           there == [page EXCEPT !.hist = hist, !.path = p]
           once == LoadDirentList(there, p)
           twice == LoadDirentList(once, p)
<1>1. hist \in Seq(Paths) /\ p \in Paths
  BY FrontOfHist DEF Types, TypedPage, Back
<1>2. Click("go", there, {"grid", "back"}) \/ Click("go", twice, {"back"})
  BY DEF Back
<1> HIDE DEF hist, p
<1>3. TypedPage(there)
  BY <1>1 DEF Types, TypedPage, IsPage, PageFields
<1> HIDE DEF there
<1>4. TypedPage(once)
  BY <1>1, <1>3, LoadDirentListAsks
<1> HIDE DEF once
<1>5. TypedPage(twice) /\ AsksForList(twice.sends)
  BY <1>1, <1>4, LoadDirentListAsks
<1> HIDE DEF twice
<1>6. ~({"grid", "back"} \subseteq Forgiven)
  BY DEF Forgiven
<1> QED
  BY <1>2, <1>3, <1>5, <1>6, ClickLooks

LEMMA SwitchViewModeLooks == ASSUME Types, ListInv, SwitchViewMode PROVE Types' /\ ListInv'
<1> DEFINE p == page.path
           start == [page EXCEPT !.push = FALSE, !.grid = ~@]
           q == InTree(start, LoadSidePanel(start, p))
<1>1. Click("view", ShowDir(q, p), {})
  BY DEF SwitchViewMode
<1>2. TypedPage(start) /\ p \in Paths
  BY DEF Types, TypedPage, IsPage, PageFields
<1> HIDE DEF start, p
<1>3. TypedPage(q)
  BY <1>2, LoadSidePanelStays, InTreeStays DEF Stays
<1> HIDE DEF q
<1> QED
  BY <1>1, <1>2, <1>3, AsksLooks

LEMMA ToggleTreePanelLooks == ASSUME Types, ListInv, ToggleTreePanel PROVE Types' /\ ListInv'
<1> DEFINE start == [page EXCEPT !.panel = ~@]
           q == InTree(start, LoadSidePanel(start, page.path))
<1>1. Click("view", q, {})
  BY DEF ToggleTreePanel
<1>2. Stays(page, start) /\ TypedPage(start) /\ page.path \in Paths
  BY DEF Stays, Types, TypedPage, IsPage, PageFields
<1> HIDE DEF start
<1>3. Stays(page, q)
  BY <1>2, LoadSidePanelStays, InTreeStays, StaysMore
<1> HIDE DEF q
<1> QED
  BY <1>1, <1>3, StaysLooks

LEMMA DirentSelectedLooks ==
    ASSUME Types, ListInv, NEW n, DirentSelected(n) PROVE Types' /\ ListInv'
<1> DEFINE marked == IF n \in page.marked THEN page.marked \ {n}
                     ELSE page.marked \cup {n}
           q == [page EXCEPT !.marked = marked, !.selected = marked, !.picked = page.path]
<1>1. n \in page.list /\ Click("select", q, {})
  BY DEF DirentSelected
<1>2. marked \subseteq page.list /\ page.list \subseteq Names
  BY <1>1 DEF Types, TypedPage
<1> HIDE DEF marked
<1>3. Stays(page, q)
  BY <1>2 DEF Stays, Types, TypedPage, IsPage, PageFields
<1> HIDE DEF q
<1> QED
  BY <1>1, <1>3, StaysLooks

LEMMA AskLooks ==
    ASSUME Types, ListInv, NEW kind, NEW dir, NEW names, NEW to,
           TypedRequest(Request(kind, dir, names, to, NoTree)), Ask(kind, dir, names, to)
    PROVE  Types' /\ ListInv'
BY SendStays, StaysLooks DEF Ask, Types

(* A row of the list and a node of the tree are somewhere. *)
LEMMA ItemPath ==
    ASSUME Types, TreeOK, NEW p \in Rows \cup TreeItems
    PROVE  p \in Paths /\ Front(p) \in Paths /\ Last(p) \in Names
<1>1. p \in Paths /\ p # <<>>
  <2>1. CASE p \in Rows
    <3>1. page.path \in Paths /\ page.list \subseteq Names
      BY DEF Types, TypedPage
    <3> QED
      BY <2>1, <3>1, ChildPath DEF Rows
  <2>2. CASE p \in TreeItems
    <3>1. \E e \in Nodes(page.tree) : p = e.node.path
      BY <2>2 DEF TreeItems
    <3> QED
      BY <3>1, NodePath
  <2> QED
    BY <2>1, <2>2
<1> QED
  BY <1>1, PathOfChild

LEMMA ItemLooks ==
    ASSUME Types, ListInv, TreeOK, NEW p \in Rows \cup TreeItems, NEW new \in Names,
           NEW to \in Paths, DeleteItem(p) \/ RenameItem(p, new) \/ MoveItem(p, to)
    PROVE  Types' /\ ListInv'
<1>1. Front(p) \in Paths /\ Last(p) \in Names /\ {Last(p)} \in SUBSET Names
  BY ItemPath
<1>2. TypedRequest(Request("delete", Front(p), {Last(p)}, <<>>, NoTree))
  BY <1>1, RequestTyped DEF Writes
<1>3. TypedRequest(Request("moveItem", Front(p), {Last(p)}, to, NoTree))
  BY <1>1, RequestTyped DEF Writes
<1>4. new \in Kind(Last(p)) => TypedRequest(Request("rename", Front(p), {Last(p)}, <<new>>, NoTree))
  BY <1>1, RequestTyped DEF Writes
<1> QED
  BY <1>2, <1>3, <1>4, AskLooks DEF DeleteItem, RenameItem, MoveItem

LEMMA ItemsLooks ==
    ASSUME Types, ListInv, NEW n \in Names, NEW to \in Paths,
           AddItem(n) \/ DeleteItems \/ MoveItems(to) \/ CopyItems(to)
    PROVE  Types' /\ ListInv'
<1>1. page.path \in Paths /\ page.selected \in SUBSET Names /\ {n} \in SUBSET Names
  BY DEF Types, TypedPage
<1>2. TypedRequest(Request("add", page.path, {n}, <<>>, NoTree))
  BY <1>1, RequestTyped DEF Writes
<1>3. /\ TypedRequest(Request("deleteItems", page.path, page.selected, <<>>, NoTree))
      /\ TypedRequest(Request("moveItems", page.path, page.selected, to, NoTree))
      /\ TypedRequest(Request("copyItems", page.path, page.selected, to, NoTree))
  BY <1>1, RequestTyped DEF Writes
<1> QED
  BY <1>2, <1>3, AskLooks DEF AddItem, DeleteItems, MoveItems, CopyItems

LEMMA UserLooks ==
    ASSUME Types, ListInv, TreeOK, UserActs PROVE Types' /\ ListInv'
<1>1. ASSUME NEW n, ItemClick(n) \/ DirentSelected(n) PROVE Types' /\ ListInv'
  BY <1>1, ItemClickLooks, DirentSelectedLooks
<1>2. ASSUME NEW e \in Nodes(page.tree),
             TreeNodeClick(e) \/ TreeNodeExpanded(e) \/ TreeNodeCollapse(e)
      PROVE  Types' /\ ListInv'
  BY <1>2, TreeNodeClickLooks, TreeLooks
<1>3. ASSUME NEW k \in 1 .. Len(page.path), MainNavBarClick(SubSeq(page.path, 1, k - 1))
      PROVE  Types' /\ ListInv'
  <2> DEFINE l == k - 1
  <2>1. page.path \in Seq(Names)
    BY DEF Types, TypedPage, Paths
  <2>2. Len(page.path) \in Nat
    BY <2>1, LenProperties
  <2>3. l \in Int /\ 1 \in Int /\ \A j \in 1 .. l : j \in 1 .. Len(page.path)
    BY <2>2
  <2>4. \A j \in 1 .. l : page.path[j] \in Names
    BY <2>1, <2>3, ElementOfSeq
  <2> HIDE DEF l
  <2>5. SubSeq(page.path, 1, l) \in Paths
    BY <2>3, <2>4, SubSeqProperties DEF Paths
  <2>6. MainNavBarClick(SubSeq(page.path, 1, l))
    BY <1>3 DEF l
  <2> QED
    BY <2>5, <2>6, MainNavBarClickLooks
<1>4. <<>> \in Paths
  BY RootPath
<1>5. ASSUME NEW n \in Names, AddItem(n) PROVE Types' /\ ListInv'
  BY <1>4, <1>5, ItemsLooks
<1>6. ASSUME NEW p \in Rows \cup TreeItems, DeleteItem(p) PROVE Types' /\ ListInv'
  <2>1. \E new : new \in Names
    BY <1>6, ItemPath
  <2> QED
    BY <1>4, <1>6, <2>1, ItemLooks
<1>7. ASSUME NEW p \in Rows \cup TreeItems, NEW new \in Names, RenameItem(p, new)
      PROVE  Types' /\ ListInv'
  BY <1>4, <1>7, ItemLooks
<1>8. ASSUME NEW to \in {q \in server \cup {<<>>} : IsDir(server, q)} PROVE to \in Paths
  BY DirIsPath DEF Types
<1>9. ASSUME NEW p \in Rows \cup TreeItems, NEW to \in Paths, MoveItem(p, to)
      PROVE  Types' /\ ListInv'
  <2>1. \E new : new \in Names
    BY <1>9, ItemPath
  <2> QED
    BY <1>9, <2>1, ItemLooks
<1>10. ASSUME NEW to \in Paths, DeleteItems \/ MoveItems(to) \/ CopyItems(to)
       PROVE  Types' /\ ListInv'
  <2>1. \E n : n \in Names
    <3>1. page.selected # {} /\ page.selected \subseteq Names
      BY <1>10 DEF DeleteItems, MoveItems, CopyItems, Types, TypedPage
    <3> QED
      BY <3>1
  <2> QED
    BY <1>10, <2>1, ItemsLooks
<1> QED
  BY <1>1, <1>2, <1>3, <1>4, <1>5, <1>6, <1>7, <1>8, <1>9, <1>10,
     BackLooks, SwitchViewModeLooks, ToggleTreePanelLooks DEF UserActs

(* An answer not about the list may be handled before those it follows. *)
LEMMA RemoveOff ==
    ASSUME NEW q, Asked(q), NEW i \in 1 .. Len(q), q[i].kind \notin OnList,
           NEW view, NEW s, Settled(view, q, s)
    PROVE  Settled(view, RemoveAt(q, i), s)
<1> DEFINE p == RemoveAt(q, i)
           n == Len(q)
<1>1. /\ n \in Nat /\ i \in 1 .. n /\ Len(p) = n - 1
      /\ \A k \in 1 .. n - 1 : p[k] = IF k < i THEN q[k] ELSE q[k + 1]
  BY AskedSeq, RemoveAsked
<1> HIDE DEF p
<1> SUFFICES ASSUME NEW V, Through(V, view, p), AllFit(V, p)
             PROVE  V[Len(p) + 1].sent \/ Shows(s, V[Len(p) + 1])
  BY DEF Settled, p
<1> DEFINE W == [k \in 1 .. n + 1 |-> IF k <= i THEN V[k] ELSE V[k - 1]]
<1>2. ASSUME NEW k \in 1 .. n
      PROVE  W[k + 1] = After(W[k], q[k]) /\ Fits(W[k], q[k])
  <2>1. k \in 1 .. n + 1 /\ k + 1 \in 1 .. n + 1 /\ k + 1 - 1 = k
    BY <1>1
  <2>2. /\ W[k] = IF k <= i THEN V[k] ELSE V[k - 1]
        /\ W[k + 1] = IF k + 1 <= i THEN V[k + 1] ELSE V[k]
    BY <2>1
  <2> HIDE DEF W
  <2>3. CASE k < i
    <3>1. k <= i /\ k + 1 <= i /\ k \in 1 .. n - 1
      BY <1>1, <2>3
    <3>2. p[k] = q[k] /\ k \in 1 .. Len(p)
      BY <1>1, <2>3, <3>1
    <3>3. V[k + 1] = After(V[k], p[k]) /\ Fits(V[k], p[k])
      BY <3>2 DEF Through, AllFit
    <3> QED
      BY <2>2, <3>1, <3>2, <3>3
  <2>4. CASE k = i
    <3>1. k <= i /\ ~(k + 1 <= i)
      BY <1>1, <2>4
    <3> QED
      BY <2>2, <2>4, <3>1, OffList
  <2>5. CASE i < k
    <3> DEFINE j == k - 1
    <3>1. ~(k <= i) /\ ~(k + 1 <= i) /\ j \in 1 .. n - 1 /\ ~(j < i) /\ j + 1 = k
      BY <1>1, <2>5
    <3>2. W[k] = V[j] /\ W[k + 1] = V[k]
      BY <2>2, <3>1
    <3> HIDE DEF j
    <3>3. p[j] = q[k] /\ j \in 1 .. Len(p)
      BY <1>1, <3>1
    <3>4. V[j + 1] = After(V[j], p[j]) /\ Fits(V[j], p[j])
      BY <3>3 DEF Through, AllFit
    <3> QED
      BY <3>1, <3>2, <3>3, <3>4
  <2> QED
    BY <1>1, <2>3, <2>4, <2>5
<1>3. W[1] = view
  <2>1. 1 \in 1 .. n + 1 /\ 1 <= i
    BY <1>1
  <2> QED
    BY <2>1 DEF Through
<1>4. W[n + 1] = V[Len(p) + 1]
  <2>1. n + 1 \in 1 .. n + 1 /\ ~(n + 1 <= i) /\ n + 1 - 1 = Len(p) + 1
    BY <1>1
  <2> QED
    BY <2>1
<1> HIDE DEF W
<1>5. Through(W, view, q) /\ AllFit(W, q)
  BY <1>2, <1>3 DEF Through, AllFit
<1>6. W[Len(q) + 1].sent \/ Shows(s, W[Len(q) + 1])
  BY <1>5 DEF Settled
<1> QED
  BY <1>4, <1>6

(* The first about the list takes its part of the view with it. *)
LEMMA RemoveOn ==
    ASSUME NEW q, Asked(q), NEW i \in 1 .. Len(q),
           \A k \in 1 .. i - 1 : q[k].kind \notin OnList,
           NEW view, NEW s, Settled(view, q, s), Fits(view, q[i])
    PROVE  Settled(After(view, q[i]), RemoveAt(q, i), s)
<1> DEFINE p == RemoveAt(q, i)
           n == Len(q)
           m == i - 1
           then == After(view, q[i])
<1>1. /\ n \in Nat /\ i \in 1 .. n /\ Len(p) = n - 1
      /\ \A k \in 1 .. n - 1 : p[k] = IF k < i THEN q[k] ELSE q[k + 1]
  BY AskedSeq, RemoveAsked
<1> HIDE DEF p
<1> SUFFICES ASSUME NEW V, Through(V, then, p), AllFit(V, p)
             PROVE  V[Len(p) + 1].sent \/ Shows(s, V[Len(p) + 1])
  BY DEF Settled, p
<1> DEFINE W == [k \in 1 .. n + 1 |-> IF k <= i THEN view ELSE V[k - 1]]
<1>2. V[i] = then
  <2>1. m \in Nat /\ m <= Len(p) /\ Len(p) \in Nat /\ i \in 1 .. m + 1
    BY <1>1
  <2>2. \A k \in 1 .. m : p[k].kind \notin OnList
    <3>1. \A k \in 1 .. m : k \in 1 .. n - 1 /\ k < i
      BY <1>1
    <3> QED
      BY <1>1, <3>1
  <2> HIDE DEF m, then
  <2>3. \A k \in 1 .. m + 1 : V[k] = then
    BY <2>1, <2>2, ThroughStill
  <2> QED
    BY <2>1, <2>3
<1>3. ASSUME NEW k \in 1 .. n
      PROVE  W[k + 1] = After(W[k], q[k]) /\ Fits(W[k], q[k])
  <2>1. k \in 1 .. n + 1 /\ k + 1 \in 1 .. n + 1 /\ k + 1 - 1 = k
    BY <1>1
  <2>2. /\ W[k] = IF k <= i THEN view ELSE V[k - 1]
        /\ W[k + 1] = IF k + 1 <= i THEN view ELSE V[k]
    BY <2>1
  <2> HIDE DEF W
  <2>3. CASE k < i
    <3>1. k <= i /\ k + 1 <= i /\ k \in 1 .. i - 1
      BY <1>1, <2>3
    <3>2. After(view, q[k]) = view /\ Fits(view, q[k])
      BY <3>1, OffList
    <3> QED
      BY <2>2, <3>1, <3>2
  <2>4. CASE k = i
    <3>1. k <= i /\ ~(k + 1 <= i)
      BY <1>1, <2>4
    <3> QED
      BY <1>2, <2>2, <2>4, <3>1
  <2>5. CASE i < k
    <3> DEFINE j == k - 1
    <3>1. ~(k <= i) /\ ~(k + 1 <= i) /\ j \in 1 .. n - 1 /\ ~(j < i) /\ j + 1 = k
      BY <1>1, <2>5
    <3>2. W[k] = V[j] /\ W[k + 1] = V[k]
      BY <2>2, <3>1
    <3> HIDE DEF j
    <3>3. p[j] = q[k] /\ j \in 1 .. Len(p)
      BY <1>1, <3>1
    <3>4. V[j + 1] = After(V[j], p[j]) /\ Fits(V[j], p[j])
      BY <3>3 DEF Through, AllFit
    <3> QED
      BY <3>1, <3>2, <3>3, <3>4
  <2> QED
    BY <1>1, <2>3, <2>4, <2>5
<1>4. W[1] = view
  <2>1. 1 \in 1 .. n + 1 /\ 1 <= i
    BY <1>1
  <2> QED
    BY <2>1
<1>5. W[n + 1] = V[Len(p) + 1]
  <2>1. n + 1 \in 1 .. n + 1 /\ ~(n + 1 <= i) /\ n + 1 - 1 = Len(p) + 1
    BY <1>1
  <2> QED
    BY <2>1
<1> HIDE DEF W
<1>6. Through(W, view, q) /\ AllFit(W, q)
  BY <1>3, <1>4 DEF Through, AllFit
<1>7. W[Len(q) + 1].sent \/ Shows(s, W[Len(q) + 1])
  BY <1>6 DEF Settled
<1> QED
  BY <1>5, <1>7

AnyTrouble(i) ==
    {<<"overtaken", Overtakes(i)>>, <<"lost", LosesTree(i)>>,
     <<"rows", WrongRows(answers[i])>>, <<"ancestor", WrongAncestor(answers[i])>>,
     <<"folder", WrongFolder(answers[i])>>, <<"moved", MovesBadly(answers[i])>>,
     <<"stray", Stray(answers[i])>>, <<"gone", Gone(answers[i])>>}

LEMMA IsTrouble ==
    ASSUME NEW i, NEW u \in AnyTrouble(i), u[2] PROVE u[1] \in Troubles(i)
<1>1. u \in {v \in AnyTrouble(i) : v[2]}
  BY Zenon
<1>2. Troubles(i) = {t[1] : t \in {v \in AnyTrouble(i) : v[2]}}
  BY Zenon DEF Troubles, AnyTrouble
<1> QED
  BY <1>1, <1>2, Zenon

LEMMA Untroubled ==
    ASSUME NEW i, Troubles(i) \subseteq Forgiven
    PROVE  /\ ~Overtakes(i) /\ ~WrongRows(answers[i]) /\ ~WrongAncestor(answers[i])
           /\ ~WrongFolder(answers[i]) /\ ~Gone(answers[i])
<1>1. ASSUME Overtakes(i) PROVE FALSE
  <2> DEFINE u == <<"overtaken", Overtakes(i)>>
  <2>1. u[1] = "overtaken" /\ u[2] = Overtakes(i)
    BY Zenon
  <2>2. u \in AnyTrouble(i)
    BY Zenon DEF AnyTrouble
  <2> HIDE DEF u
  <2> QED
    BY <1>1, <2>1, <2>2, IsTrouble DEF Forgiven
<1>2. ASSUME WrongRows(answers[i]) PROVE FALSE
  <2> DEFINE u == <<"rows", WrongRows(answers[i])>>
  <2>1. u[1] = "rows" /\ u[2] = WrongRows(answers[i])
    BY Zenon
  <2>2. u \in AnyTrouble(i)
    BY Zenon DEF AnyTrouble
  <2> HIDE DEF u
  <2> QED
    BY <1>2, <2>1, <2>2, IsTrouble DEF Forgiven
<1>3. ASSUME WrongAncestor(answers[i]) PROVE FALSE
  <2> DEFINE u == <<"ancestor", WrongAncestor(answers[i])>>
  <2>1. u[1] = "ancestor" /\ u[2] = WrongAncestor(answers[i])
    BY Zenon
  <2>2. u \in AnyTrouble(i)
    BY Zenon DEF AnyTrouble
  <2> HIDE DEF u
  <2> QED
    BY <1>3, <2>1, <2>2, IsTrouble DEF Forgiven
<1>4. ASSUME WrongFolder(answers[i]) PROVE FALSE
  <2> DEFINE u == <<"folder", WrongFolder(answers[i])>>
  <2>1. u[1] = "folder" /\ u[2] = WrongFolder(answers[i])
    BY Zenon
  <2>2. u \in AnyTrouble(i)
    BY Zenon DEF AnyTrouble
  <2> HIDE DEF u
  <2> QED
    BY <1>4, <2>1, <2>2, IsTrouble DEF Forgiven
<1>5. ASSUME Gone(answers[i]) PROVE FALSE
  <2> DEFINE u == <<"gone", Gone(answers[i])>>
  <2>1. u[1] = "gone" /\ u[2] = Gone(answers[i])
    BY Zenon
  <2>2. u \in AnyTrouble(i)
    BY Zenon DEF AnyTrouble
  <2> HIDE DEF u
  <2> QED
    BY <1>5, <2>1, <2>2, IsTrouble DEF Forgiven
<1> QED
  BY <1>1, <1>2, <1>3, <1>4, <1>5

(* An answer that is no trouble fits what the page shows. *)
LEMMA UntroubledFits ==
    ASSUME NEW i, Troubles(i) \subseteq Forgiven PROVE Fits(View(page), answers[i])
<1> DEFINE r == answers[i]
<1>1. ~WrongRows(r) /\ ~WrongAncestor(r) /\ ~WrongFolder(r) /\ ~Gone(r)
  BY Untroubled
<1> HIDE DEF r
<1>2. View(page).path = page.path /\ View(page).list = page.list
  BY ViewFields
<1>3. r.kind = "notice" => r.reply # "refused" /\ (r.reply = "done" => r.dir = page.path)
  BY <1>1 DEF WrongFolder, Gone
<1>4. ASSUME r.reply = "done" PROVE WriteFits(View(page), r)
  <2>1. r.kind \in {"deleteItems", "moveItems", "moveItem"} /\ r.dir # page.path =>
          /\ r.names \cap page.list = {}
          /\ r.kind = "moveItems" => r.to # page.path
          /\ \A n \in r.names : ~IsPrefix(Child(r.dir, n), page.path)
    BY <1>1, <1>4 DEF WrongRows
  <2>2. r.kind \in {"rename", "delete"} /\ r.dir # page.path =>
          LET p == Child(r.dir, CHOOSE n \in r.names : TRUE)
          IN  IsAncestorPath(p, page.path) => IsPrefix(p, page.path)
    BY <1>1, <1>4 DEF WrongAncestor
  <2> QED
    BY <1>2, <2>1, <2>2 DEF WriteFits
<1> QED
  BY <1>2, <1>3, <1>4 DEF Fits, r

(* What is on its way stays on its way when an answer is handled. *)
LEMMA AnswerKeeps ==
    ASSUME Types, NEW i \in DOMAIN answers, Answer(i)
    PROVE  /\ Types' /\ (Waiting => Waiting')
           /\ i \in 1 .. Len(answers) /\ TypedRequest(answers[i])
           /\ After(View(page), answers[i]).sent => Awaited(requests')
           /\ ~After(View(page), answers[i]).sent => View(page') = After(View(page), answers[i])
<1> DEFINE r == answers[i]
           q == Answered(r)
           v == After(View(page), r)
<1>1. /\ Commit(q) /\ answers' = RemoveAt(answers, i)
      /\ server' = server /\ notices' = notices
  BY DEF Answer
<1>2. i \in 1 .. Len(answers)
  BY AskedSeq DEF Types
<1>3. Asked(RemoveAt(answers, i)) /\ TypedRequest(r)
  BY <1>2, RemoveAsked DEF Types
<1> HIDE DEF r
<1>4. Mirrors(q, v)
  BY <1>3, AnsweredLooks DEF Types
<1>5. Exact(v)
  BY ViewExact, AfterExact
<1> HIDE DEF q, v
<1>6. /\ TypedPage(page)' /\ Asked(requests)'
      /\ View(page') = [path |-> q.path, exists |-> q.exists, list |-> q.list,
                        sent |-> FALSE]
      /\ Awaited(requests) => Awaited(requests')
      /\ AsksForList(q.sends) => Awaited(requests')
  BY <1>1, <1>4, CommitTyped DEF Mirrors
<1>7. Types'
  BY <1>1, <1>3, <1>6 DEF Types
<1>8. Waiting => Waiting'
  BY <1>1, <1>6 DEF Waiting
<1>9. v.sent => Awaited(requests')
  BY <1>4, <1>6 DEF Mirrors
<1>10. ~v.sent => View(page') = v
  <2> SUFFICES ASSUME ~v.sent PROVE View(page') = v
    OBVIOUS
  <2>1. q.path = v.path /\ q.exists = v.exists /\ q.list = v.list
    BY <1>4 DEF Mirrors
  <2>2. v.sent = FALSE
    BY <1>5 DEF Exact
  <2>3. v = [path |-> v.path, exists |-> v.exists, list |-> v.list, sent |-> v.sent]
    BY <1>5 DEF Exact
  <2> QED
    BY <1>6, <2>1, <2>2, <2>3
<1> QED
  BY <1>2, <1>3, <1>7, <1>8, <1>9, <1>10 DEF r, v

LEMMA AnswerLooks ==
    ASSUME Types, ListInv, NEW i \in DOMAIN answers, Answer(i) PROVE Types' /\ ListInv'
<1> DEFINE r == answers[i]
           v == After(View(page), r)
<1>1. /\ answers' = RemoveAt(answers, i) /\ server' = server
      /\ trouble' = trouble \cup Troubles(i)
  BY DEF Answer
<1>2. /\ Types' /\ (Waiting => Waiting')
      /\ i \in 1 .. Len(answers) /\ TypedRequest(r)
      /\ v.sent => Awaited(requests')
      /\ ~v.sent => View(page') = v
  BY AnswerKeeps
<1> SUFFICES ASSUME trouble' \ Forgiven = {}, ~Waiting'
             PROVE  Settled(View(page'), answers', server')
  BY <1>2 DEF ListInv
<1>3. Troubles(i) \subseteq Forgiven
  BY <1>1
<1>4. Settled(View(page), answers, server)
  BY <1>1, <1>2 DEF ListInv
<1>5. ~v.sent /\ View(page') = v
  BY <1>2 DEF Waiting
<1>6. Asked(answers)
  BY DEF Types
<1>7. CASE r.kind \notin OnList
  <2>1. Settled(View(page), RemoveAt(answers, i), server)
    BY <1>2, <1>4, <1>6, <1>7, RemoveOff
  <2>2. v = View(page)
    BY <1>7, OffList
  <2> QED
    BY <1>1, <1>5, <2>1, <2>2
<1>8. CASE r.kind \in OnList
  <2>1. \A k \in 1 .. i - 1 : answers[k].kind \notin OnList
    BY <1>3, <1>8, Untroubled DEF Overtakes
  <2>2. Fits(View(page), answers[i])
    BY <1>3, UntroubledFits
  <2>3. Settled(After(View(page), answers[i]), RemoveAt(answers, i), server)
    BY <1>2, <1>4, <1>6, <2>1, <2>2, RemoveOn
  <2> QED
    BY <1>1, <1>5, <2>3
<1> QED
  BY <1>7, <1>8

(* The page opens by asking for the list of its folder. *)
LEMMA InitLooks == ASSUME Init PROVE Types /\ ListInv
<1>1. PICK o \in Openings :
        LET start == NewPage(o.path, o.grid, o.panel, o.acts) IN
        /\ server = o.stored
        /\ page = [start EXCEPT !.sends = <<>>]
        /\ requests = start.sends /\ answers = <<>> /\ notices = 0
  BY DEF Init
<1> DEFINE p == o.path
           r == Fetch("list", p)
           first == [acts |-> o.acts, path |-> p, exists |-> TRUE, loading |-> TRUE,
                     list |-> {}, marked |-> {}, selected |-> {}, picked |-> p,
                     grid |-> o.grid, push |-> TRUE, hist |-> <<p>>, panel |-> o.panel,
                     tree |-> BuildTree(<<>>), treeLoading |-> TRUE,
                     sends |-> <<r>>]
           other == LoadSidePanel(first, p)
           start == IF o.panel THEN other ELSE first
<1>2. p \in Paths /\ IsTree(server)
  BY <1>1, OpeningsAssumption
<1>3. Asked(<<r>>) /\ AsksForList(<<r>>) /\ Requested(<<r>>)
  <2>1. TypedRequest(r) /\ r.kind = "list"
    BY <1>2, FetchTyped DEF Listings
  <2> HIDE DEF r
  <2>2. Asked(Append(<<>>, r)) /\ AsksForList(Append(<<>>, r))
    BY <2>1, NoneAsked, AppendAsked
  <2>3. Requested(Append(<<>>, r))
    BY <2>1, NoneRequested, AppendRequested DEF TypedRequest
  <2>4. Append(<<>>, r) = <<r>>
    OBVIOUS
  <2> QED
    BY <2>2, <2>3, <2>4 DEF r
<1> DEFINE a == <<r>>
<1> HIDE DEF a
<1>4. TypedPage(first) /\ AsksForList(first.sends)
  <2>1. <<p>> \in Seq(Paths)
    BY <1>2
  <2>2. first.sends = a
    BY DEF a
  <2> QED
    BY <1>2, <1>3, <2>1, <2>2 DEF a, TypedPage, IsPage, PageFields
<1> HIDE DEF first
<1>5. TypedPage(start) /\ AsksForList(start.sends)
  BY <1>2, <1>4, LoadSidePanelStays DEF Stays
<1>6. /\ page = [start EXCEPT !.sends = <<>>]
      /\ requests = start.sends /\ answers = <<>> /\ notices = 0
  BY <1>1 DEF NewPage, first
<1> HIDE DEF start
<1>7. TypedPage(page)
  BY <1>5, <1>6, NoneAsked, NoneRequested DEF TypedPage, IsPage, PageFields
<1>8. Types
  BY <1>2, <1>5, <1>6, <1>7, NoneAsked DEF Types, TypedPage
<1>9. Waiting
  BY <1>5, <1>6 DEF AsksForList, Waiting, Awaited
<1> QED
  BY <1>8, <1>9 DEF ListInv

LooksInv == Types /\ ListInv

LEMMA LooksStep == LooksInv /\ TreeOK /\ [Next]_vars => LooksInv'
<1> SUFFICES ASSUME Types, ListInv, TreeOK, [Next]_vars PROVE Types' /\ ListInv'
  BY DEF LooksInv
<1>1. CASE UNCHANGED vars
  <2>1. /\ page' = page /\ requests' = requests /\ answers' = answers
        /\ server' = server /\ notices' = notices /\ trouble' = trouble
    BY <1>1 DEF vars
  <2>2. Types' /\ (Waiting => Waiting')
    BY <2>1 DEF Types, Waiting
  <2> QED
    BY <2>1, <2>2, Unchanged
<1>2. CASE UserActs
  BY <1>2, UserLooks
<1>3. CASE OtherClient \/ ConnectionLost \/ Reconnected
  BY <1>3, OtherClientLooks, LinkLooks
<1>4. CASE ServerActs \/ \E i \in DOMAIN requests : RequestFails(i)
  BY <1>4, ServerListsLooks, ServerWritesLooks, RequestFailsLooks DEF ServerActs
<1>5. CASE Answers
  BY <1>5, AnswerLooks DEF Answers
<1>6. CASE RepoUpdate
  BY <1>6, RepoUpdateLooks
<1> QED
  BY <1>1, <1>2, <1>3, <1>4, <1>5, <1>6 DEF Next

(* With nothing on its way, what is settled is what is shown. *)
LEMMA QuietIsSettled == LooksInv => QuietShowsServer
<1> SUFFICES ASSUME Types, ListInv, Quiet, page.exists, trouble \ Forgiven = {}
             PROVE  IsDir(server, page.path) /\ page.list = ChildNames(server, page.path)
  BY DEF LooksInv, QuietShowsServer, Forgiven
<1>1. requests = <<>> /\ answers = <<>> /\ notices = 0
  BY DEF Quiet
<1>2. ~Waiting
  BY <1>1 DEF Waiting, Awaited
<1>3. Settled(View(page), answers, server)
  BY <1>2 DEF ListInv
<1> DEFINE v == View(page)
           V == <<v>>
<1>4. V[1] = v /\ Len(answers) = 0 /\ Len(answers) + 1 = 1
  BY <1>1
<1>5. v.sent = FALSE /\ v.exists /\ v.path = page.path /\ v.list = page.list
  BY ViewFields
<1> HIDE DEF V, v
<1>6. Through(V, v, answers) /\ AllFit(V, answers)
  BY <1>4 DEF Through, AllFit
<1>7. V[Len(answers) + 1].sent \/ Shows(server, V[Len(answers) + 1])
  BY <1>3, <1>6 DEF Settled, v
<1> QED
  BY <1>4, <1>5, <1>7 DEF Shows

(* The list of the folder is kept up to date by what the page believes of   *)
(* its own operations, and by notices: whatever clicks, operations, answers *)
(* and changes by others come, in any order, in any number and in a tree of *)
(* any depth, once nothing is on its way the page shows what the server     *)
(* stores in a folder that is there, but for the troubles that the property *)
(* names (loadDirentList, deleteDirent, renameDirent, addDirent,            *)
(* moveDirent(s) and updateUsedRepo).  A click on a node of the tree goes   *)
(* where the node says it is, so that this has to be a path.                *)
THEOREM ListShowsServer == Spec /\ []TreeOK => []QuietShowsServer
<1>1. Init => LooksInv
  BY InitLooks DEF LooksInv
<1>2. LooksInv /\ TreeOK /\ [Next]_vars => LooksInv'
  BY LooksStep
<1>3. LooksInv => QuietShowsServer
  BY QuietIsSettled
<1> QED
  BY <1>1, <1>2, <1>3, PTL DEF Spec

-----------------------------------------------------------------------------
(* Types *)

Tags == {"dead", "back", "grid", "failed", "missed", "others", "spare", "overtaken", "lost",
         "rows", "ancestor", "folder", "moved", "phantom", "gone", "stray"}

LEMMA TroublesAreTags == ASSUME NEW i PROVE Troubles(i) \subseteq Tags
<1> SUFFICES ASSUME NEW x \in Troubles(i) PROVE x \in Tags
  OBVIOUS
<1>1. Troubles(i) = {t[1] : t \in {v \in AnyTrouble(i) : v[2]}}
  BY Zenon DEF Troubles, AnyTrouble
<1>2. PICK t \in AnyTrouble(i) : x = t[1]
  BY <1>1, Zenon
<1>3. \A a, b : <<a, b>>[1] = a
  BY Zenon
<1>4. x \in {"overtaken", "lost", "rows", "ancestor", "folder", "moved", "stray", "gone"}
  BY <1>2, <1>3, Zenon DEF AnyTrouble
<1> QED
  BY <1>4 DEF Tags

LEMMA ClickTags ==
    ASSUME trouble \subseteq Tags, NEW act, NEW q, NEW tags, Click(act, q, tags),
           tags \subseteq Tags
    PROVE  trouble' \subseteq Tags
BY DEF Click

LEMMA PlainTags ==
    ASSUME trouble \subseteq Tags, NEW act, NEW q, Click(act, q, {})
    PROVE  trouble' \subseteq Tags
BY ClickTags

LEMMA AskTags ==
    ASSUME trouble \subseteq Tags, NEW kind, NEW dir, NEW names, NEW to,
           Ask(kind, dir, names, to)
    PROVE  trouble' \subseteq Tags
BY PlainTags DEF Ask

LEMMA GoTags ==
    ASSUME trouble \subseteq Tags, NEW n, ItemClick(n) \/ DirentSelected(n)
    PROVE  trouble' \subseteq Tags
<1>1. {"dead"} \subseteq Tags
  BY DEF Tags
<1> QED
  BY <1>1, PlainTags, ClickTags DEF ItemClick, DirentSelected

LEMMA TreeTags ==
    ASSUME trouble \subseteq Tags, NEW e,
           TreeNodeClick(e) \/ TreeNodeExpanded(e) \/ TreeNodeCollapse(e)
    PROVE  trouble' \subseteq Tags
<1>1. {"phantom"} \subseteq Tags
  BY DEF Tags
<1>2. CASE TreeNodeClick(e)
  <2>1. \E q, tags : Click("go", q, tags) /\ tags \subseteq {"phantom"}
    BY <1>2 DEF TreeNodeClick
  <2> QED
    BY <1>1, <2>1, ClickTags
<1>3. CASE TreeNodeExpanded(e) \/ TreeNodeCollapse(e)
  BY <1>3, PlainTags DEF TreeNodeExpanded, TreeNodeCollapse
<1> QED
  BY <1>2, <1>3

LEMMA ViewTags ==
    ASSUME trouble \subseteq Tags,
           Back \/ SwitchViewMode \/ ToggleTreePanel \/ \E p : MainNavBarClick(p)
    PROVE  trouble' \subseteq Tags
<1>1. {"grid", "back"} \subseteq Tags /\ {"back"} \subseteq Tags
  BY DEF Tags
<1>2. CASE Back
  BY <1>1, <1>2, ClickTags DEF Back
<1>3. CASE SwitchViewMode \/ ToggleTreePanel \/ \E p : MainNavBarClick(p)
  BY <1>3, PlainTags DEF SwitchViewMode, ToggleTreePanel, MainNavBarClick
<1> QED
  BY <1>2, <1>3

LEMMA UserTags == ASSUME trouble \subseteq Tags, UserActs PROVE trouble' \subseteq Tags
<1>1. ASSUME NEW n, AddItem(n) PROVE trouble' \subseteq Tags
  BY <1>1, AskTags DEF AddItem
<1>2. ASSUME NEW p, NEW new, NEW to, DeleteItem(p) \/ RenameItem(p, new) \/ MoveItem(p, to)
      PROVE  trouble' \subseteq Tags
  BY <1>2, AskTags DEF DeleteItem, RenameItem, MoveItem
<1>3. ASSUME NEW to, DeleteItems \/ MoveItems(to) \/ CopyItems(to)
      PROVE  trouble' \subseteq Tags
  BY <1>3, AskTags DEF DeleteItems, MoveItems, CopyItems
<1> QED
  BY <1>1, <1>2, <1>3, GoTags, TreeTags, ViewTags DEF UserActs

LEMMA TagsStep == trouble \subseteq Tags /\ [Next]_vars => trouble' \subseteq Tags
<1> SUFFICES ASSUME trouble \subseteq Tags, [Next]_vars PROVE trouble' \subseteq Tags
  OBVIOUS
<1>1. CASE UNCHANGED vars
  BY <1>1 DEF vars
<1>2. CASE UserActs
  BY <1>2, UserTags
<1>3. CASE OtherClient \/ ConnectionLost \/ Reconnected \/ RepoUpdate
  BY <1>3 DEF OtherClient, ConnectionLost, Reconnected, RepoUpdate, Tags
<1>4. CASE ServerActs \/ \E i \in DOMAIN requests : RequestFails(i)
  BY <1>4 DEF ServerActs, ServerLists, ServerWrites, RequestFails, Tags
<1>5. CASE Answers
  BY <1>5, TroublesAreTags DEF Answers, Answer
<1> QED
  BY <1>1, <1>2, <1>3, <1>4, <1>5 DEF Next

(* What the page keeps has its type, and the rest of TypeOK with it: only   *)
(* rows of the list are marked, whatever was deleted, moved, renamed or     *)
(* loaded since (deleteDirents, renameDirent, and the handlers of listDir), *)
(* and the library stays a tree through all that page and others ask of the *)
(* server, done or lost.  Of the paths in the nodes of the tree, which are  *)
(* part of TypeOK, nothing is proved: that is the hypothesis.               *)
THEOREM TypesHold == Spec /\ []TreeOK => []TypeOK
<1>1. Init => LooksInv /\ trouble \subseteq Tags
  BY InitLooks DEF LooksInv, Init
<1>2. LooksInv /\ trouble \subseteq Tags /\ TreeOK /\ [Next]_vars
        => (LooksInv /\ trouble \subseteq Tags)'
  BY LooksStep, TagsStep
<1>3. LooksInv /\ trouble \subseteq Tags /\ TreeOK /\ PlaceInv => TypeOK
  BY DEF LooksInv, Types, TypedPage, PlaceInv, Tags, TypeOK
<1>4. Spec => []PlaceInv
  BY PlaceInvAlways
<1> QED
  BY <1>1, <1>2, <1>3, <1>4, PTL DEF Spec
=============================================================================
