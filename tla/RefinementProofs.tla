-------------------------- MODULE RefinementProofs --------------------------
(***************************************************************************)
(* HeadUpdate implements AtomicLibrary: seen through its head, the library *)
(* is one tree to which every request is applied once, as a whole, however *)
(* handlers interleave, lose the Branch row to each other and merge.       *)
(***************************************************************************)
EXTENDS HistoryProofs

(* A request is the difference that its commit makes to the base of the    *)
(* handler.  What the Branch row is to get is that difference, made to the *)
(* tree of the head the handler knows.                                     *)
RequestsOK == \A c \in Requests : commits[c].parent \in Ids /\ commits[c].by \in Updaters
CarriesRequest(u) ==
  /\ Submitted(u) => mine[u] \in Requests /\ commits[mine[u]].parent = base[u]
  /\ pc[u] = "update" => Root(cand[u]) = Merge(Root(base[u]), Root(rhead[u]), Root(mine[u]))

RequestInv == RequestsOK /\ \A u \in Updaters : CarriesRequest(u)
-----------------------------------------------------------------------------
(* A commit that a handler makes for its request adds one request, a merge *)
(* adds none, and what the old ones ask for stays what it is.              *)
LEMMA RequestsGrow ==
  ASSUME LogInv, RequestsOK, NEW u \in Updaters, NEW p \in Ids, NEW s \in Ids \cup {None},
         NEW root \in SUBSET Entries, commits' = Append(commits, NewCommit(u, p, s, root))
  PROVE  /\ Requests' = Requests \cup (IF s = None THEN {NextId} ELSE {})
         /\ NextId \notin Requests
         /\ \A c \in Requests : commits'[c].parent = commits[c].parent /\ Request(c)' = Request(c)
         /\ RequestsOK'
<1>1. /\ commits'[NextId].parent = p /\ commits'[NextId].second = s /\ commits'[NextId].by = u
      /\ \A c \in Ids : commits'[c] = commits[c]
  BY SavedCommit
<1>2. /\ Len(commits) \in Nat \ {0} /\ Len(commits') = Len(commits) + 1
      /\ NextId = Len(commits) + 1
  BY LogGrows DEF LogInv, StoreOK, Ids, NextId
<1>3. Requests' = Requests \cup (IF s = None THEN {NextId} ELSE {}) /\ NextId \notin Requests
  BY <1>1, <1>2 DEF Requests, Ids
<1>4. \A c \in Requests : c \in Ids /\ commits[c].parent \in Ids
  BY DEF RequestsOK, Requests, Ids
<1>5. \A c \in Requests : commits'[c].parent = commits[c].parent /\ Request(c)' = Request(c)
  BY <1>1, <1>4 DEF Request, Root
<1>6. RequestsOK'
  BY <1>1, <1>2, <1>3, <1>4, <1>5 DEF RequestsOK, Ids
<1> QED BY <1>3, <1>5, <1>6

LEMMA RequestsStay ==
  ASSUME LogInv, RequestsOK, [Next]_vars
  PROVE  /\ RequestsOK' /\ Requests \subseteq Requests'
         /\ \A c \in Requests : commits'[c].parent = commits[c].parent /\ Request(c)' = Request(c)
<1>1. CASE UNCHANGED commits
  BY <1>1 DEF RequestsOK, Requests, Request, Root, Ids
<1>2. CASE commits' # commits
  <2>1. PICK u \in Updaters : Build(u) \/ PutCommit(u) \/ MergeCommit(u)
    BY <1>2, Savers
  <2>2. PICK p \in Ids, s \in Ids \cup {None}, root \in SUBSET Entries :
          commits' = Append(commits, NewCommit(u, p, s, root))
    BY <1>2, <2>1, SavedWell, Zenon
  <2> QED BY <2>2, RequestsGrow
<1> QED BY <1>1, <1>2

(* Making the difference to the tree of its own base gives what was asked. *)
LEMMA MergeOfOwnBase == \A ancestor, theirs : Merge(ancestor, ancestor, theirs) = theirs
BY DEF Merge

LEMMA CarriesRequestStays ==
  ASSUME LogInv, RequestsOK, NEW u \in Updaters, CarriesRequest(u), Handler(u) \/ Failure(u)
  PROVE  CarriesRequest(u)'
<1>0. /\ HandlerOK(u) /\ LogExtends /\ Requests \subseteq Requests'
  BY LogOnlyGrows, RequestsStay DEF LogInv, Next
<1>1. ASSUME NEW root \in Results(u, Root(base[u])),
             commits' = Append(commits, NewCommit(u, base[u], None, root)),
             mine'[u] = NextId, base'[u] = base[u], pc'[u] # "update"
      PROVE  CarriesRequest(u)'
  <2>1. base[u] \in Ids /\ root \in SUBSET Entries
    BY <1>0, RootsAreTrees, ResultsAreTrees DEF HandlerOK
  <2>2. NextId \in Requests'
    BY <1>1, <2>1, RequestsGrow
  <2>3. commits'[NextId].parent = base[u]
    BY <1>1, <2>1, SavedCommit
  <2> QED BY <1>1, <2>2, <2>3 DEF CarriesRequest
<1>2. ASSUME UNCHANGED commits, mine'[u] = mine[u], base'[u] = base[u],
             Submitted(u)' => Submitted(u), pc'[u] # "update"
      PROVE  CarriesRequest(u)'
  BY <1>2 DEF CarriesRequest, Requests
<1>3. CASE Load(u)
  <2>1. /\ pc[u] = "load" /\ pc'[u] \in {"gcid", "commit", "build"} /\ mine'[u] = mine[u]
    BY <1>3 DEF Load, Goto, LogInv, LocalsAreFunctions, IsLocal
  <2>2. pc'[u] # "update" /\ ~ Submitted(u)'
    BY <1>0, <2>1 DEF HandlerOK, Submitted
  <2> QED BY <2>2 DEF CarriesRequest
<1>4. CASE Build(u)
  BY <1>1, <1>4 DEF Build, Goto, LogInv, LocalsAreFunctions, IsLocal
<1>5. CASE PutCommit(u)
  <2>1. pc'[u] = "fs" /\ u \in Syncs /\ base'[u] = base[u]
    BY <1>0, <1>5, KindsAssumption
       DEF PutCommit, Goto, LogInv, LocalsAreFunctions, IsLocal, HandlerOK, LabelsOf, Terminal
  <2>2. CASE mine[u] = None
    BY <1>1, <1>5, <2>1, <2>2 DEF PutCommit, LogInv, LocalsAreFunctions, IsLocal
  <2>3. CASE mine[u] # None
    BY <1>2, <1>5, <2>1, <2>3 DEF PutCommit, Submitted
  <2> QED BY <2>2, <2>3
<1>6. CASE MergeCommit(u)
  <2> DEFINE root == Merge(Root(base[u]), Root(rhead[u]), Root(mine[u]))
  <2>1. /\ pc[u] = "merge" /\ mine'[u] = mine[u] /\ cand'[u] = NextId /\ base'[u] = base[u]
        /\ rhead'[u] = rhead[u]
        /\ commits' = Append(commits, NewCommit(u, rhead[u], mine[u], root))
    BY <1>6 DEF MergeCommit, Goto, LogInv, LocalsAreFunctions, IsLocal
  <2>2. Submitted(u) /\ mine[u] \in Ids /\ base[u] \in Ids /\ rhead[u] \in Ids
    BY <1>0, <2>1 DEF HandlerOK, Submitted, MineOK
  <2>3. root \in SUBSET Entries
    BY <2>2, RootsAreTrees DEF Merge
  <2>4. commits'[NextId].root = root /\ \A c \in Ids : commits'[c].root = Root(c)
    BY <2>1, <2>2, <2>3, SavedRoot DEF Root
  <2>5. mine[u] \in Requests' /\ commits'[mine[u]].parent = base[u]
    BY <1>0, <2>2 DEF CarriesRequest, LogExtends
  <2>6. /\ Root(cand[u])' = root /\ Root(base[u])' = Root(base[u])
        /\ Root(rhead[u])' = Root(rhead[u]) /\ Root(mine[u])' = Root(mine[u])
    BY <2>1, <2>2, <2>4 DEF Root
  <2> QED BY <2>1, <2>5, <2>6 DEF CarriesRequest, Merge
<1>7. CASE FastForward(u)
  <2>1. /\ pc[u] = "merge" /\ cand'[u] = mine[u] /\ UNCHANGED <<commits, mine, base, rhead>>
        /\ base[u] = rhead[u] /\ Submitted(u)
    BY <1>7 DEF FastForward, Goto, LogInv, LocalsAreFunctions, IsLocal, store, Submitted
  <2> QED BY <2>1, MergeOfOwnBase DEF CarriesRequest, Root, Requests, Merge
<1> USE DEF Goto, LogInv, LocalsAreFunctions, IsLocal, HandlerOK, LabelsOf, Terminal, Submitted
<1>8. CASE ReadGCID(u) \/ WriteBlocks(u) \/ NothingToDo(u) \/ SendFs(u) \/ PutHead(u)
  BY <1>0, <1>2, <1>8, KindsAssumption
     DEF ReadGCID, WriteBlocks, NothingToDo, SendFs, PutHead, store
<1>9. CASE \/ TakeLastGCID(u) \/ ReadFails(u) \/ Reload(u)
           \/ SyncAgain(u) \/ SyncCutOff(u) \/ AnswerLost(u)
  BY <1>0, <1>2, <1>9, KindsAssumption
     DEF TakeLastGCID, ReadFails, Reload, SyncAgain, SyncCutOff, AnswerLost, store
<1>10. CASE UpdateBranch(u) \/ AnswerGCConflict(u) \/ LostCommit(u)
  BY <1>0, <1>2, <1>10, KindsAssumption
     DEF UpdateBranch, AnswerGCConflict, LostCommit, MayCompare, store
<1>11. CASE HeadHasChanged(u) \/ DBError(u) \/ LateError(u)
  BY <1>0, <1>2, <1>11, KindsAssumption
     DEF HeadHasChanged, DBError, LateError, MayCompare, Retry, store
<1> QED BY <1>3, <1>4, <1>5, <1>6, <1>7, <1>8, <1>9, <1>10, <1>11 DEF Handler, Failure

LEMMA RequestInvInit == Init => RequestInv
<1> SUFFICES ASSUME Init PROVE RequestInv
  OBVIOUS
<1>1. Requests = {}
  BY DEF Init, Requests
<1>2. ASSUME NEW u \in Updaters PROVE CarriesRequest(u)
  BY KindsAssumption DEF Init, CarriesRequest, Submitted, None
<1> QED BY <1>1, <1>2 DEF RequestInv, RequestsOK

LEMMA RequestInvStep == LogInv /\ RequestInv /\ [Next]_vars => RequestInv'
<1> SUFFICES ASSUME LogInv, RequestInv, [Next]_vars PROVE RequestInv'
  OBVIOUS
<1>1. /\ RequestsOK' /\ LogExtends /\ Requests \subseteq Requests'
  BY RequestsStay, LogOnlyGrows DEF RequestInv
<1>2. ASSUME NEW v \in Updaters PROVE CarriesRequest(v)'
  <2>0. CarriesRequest(v) /\ HandlerOK(v) /\ RequestsOK
    BY DEF RequestInv, LogInv
  <2>1. ASSUME /\ pc'[v] = pc[v] /\ base'[v] = base[v] /\ rhead'[v] = rhead[v]
               /\ mine'[v] = mine[v] /\ cand'[v] = cand[v]
        PROVE  CarriesRequest(v)'
    <3>1. Submitted(v)' => Submitted(v) /\ mine[v] \in Ids
      BY <2>0, <2>1 DEF Submitted, HandlerOK, MineOK
    <3>2. pc'[v] = "update" => cand[v] \in Ids /\ mine[v] \in Ids
      BY <2>0, <2>1 DEF HandlerOK, CandOK, MineOK, Submitted
    <3>3. base[v] \in Ids /\ rhead[v] \in Ids
      BY <2>0 DEF HandlerOK
    <3> QED BY <1>1, <2>0, <2>1, <3>1, <3>2, <3>3 DEF CarriesRequest, LogExtends, Root
  <2>2. CASE Handler(v) \/ Failure(v)
    BY <2>0, <2>2, CarriesRequestStays
  <2>3. ASSUME NEW u \in Updaters, u # v, Handler(u) \/ Failure(u)
        PROVE  CarriesRequest(v)'
    BY <2>1, <2>3, HandlerFrame DEF OnlyMoves
  <2>4. CASE Collecting \/ AllAnswered \/ UNCHANGED vars
    <3>1. UNCHANGED local
      BY <2>4 DEF Collecting, CollectorStep, GCList, GCPopulate, GCLock, GCRecheck,
           GCDeleteBlock, GCDeleteFs, GCCommit, GCNothing, GCStart, GCFalsePositive, GCGiveUp,
           GCAbort, GCEnd, AllAnswered, vars
    <3> QED BY <2>1, <3>1 DEF local
  <2> QED BY <2>2, <2>3, <2>4 DEF Next, Collecting
<1> QED BY <1>1, <1>2 DEF RequestInv

(* Every handler carries the difference that its request makes to its base *)
(* into what it is about to install (genNewCommit, fastForwardOrMerge).    *)
THEOREM RequestInvAlways == Spec => []RequestInv
BY RequestInvInit, RequestInvStep, LogInvAlways, PTL DEF Spec
-----------------------------------------------------------------------------
(* The state of the abstract library.                                      *)
Asked == {Request(c) : c \in Requests}
TookEffect == {Request(c) : c \in Requests \cap History(head)}

(* A request is told from any other by its commit.                         *)
LEMMA RequestIds == \A c, d : Request(c) = Request(d) => c = d
<1>1. \A c : Request(c).id = c
  BY DEF Request
<1> QED BY <1>1

(* Saving the commit of a request is asking for it, saving a merge or      *)
(* anything else that leaves the head alone is nothing.                    *)
LEMMA SaveAsks ==
  ASSUME LogInv, RequestsOK, [Next]_vars, head' = head
  PROVE  Library!Ask \/ UNCHANGED <<Tree, Asked, TookEffect>>
<1>1. Tree' = Tree /\ History(head)' = History(head)
  BY LogOnlyGrows DEF LogExtends, LogInv, StoreOK, Tree, Root, History
<1>2. CASE UNCHANGED commits
  <2>1. Requests' = Requests /\ \A c : Request(c)' = Request(c)
    BY <1>2 DEF Requests, Request, Root
  <2> QED BY <1>1, <2>1 DEF Asked, TookEffect
<1>3. CASE commits' # commits
  <2>1. PICK u \in Updaters : Build(u) \/ PutCommit(u) \/ MergeCommit(u)
    BY <1>3, Savers
  <2>2. PICK p \in Ids, s \in Ids \cup {None}, root \in SUBSET Entries :
          commits' = Append(commits, NewCommit(u, p, s, root))
    BY <1>3, <2>1, SavedWell
  <2> DEFINE r == [id |-> NextId, add |-> root \ Root(p), del |-> Root(p) \ root]
             new == IF s = None THEN {NextId} ELSE {}
  <2>3. /\ Requests' = Requests \cup new /\ NextId \notin Requests
        /\ \A c \in Requests : Request(c)' = Request(c)
    BY <2>2, RequestsGrow
  <2>4. History(head) \subseteq Ids /\ NextId \notin Ids
    BY DEF LogInv, LogOK, StoreOK, Ids, NextId
  <2>5. TookEffect' = TookEffect
    BY <1>1, <2>3, <2>4 DEF TookEffect
  <2>6. CASE s # None
    BY <1>1, <2>3, <2>5, <2>6 DEF Asked
  <2>7. CASE s = None
    <3>1. /\ commits'[NextId].parent = p /\ commits'[NextId].root = root
          /\ commits'[p].root = Root(p)
      BY <2>2, SavedCommit DEF Root
    <3>2. \A c : c = NextId => Request(c)' = r
      BY <3>1 DEF Request, Root
    <3>3. Asked' = Asked \cup {r}
      BY <2>3, <2>7, <3>2 DEF Asked
    <3>4. r.add \subseteq Entries /\ r.del \subseteq Entries
      BY <2>2, RootsAreTrees
    <3>5. \A q \in Asked : q.id # r.id
      BY <2>3 DEF Asked, Request
    <3> HIDE DEF r
    <3>6. Library!Ask
      BY <1>1, <2>5, <3>3, <3>4, <3>5 DEF Library!Ask, Asked, TookEffect
    <3> QED BY <3>6
  <2> QED BY <2>6, <2>7
<1> QED BY <1>2, <1>3

(* The request of a handler that has not been answered has had no effect.  *)
LEMMA NotYetApplied ==
  ASSUME OnceInv, RequestInv, NEW u \in Updaters, pc[u] = "update"
  PROVE  mine[u] \in Requests \ History(head)
<1>1. Submitted(u) /\ mine[u] \in Requests /\ commits[mine[u]].by = u /\ Applied(u) = {}
  BY DEF Submitted, RequestInv, CarriesRequest, OnceInv, CarriesOne, AppliedOK
<1> QED BY <1>1 DEF Applied, Requests

(* Moving the head applies the request of the handler that moves it.       *)
LEMMA UpdateApplies ==
  ASSUME LogInv, OnceInv, RequestInv, NEW u \in Updaters, UpdateBranch(u)
  PROVE  Library!Apply
<1> DEFINE r == Request(mine[u])
<1>1. /\ head' = cand[u] /\ UNCHANGED commits /\ head = rhead[u] /\ pc[u] = "update"
      /\ Submitted(u)
  BY DEF UpdateBranch, MayCompare, HeadIsKnown, Submitted
<1>2. /\ mine[u] \in Requests /\ commits[mine[u]].parent = base[u]
      /\ Root(cand[u]) = Merge(Root(base[u]), Tree, Root(mine[u]))
  BY <1>1 DEF RequestInv, CarriesRequest, Tree
<1>3. r.add = Root(mine[u]) \ Root(base[u]) /\ r.del = Root(base[u]) \ Root(mine[u])
  BY <1>2 DEF Request
<1>4. Tree' = (Tree \ r.del) \cup r.add
  BY <1>1, <1>2, <1>3 DEF Tree, Root, Merge
<1>5. mine[u] \notin History(head)
  BY <1>1, NotYetApplied
<1>6. r \in Asked \ TookEffect
  BY <1>2, <1>5, RequestIds DEF Asked, TookEffect
<1>7. cand[u] \in Ids /\ cand[u] \in History(cand[u]) /\ mine[u] \in History(cand[u])
      /\ History(head) \subseteq History(cand[u])
      /\ History(cand[u]) \subseteq {cand[u], mine[u]} \cup History(head)
      /\ (cand[u] # mine[u] => commits[cand[u]].second # None)
  BY <1>1 DEF LogInv, LogOK, HandlerOK, CandOK, OnceInv, CarriesOne
<1>8. Requests \cap History(cand[u]) = (Requests \cap History(head)) \cup {mine[u]}
  BY <1>2, <1>7 DEF Requests
<1>9. Requests' = Requests /\ (\A c : Request(c)' = Request(c)) /\ History(head)' = History(cand[u])
  BY <1>1 DEF Requests, Request, Root, History
<1>10. Asked' = Asked /\ TookEffect' = TookEffect \cup {r}
  BY <1>8, <1>9 DEF Asked, TookEffect
<1> HIDE DEF r
<1> QED BY <1>4, <1>6, <1>10 DEF Library!Apply, Asked, TookEffect

(* Every behaviour of the protocol is one of the abstract library, for any *)
(* number of updaters, of retries and of runs of the collector, as long as *)
(* no error that follows the move of the Branch row, and no answer lost    *)
(* after it, makes a handler or a client take it for lost: each request is *)
(* applied as a whole, once, to the tree of that moment.                   *)
THEOREM ImplementsAtomicLibrary ==
  ASSUME {"lateerror", "lostanswer"} \cap Faults = {}
  PROVE  Spec => AtomicLibrarySpec
<1>1. Init => Library!Init
  <2> SUFFICES ASSUME Init PROVE Library!Init
    OBVIOUS
  <2>1. Tree = InitialTree /\ Requests = {}
    BY DEF Init, Tree, Root, Requests
  <2> QED BY <2>1 DEF Library!Init
<1>2. LogInv /\ OnceInv /\ RequestInv /\ [Next]_vars
        => [Library!Next]_<<Tree, Asked, TookEffect>>
  <2> SUFFICES ASSUME LogInv, OnceInv, RequestInv, [Next]_vars
               PROVE  Library!Next \/ UNCHANGED <<Tree, Asked, TookEffect>>
    OBVIOUS
  <2>1. CASE head' = head
    BY <2>1, SaveAsks DEF RequestInv, Library!Next
  <2>2. CASE head' # head
    <3>1. PICK u \in Updaters : UpdateBranch(u)
      BY <2>2, HeadMoves DEF LateError, Fail
    <3> QED BY <3>1, UpdateApplies DEF Library!Next
  <2> QED BY <2>1, <2>2
<1> QED
  BY <1>1, <1>2, LogInvAlways, OnceInvAlways, RequestInvAlways, PTL
     DEF Spec, AtomicLibrarySpec, Library!Spec, Asked, TookEffect
=============================================================================
