--------------------------- MODULE CollectorProofs ---------------------------
(***************************************************************************)
(* The safety of the online collector.  An update may only be installed    *)
(* while the gc id is the one its handler marked before it wrote its       *)
(* blocks, and then its blocks are still there; the collector only deletes *)
(* while it holds the GCID row, and then no update that brings in blocks   *)
(* can be installed.                                                       *)
(***************************************************************************)
EXTENDS HistoryProofs

Writers == Uploads \cup Replaces \cup Syncs

(* What a request may add to a tree.                                       *)
Own(u) == IF u \in Deletes THEN {} ELSE {u} \X Nat
NewOK(u) ==
  /\ Submitted(u) => Root(mine[u]) \ Root(base[u]) \subseteq Own(u)
  /\ pc[u] = "update" => Root(cand[u]) \ Root(rhead[u]) \subseteq Own(u)

(* The handler has written its blocks, under the gc id Mark(u).            *)
Written(u) ==
  \/ u \in Uploads /\ pc[u] \in {"load", "build", "merge", "update"}
  \/ u \in Replaces /\ pc[u] \in {"build", "merge", "update", "reload"}
  \/ u \in Syncs /\ pc[u] \in {"head", "takegc", "merge", "update"}
Marked(u) == Written(u) \/ (u \in Writers /\ pc[u] \in {"fs", "index"})
Mark(u) ==
  IF u \in Syncs /\ pc[u] \in {"fs", "index", "head", "takegc"} THEN lastgc[u] ELSE seen[u]
MarkOK(u) ==
  /\ Marked(u) => Mark(u) \in 0 .. gcid
  /\ Written(u) /\ Mark(u) = gcid /\ gcpc # "delete" => BlockOf[u] \in blocks

(* What the collector found alive covers the head it works on, and, once   *)
(* it deletes, the head of the library.                                    *)
LiveOK ==
  /\ gcpc \in {"lock", "recheck"} => BlocksIn(Root(gchead)) \subseteq live
  /\ gcpc = "delete" => BlocksIn(Tree) \subseteq live

GCInv ==
  /\ \A u \in Updaters : NewOK(u) /\ MarkOK(u)
  /\ LiveOK
  /\ HeadBlocksPresent
-----------------------------------------------------------------------------
LEMMA ResultsAddOwn ==
  ASSUME LogInv, NEW u \in Updaters, u \notin Reverts, NEW tree, NEW root \in Results(u, tree)
  PROVE  root \ tree \subseteq Own(u)
<1>1. <<u, attempts[u] + 1>> \in {u} \X Nat
  BY DEF LogInv, HandlerOK
<1>2. CASE u \in Uploads \/ u \in Replaces \/ u \in Syncs
  BY <1>1, <1>2, KindsAssumption DEF Results, Own
<1>3. CASE u \in Deletes
  BY <1>3, KindsAssumption DEF Results, Own
<1> QED BY <1>2, <1>3 DEF Updaters

(* A handler brings in nothing but its own entries.                        *)
LEMMA NewEntries ==
  ASSUME LogInv, NEW u \in Updaters, u \notin Reverts, NewOK(u), Handler(u) \/ Failure(u)
  PROVE  NewOK(u)'
<1>0. HandlerOK(u) /\ LogExtends /\ OnlyMoves(u)
  BY HandlerFrame, LogOnlyGrows DEF LogInv, Next
<1>1. CASE Load(u)
  <2>1. /\ pc[u] = "load" /\ pc'[u] \in {"gcid", "commit", "build"}
        /\ mine'[u] = mine[u]
    BY <1>1 DEF Load, Goto, LogInv, LocalsAreFunctions, IsLocal
  <2>2. pc'[u] # "update" /\ ~ Submitted(u)'
    BY <1>0, <2>1 DEF HandlerOK, Submitted
  <2> QED BY <2>2 DEF NewOK
<1>2. CASE Build(u)
  <2>1. PICK root \in Results(u, Root(base[u])) :
          commits' = Append(commits, NewCommit(u, base[u], None, root))
    BY <1>2 DEF Build
  <2>2. root \in SUBSET Entries
    BY <1>0, RootsAreTrees, ResultsAreTrees DEF HandlerOK
  <2>3. /\ pc'[u] = "merge" /\ mine'[u] = NextId /\ base'[u] = base[u] /\ base[u] \in Ids
    BY <1>0, <1>2 DEF Build, Goto, LogInv, LocalsAreFunctions, IsLocal, HandlerOK
  <2>4. commits'[NextId].root = root /\ commits'[base[u]] = commits[base[u]]
    BY <2>1, <2>2, <2>3, SavedRoot
  <2> QED BY <2>1, <2>3, <2>4, ResultsAddOwn DEF NewOK, Root
<1>3. CASE PutCommit(u)
  <2>1. /\ pc[u] = "commit" /\ pc'[u] = "fs" /\ base'[u] = base[u] /\ base[u] \in Ids
        /\ commits'[base[u]] = commits[base[u]] /\ u \in Syncs
    BY <1>0, <1>3, KindsAssumption
       DEF PutCommit, Goto, LogInv, LocalsAreFunctions, IsLocal, HandlerOK, LogExtends, LabelsOf,
           Terminal
  <2>2. CASE mine[u] = None
    <3>1. PICK root \in Results(u, Root(base[u])) :
            commits' = Append(commits, NewCommit(u, base[u], None, root))
      BY <1>3, <2>2 DEF PutCommit
    <3>2. root \in SUBSET Entries
      BY <2>1, RootsAreTrees, ResultsAreTrees
    <3>3. mine'[u] = NextId
      BY <1>3, <2>2 DEF PutCommit, LogInv, LocalsAreFunctions, IsLocal
    <3>4. commits'[NextId].root = root
      BY <2>1, <3>1, <3>2, SavedRoot
    <3> QED BY <2>1, <3>1, <3>3, <3>4, ResultsAddOwn DEF NewOK, Root
  <2>3. CASE mine[u] # None
    <3>1. UNCHANGED <<commits, mine>>
      BY <1>3, <2>3 DEF PutCommit
    <3>2. Submitted(u)
      BY <2>1, <2>3 DEF Submitted
    <3> QED BY <2>1, <3>1, <3>2 DEF NewOK, Root
  <2> QED BY <2>2, <2>3
<1>4. CASE MergeCommit(u)
  <2> DEFINE root == Merge(Root(base[u]), Root(rhead[u]), Root(mine[u]))
  <2>1. /\ pc[u] = "merge" /\ base'[u] = base[u] /\ mine'[u] = mine[u] /\ rhead'[u] = rhead[u]
        /\ cand'[u] = NextId
        /\ commits' = Append(commits, NewCommit(u, rhead[u], mine[u], root))
    BY <1>4 DEF MergeCommit, Goto, LogInv, LocalsAreFunctions, IsLocal
  <2>2. MineOK(u) /\ base[u] \in Ids /\ rhead[u] \in Ids /\ Submitted(u)
    BY <1>0, <2>1 DEF HandlerOK, Submitted
  <2>3. root \in SUBSET Entries
    BY <2>2, RootsAreTrees DEF Merge, MineOK
  <2>4. commits'[NextId].root = root /\ \A c \in Ids : commits'[c] = commits[c]
    BY <2>1, <2>2, <2>3, SavedRoot DEF MineOK
  <2>5. Root(mine[u]) \ Root(base[u]) \subseteq Own(u) /\ root \ Root(rhead[u]) \subseteq Own(u)
    BY <2>2 DEF NewOK, Merge
  <2> QED BY <2>1, <2>2, <2>4, <2>5 DEF NewOK, Root, MineOK
<1>5. CASE FastForward(u)
  <2>1. /\ pc[u] = "merge" /\ base[u] = rhead[u] /\ cand'[u] = mine[u]
        /\ UNCHANGED <<commits, base, rhead, mine>>
    BY <1>5 DEF FastForward, Goto, LogInv, LocalsAreFunctions, IsLocal, store
  <2>2. Submitted(u)
    BY <2>1 DEF Submitted
  <2> QED BY <2>1, <2>2 DEF NewOK, Root
<1>6. ASSUME UNCHANGED <<commits, base, mine>>, Submitted(u)' => Submitted(u), pc'[u] # "update"
      PROVE  NewOK(u)'
  BY <1>6 DEF NewOK, Root
<1> USE DEF Goto, LogInv, LocalsAreFunctions, IsLocal, HandlerOK, LabelsOf, Terminal, Submitted
<1>7. CASE ReadGCID(u) \/ WriteBlocks(u) \/ NothingToDo(u) \/ SendFs(u) \/ PutHead(u)
  BY <1>0, <1>6, <1>7, KindsAssumption
     DEF ReadGCID, WriteBlocks, NothingToDo, SendFs, PutHead, store
<1>8. CASE TakeLastGCID(u) \/ ReadFails(u) \/ Reload(u) \/ SyncAgain(u)
           \/ SyncCutOff(u) \/ AnswerLost(u)
  BY <1>0, <1>6, <1>8, KindsAssumption
     DEF TakeLastGCID, ReadFails, Reload, SyncAgain, SyncCutOff, AnswerLost, store
<1>9. CASE UpdateBranch(u) \/ AnswerGCConflict(u) \/ LostCommit(u)
  BY <1>0, <1>6, <1>9, KindsAssumption DEF UpdateBranch, AnswerGCConflict, LostCommit, MayCompare, store
<1>10. CASE HeadHasChanged(u) \/ DBError(u) \/ LateError(u)
  BY <1>0, <1>6, <1>10, KindsAssumption
     DEF HeadHasChanged, DBError, LateError, MayCompare, Retry, store
<1> QED BY <1>1, <1>2, <1>3, <1>4, <1>5, <1>7, <1>8, <1>9, <1>10 DEF Handler, Failure

(* What a handler has marked and written holds while it goes on.           *)
LEMMA MarkHolds ==
  ASSUME LogInv, NEW u \in Updaters, MarkOK(u), UNCHANGED <<gcid, gcpc>>, blocks \subseteq blocks',
         Written(u)' => Written(u), Marked(u)' => Marked(u) /\ Mark(u)' = Mark(u)
  PROVE  MarkOK(u)'
<1>1. Marked(u)' => Mark(u)' \in 0 .. gcid'
  BY DEF MarkOK
<1>2. ASSUME Written(u)', Mark(u)' = gcid', gcpc' # "delete" PROVE BlockOf[u] \in blocks'
  <2>1. Written(u) /\ Marked(u)'
    BY <1>2 DEF Marked
  <2> QED BY <1>2, <2>1 DEF MarkOK
<1> QED BY <1>1, <1>2 DEF MarkOK

(* A handler marks the gc id of the moment before it writes its block.     *)
LEMMA Marks ==
  ASSUME LogInv, NEW u \in Updaters, MarkOK(u), Handler(u) \/ Failure(u)
  PROVE  MarkOK(u)'
<1>0. /\ HandlerOK(u) /\ OnlyMoves(u) /\ gcid' = gcid /\ blocks \subseteq blocks' /\ gcpc' = gcpc
      /\ gcid \in Nat
  BY HandlerFrame DEF LogInv, StoreOK, OnlyMoves, collector
<1> USE KindsAssumption DEF Goto, LogInv, StoreOK, LocalsAreFunctions, IsLocal, HandlerOK, LabelsOf,
                            Terminal, Written, Marked, Mark, Writers, Updaters
<1>1. CASE ReadGCID(u)
  <2>1. pc'[u] = "index" /\ seen'[u] = gcid /\ u \notin Syncs
    BY <1>0, <1>1 DEF ReadGCID
  <2> QED BY <1>0, <2>1 DEF MarkOK
<1>2. CASE WriteBlocks(u)
  <2>1. BlockOf[u] \in blocks' /\ Marked(u) /\ Mark(u)' = Mark(u)
    BY <1>0, <1>2 DEF WriteBlocks
  <2> QED BY <1>0, <2>1 DEF MarkOK
<1>3. CASE PutCommit(u)
  <2>1. pc'[u] = "fs" /\ u \in Syncs /\ lastgc'[u] = gcid
    BY <1>0, <1>3 DEF PutCommit
  <2> QED BY <1>0, <2>1 DEF MarkOK
<1>4. ASSUME Written(u)' => Written(u), Marked(u)' => Marked(u) /\ Mark(u)' = Mark(u)
      PROVE  MarkOK(u)'
  BY <1>0, <1>4, MarkHolds
<1>5. CASE TakeLastGCID(u) \/ NothingToDo(u) \/ SendFs(u) \/ PutHead(u)
  BY <1>0, <1>4, <1>5 DEF TakeLastGCID, NothingToDo, SendFs, PutHead, store
<1>6. CASE Load(u) \/ Build(u) \/ FastForward(u) \/ MergeCommit(u)
  BY <1>0, <1>4, <1>6 DEF Load, Build, FastForward, MergeCommit, store
<1>7. CASE ReadFails(u) \/ Reload(u) \/ SyncAgain(u) \/ SyncCutOff(u) \/ AnswerLost(u)
  BY <1>0, <1>4, <1>7 DEF ReadFails, Reload, SyncAgain, SyncCutOff, AnswerLost, store
<1>8. CASE UpdateBranch(u) \/ AnswerGCConflict(u) \/ LostCommit(u)
  BY <1>0, <1>4, <1>8 DEF UpdateBranch, AnswerGCConflict, LostCommit, MayCompare, store
<1>9. CASE HeadHasChanged(u) \/ DBError(u) \/ LateError(u)
  BY <1>0, <1>4, <1>9 DEF HeadHasChanged, DBError, LateError, MayCompare, Retry, store
<1> QED BY <1>1, <1>2, <1>3, <1>5, <1>6, <1>7, <1>8, <1>9 DEF Handler, Failure

(* A new head has only blocks of the old one and the block of the request, *)
(* which is there: a deletion brings in none, any other handler knows that *)
(* the collector is not at work and has not been since it marked.          *)
LEMMA NewTree ==
  ASSUME LogInv, GCInv, NEW u \in Updaters, u \notin Reverts, UpdateBranch(u) \/ LateError(u)
  PROVE  \/ Tree' \subseteq Tree
         \/ /\ gcpc # "delete" /\ BlockOf[u] \in blocks
            /\ BlocksIn(Tree') \subseteq BlocksIn(Tree) \cup {BlockOf[u]}
<1>1. /\ head' = cand[u] /\ UNCHANGED commits /\ head = rhead[u] /\ pc[u] = "update"
      /\ MayCompare(u) /\ ~ GCConflict(u)
  BY Advance DEF UpdateBranch, LateError, MayCompare
<1>2. Tree' \subseteq Tree \cup Own(u)
  BY <1>1 DEF GCInv, NewOK, Tree, Root
<1>3. CASE u \in Deletes
  BY <1>2, <1>3 DEF Own
<1>4. CASE u \notin Deletes
  <2>1. u \in Writers
    BY <1>4 DEF Updaters, Writers
  <2>2. Written(u) /\ Mark(u) = seen[u] /\ seen[u] \in 0 .. gcid
    BY <1>1, <2>1 DEF Writers, Written, Mark, Marked, GCInv, MarkOK
  <2>3. Checks(u) /\ seen[u] = gcid /\ gcpc # "delete"
    BY <1>1, <2>2 DEF Checks, NoCheck, MayCompare, GCConflict, GCHoldsRow, LogInv, StoreOK
  <2>4. BlockOf[u] \in blocks
    BY <2>2, <2>3 DEF GCInv, MarkOK
  <2>5. BlocksIn(Own(u)) \subseteq {BlockOf[u]}
    BY DEF BlocksIn, Own
  <2>6. BlocksIn(Tree') \subseteq BlocksIn(Tree) \cup BlocksIn(Own(u))
    BY <1>2 DEF BlocksIn
  <2> QED BY <2>3, <2>4, <2>5, <2>6
<1> QED BY <1>3, <1>4

LEMMA GCInvHandler ==
  ASSUME LogInv, GCInv, NEW u \in Updaters, u \notin Reverts, Handler(u) \/ Failure(u)
  PROVE  GCInv'
<1>0. /\ OnlyMoves(u) /\ gcid' = gcid /\ blocks \subseteq blocks' /\ LogExtends
      /\ \A v \in Syncs \ {u} : lastgc'[v] = lastgc[v]
      /\ gcpc' = gcpc /\ gchead' = gchead /\ live' = live
  BY HandlerFrame, LogOnlyGrows DEF Next, OnlyMoves, collector
<1>1. NewOK(u)' /\ MarkOK(u)'
  BY NewEntries, Marks DEF GCInv
<1>2. ASSUME NEW v \in Updaters \ {u} PROVE NewOK(v)' /\ MarkOK(v)'
  <2>1. NewOK(v) /\ MarkOK(v) /\ HandlerOK(v)
    BY DEF GCInv, LogInv
  <2>2. /\ pc'[v] = pc[v] /\ base'[v] = base[v] /\ rhead'[v] = rhead[v] /\ mine'[v] = mine[v]
        /\ cand'[v] = cand[v] /\ seen'[v] = seen[v]
    BY <1>0, <1>2 DEF OnlyMoves
  <2>3. NewOK(v)'
    BY <1>0, <2>1, <2>2
       DEF NewOK, HandlerOK, Submitted, MineOK, CandOK, LogExtends, Root
  <2>4. MarkOK(v)'
    BY <1>0, <1>2, <2>1, <2>2 DEF MarkOK, Marked, Written, Mark
  <2> QED BY <2>3, <2>4
<1>3. Root(gchead)' = Root(gchead) \/ gcpc \notin {"lock", "recheck"}
  BY <1>0 DEF LogInv, CollectorOK, LogExtends, Root
<1>4. CASE head' = head
  <2>1. Tree' = Tree
    BY <1>0, <1>4 DEF LogInv, StoreOK, LogExtends, Tree, Root
  <2> QED BY <1>0, <1>1, <1>2, <1>3, <2>1 DEF GCInv, LiveOK, HeadBlocksPresent, BlocksIn
<1>5. CASE head' # head
  <2>1. UpdateBranch(u) \/ LateError(u)
    <3>1. ~ (Load(u) \/ ReadGCID(u) \/ WriteBlocks(u) \/ Build(u) \/ NothingToDo(u)
             \/ PutCommit(u) \/ SendFs(u) \/ PutHead(u) \/ TakeLastGCID(u) \/ FastForward(u)
             \/ MergeCommit(u) \/ ReadFails(u) \/ Reload(u))
      BY <1>5 DEF Load, ReadGCID, WriteBlocks, Build, NothingToDo, PutCommit, SendFs, PutHead,
           TakeLastGCID, FastForward, MergeCommit, ReadFails, Reload, store
    <3>2. ~ (AnswerGCConflict(u) \/ HeadHasChanged(u) \/ SyncAgain(u) \/ DBError(u)
             \/ LostCommit(u) \/ SyncCutOff(u) \/ AnswerLost(u))
      BY <1>5 DEF AnswerGCConflict, HeadHasChanged, SyncAgain, DBError, LostCommit, SyncCutOff,
           AnswerLost, store
    <3> QED BY <3>1, <3>2 DEF Handler, Failure
  <2>2. \/ BlocksIn(Tree') \subseteq BlocksIn(Tree)
        \/ /\ gcpc # "delete" /\ BlockOf[u] \in blocks
           /\ BlocksIn(Tree') \subseteq BlocksIn(Tree) \cup {BlockOf[u]}
    BY <2>1, NewTree DEF BlocksIn
  <2>3. BlocksIn(Tree)' = BlocksIn(Tree')
    BY DEF BlocksIn
  <2>4. HeadBlocksPresent' /\ (gcpc = "delete" => BlocksIn(Tree)' \subseteq live)
    BY <1>0, <2>2, <2>3 DEF GCInv, LiveOK, HeadBlocksPresent
  <2>5. LiveOK'
    BY <1>0, <1>3, <2>4 DEF GCInv, LiveOK, BlocksIn
  <2> QED BY <1>1, <1>2, <2>4, <2>5 DEF GCInv
<1> QED BY <1>4, <1>5

(* The collector keeps what the head needs: it looks at the head again     *)
(* once it holds the GCID row.                                             *)
LEMMA KeepsHead ==
  ASSUME LogInv, NEW c \in Ids
  PROVE  BlocksIn(Root(c)) \subseteq BlocksKept(c)
BY DEF BlocksKept, Kept, LogInv, LogOK

LEMMA GCInvCollector ==
  ASSUME LogInv, GCInv, Collecting, ~ GCAbort
  PROVE  GCInv'
<1>1. /\ UNCHANGED <<commits, head, lastgc, local>>
      /\ \/ gcid' = gcid
         \/ gcid' = gcid + 1 /\ gcpc' # "delete"
  BY DEF Collecting, CollectorStep, GCList, GCPopulate, GCLock, GCRecheck, GCDeleteBlock,
         GCDeleteFs, GCCommit, GCNothing, GCStart, GCFalsePositive, GCGiveUp, GCAbort, GCEnd,
         store, local
<1>2. \A u \in Updaters : NewOK(u)'
  BY <1>1 DEF GCInv, NewOK, Submitted, Root, local
<1>3. \/ gcid' = gcid + 1
      \/ gcpc' = "delete"
      \/ gcid' = gcid /\ gcpc # "delete" /\ blocks' = blocks
  BY DEF Collecting, CollectorStep, GCList, GCPopulate, GCLock, GCRecheck, GCDeleteBlock,
         GCDeleteFs, GCCommit, GCNothing, GCStart, GCFalsePositive, GCGiveUp, GCAbort, GCEnd,
         store
<1>4. \A u \in Updaters : MarkOK(u)'
  BY <1>1, <1>3 DEF GCInv, MarkOK, Marked, Written, Mark, local, LogInv, StoreOK
<1>5. Tree' = Tree /\ head \in Ids /\ (gcpc # "idle" => gchead \in Ids)
  BY <1>1 DEF Tree, Root, LogInv, StoreOK, CollectorOK
<1>6. LiveOK'
  <2> USE <1>1, <1>5 DEF GCInv, LiveOK, Root, BlocksIn
  <2>1. CASE GCPopulate
    BY <2>1, KeepsHead DEF GCPopulate
  <2>2. CASE GCRecheck
    <3>1. CASE head = gchead
      BY <2>2, <3>1 DEF GCRecheck, Tree
    <3>2. CASE head # gchead
      BY <2>2, <3>2, KeepsHead DEF GCRecheck, Tree
    <3> QED BY <3>1, <3>2
  <2>3. CASE GCLock \/ GCDeleteBlock \/ GCDeleteFs \/ GCFalsePositive
    BY <2>3 DEF GCLock, GCDeleteBlock, GCDeleteFs, GCFalsePositive
  <2>4. CASE GCList \/ GCStart \/ GCCommit \/ GCNothing \/ GCGiveUp
    BY <2>4 DEF GCList, GCStart, GCCommit, GCNothing, GCGiveUp, GCEnd
  <2> QED BY <2>1, <2>2, <2>3, <2>4 DEF Collecting, CollectorStep
<1>7. blocks' \cap BlocksIn(Tree) = blocks \cap BlocksIn(Tree)
  BY DEF GCInv, LiveOK, Collecting, CollectorStep, GCList, GCPopulate, GCLock, GCRecheck,
         GCDeleteBlock, GCDeleteFs, GCCommit, GCNothing, GCStart, GCFalsePositive, GCGiveUp, GCEnd,
         store
<1>8. HeadBlocksPresent'
  BY <1>5, <1>7 DEF GCInv, HeadBlocksPresent, BlocksIn
<1> QED BY <1>2, <1>4, <1>6, <1>8 DEF GCInv

(* The head's blocks are always in the store, for any number of uploads,   *)
(* syncs, deletions and runs of the collector, whatever the other failures *)
(* - as long as no restoration moves the head without looking at the gc id *)
(* and no run of the collector is rolled back after it began to delete.    *)
THEOREM CollectorSafe ==
  ASSUME Reverts = {}, "gcabort" \notin Faults
  PROVE  Spec => []GCInv
<1>1. Init => GCInv
  <2> SUFFICES ASSUME Init PROVE GCInv
    OBVIOUS
  <2>1. Tree = InitialTree
    BY DEF Init, Tree, Root
  <2>2. ASSUME NEW u \in Updaters PROVE ~ Submitted(u) /\ ~ Marked(u) /\ pc[u] # "update"
    BY KindsAssumption DEF Init, Submitted, Marked, Written, Writers, None
  <2> QED BY <2>1, <2>2 DEF Init, GCInv, NewOK, MarkOK, Marked, LiveOK, HeadBlocksPresent
<1>2. LogInv /\ GCInv /\ [Next]_vars => GCInv'
  <2> SUFFICES ASSUME LogInv, GCInv, [Next]_vars PROVE GCInv'
    OBVIOUS
  <2>1. ASSUME NEW u \in Updaters, Handler(u) \/ Failure(u) PROVE GCInv'
    BY <2>1, GCInvHandler
  <2>2. CASE Collecting
    BY <2>2, GCInvCollector DEF GCAbort, Fail
  <2>3. CASE UNCHANGED vars
    BY <2>3 DEF vars, store, local, collector, GCInv, NewOK, Submitted, MarkOK, Marked, Written,
                Mark, LiveOK, HeadBlocksPresent, Tree, Root, BlocksIn
  <2> QED BY <2>1, <2>2, <2>3 DEF Next, Collecting, AllAnswered
<1> QED BY <1>1, <1>2, LogInvAlways, PTL DEF Spec

(* Every block of the head is in the store: the part of the invariant that *)
(* readers of the library rely on.                                         *)
THEOREM HeadKeepsItsBlocks ==
  ASSUME Reverts = {}, "gcabort" \notin Faults
  PROVE  Spec => []HeadBlocksPresent
<1>1. GCInv => HeadBlocksPresent
  BY DEF GCInv
<1> QED BY <1>1, CollectorSafe, PTL

(* Under the same conditions the collector deletes no block that the head  *)
(* needs at that moment.                                                   *)
THEOREM OnlyGarbageIsDeleted ==
  ASSUME Reverts = {}, "gcabort" \notin Faults
  PROVE  Spec => GCDeletesOnlyGarbage
<1>1. LogInv /\ GCInv /\ [Next]_vars
        => [\A b \in blocks \ blocks' : b \notin BlocksIn(Tree)]_vars
  <2> SUFFICES ASSUME LogInv, GCInv, Next, NEW b \in blocks \ blocks' PROVE b \notin BlocksIn(Tree)
    BY DEF vars, store
  <2>1. ASSUME NEW u \in Updaters, Handler(u) \/ Failure(u) PROVE FALSE
    BY <2>1, HandlerFrame
  <2>2. GCDeleteBlock
    BY <2>1 DEF Next, CollectorStep, GCList, GCPopulate, GCLock, GCRecheck, GCDeleteFs, GCCommit,
                GCNothing, GCStart, GCFalsePositive, GCGiveUp, GCAbort, GCEnd, AllAnswered, vars,
                store
  <2> QED BY <2>2 DEF GCDeleteBlock, GCInv, LiveOK
<1> QED BY <1>1, CollectorSafe, LogInvAlways, PTL DEF Spec, GCDeletesOnlyGarbage
-----------------------------------------------------------------------------
(* The same for the directory objects that --rm-fs removes.  What a        *)
(* handler has written for its request, and what it is about to install,   *)
(* is in the store while the gc id is the one it marked.                   *)
Sent(u) ==
  \/ u \in Uploads \cup Replaces /\ pc[u] \in {"merge", "update", "reload"}
  \/ u \in Syncs /\ pc[u] \in {"index", "head", "takegc", "merge", "update"}
RootsOK(u) ==
  Mark(u) = gcid /\ gcpc # "delete" =>
    /\ Sent(u) => Root(mine[u]) \in fs
    /\ pc[u] = "update" => Root(cand[u]) \in fs

LiveTreeOK ==
  /\ gcpc \in {"lock", "recheck"} => Root(gchead) \in liveFs
  /\ gcpc = "delete" => Tree \in liveFs

TreeInv == (\A u \in Updaters : RootsOK(u)) /\ LiveTreeOK /\ HeadTreePresent
-----------------------------------------------------------------------------
(* A handler removes no directory object, and gives the ones it needs the  *)
(* place they have: the commits of the log stay what they are.             *)
LEMMA RootsKeep ==
  ASSUME LogInv, NEW u \in Updaters, Handler(u) \/ Failure(u)
  PROVE  /\ fs \subseteq fs'
         /\ \A c \in Ids : Root(c)' = Root(c)
<1>1. \A c \in Ids : Root(c)' = Root(c)
  BY LogOnlyGrows DEF Next, LogExtends, Root
<1> USE DEF store
<1>2. CASE Load(u) \/ ReadGCID(u) \/ WriteBlocks(u) \/ Build(u) \/ NothingToDo(u)
  BY <1>1, <1>2 DEF Load, ReadGCID, WriteBlocks, Build, NothingToDo
<1>3. CASE PutCommit(u) \/ SendFs(u) \/ PutHead(u) \/ TakeLastGCID(u) \/ FastForward(u)
           \/ MergeCommit(u) \/ ReadFails(u) \/ Reload(u)
  BY <1>1, <1>3
     DEF PutCommit, SendFs, PutHead, TakeLastGCID, FastForward, MergeCommit, ReadFails, Reload
<1>4. CASE UpdateBranch(u) \/ AnswerGCConflict(u) \/ HeadHasChanged(u) \/ SyncAgain(u) \/ Failure(u)
  BY <1>1, <1>4 DEF UpdateBranch, AnswerGCConflict, HeadHasChanged, SyncAgain, Failure, DBError,
                    LostCommit, LateError, SyncCutOff, AnswerLost
<1> QED BY <1>2, <1>3, <1>4 DEF Handler

(* What a handler has written stays written under its mark while it goes   *)
(* on with the same request.                                               *)
LEMMA RootsHold ==
  ASSUME LogInv, NEW u \in Updaters, u \in Writers, RootsOK(u), Handler(u) \/ Failure(u),
         mine'[u] = mine[u], Sent(u)' => Sent(u), pc'[u] # "update",
         Sent(u)' => Mark(u)' = Mark(u)
  PROVE  RootsOK(u)'
<1>1. /\ fs \subseteq fs' /\ (\A c \in Ids : Root(c)' = Root(c)) /\ gcid' = gcid /\ gcpc' = gcpc
  BY RootsKeep, HandlerFrame DEF OnlyMoves, collector
<1>2. Sent(u) => mine[u] \in Ids
  BY DEF Sent, LogInv, HandlerOK, Submitted, MineOK
<1>3. Sent(u)' => Root(mine[u])' = Root(mine[u])
  BY <1>1, <1>2 DEF Root
<1> QED BY <1>1, <1>3 DEF RootsOK

LEMMA RootsStay ==
  ASSUME LogInv, NEW u \in Updaters, u \in Writers, RootsOK(u), Handler(u) \/ Failure(u)
  PROVE  RootsOK(u)'
<1>0. HandlerOK(u) /\ fs \subseteq fs' /\ gcid' = gcid /\ gcpc' = gcpc
      /\ (\A c \in Ids : Root(c)' = Root(c)) /\ u \notin Deletes /\ u \notin Reverts
  BY RootsKeep, HandlerFrame, KindsAssumption DEF LogInv, OnlyMoves, collector, Writers
<1>1. ASSUME mine'[u] = mine[u], Sent(u)' => Sent(u), pc'[u] # "update",
             Sent(u)' => Mark(u)' = Mark(u)
      PROVE  RootsOK(u)'
  BY <1>1, RootsHold
<1>2. CASE Build(u)
  <2>1. PICK root \in Results(u, Root(base[u])) :
          fs' = fs \cup {root} /\ commits' = Append(commits, NewCommit(u, base[u], None, root))
    BY <1>2 DEF Build
  <2>2. base[u] \in Ids /\ root \in SUBSET Entries
    BY <1>0, RootsAreTrees, ResultsAreTrees DEF HandlerOK
  <2>3. commits'[NextId].root = root
    BY <2>1, <2>2, SavedRoot
  <2>4. mine'[u] = NextId /\ pc'[u] = "merge"
    BY <1>2 DEF Build, Goto, LogInv, LocalsAreFunctions, IsLocal
  <2> QED BY <2>1, <2>3, <2>4 DEF RootsOK, Root
<1>3. CASE SendFs(u)
  <2>1. /\ fs' = fs \cup {Root(mine[u])} /\ mine'[u] = mine[u] /\ pc[u] = "fs"
        /\ pc'[u] = "index" /\ UNCHANGED commits
    BY <1>3 DEF SendFs, Goto, LogInv, LocalsAreFunctions, IsLocal
  <2> QED BY <2>1 DEF RootsOK, Root
<1>4. CASE FastForward(u)
  <2>1. /\ pc[u] = "merge" /\ pc'[u] = "update" /\ cand'[u] = mine[u]
        /\ UNCHANGED <<commits, mine, fs, seen, lastgc>>
    BY <1>4 DEF FastForward, Goto, LogInv, LocalsAreFunctions, IsLocal, store
  <2>2. Sent(u) /\ Mark(u)' = Mark(u)
    BY <2>1 DEF Sent, Mark, Writers
  <2> QED BY <1>0, <2>1, <2>2 DEF RootsOK, Root
<1>5. CASE MergeCommit(u)
  <2> DEFINE root == Merge(Root(base[u]), Root(rhead[u]), Root(mine[u]))
  <2>1. /\ pc[u] = "merge" /\ pc'[u] = "update" /\ cand'[u] = NextId
        /\ UNCHANGED <<mine, seen, lastgc>> /\ fs' = fs \cup {root}
        /\ commits' = Append(commits, NewCommit(u, rhead[u], mine[u], root))
    BY <1>5 DEF MergeCommit, Goto, LogInv, LocalsAreFunctions, IsLocal
  <2>2. /\ mine[u] \in Ids /\ rhead[u] \in Ids /\ base[u] \in Ids
        /\ Sent(u) /\ Mark(u)' = Mark(u)
    BY <1>0, <2>1 DEF HandlerOK, Submitted, MineOK, Sent, Mark, Writers
  <2>3. root \in SUBSET Entries
    BY <2>2, RootsAreTrees DEF Merge
  <2>4. commits'[NextId].root = root
    BY <2>1, <2>2, <2>3, SavedRoot
  <2>5. Root(cand[u])' \in fs'
    BY <2>1, <2>4 DEF Root
  <2>6. Root(mine[u])' = Root(mine[u])
    BY <1>0, <2>1, <2>2 DEF Root
  <2> QED BY <1>0, <2>2, <2>5, <2>6 DEF RootsOK
<1> USE KindsAssumption DEF Goto, LogInv, LocalsAreFunctions, IsLocal, HandlerOK, LabelsOf,
                            Terminal, Sent, Mark, Writers
<1>6. CASE Load(u) \/ ReadGCID(u) \/ WriteBlocks(u) \/ NothingToDo(u)
  BY <1>0, <1>1, <1>6 DEF Load, ReadGCID, WriteBlocks, NothingToDo, store
<1>7. CASE PutCommit(u)
  BY <1>0, <1>7 DEF PutCommit, RootsOK
<1>8. CASE PutHead(u) \/ TakeLastGCID(u) \/ ReadFails(u) \/ Reload(u)
  BY <1>0, <1>1, <1>8 DEF PutHead, TakeLastGCID, ReadFails, Reload, store
<1>9. CASE \/ UpdateBranch(u) \/ AnswerGCConflict(u) \/ LostCommit(u)
           \/ SyncAgain(u) \/ SyncCutOff(u) \/ AnswerLost(u)
  BY <1>0, <1>1, <1>9 DEF UpdateBranch, AnswerGCConflict, LostCommit, SyncAgain, SyncCutOff, AnswerLost,
       store
<1>10. CASE HeadHasChanged(u) \/ DBError(u) \/ LateError(u)
  BY <1>0, <1>1, <1>10 DEF HeadHasChanged, DBError, LateError, MayCompare, Retry, store
<1> QED BY <1>2, <1>3, <1>4, <1>5, <1>6, <1>7, <1>8, <1>9, <1>10 DEF Handler, Failure

LEMMA TreeInvHandler ==
  ASSUME Deletes = {}, Reverts = {}, LogInv, GCInv, TreeInv,
         NEW u \in Updaters, Handler(u) \/ Failure(u)
  PROVE  TreeInv'
<1>0. /\ OnlyMoves(u) /\ gcid' = gcid /\ fs \subseteq fs' /\ (\A c \in Ids : Root(c)' = Root(c))
      /\ (\A v \in Syncs \ {u} : lastgc'[v] = lastgc[v])
      /\ gcpc' = gcpc /\ gchead' = gchead /\ liveFs' = liveFs /\ u \in Writers
  BY HandlerFrame, RootsKeep DEF OnlyMoves, collector, Writers, Updaters
<1>1. RootsOK(u)'
  BY <1>0, RootsStay DEF TreeInv
<1>2. ASSUME NEW v \in Updaters \ {u} PROVE RootsOK(v)'
  <2>1. RootsOK(v) /\ HandlerOK(v)
    BY DEF TreeInv, LogInv
  <2>2. /\ pc'[v] = pc[v] /\ mine'[v] = mine[v] /\ cand'[v] = cand[v] /\ seen'[v] = seen[v]
    BY <1>0, <1>2 DEF OnlyMoves
  <2>3. (Sent(v) => mine[v] \in Ids) /\ (pc[v] = "update" => cand[v] \in Ids)
    BY <2>1 DEF Sent, HandlerOK, Submitted, MineOK, CandOK
  <2>4. Mark(v)' = Mark(v) /\ Sent(v)' = Sent(v)
    BY <1>0, <1>2, <2>2 DEF Mark, Sent
  <2> QED BY <1>0, <2>1, <2>2, <2>3, <2>4 DEF RootsOK, Root
<1>3. gcpc \in {"lock", "recheck"} => Root(gchead)' \in liveFs'
  BY <1>0 DEF TreeInv, LiveTreeOK, LogInv, CollectorOK, Root
<1>4. CASE head' = head
  <2>1. Tree' = Tree
    BY <1>0, <1>4 DEF LogInv, StoreOK, Tree, Root
  <2> QED BY <1>0, <1>1, <1>2, <1>3, <2>1 DEF TreeInv, LiveTreeOK, HeadTreePresent
<1>5. CASE head' # head
  <2>1. PICK v \in Updaters : UpdateBranch(v) \/ LateError(v)
    BY <1>5, HeadMoves DEF Next
  <2>2. /\ head' = cand[v] /\ UNCHANGED <<commits, fs>> /\ pc[v] = "update"
        /\ MayCompare(v) /\ ~ GCConflict(v)
    BY <2>1 DEF UpdateBranch, LateError, MayCompare
  <2>3. v \in Writers /\ Written(v) /\ Mark(v) = seen[v] /\ seen[v] \in 0 .. gcid
    BY <2>2, KindsAssumption DEF Updaters, Writers, Written, Mark, Marked, GCInv, MarkOK
  <2>4. seen[v] = gcid /\ gcpc \notin {"recheck", "delete"}
    BY <2>2, <2>3 DEF Checks, NoCheck, MayCompare, GCConflict, GCHoldsRow, LogInv, StoreOK
  <2>5. Tree' \in fs'
    BY <2>2, <2>3, <2>4 DEF TreeInv, RootsOK, Tree, Root
  <2> QED BY <1>0, <1>1, <1>2, <1>3, <2>4, <2>5 DEF TreeInv, LiveTreeOK, HeadTreePresent
<1> QED BY <1>4, <1>5

(* The collector removes directory objects only after its second look at   *)
(* the head, and keeps that tree; when it commits, no mark is good any     *)
(* more.                                                                   *)
LEMMA TreeInvCollector ==
  ASSUME Deletes = {}, Reverts = {}, LogInv, GCInv, TreeInv, Collecting, ~ GCAbort
  PROVE  TreeInv'
<1>1. /\ UNCHANGED <<commits, head, lastgc, local>>
      /\ \/ gcid' = gcid + 1
         \/ gcpc' = "delete"
         \/ gcid' = gcid /\ gcpc # "delete" /\ fs' = fs
  BY DEF Collecting, CollectorStep, GCList, GCPopulate, GCLock, GCRecheck, GCDeleteBlock,
         GCDeleteFs, GCCommit, GCNothing, GCStart, GCFalsePositive, GCGiveUp, GCAbort, GCEnd,
         store, local
<1>2. ASSUME NEW u \in Updaters PROVE RootsOK(u)'
  <2>1. RootsOK(u) /\ (Marked(u) => Mark(u) \in 0 .. gcid) /\ gcid \in Nat
    BY DEF TreeInv, GCInv, MarkOK, LogInv, StoreOK
  <2>2. u \in Writers
    BY DEF Updaters, Writers
  <2>3. Sent(u) \/ pc[u] = "update" => Marked(u)
    BY <2>2, KindsAssumption
       DEF Sent, Marked, Written, Writers, LogInv, HandlerOK, LabelsOf, Terminal
  <2>4. /\ Mark(u)' = Mark(u) /\ Sent(u)' = Sent(u) /\ pc' = pc
        /\ Root(mine[u])' = Root(mine[u]) /\ Root(cand[u])' = Root(cand[u])
    BY <1>1 DEF Mark, Sent, Root, local
  <2>5. CASE gcid' = gcid + 1
    BY <2>1, <2>3, <2>4, <2>5 DEF RootsOK
  <2>6. CASE gcpc' = "delete"
    BY <2>6 DEF RootsOK
  <2>7. CASE gcid' = gcid /\ gcpc # "delete" /\ fs' = fs
    BY <2>1, <2>4, <2>7 DEF RootsOK
  <2> QED BY <1>1, <2>5, <2>6, <2>7
<1>3. Tree' = Tree /\ head \in Ids /\ (gcpc # "idle" => gchead \in Ids)
  BY <1>1 DEF Tree, Root, LogInv, StoreOK, CollectorOK
<1>4. \A c \in Ids : Root(c) \in RootsKept(c)
  BY DEF RootsKept, Kept, LogInv, LogOK
<1>5. LiveTreeOK'
  <2> USE <1>1, <1>3, <1>4 DEF TreeInv, LiveTreeOK, Root
  <2>1. CASE GCPopulate
    BY <2>1 DEF GCPopulate
  <2>2. CASE GCRecheck
    BY <2>2 DEF GCRecheck, Tree
  <2>3. CASE GCLock \/ GCDeleteBlock \/ GCDeleteFs \/ GCFalsePositive
    BY <2>3 DEF GCLock, GCDeleteBlock, GCDeleteFs, GCFalsePositive
  <2>4. CASE GCList \/ GCStart \/ GCCommit \/ GCNothing \/ GCGiveUp
    BY <2>4 DEF GCList, GCStart, GCCommit, GCNothing, GCGiveUp, GCEnd
  <2> QED BY <2>1, <2>2, <2>3, <2>4 DEF Collecting, CollectorStep
<1>6. Tree \in fs'
  BY DEF TreeInv, LiveTreeOK, HeadTreePresent, Collecting, CollectorStep, GCList, GCPopulate,
         GCLock, GCRecheck, GCDeleteBlock, GCDeleteFs, GCCommit, GCNothing, GCStart,
         GCFalsePositive, GCGiveUp, GCEnd, store
<1> QED BY <1>2, <1>3, <1>5, <1>6 DEF TreeInv, HeadTreePresent

(* The head's tree can always be read, for any number of uploads and syncs *)
(* and of runs of the collector with --rm-fs, as long as no deletion and   *)
(* no restoration moves the head without looking at the gc id and no run   *)
(* of the collector is rolled back after it began to delete.               *)
THEOREM HeadKeepsItsTree ==
  ASSUME Deletes = {}, Reverts = {}, "gcabort" \notin Faults
  PROVE  Spec => []HeadTreePresent
<1>1. Init => TreeInv
  <2> SUFFICES ASSUME Init PROVE TreeInv
    OBVIOUS
  <2>1. Tree = InitialTree /\ Tree \in fs
    BY DEF Init, Tree, Root
  <2>2. ASSUME NEW u \in Updaters PROVE ~ Sent(u) /\ pc[u] # "update"
    BY KindsAssumption DEF Init, Sent
  <2> QED BY <2>1, <2>2 DEF Init, TreeInv, RootsOK, LiveTreeOK, HeadTreePresent
<1>2. LogInv /\ GCInv /\ TreeInv /\ [Next]_vars => TreeInv'
  <2> SUFFICES ASSUME LogInv, GCInv, TreeInv, [Next]_vars PROVE TreeInv'
    OBVIOUS
  <2>1. ASSUME NEW u \in Updaters, Handler(u) \/ Failure(u) PROVE TreeInv'
    BY <2>1, TreeInvHandler
  <2>2. CASE Collecting
    BY <2>2, TreeInvCollector DEF GCAbort, Fail
  <2>3. CASE UNCHANGED vars
    BY <2>3 DEF vars, store, local, collector, TreeInv, RootsOK, Sent, Mark, LiveTreeOK,
                HeadTreePresent, Tree, Root
  <2> QED BY <2>1, <2>2, <2>3 DEF Next, Collecting, AllAnswered
<1>3. Spec => []GCInv
  BY CollectorSafe
<1>4. TreeInv => HeadTreePresent
  BY DEF TreeInv
<1> QED BY <1>1, <1>2, <1>3, <1>4, LogInvAlways, PTL DEF Spec
=============================================================================
