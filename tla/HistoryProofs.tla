---------------------------- MODULE HistoryProofs ----------------------------
(***************************************************************************)
(* Proofs about the history of the head: it only grows, and what was       *)
(* answered with success stays in it.                                      *)
(***************************************************************************)
EXTENDS HeadUpdate_proofs, FiniteSetTheorems

(* The collector and the handlers' preparations leave the head alone.      *)
LEMMA HeadMoves ==
  ASSUME [Next]_vars, head' # head
  PROVE  \E u \in Updaters : UpdateBranch(u) \/ LateError(u)
<1>1. ~ Collecting /\ ~ AllAnswered /\ ~ UNCHANGED vars
  BY DEF Collecting, CollectorStep, GCList, GCPopulate, GCLock, GCRecheck, GCDeleteBlock,
         GCDeleteFs, GCCommit, GCNothing, GCStart, GCFalsePositive, GCGiveUp, GCAbort, GCEnd,
         AllAnswered, store, vars
<1>2. PICK u \in Updaters : Handler(u) \/ Failure(u)
  BY <1>1 DEF Next, Collecting
<1>3. ~ (Load(u) \/ ReadGCID(u) \/ WriteBlocks(u) \/ Build(u) \/ NothingToDo(u) \/ PutCommit(u)
         \/ SendFs(u) \/ PutHead(u) \/ TakeLastGCID(u) \/ FastForward(u) \/ MergeCommit(u)
         \/ ReadFails(u) \/ Reload(u))
  BY DEF Load, ReadGCID, WriteBlocks, Build, NothingToDo, PutCommit, SendFs, PutHead,
         TakeLastGCID, FastForward, MergeCommit, ReadFails, Reload, store
<1>4. ~ (AnswerGCConflict(u) \/ HeadHasChanged(u) \/ SyncAgain(u) \/ DBError(u) \/ LostCommit(u)
         \/ SyncCutOff(u) \/ AnswerLost(u))
  BY DEF AnswerGCConflict, HeadHasChanged, SyncAgain, DBError, LostCommit, SyncCutOff, AnswerLost,
       store
<1> QED BY <1>2, <1>3, <1>4 DEF Handler, Failure

(* Three steps save a commit, and each has a base or a head to go by.       *)
LEMMA Savers ==
  ASSUME [Next]_vars, commits' # commits
  PROVE  \E u \in Updaters : Build(u) \/ PutCommit(u) \/ MergeCommit(u)
<1>1. ~ Collecting /\ ~ AllAnswered /\ ~ UNCHANGED vars
  BY DEF Collecting, CollectorStep, GCList, GCPopulate, GCLock, GCRecheck, GCDeleteBlock,
         GCDeleteFs, GCCommit, GCNothing, GCStart, GCFalsePositive, GCGiveUp, GCAbort, GCEnd,
         AllAnswered, store, vars
<1>2. PICK u \in Updaters : Handler(u) \/ Failure(u)
  BY <1>1 DEF Next, Collecting
<1>3. ~ (Load(u) \/ ReadGCID(u) \/ WriteBlocks(u) \/ NothingToDo(u) \/ SendFs(u) \/ PutHead(u)
         \/ TakeLastGCID(u) \/ FastForward(u) \/ ReadFails(u) \/ Reload(u))
  BY DEF Load, ReadGCID, WriteBlocks, NothingToDo, SendFs, PutHead, TakeLastGCID,
       FastForward, ReadFails, Reload, store
<1>4. ~ (UpdateBranch(u) \/ AnswerGCConflict(u) \/ HeadHasChanged(u) \/ SyncAgain(u))
      /\ ~ Failure(u)
  BY DEF UpdateBranch, AnswerGCConflict, HeadHasChanged, SyncAgain, Failure, DBError,
       LostCommit, LateError, SyncCutOff, AnswerLost, store
<1> QED BY <1>2, <1>3, <1>4 DEF Handler

LEMMA SavedWell ==
  ASSUME LogInv, NEW u \in Updaters, Build(u) \/ PutCommit(u) \/ MergeCommit(u),
         commits' # commits
  PROVE  \E p \in Ids : \E s \in Ids \cup {None} : \E root \in SUBSET Entries :
           commits' = Append(commits, NewCommit(u, p, s, root))
<1>1. HandlerOK(u) /\ base[u] \in Ids /\ rhead[u] \in Ids
  BY DEF LogInv, HandlerOK
<1>2. \A root \in Results(u, Root(base[u])) : root \in SUBSET Entries
  BY <1>1, RootsAreTrees, ResultsAreTrees
<1>3. CASE Build(u) \/ PutCommit(u)
  <2>1. \E root \in Results(u, Root(base[u])) :
          commits' = Append(commits, NewCommit(u, base[u], None, root))
    BY <1>3 DEF Build, PutCommit
  <2> QED BY <1>1, <1>2, <2>1
<1>4. CASE MergeCommit(u)
  <2>1. /\ commits' = Append(commits, NewCommit(u, rhead[u], mine[u],
                                        Merge(Root(base[u]), Root(rhead[u]), Root(mine[u]))))
        /\ pc[u] = "merge"
    BY <1>4 DEF MergeCommit
  <2>2. mine[u] \in Ids
    BY <1>1, <2>1 DEF HandlerOK, Submitted, MineOK
  <2>3. Merge(Root(base[u]), Root(rhead[u]), Root(mine[u])) \in SUBSET Entries
    BY <1>1, <2>2, RootsAreTrees DEF Merge
  <2> QED BY <1>1, <2>1, <2>2, <2>3
<1> QED BY <1>3, <1>4

(* The log of commits only grows.                                          *)
LEMMA LogOnlyGrows ==
  ASSUME LogInv, [Next]_vars
  PROVE  LogExtends
<1>1. CASE UNCHANGED commits
  BY <1>1, Unmoved
<1>2. CASE commits' # commits
  <2>1. \E new : commits' = Append(commits, new)
    BY <1>2, Savers, SavedWell
  <2> QED BY <2>1 DEF LogInv, StoreOK, LogExtends, Ids
<1> QED BY <1>1, <1>2

(* The step that moves the head moves it to the commit the handler made,   *)
(* which descends from the head the handler knew, which is the head.       *)
LEMMA Advance ==
  ASSUME LogInv, NEW u \in Updaters, UpdateBranch(u) \/ LateError(u)
  PROVE  /\ head' = cand[u] /\ UNCHANGED <<commits, mine>>
         /\ History(head) \subseteq History(cand[u]) /\ mine[u] \in History(cand[u])
         /\ CandOK(u) /\ head = rhead[u]
<1>1. /\ head' = cand[u] /\ UNCHANGED <<commits, mine>> /\ pc[u] = "update" /\ head = rhead[u]
  BY DEF UpdateBranch, LateError, MayCompare, HeadIsKnown
<1> QED BY <1>1 DEF LogInv, HandlerOK, CandOK

LEMMA HistoryGrows ==
  ASSUME LogInv, [Next]_vars
  PROVE  History(head) \subseteq History(head)'
<1>1. CASE head' = head
  BY <1>1, LogOnlyGrows DEF LogInv, StoreOK, LogExtends, History, Ids
<1>2. CASE head' # head
  BY <1>2, HeadMoves, Advance DEF History
<1> QED BY <1>1, <1>2

(* The head moves only to a descendant, for any number of updaters and of  *)
(* retries, whatever fails: no committed state is ever forgotten.          *)
THEOREM HeadAdvances == Spec => HeadOnlyAdvances
<1>1. LogInv /\ [Next]_vars => [head' # head => History(head) \subseteq History(head)']_vars
  BY HistoryGrows
<1> QED BY <1>1, LogInvAlways, PTL DEF Spec, HeadOnlyAdvances
-----------------------------------------------------------------------------
(* A handler is done because it was, or because it moved the head, or      *)
(* because it took a failed COMMIT for a success.                          *)
LEMMA BecomesDone ==
  ASSUME LogInv, [Next]_vars, NEW u \in Updaters, pc'[u] = "done"
  PROVE  \/ pc[u] = "done" /\ mine'[u] = mine[u]
         \/ UpdateBranch(u)
         \/ LostCommit(u)
<1>1. CASE UNCHANGED local
  BY <1>1 DEF local
<1>2. ASSUME NEW v \in Updaters, Handler(v) \/ Failure(v), v # u
      PROVE  pc[u] = "done" /\ mine'[u] = mine[u]
  BY <1>2 DEF Handler, Failure, Load, ReadGCID, WriteBlocks, Build, NothingToDo, PutCommit,
       SendFs, PutHead, TakeLastGCID, FastForward, MergeCommit, ReadFails,
       Reload, UpdateBranch, AnswerGCConflict, HeadHasChanged, SyncAgain, DBError, LostCommit,
       LateError, SyncCutOff, AnswerLost, Goto, Retry, LogInv, LocalsAreFunctions, IsLocal
<1>3. CASE Handler(u) \/ Failure(u)
  <2>1. ~ (Load(u) \/ ReadGCID(u) \/ WriteBlocks(u) \/ Build(u) \/ NothingToDo(u) \/ PutCommit(u)
           \/ SendFs(u) \/ PutHead(u) \/ TakeLastGCID(u) \/ FastForward(u) \/ MergeCommit(u)
           \/ ReadFails(u) \/ Reload(u))
    BY DEF Load, ReadGCID, WriteBlocks, Build, NothingToDo, PutCommit, SendFs, PutHead,
         TakeLastGCID, FastForward, MergeCommit, ReadFails, Reload, Goto,
         LogInv, LocalsAreFunctions, IsLocal
  <2>2. ~ (AnswerGCConflict(u) \/ HeadHasChanged(u) \/ SyncAgain(u) \/ DBError(u)
           \/ LateError(u) \/ SyncCutOff(u) \/ AnswerLost(u))
    BY DEF AnswerGCConflict, HeadHasChanged, SyncAgain, DBError, LateError, SyncCutOff, AnswerLost, Goto,
         Retry, LogInv, LocalsAreFunctions, IsLocal
  <2> QED BY <1>3, <2>1, <2>2 DEF Handler, Failure
<1>4. CASE Collecting \/ AllAnswered \/ UNCHANGED vars
  <2>1. UNCHANGED local
    BY <1>4 DEF Collecting, CollectorStep, GCList, GCPopulate, GCLock, GCRecheck, GCDeleteBlock,
         GCDeleteFs, GCCommit, GCNothing, GCStart, GCFalsePositive, GCGiveUp, GCAbort, GCEnd,
         AllAnswered, vars
  <2> QED BY <1>1, <2>1
<1> QED BY <1>2, <1>3, <1>4 DEF Next, Collecting

(* Unless a failed COMMIT goes unnoticed, what was answered with success   *)
(* stays in the history of the head, for any number of updaters.           *)
THEOREM AckedStays ==
  ASSUME "lostcommit" \notin Faults
  PROVE  Spec => []AckedInHistory
<1>1. Init => AckedInHistory
  BY DEF Init, AckedInHistory
<1>2. LogInv /\ AckedInHistory /\ [Next]_vars => AckedInHistory'
  <2> SUFFICES ASSUME LogInv, AckedInHistory, [Next]_vars,
                      NEW u \in Updaters, pc'[u] = "done"
               PROVE  mine'[u] \in History(head)'
    BY DEF AckedInHistory
  <2>1. ~ LostCommit(u)
    BY DEF LostCommit, Fail
  <2>2. CASE pc[u] = "done" /\ mine'[u] = mine[u]
    BY <2>2, HistoryGrows DEF AckedInHistory
  <2>3. CASE UpdateBranch(u)
    BY <2>3, Advance DEF History
  <2> QED BY <2>1, <2>2, <2>3, BecomesDone
<1> QED BY <1>1, <1>2, LogInvAlways, PTL DEF Spec
-----------------------------------------------------------------------------
(* History is closed, and what handlers based their work on is in the      *)
(* history of the head.  The commit that carries the request of a handler  *)
(* brings in nothing but itself, a merge nothing but itself and that.      *)
LogClosed == \A c \in Ids : \A d \in History(c) : History(d) \subseteq History(c)
KnownOK(u) == base[u] \in History(head) /\ rhead[u] \in History(head)
CarriesOne(u) ==
  /\ Submitted(u) => /\ commits[mine[u]].by = u
                     /\ History(mine[u]) \subseteq {mine[u]} \cup History(head)
  /\ pc[u] = "update" =>
       /\ History(cand[u]) \subseteq {cand[u], mine[u]} \cup History(head)
       /\ cand[u] # mine[u] => commits[cand[u]].second # None
AppliedOK(u) == Applied(u) \subseteq (IF pc[u] = "done" THEN {mine[u]} ELSE {})

OnceInv ==
  /\ LogClosed
  /\ \A u \in Updaters : KnownOK(u) /\ CarriesOne(u) /\ AppliedOK(u)

LEMMA ClosedGrows ==
  ASSUME LogInv, LogClosed, NEW u \in Updaters, NEW p \in Ids, NEW s \in Ids \cup {None},
         NEW root \in SUBSET Entries, commits' = Append(commits, NewCommit(u, p, s, root))
  PROVE  LogClosed'
<1>1. /\ Ids' = Ids \cup {NextId} /\ NextId \notin Ids
      /\ \A c \in Ids : commits'[c] = commits[c]
      /\ commits'[NextId] = NewCommit(u, p, s, root)
  BY LogGrows DEF LogInv, StoreOK, Ids, NextId
<1>2. NewCommit(u, p, s, root).anc
        = {NextId} \cup History(p) \cup (IF s = None THEN {} ELSE History(s))
  BY DEF NewCommit
<1>3. \A c \in Ids : History(c)' = History(c) /\ History(c) \subseteq Ids
  BY <1>1 DEF History, LogInv, LogOK
<1>4. \A c \in Ids : \A d \in commits'[c].anc : commits'[d].anc \subseteq commits'[c].anc
  BY <1>1 DEF LogClosed, History, LogInv, LogOK
<1>5. \A d \in commits'[NextId].anc : commits'[d].anc \subseteq commits'[NextId].anc
  BY <1>1, <1>2 DEF LogClosed, History, LogInv, LogOK
<1> QED BY <1>1, <1>4, <1>5 DEF LogClosed, History

LEMMA ClosedStays ==
  ASSUME LogInv, LogClosed, [Next]_vars
  PROVE  LogClosed'
<1>1. CASE UNCHANGED commits
  BY <1>1 DEF LogClosed, Ids, History
<1>2. CASE commits' # commits
  <2>1. PICK u \in Updaters : Build(u) \/ PutCommit(u) \/ MergeCommit(u)
    BY <1>2, Savers
  <2>2. PICK p \in Ids, s \in Ids \cup {None}, root \in SUBSET Entries :
          commits' = Append(commits, NewCommit(u, p, s, root))
    BY <1>2, <2>1, SavedWell, Zenon
  <2> QED BY <2>2, ClosedGrows
<1> QED BY <1>1, <1>2

(* A handler that is done stays so, and keeps its commit.                  *)
LEMMA StaysDone ==
  ASSUME "lostanswer" \notin Faults, LogInv, [Next]_vars, NEW u \in Updaters, pc[u] = "done"
  PROVE  pc'[u] = "done" /\ mine'[u] = mine[u]
<1>1. CASE UNCHANGED local
  BY <1>1 DEF local
<1>2. ASSUME NEW v \in Updaters, Handler(v) \/ Failure(v)
      PROVE  pc'[u] = "done" /\ mine'[u] = mine[u]
  BY <1>2 DEF Handler, Failure, Load, ReadGCID, WriteBlocks, Build, NothingToDo, PutCommit,
       SendFs, PutHead, TakeLastGCID, FastForward, MergeCommit, ReadFails,
       Reload, UpdateBranch, AnswerGCConflict, HeadHasChanged, SyncAgain, DBError, LostCommit,
       LateError, SyncCutOff, AnswerLost, Fail, Goto, Retry, MayCompare, LogInv,
       LocalsAreFunctions, IsLocal
<1>3. CASE Collecting \/ AllAnswered \/ UNCHANGED vars
  <2>1. UNCHANGED local
    BY <1>3 DEF Collecting, CollectorStep, GCList, GCPopulate, GCLock, GCRecheck, GCDeleteBlock,
         GCDeleteFs, GCCommit, GCNothing, GCStart, GCFalsePositive, GCGiveUp, GCAbort, GCEnd,
         AllAnswered, vars
  <2> QED BY <1>1, <2>1
<1> QED BY <1>2, <1>3 DEF Next, Collecting

(* A handler goes by what it knew or by the head of the moment; putFile    *)
(* also by an older head.                                                  *)
LEMMA Knows ==
  ASSUME LogInv, NEW u \in Updaters, Handler(u) \/ Failure(u)
  PROVE  base'[u] \in History(head) \cup {base[u]} /\ rhead'[u] \in {rhead[u], head}
<1>0. head \in History(head)
  BY DEF LogInv, LogOK, StoreOK
<1> USE DEF Goto, Retry, LogInv, LocalsAreFunctions, IsLocal, store
<1>1. CASE Load(u)
  BY <1>0, <1>1 DEF Load
<1>2. CASE ReadGCID(u) \/ WriteBlocks(u) \/ Build(u) \/ NothingToDo(u) \/ PutCommit(u)
           \/ SendFs(u) \/ PutHead(u) \/ TakeLastGCID(u)
  BY <1>2 DEF ReadGCID, WriteBlocks, Build, NothingToDo, PutCommit, SendFs, PutHead, TakeLastGCID
<1>3. CASE FastForward(u) \/ MergeCommit(u) \/ ReadFails(u) \/ Reload(u)
  BY <1>3 DEF FastForward, MergeCommit, ReadFails, Reload
<1>4. CASE UpdateBranch(u) \/ AnswerGCConflict(u) \/ HeadHasChanged(u) \/ SyncAgain(u)
  BY <1>4 DEF UpdateBranch, AnswerGCConflict, HeadHasChanged, SyncAgain
<1>5. CASE DBError(u) \/ LostCommit(u) \/ LateError(u) \/ SyncCutOff(u) \/ AnswerLost(u)
  BY <1>5 DEF DBError, LostCommit, LateError, SyncCutOff, AnswerLost
<1> QED BY <1>1, <1>2, <1>3, <1>4, <1>5 DEF Handler, Failure

LEMMA KnownStays ==
  ASSUME LogInv, [Next]_vars, NEW u \in Updaters, KnownOK(u), Handler(u) \/ Failure(u)
  PROVE  KnownOK(u)'
<1>1. head \in History(head) /\ History(head) \subseteq History(head)'
  BY HistoryGrows DEF LogInv, LogOK, StoreOK
<1> QED BY <1>1, Knows DEF KnownOK

LEMMA CarriesOneStays ==
  ASSUME LogInv, LogClosed, [Next]_vars, NEW u \in Updaters, KnownOK(u), CarriesOne(u),
         Handler(u) \/ Failure(u)
  PROVE  CarriesOne(u)'
<1>0. HandlerOK(u) /\ OnlyMoves(u) /\ History(head) \subseteq History(head)'
  BY HandlerFrame, HistoryGrows DEF LogInv
<1>1. ASSUME NEW c \in Ids, c \in History(head) PROVE History(c) \subseteq History(head)'
  BY <1>0, <1>1 DEF LogClosed, LogInv, StoreOK
<1>2. ASSUME NEW root \in Results(u, Root(base[u])),
             commits' = Append(commits, NewCommit(u, base[u], None, root)),
             mine'[u] = NextId, pc'[u] # "update"
      PROVE  CarriesOne(u)'
  <2>1. base[u] \in Ids /\ root \in SUBSET Entries
    BY <1>0, <1>2, RootsAreTrees, ResultsAreTrees DEF HandlerOK
  <2>2. commits'[NextId] = NewCommit(u, base[u], None, root)
    BY <1>2, <2>1, LogGrows
  <2>3. /\ NewCommit(u, base[u], None, root).by = u
        /\ NewCommit(u, base[u], None, root).anc = {NextId} \cup History(base[u])
    BY DEF NewCommit
  <2>4. History(base[u]) \subseteq History(head)'
    BY <1>1, <2>1 DEF KnownOK
  <2> QED BY <1>2, <2>2, <2>3, <2>4 DEF CarriesOne, History
<1>3. ASSUME UNCHANGED <<commits, mine>>, Submitted(u)' => Submitted(u), pc'[u] # "update"
      PROVE  CarriesOne(u)'
  BY <1>0, <1>3 DEF CarriesOne, History
<1>4. CASE Build(u)
  BY <1>2, <1>4 DEF Build, Goto, LogInv, LocalsAreFunctions, IsLocal
<1>5. CASE PutCommit(u)
  <2>1. pc'[u] = "fs" /\ u \in Syncs
    BY <1>0, <1>5, KindsAssumption
       DEF PutCommit, Goto, LogInv, LocalsAreFunctions, IsLocal, HandlerOK, LabelsOf, Terminal
  <2>2. CASE mine[u] = None
    BY <1>2, <1>5, <2>1, <2>2 DEF PutCommit, LogInv, LocalsAreFunctions, IsLocal
  <2>3. CASE mine[u] # None
    BY <1>3, <1>5, <2>1, <2>3 DEF PutCommit, Submitted
  <2> QED BY <2>2, <2>3
<1>6. CASE MergeCommit(u)
  <2> DEFINE root == Merge(Root(base[u]), Root(rhead[u]), Root(mine[u]))
             new == NewCommit(u, rhead[u], mine[u], root)
  <2>1. /\ pc[u] = "merge" /\ mine'[u] = mine[u] /\ cand'[u] = NextId
        /\ commits' = Append(commits, new)
    BY <1>6 DEF MergeCommit, Goto, LogInv, LocalsAreFunctions, IsLocal
  <2>2. MineOK(u) /\ rhead[u] \in Ids /\ Submitted(u) /\ base[u] \in Ids
    BY <1>0, <2>1 DEF HandlerOK, Submitted
  <2>3. root \in SUBSET Entries
    BY <2>2, RootsAreTrees DEF Merge, MineOK
  <2>4. commits'[NextId] = new /\ \A c \in Ids : commits'[c] = commits[c]
    BY <2>1, <2>2, <2>3, LogGrows DEF MineOK
  <2>5. mine[u] # None /\ mine[u] \in Ids
    BY <2>2 DEF MineOK, Ids, None
  <2>6. new.second # None /\ new.anc = {NextId} \cup History(rhead[u]) \cup History(mine[u])
    BY <2>5 DEF NewCommit
  <2>7. History(rhead[u]) \subseteq History(head)'
    BY <1>1, <2>2 DEF KnownOK
  <2>8. commits[mine[u]].by = u /\ History(mine[u]) \subseteq {mine[u]} \cup History(head)'
    BY <1>0, <2>2 DEF CarriesOne
  <2> HIDE DEF new, root
  <2> QED BY <2>1, <2>4, <2>5, <2>6, <2>7, <2>8 DEF CarriesOne, History
<1>7. CASE FastForward(u)
  <2>1. /\ pc[u] = "merge" /\ cand'[u] = mine[u] /\ UNCHANGED <<commits, mine>>
    BY <1>7 DEF FastForward, Goto, LogInv, LocalsAreFunctions, IsLocal, store
  <2>2. Submitted(u)
    BY <2>1 DEF Submitted
  <2> QED BY <1>0, <2>1, <2>2 DEF CarriesOne, History
<1> USE DEF Goto, LogInv, LocalsAreFunctions, IsLocal, HandlerOK, LabelsOf, Terminal, Submitted
<1>8. CASE Load(u)
  BY <1>0, <1>3, <1>8, KindsAssumption DEF Load, store, Updaters
<1>9. CASE ReadGCID(u) \/ WriteBlocks(u) \/ NothingToDo(u) \/ SendFs(u) \/ PutHead(u)
  BY <1>0, <1>3, <1>9, KindsAssumption
     DEF ReadGCID, WriteBlocks, NothingToDo, SendFs, PutHead, store
<1>10. CASE TakeLastGCID(u) \/ ReadFails(u) \/ Reload(u) \/ SyncAgain(u)
            \/ SyncCutOff(u) \/ AnswerLost(u)
  BY <1>0, <1>3, <1>10, KindsAssumption
     DEF TakeLastGCID, ReadFails, Reload, SyncAgain, SyncCutOff, AnswerLost, store
<1>11. CASE UpdateBranch(u) \/ AnswerGCConflict(u) \/ LostCommit(u)
  BY <1>0, <1>3, <1>11, KindsAssumption DEF UpdateBranch, AnswerGCConflict, LostCommit, MayCompare, store
<1>12. CASE HeadHasChanged(u) \/ DBError(u) \/ LateError(u)
  BY <1>0, <1>3, <1>12, KindsAssumption
     DEF HeadHasChanged, DBError, LateError, MayCompare, Retry, store
<1> QED BY <1>4, <1>5, <1>6, <1>7, <1>8, <1>9, <1>10, <1>11, <1>12 DEF Handler, Failure

LEMMA OnceInvInit == Init => OnceInv
<1> SUFFICES ASSUME Init PROVE OnceInv
  OBVIOUS
<1>1. Len(commits) = 1 /\ head = 1 /\ commits[1].anc = {1} /\ commits[1].by = Origin
  BY DEF Init
<1>2. LogClosed
  BY <1>1 DEF LogClosed, Ids, History
<1>3. ASSUME NEW u \in Updaters PROVE KnownOK(u) /\ CarriesOne(u) /\ AppliedOK(u)
  <2>1. pc[u] \in {"gcid", "load"} /\ mine[u] = None /\ base[u] = 1 /\ rhead[u] = 1 /\ u # Origin
    BY KindsAssumption DEF Init
  <2> QED BY <1>1, <2>1 DEF KnownOK, CarriesOne, AppliedOK, Applied, Submitted, History, None
<1> QED BY <1>2, <1>3 DEF OnceInv

LEMMA OnceInvStep ==
  ASSUME {"lateerror", "lostanswer"} \cap Faults = {}
  PROVE  LogInv /\ OnceInv /\ [Next]_vars => OnceInv'
<1> SUFFICES ASSUME LogInv, OnceInv, [Next]_vars PROVE OnceInv'
  OBVIOUS
<1>1. LogClosed' /\ LogExtends /\ History(head) \subseteq History(head)'
  BY ClosedStays, LogOnlyGrows, HistoryGrows DEF OnceInv
<1>2. ASSUME NEW v \in Updaters PROVE KnownOK(v)' /\ CarriesOne(v)'
  <2>0. KnownOK(v) /\ CarriesOne(v) /\ HandlerOK(v) /\ LogClosed
    BY DEF OnceInv, LogInv
  <2>1. ASSUME /\ pc'[v] = pc[v] /\ base'[v] = base[v] /\ rhead'[v] = rhead[v]
               /\ mine'[v] = mine[v] /\ cand'[v] = cand[v]
        PROVE  KnownOK(v)' /\ CarriesOne(v)'
    <3>1. KnownOK(v)'
      BY <1>1, <2>0, <2>1 DEF KnownOK
    <3>2. Submitted(v)' => Submitted(v) /\ mine[v] \in Ids
      BY <2>0, <2>1 DEF Submitted, HandlerOK, MineOK
    <3>3. pc'[v] = "update" => cand[v] \in Ids
      BY <2>0, <2>1 DEF HandlerOK, CandOK
    <3> QED BY <1>1, <2>0, <2>1, <3>1, <3>2, <3>3 DEF CarriesOne, LogExtends, History
  <2>2. CASE Handler(v) \/ Failure(v)
    BY <2>0, <2>2, KnownStays, CarriesOneStays
  <2>3. ASSUME NEW u \in Updaters, u # v, Handler(u) \/ Failure(u)
        PROVE  KnownOK(v)' /\ CarriesOne(v)'
    BY <2>1, <2>3, HandlerFrame DEF OnlyMoves
  <2>4. CASE Collecting \/ AllAnswered \/ UNCHANGED vars
    <3>1. UNCHANGED local
      BY <2>4 DEF Collecting, CollectorStep, GCList, GCPopulate, GCLock, GCRecheck,
           GCDeleteBlock, GCDeleteFs, GCCommit, GCNothing, GCStart, GCFalsePositive, GCGiveUp,
           GCAbort, GCEnd, AllAnswered, vars
    <3> QED BY <2>1, <3>1 DEF local
  <2> QED BY <2>2, <2>3, <2>4 DEF Next, Collecting
<1>3. ASSUME NEW v \in Updaters PROVE AppliedOK(v)'
  <2>0. AppliedOK(v)
    BY DEF OnceInv
  <2>1. pc[v] = "done" => pc'[v] = "done" /\ mine'[v] = mine[v]
    BY StaysDone
  <2>2. CASE head' = head
    <3>1. Applied(v)' = Applied(v)
      BY <1>1, <2>2 DEF Applied, History, LogExtends, LogInv, LogOK, StoreOK
    <3> QED BY <2>0, <2>1, <3>1 DEF AppliedOK
  <2>3. CASE head' # head
    <3>1. PICK u \in Updaters : UpdateBranch(u)
      BY <2>3, HeadMoves DEF LateError, Fail
    <3>2. /\ head' = cand[u] /\ UNCHANGED <<commits, mine>> /\ pc[u] = "update"
          /\ pc'[u] = "done"
      BY <3>1 DEF UpdateBranch, MayCompare, Goto, LogInv, LocalsAreFunctions, IsLocal
    <3>3. /\ History(cand[u]) \subseteq {cand[u], mine[u]} \cup History(head)
          /\ cand[u] # mine[u] => commits[cand[u]].second # None
          /\ commits[mine[u]].by = u
      BY <3>2 DEF OnceInv, CarriesOne, Submitted
    <3>4. Applied(v)' \subseteq Applied(v) \cup (IF v = u THEN {mine[u]} ELSE {})
      BY <3>2, <3>3 DEF Applied, History
    <3> QED BY <2>0, <2>1, <3>2, <3>4 DEF AppliedOK
  <2> QED BY <2>2, <2>3
<1> QED BY <1>1, <1>2, <1>3 DEF OnceInv

(* What a handler installs adds its own request to the history of the head *)
(* and no other, unless an error or a lost answer hides that the Branch    *)
(* row was moved.                                                          *)
THEOREM OnceInvAlways ==
  ASSUME {"lateerror", "lostanswer"} \cap Faults = {}
  PROVE  Spec => []OnceInv
BY OnceInvInit, OnceInvStep, LogInvAlways, PTL DEF Spec

LEMMA OnceInvImplies == OnceInv => AppliedAtMostOnce
<1> SUFFICES ASSUME OnceInv, NEW u \in Updaters
             PROVE  /\ Cardinality(Applied(u)) <= 1
                    /\ pc[u] \in {"failed", "conflict", "skipped"} => Applied(u) = {}
  BY DEF AppliedAtMostOnce
<1>1. Applied(u) \subseteq (IF pc[u] = "done" THEN {mine[u]} ELSE {})
  BY DEF OnceInv, AppliedOK
<1>2. Applied(u) = {} \/ Applied(u) = {mine[u]}
  BY <1>1
<1>3. Cardinality({}) = 0 /\ Cardinality({mine[u]}) = 1
  BY FS_EmptySet, FS_Singleton
<1> QED BY <1>1, <1>2, <1>3

(* Unless an error after the Branch row has moved, or an answer lost after *)
(* it, sends a handler or a client round again, no request takes effect    *)
(* twice, and one that was refused does not take effect at all, for any    *)
(* number of updaters and of retries.                                      *)
THEOREM AppliedOnce ==
  ASSUME {"lateerror", "lostanswer"} \cap Faults = {}
  PROVE  Spec => []AppliedAtMostOnce
BY OnceInvAlways, OnceInvImplies, PTL
=============================================================================
