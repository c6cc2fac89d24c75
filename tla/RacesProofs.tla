----------------------------- MODULE RacesProofs -----------------------------
(***************************************************************************)
(* Proofs about lost races for the Branch row: a sync that lost one never  *)
(* wins by retrying, and any other handler loses only to as many requests  *)
(* of others as took effect since it made its own.                         *)
(***************************************************************************)
EXTENDS RefinementProofs

(* Commits are named in the order they are saved, so a commit comes after  *)
(* all it descends from.                                                   *)
LogOrdered == \A c \in Ids : \A d \in History(c) : d <= c
OrderOK(u) ==
  /\ Submitted(u) => base[u] < mine[u]
  /\ pc[u] = "update" => rhead[u] < cand[u]

(* A sync that retries does so with a head that is behind for good.        *)
LostOK(u) ==
  u \in Syncs /\ retries[u] > 0 =>
    IF pc[u] \in {"merge", "update"} THEN rhead[u] < head ELSE pc[u] # "done"

SyncInv == LogOrdered /\ \A u \in Updaters : KnownOK(u) /\ OrderOK(u) /\ LostOK(u)
-----------------------------------------------------------------------------
LEMMA OrderedStays ==
  ASSUME LogInv, LogOrdered, [Next]_vars
  PROVE  LogOrdered'
<1>1. CASE UNCHANGED commits
  BY <1>1 DEF LogOrdered, Ids, History
<1>2. CASE commits' # commits
  <2>1. PICK u \in Updaters : Build(u) \/ PutCommit(u) \/ MergeCommit(u)
    BY <1>2, Savers
  <2>2. PICK p \in Ids, s \in Ids \cup {None}, root \in SUBSET Entries :
          commits' = Append(commits, NewCommit(u, p, s, root))
    BY <1>2, <2>1, SavedWell, Zenon
  <2>3. /\ Ids' = Ids \cup {NextId} /\ (\A c \in Ids : commits'[c] = commits[c])
        /\ LogOK' /\ NextId \in Nat /\ Ids' = 1 .. NextId
    BY <2>2, LogGrows DEF LogInv, StoreOK, Ids, NextId
  <2>4. ASSUME NEW c \in Ids', NEW d \in History(c)' PROVE d <= c
    <3>1. CASE c \in Ids
      BY <2>3, <2>4, <3>1 DEF LogOrdered, History
    <3>2. CASE c = NextId
      BY <2>3, <2>4, <3>2 DEF LogOK
    <3> QED BY <2>3, <3>1, <3>2
  <2> QED BY <2>4 DEF LogOrdered
<1> QED BY <1>1, <1>2

LEMMA OrderStays ==
  ASSUME LogInv, NEW u \in Updaters, OrderOK(u), Handler(u) \/ Failure(u)
  PROVE  OrderOK(u)'
<1>0. HandlerOK(u) /\ Ids \subseteq Nat /\ (\A c \in Ids : c < NextId)
  BY DEF LogInv, StoreOK, Ids, NextId
<1>1. ASSUME UNCHANGED <<base, mine>>, Submitted(u)' => Submitted(u), pc'[u] # "update"
      PROVE  OrderOK(u)'
  BY <1>1 DEF OrderOK
<1>2. CASE Load(u)
  <2>1. /\ pc[u] = "load" /\ pc'[u] \in {"gcid", "commit", "build"} /\ mine'[u] = mine[u]
    BY <1>2 DEF Load, Goto, LogInv, LocalsAreFunctions, IsLocal
  <2>2. pc'[u] # "update" /\ ~ Submitted(u)'
    BY <1>0, <2>1 DEF HandlerOK, Submitted
  <2> QED BY <2>2 DEF OrderOK
<1>3. CASE Build(u)
  <2>1. /\ pc'[u] = "merge" /\ mine'[u] = NextId /\ base'[u] = base[u] /\ base[u] \in Ids
    BY <1>0, <1>3 DEF Build, Goto, LogInv, LocalsAreFunctions, IsLocal, HandlerOK
  <2> QED BY <1>0, <2>1 DEF OrderOK
<1>4. CASE PutCommit(u)
  <2>1. /\ pc'[u] = "fs" /\ u \in Syncs /\ base'[u] = base[u] /\ base[u] \in Ids
        /\ mine'[u] = IF mine[u] = None THEN NextId ELSE mine[u]
    BY <1>0, <1>4, KindsAssumption
       DEF PutCommit, Goto, LogInv, LocalsAreFunctions, IsLocal, HandlerOK, LabelsOf, Terminal
  <2> QED BY <1>0, <2>1 DEF OrderOK, Submitted
<1>5. CASE MergeCommit(u)
  <2>1. /\ pc[u] = "merge" /\ cand'[u] = NextId /\ rhead[u] \in Ids
        /\ UNCHANGED <<base, mine, rhead>> /\ Submitted(u)
    BY <1>0, <1>5
       DEF MergeCommit, Goto, LogInv, LocalsAreFunctions, IsLocal, HandlerOK, Submitted
  <2> QED BY <1>0, <2>1 DEF OrderOK
<1>6. CASE FastForward(u)
  <2>1. /\ cand'[u] = mine[u] /\ base[u] = rhead[u] /\ UNCHANGED <<base, mine, rhead>>
        /\ Submitted(u)
    BY <1>6 DEF FastForward, LogInv, LocalsAreFunctions, IsLocal, Submitted
  <2> QED BY <2>1 DEF OrderOK
<1> USE DEF Goto, LogInv, LocalsAreFunctions, IsLocal, HandlerOK, LabelsOf, Terminal, Submitted
<1>7. CASE ReadGCID(u) \/ WriteBlocks(u) \/ NothingToDo(u) \/ SendFs(u) \/ PutHead(u)
  BY <1>0, <1>1, <1>7, KindsAssumption
     DEF ReadGCID, WriteBlocks, NothingToDo, SendFs, PutHead, store
<1>8. CASE \/ TakeLastGCID(u) \/ ReadFails(u) \/ Reload(u)
           \/ SyncAgain(u) \/ SyncCutOff(u) \/ AnswerLost(u)
  BY <1>0, <1>1, <1>8, KindsAssumption
     DEF TakeLastGCID, ReadFails, Reload, SyncAgain, SyncCutOff, AnswerLost, store
<1>9. CASE UpdateBranch(u) \/ AnswerGCConflict(u) \/ LostCommit(u)
  BY <1>0, <1>1, <1>9, KindsAssumption
     DEF UpdateBranch, AnswerGCConflict, LostCommit, MayCompare, store
<1>10. CASE HeadHasChanged(u) \/ DBError(u) \/ LateError(u)
  BY <1>0, <1>1, <1>10, KindsAssumption
     DEF HeadHasChanged, DBError, LateError, MayCompare, Retry, store
<1> QED BY <1>2, <1>3, <1>4, <1>5, <1>6, <1>7, <1>8, <1>9, <1>10 DEF Handler, Failure

(* The head only moves up the log.                                         *)
LEMMA HeadGrows ==
  ASSUME LogInv, SyncInv, [Next]_vars
  PROVE  head' \in Nat /\ head <= head' /\ (head' # head => head < head')
<1>1. head \in Nat /\ Ids \subseteq Nat
  BY DEF LogInv, StoreOK, Ids
<1>2. CASE head' # head
  <2>1. PICK u \in Updaters : UpdateBranch(u) \/ LateError(u)
    BY <1>2, HeadMoves
  <2>2. head' = cand[u] /\ cand[u] \in Ids /\ head = rhead[u] /\ pc[u] = "update"
    BY <2>1, Advance DEF CandOK, UpdateBranch, LateError, MayCompare
  <2>3. rhead[u] < cand[u]
    BY <2>2 DEF SyncInv, OrderOK
  <2>4. head < head' /\ head' \in Nat
    BY <1>1, <2>2, <2>3
  <2> QED BY <1>1, <2>4
<1> QED BY <1>1, <1>2

(* A sync goes to retry with a head that it has just found behind.         *)
LEMMA LostStays ==
  ASSUME "dberror" \notin Faults, LogInv, SyncInv, [Next]_vars, NEW u \in Updaters,
         Handler(u) \/ Failure(u)
  PROVE  LostOK(u)'
<1>0. HandlerOK(u) /\ LostOK(u) /\ KnownOK(u) /\ OrderOK(u)
  BY DEF LogInv, SyncInv
<1>1. head' \in Nat /\ head \in Nat /\ rhead[u] \in Nat /\ head <= head'
  BY <1>0, HeadGrows DEF LogInv, StoreOK, Ids, HandlerOK
<1>2. SUFFICES ASSUME u \in Syncs PROVE LostOK(u)'
  BY DEF LostOK
<1>3. pc[u] \in LabelsOf(u)
  BY <1>0 DEF HandlerOK
<1> USE DEF Goto, LogInv, LocalsAreFunctions, IsLocal
<1>4. CASE TakeLastGCID(u)
  BY <1>4 DEF TakeLastGCID, LostOK
<1>5. CASE FastForward(u) \/ MergeCommit(u)
  BY <1>0, <1>1, <1>5 DEF FastForward, MergeCommit, LostOK, store
<1>6. CASE UpdateBranch(u) \/ LostCommit(u)
  BY <1>0, <1>1, <1>6 DEF UpdateBranch, LostCommit, MayCompare, HeadIsKnown, LostOK
<1>7. CASE HeadHasChanged(u)
  <2>1. head # rhead[u] /\ rhead'[u] = rhead[u] /\ pc'[u] # "done" /\ head' = head
    BY <1>7 DEF HeadHasChanged, HeadIsKnown, Retry, store
  <2>2. rhead[u] < head
    BY <1>1, <2>1 DEF SyncInv, LogOrdered, KnownOK, StoreOK
  <2> QED BY <2>1, <2>2 DEF LostOK
<1>8. CASE LateError(u)
  <2>1. /\ pc[u] = "update" /\ head' = cand[u] /\ rhead'[u] = rhead[u] /\ pc'[u] # "done"
    BY <1>8 DEF LateError, MayCompare, Retry
  <2> QED BY <1>0, <2>1 DEF LostOK, OrderOK
<1>9. ASSUME pc'[u] \notin {"merge", "update", "done"} PROVE LostOK(u)'
  BY <1>9 DEF LostOK
<1>10. CASE Load(u) \/ ReadGCID(u) \/ WriteBlocks(u) \/ PutCommit(u) \/ SendFs(u) \/ PutHead(u)
  BY <1>2, <1>9, <1>10, KindsAssumption
     DEF Load, ReadGCID, WriteBlocks, PutCommit, SendFs, PutHead
<1>11. CASE \/ NothingToDo(u) \/ ReadFails(u) \/ AnswerGCConflict(u)
            \/ SyncAgain(u) \/ SyncCutOff(u) \/ AnswerLost(u)
  BY <1>9, <1>11 DEF NothingToDo, ReadFails, AnswerGCConflict, SyncAgain, SyncCutOff, AnswerLost
<1>12. ~ Build(u) /\ ~ Reload(u) /\ ~ DBError(u)
  BY <1>2, <1>3, KindsAssumption DEF Build, Reload, DBError, Fail, LabelsOf, Terminal
<1> QED BY <1>4, <1>5, <1>6, <1>7, <1>8, <1>10, <1>11, <1>12 DEF Handler, Failure

LEMMA SyncInvInit == Init => SyncInv
<1> SUFFICES ASSUME Init PROVE SyncInv
  OBVIOUS
<1>1. Len(commits) = 1 /\ head = 1 /\ commits[1].anc = {1}
  BY DEF Init
<1>2. ASSUME NEW u \in Updaters PROVE KnownOK(u) /\ OrderOK(u) /\ LostOK(u)
  BY <1>1, KindsAssumption DEF Init, KnownOK, OrderOK, LostOK, Submitted, History, None
<1> QED BY <1>1, <1>2 DEF SyncInv, LogOrdered, Ids, History

LEMMA SyncInvStep ==
  ASSUME "dberror" \notin Faults
  PROVE  LogInv /\ SyncInv /\ [Next]_vars => SyncInv'
<1> SUFFICES ASSUME LogInv, SyncInv, [Next]_vars PROVE SyncInv'
  OBVIOUS
<1>1. LogOrdered' /\ LogExtends /\ History(head) \subseteq History(head)'
  BY OrderedStays, LogOnlyGrows, HistoryGrows DEF SyncInv
<1>2. ASSUME NEW v \in Updaters PROVE KnownOK(v)' /\ OrderOK(v)' /\ LostOK(v)'
  <2>0. KnownOK(v) /\ OrderOK(v) /\ LostOK(v)
    BY DEF SyncInv
  <2>1. ASSUME /\ pc'[v] = pc[v] /\ base'[v] = base[v] /\ rhead'[v] = rhead[v]
               /\ mine'[v] = mine[v] /\ cand'[v] = cand[v] /\ retries'[v] = retries[v]
        PROVE  KnownOK(v)' /\ OrderOK(v)' /\ LostOK(v)'
    <3>1. head \in Nat /\ head' \in Nat /\ head <= head' /\ rhead[v] \in Nat
      BY HeadGrows DEF LogInv, StoreOK, Ids, HandlerOK
    <3>2. KnownOK(v)' /\ OrderOK(v)'
      BY <1>1, <2>0, <2>1 DEF KnownOK, OrderOK, Submitted
    <3>3. LostOK(v)'
      BY <2>0, <2>1, <3>1 DEF LostOK
    <3> QED BY <3>2, <3>3
  <2>2. CASE Handler(v) \/ Failure(v)
    BY <2>0, <2>2, KnownStays, OrderStays, LostStays
  <2>3. ASSUME NEW u \in Updaters, u # v, Handler(u) \/ Failure(u)
        PROVE  KnownOK(v)' /\ OrderOK(v)' /\ LostOK(v)'
    BY <2>1, <2>3, HandlerFrame DEF OnlyMoves
  <2>4. CASE Collecting \/ AllAnswered \/ UNCHANGED vars
    <3>1. UNCHANGED local
      BY <2>4 DEF Collecting, CollectorStep, GCList, GCPopulate, GCLock, GCRecheck,
           GCDeleteBlock, GCDeleteFs, GCCommit, GCNothing, GCStart, GCFalsePositive, GCGiveUp,
           GCAbort, GCEnd, AllAnswered, vars
    <3> QED BY <2>1, <3>1 DEF local
  <2> QED BY <2>2, <2>3, <2>4 DEF Next, Collecting
<1> QED BY <1>1, <1>2 DEF SyncInv

(* A sync that lost the Branch row once is never answered with success by  *)
(* its own retries, for any number of updaters, retries and failures - but *)
(* for a failed transaction, after which the head may still be the one it  *)
(* knows.                                                                  *)
THEOREM SyncsDoNotWinByRetrying ==
  ASSUME "dberror" \notin Faults
  PROVE  Spec => []SyncNeverWinsByRetrying
<1>1. SyncInv => SyncNeverWinsByRetrying
  BY DEF SyncInv, LostOK, SyncNeverWinsByRetrying, Updaters
<1> QED BY <1>1, SyncInvInit, SyncInvStep, LogInvAlways, PTL DEF Spec
-----------------------------------------------------------------------------
(* A handler whose head is behind can tell it by a request that has taken  *)
(* effect since.  The others that had a request in the history of a commit *)
(* are the winners of a handler at that commit: their number bounds its    *)
(* retries.                                                                *)
NewsOK(u) ==
  rhead[u] # head => \E d \in Requests \cap History(head) : d \notin History(rhead[u])
Winners(u, c) == {v \in Updaters \ {u} : \E d \in Requests \cap History(c) : commits[d].by = v}
GoesBy(u) == IF pc[u] \in {"merge", "update"} THEN rhead[u] ELSE head
CountOK(u) == u \notin Syncs => retries[u] <= Cardinality(Winners(u, GoesBy(u)))

RaceInv == \A u \in Updaters : NewsOK(u) /\ CountOK(u)
-----------------------------------------------------------------------------
(* There are finitely many winners, for there are finitely many commits.   *)
LEMMA FewAuthors == LogInv => IsFiniteSet({commits[d].by : d \in Ids})
<1> SUFFICES ASSUME LogInv PROVE IsFiniteSet({commits[d].by : d \in Ids})
  OBVIOUS
<1> DEFINE by == [d \in Ids |-> commits[d].by]
           authors == {commits[d].by : d \in Ids}
<1>1. IsFiniteSet(Ids)
  BY FS_Interval DEF LogInv, StoreOK, Ids
<1>2. by \in Surjection(Ids, authors)
  BY DEF Surjection
<1> HIDE DEF by
<1> QED BY <1>1, <1>2, FS_Surjection

LEMMA WinnersGrow ==
  ASSUME LogInv, NEW u \in Updaters, NEW c \in Ids, NEW d \in Ids, History(c) \subseteq History(d)
  PROVE  /\ IsFiniteSet(Winners(u, c)) /\ IsFiniteSet(Winners(u, d))
         /\ Cardinality(Winners(u, c)) \in Nat /\ Cardinality(Winners(u, d)) \in Nat
         /\ Winners(u, c) \subseteq Winners(u, d)
         /\ Cardinality(Winners(u, c)) <= Cardinality(Winners(u, d))
<1>1. Winners(u, c) \subseteq Winners(u, d)
  BY DEF Winners
<1>2. Winners(u, d) \subseteq {commits[e].by : e \in Ids}
  BY DEF Winners, LogInv, LogOK
<1>3. IsFiniteSet(Winners(u, d))
  BY <1>2, FewAuthors, FS_Subset
<1> QED BY <1>1, <1>3, FS_Subset, FS_CardinalityType

LEMMA WinnersStay ==
  ASSUME LogInv, [Next]_vars, NEW u \in Updaters
  PROVE  \A c \in Ids : Winners(u, c)' = Winners(u, c) /\ History(c)' = History(c)
<1> SUFFICES ASSUME NEW c \in Ids
             PROVE  Winners(u, c)' = Winners(u, c) /\ History(c)' = History(c)
  OBVIOUS
<1>1. LogExtends /\ History(c) \subseteq Ids
  BY LogOnlyGrows DEF LogInv, LogOK
<1>2. /\ History(c)' = History(c)
      /\ \A d \in Ids : commits'[d] = commits[d]
  BY <1>1 DEF LogExtends, History
<1>3. \A d \in Ids : d \in Requests' <=> d \in Requests
  BY <1>1, <1>2 DEF Requests, LogExtends, Ids, LogInv, StoreOK
<1>4. \A v : (\E d \in Requests' \cap History(c) : commits'[d].by = v)
               <=> (\E d \in Requests \cap History(c) : commits[d].by = v)
  BY <1>1, <1>2, <1>3
<1> QED BY <1>2, <1>4 DEF Winners

(* Losing a race takes a winner more than were there before: it is not the *)
(* loser, and its one request is news.                                     *)
LEMMA LosesToWinner ==
  ASSUME LogInv, OnceInv, RequestInv, NEW u \in Updaters, NewsOK(u), pc[u] = "update",
         head # rhead[u]
  PROVE  Cardinality(Winners(u, rhead[u])) + 1 <= Cardinality(Winners(u, head))
<1>1. PICK d \in Requests \cap History(head) : d \notin History(rhead[u])
  BY DEF NewsOK
<1> DEFINE v == commits[d].by
<1>2. v \in Updaters /\ commits[d].second = None
  BY DEF RequestInv, RequestsOK, Requests
<1>3. head \in Ids /\ rhead[u] \in Ids /\ History(rhead[u]) \subseteq History(head)
  BY DEF LogInv, StoreOK, HandlerOK, OnceInv, LogClosed, KnownOK
<1>4. v # u
  <2>1. Applied(u) = {}
    BY DEF OnceInv, AppliedOK
  <2> QED BY <1>2, <2>1 DEF Applied
<1>5. v \notin Winners(u, rhead[u])
  <2> SUFFICES ASSUME NEW e \in Requests \cap History(rhead[u]), commits[e].by = v PROVE FALSE
    BY DEF Winners
  <2>1. {d, e} \subseteq Applied(v)
    BY <1>2, <1>3 DEF Applied, Requests
  <2>2. Applied(v) \subseteq {mine[v]}
    BY <1>2 DEF OnceInv, AppliedOK
  <2> QED BY <1>1, <2>1, <2>2
<1>6. v \in Winners(u, head)
  BY <1>2, <1>4 DEF Winners
<1>7. /\ IsFiniteSet(Winners(u, head)) /\ IsFiniteSet(Winners(u, rhead[u]))
      /\ Winners(u, rhead[u]) \subseteq Winners(u, head)
      /\ Cardinality(Winners(u, rhead[u])) \in Nat
  BY <1>3, WinnersGrow
<1>8. Winners(u, rhead[u]) \cup {v} \subseteq Winners(u, head)
  BY <1>6, <1>7
<1> HIDE DEF v
<1>9. Cardinality(Winners(u, rhead[u]) \cup {v}) = Cardinality(Winners(u, rhead[u])) + 1
  BY <1>5, <1>7, FS_AddElement
<1>10. Cardinality(Winners(u, rhead[u]) \cup {v}) <= Cardinality(Winners(u, head))
  BY <1>7, <1>8, FS_Subset
<1> QED BY <1>9, <1>10

(* The head moves to a commit that descends from a request which no commit *)
(* in its history did; what was news stays so.                             *)
LEMMA NewsStays ==
  ASSUME {"lateerror", "lostanswer"} \cap Faults = {}, LogInv, OnceInv, RequestInv, [Next]_vars,
         NEW u \in Updaters, NewsOK(u), rhead'[u] \in {rhead[u], head}
  PROVE  NewsOK(u)'
<1>0. /\ Requests \subseteq Requests' /\ History(head) \subseteq History(head)'
      /\ rhead[u] \in Ids /\ head \in Ids
      /\ \A c \in Ids : History(c)' = History(c)
  BY RequestsStay, HistoryGrows, WinnersStay DEF RequestInv, LogInv, StoreOK, HandlerOK
<1>1. History(rhead[u])' \subseteq History(head)
  <2>1. History(rhead[u])' = History(rhead'[u]) /\ rhead[u] \in History(head)
    BY <1>0 DEF OnceInv, KnownOK, History
  <2> QED BY <1>0, <2>1 DEF OnceInv, LogClosed
<1>2. CASE head' # head
  <2>1. PICK v \in Updaters : UpdateBranch(v)
    BY <1>2, HeadMoves DEF LateError, Fail
  <2>2. mine[v] \in Requests \ History(head) /\ mine[v] \in History(cand[v]) /\ head' = cand[v]
        /\ UNCHANGED commits
    BY <2>1, Advance, NotYetApplied DEF UpdateBranch, MayCompare
  <2>3. mine[v] \in Requests' /\ mine[v] \in History(head)' /\ mine[v] \notin History(rhead[u])'
    BY <1>0, <1>1, <2>2 DEF History
  <2> QED BY <2>3 DEF NewsOK, History
<1>3. CASE head' = head /\ rhead'[u] = rhead[u]
  BY <1>0, <1>3 DEF NewsOK, History
<1>4. CASE head' = head /\ rhead'[u] = head
  BY <1>4 DEF NewsOK
<1> QED BY <1>2, <1>3, <1>4

(* The bound holds on while the handler does not retry.                    *)
LEMMA BoundHolds ==
  ASSUME LogInv, OnceInv, [Next]_vars, NEW u \in Updaters, CountOK(u), retries'[u] = retries[u],
         GoesBy(u)' \in {GoesBy(u), head, head'}
  PROVE  CountOK(u)'
<1> SUFFICES ASSUME u \notin Syncs
             PROVE  retries[u] <= Cardinality(Winners(u, GoesBy(u)))'
  BY DEF CountOK
<1> DEFINE by == GoesBy(u)
           next == GoesBy(u)'
<1>0. retries[u] \in Nat /\ retries[u] <= Cardinality(Winners(u, by))
  BY DEF CountOK, LogInv, HandlerOK
<1>1. by \in Ids /\ head \in Ids /\ rhead[u] \in History(head) /\ by \in History(head)
  BY DEF GoesBy, LogInv, StoreOK, HandlerOK, LogOK, OnceInv, KnownOK
<1>2. History(by) \subseteq History(head)
  BY <1>1 DEF OnceInv, LogClosed
<1>3. CASE next \in {by, head}
  <2>1. next \in Ids /\ History(by) \subseteq History(next)
    BY <1>1, <1>2, <1>3
  <2>2. Winners(u, GoesBy(u))' = Winners(u, next)
    BY <2>1, WinnersStay
  <2> HIDE DEF by, next
  <2>3. /\ Cardinality(Winners(u, by)) <= Cardinality(Winners(u, next))
        /\ Cardinality(Winners(u, by)) \in Nat /\ Cardinality(Winners(u, next)) \in Nat
    BY <1>1, <2>1, WinnersGrow
  <2> QED BY <1>0, <2>2, <2>3
<1>4. CASE next = head' /\ head' # head
  <2>1. PICK v \in Updaters : UpdateBranch(v) \/ LateError(v)
    BY <1>4, HeadMoves
  <2>2. head' = cand[v] /\ cand[v] \in Ids /\ History(head) \subseteq History(cand[v])
    BY <2>1, Advance DEF CandOK
  <2>3. Winners(u, GoesBy(u))' = Winners(u, cand[v])
    BY <1>4, <2>2, WinnersStay
  <2> HIDE DEF by, next
  <2>4. /\ Cardinality(Winners(u, by)) <= Cardinality(Winners(u, cand[v]))
        /\ Cardinality(Winners(u, by)) \in Nat /\ Cardinality(Winners(u, cand[v])) \in Nat
    BY <1>1, <1>2, <2>2, WinnersGrow
  <2> QED BY <1>0, <2>3, <2>4
<1> QED BY <1>3, <1>4

LEMMA CountStays ==
  ASSUME {"dberror", "lateerror", "lostanswer"} \cap Faults = {}, LogInv, OnceInv, RequestInv,
         [Next]_vars, NEW u \in Updaters, NewsOK(u), CountOK(u), Handler(u) \/ Failure(u)
  PROVE  CountOK(u)'
<1>1. SUFFICES ASSUME u \notin Syncs PROVE CountOK(u)'
  BY DEF CountOK
<1>2. pc[u] \in LabelsOf(u)
  BY DEF LogInv, HandlerOK
<1>3. ASSUME retries'[u] = retries[u], GoesBy(u)' \in {GoesBy(u), head, head'}
      PROVE  CountOK(u)'
  BY <1>3, BoundHolds
<1> USE DEF Goto, LogInv, LocalsAreFunctions, IsLocal
<1>4. CASE Build(u)
  <2>1. retries'[u] = 0 /\ pc'[u] = "merge" /\ rhead'[u] \in {rhead[u], head}
    BY <1>4 DEF Build
  <2>2. PICK by \in {rhead[u], head} : GoesBy(u)' = by
    BY <2>1 DEF GoesBy
  <2>5. by \in Ids
    BY <2>2 DEF HandlerOK, StoreOK
  <2>3. Winners(u, GoesBy(u))' = Winners(u, by)
    BY <2>2, <2>5, WinnersStay
  <2>4. Cardinality(Winners(u, by)) \in Nat
    BY <2>5, WinnersGrow
  <2> QED BY <2>1, <2>3, <2>4 DEF CountOK
<1>5. CASE HeadHasChanged(u) /\ u \notin Uploads /\ retries[u] < MaxRetry
  <2>1. /\ pc[u] = "update" /\ head # rhead[u] /\ head' = head
        /\ pc'[u] = "reload" /\ retries'[u] = retries[u] + 1
    BY <1>1, <1>5 DEF HeadHasChanged, MayCompare, HeadIsKnown, Retry, store, HandlerOK
  <2>2. Cardinality(Winners(u, rhead[u])) + 1 <= Cardinality(Winners(u, head))
    BY <2>1, LosesToWinner
  <2>3. head \in Ids /\ rhead[u] \in Ids /\ retries[u] \in Nat
    BY DEF StoreOK, HandlerOK
  <2>4. retries[u] <= Cardinality(Winners(u, rhead[u]))
    BY <1>1, <2>1 DEF CountOK, GoesBy
  <2>5. Winners(u, GoesBy(u))' = Winners(u, head)
    BY <2>1, <2>3, WinnersStay DEF GoesBy
  <2>6. Cardinality(Winners(u, rhead[u])) \in Nat /\ Cardinality(Winners(u, head)) \in Nat
    BY <2>3, WinnersGrow
  <2> QED BY <2>1, <2>2, <2>3, <2>4, <2>5, <2>6 DEF CountOK
<1>6. CASE HeadHasChanged(u) /\ (u \in Uploads \/ ~ retries[u] < MaxRetry)
  BY <1>1, <1>3, <1>6 DEF HeadHasChanged, Retry, store, GoesBy
<1>7. CASE FastForward(u) \/ MergeCommit(u) \/ Reload(u) \/ ReadFails(u) \/ NothingToDo(u)
  BY <1>3, <1>7 DEF FastForward, MergeCommit, Reload, ReadFails, NothingToDo, store, GoesBy
<1>8. CASE Load(u) \/ ReadGCID(u) \/ WriteBlocks(u)
  BY <1>1, <1>3, <1>8 DEF Load, ReadGCID, WriteBlocks, GoesBy
<1>9. CASE UpdateBranch(u) \/ AnswerGCConflict(u) \/ LostCommit(u)
  BY <1>3, <1>9 DEF UpdateBranch, AnswerGCConflict, LostCommit, store, GoesBy
<1>10. ~ PutCommit(u) /\ ~ SendFs(u) /\ ~ PutHead(u) /\ ~ TakeLastGCID(u)
  BY <1>1, <1>2 DEF PutCommit, SendFs, PutHead, TakeLastGCID, LabelsOf, Terminal
<1>11. ~ SyncAgain(u) /\ ~ SyncCutOff(u) /\ ~ AnswerLost(u) /\ ~ DBError(u) /\ ~ LateError(u)
  BY <1>1 DEF SyncAgain, SyncCutOff, AnswerLost, DBError, LateError, Fail
<1> QED BY <1>4, <1>5, <1>6, <1>7, <1>8, <1>9, <1>10, <1>11 DEF Handler, Failure

LEMMA RaceInvInit == LogInv /\ Init => RaceInv
<1> SUFFICES ASSUME LogInv, Init, NEW u \in Updaters PROVE NewsOK(u) /\ CountOK(u)
  BY DEF RaceInv
<1>1. rhead[u] = head /\ retries[u] = 0 /\ GoesBy(u) = head /\ head \in Ids
  BY DEF Init, GoesBy, LogInv, StoreOK
<1>2. Cardinality(Winners(u, head)) \in Nat
  BY <1>1, WinnersGrow
<1> QED BY <1>1, <1>2 DEF NewsOK, CountOK

LEMMA RaceInvStep ==
  ASSUME {"dberror", "lateerror", "lostanswer"} \cap Faults = {}
  PROVE  LogInv /\ OnceInv /\ RequestInv /\ RaceInv /\ [Next]_vars => RaceInv'
<1> SUFFICES ASSUME LogInv, OnceInv, RequestInv, RaceInv, [Next]_vars, NEW v \in Updaters
             PROVE  NewsOK(v)' /\ CountOK(v)'
  BY DEF RaceInv
<1>0. NewsOK(v) /\ CountOK(v)
  BY DEF RaceInv
<1>1. ASSUME pc'[v] = pc[v], rhead'[v] = rhead[v], retries'[v] = retries[v]
      PROVE  NewsOK(v)' /\ CountOK(v)'
  <2>1. GoesBy(v)' \in {GoesBy(v), head, head'}
    BY <1>1 DEF GoesBy
  <2> QED BY <1>0, <1>1, <2>1, NewsStays, BoundHolds
<1>2. CASE Handler(v) \/ Failure(v)
  BY <1>0, <1>2, Knows, NewsStays, CountStays
<1>3. ASSUME NEW u \in Updaters, u # v, Handler(u) \/ Failure(u)
      PROVE  NewsOK(v)' /\ CountOK(v)'
  BY <1>1, <1>3, HandlerFrame DEF OnlyMoves
<1>4. CASE Collecting \/ AllAnswered \/ UNCHANGED vars
  <2>1. UNCHANGED local
    BY <1>4 DEF Collecting, CollectorStep, GCList, GCPopulate, GCLock, GCRecheck,
         GCDeleteBlock, GCDeleteFs, GCCommit, GCNothing, GCStart, GCFalsePositive, GCGiveUp,
         GCAbort, GCEnd, AllAnswered, vars
  <2> QED BY <1>1, <2>1 DEF local
<1> QED BY <1>2, <1>3, <1>4 DEF Next, Collecting

(* Handlers that are not syncs retry only when others have won: as many    *)
(* different ones, whose requests are in the history of the head, for any  *)
(* number of updaters and any MaxRetry, unless the database fails or an    *)
(* answer is lost.                                                         *)
THEOREM EveryLostRaceHasAWinner ==
  ASSUME {"dberror", "lateerror", "lostanswer"} \cap Faults = {}
  PROVE  Spec => []LostRacesHaveWinners
<1>1. LogInv /\ OnceInv /\ RequestInv /\ RaceInv => LostRacesHaveWinners
  <2> SUFFICES ASSUME LogInv, OnceInv, RequestInv, RaceInv, NEW u \in Updaters \ Syncs
               PROVE  retries[u] <= Cardinality({v \in Updaters \ {u} : Applied(v) # {}})
    BY DEF LostRacesHaveWinners
  <2> DEFINE by == GoesBy(u)
             won == {v \in Updaters \ {u} : Applied(v) # {}}
  <2>1. /\ by \in Ids /\ head \in Ids /\ by \in History(head) /\ History(by) \subseteq History(head)
        /\ retries[u] \in Nat /\ retries[u] <= Cardinality(Winners(u, by))
    BY DEF RaceInv, CountOK, GoesBy, LogInv, StoreOK, HandlerOK, LogOK, OnceInv, KnownOK, LogClosed
  <2> HIDE DEF by
  <2>2. /\ Cardinality(Winners(u, by)) <= Cardinality(Winners(u, head))
        /\ Cardinality(Winners(u, by)) \in Nat /\ Cardinality(Winners(u, head)) \in Nat
    BY <2>1, WinnersGrow
  <2>3. Winners(u, head) \subseteq won
    BY DEF Winners, Applied, Requests
  <2>4. won \subseteq {commits[d].by : d \in Ids}
    BY DEF Applied, LogInv, LogOK, StoreOK
  <2>5. IsFiniteSet(won)
    BY <2>4, FewAuthors, FS_Subset
  <2>6. Cardinality(Winners(u, head)) <= Cardinality(won) /\ Cardinality(won) \in Nat
    BY <2>3, <2>5, FS_Subset, FS_CardinalityType
  <2> QED BY <2>1, <2>2, <2>6
<1>2. Spec => []OnceInv
  BY OnceInvAlways
<1>3. LogInv /\ OnceInv /\ RequestInv /\ RaceInv /\ [Next]_vars => RaceInv'
  BY RaceInvStep
<1> QED BY <1>1, <1>2, <1>3, RaceInvInit, LogInvAlways, RequestInvAlways, PTL DEF Spec
=============================================================================
