-------------------------- MODULE HeadUpdate_proofs --------------------------
(***************************************************************************)
(* Proofs about HeadUpdate: type correctness with the shape of the commit  *)
(* log, the history of the head, and the safety of the online collector.   *)
(***************************************************************************)
EXTENDS HeadUpdate, TLAPS

Ids == 1 .. Len(commits)

(* Every commit is in its own history, and histories stay in the log.      *)
LogOK == \A c \in Ids : c \in History(c) /\ History(c) \subseteq Ids

(* The stores and the database hold what they should.                      *)
StoreOK ==
  /\ commits \in Seq(Commit) /\ head \in Ids
  /\ blocks \subseteq Blocks /\ fs \subseteq SUBSET Entries
  /\ gcid \in Nat /\ lastgc \in [Syncs -> Nat \cup {NoCheck}] /\ faults \in Nat

CollectorOK ==
  /\ gcpc \in {"idle", "list", "populate", "lock", "recheck", "delete"}
  /\ gchead \in Ids \cup {None} /\ gcruns \in Nat
  /\ gcpc # "idle" => gchead \in Ids
  /\ existing \subseteq Blocks /\ live \subseteq Blocks
  /\ existingFs \subseteq SUBSET Entries /\ liveFs \subseteq SUBSET Entries

(* Where a handler of each kind can be.                                    *)
LabelsOf(u) ==
  Terminal \cup {"load", "merge", "update"}
    \cup (IF u \in Uploads \cup Replaces THEN {"gcid", "index", "build"} ELSE {})
    \cup (IF u \in Syncs THEN {"commit", "fs", "index", "head", "takegc"} ELSE {})
    \cup (IF u \in Replaces \cup Deletes \cup Reverts THEN {"build", "reload"} ELSE {})

(* The commit that carries the request descends from its base, and the     *)
(* commit that the Branch row is to get descends from it and from the head *)
(* that the handler knows.                                                 *)
Submitted(u) ==
  \/ pc[u] \in {"merge", "update", "reload"}
  \/ u \in Syncs /\ (mine[u] # None \/ pc[u] \in {"fs", "index", "head", "takegc"})
MineOK(u) == mine[u] \in Ids /\ History(base[u]) \subseteq History(mine[u])
CandOK(u) ==
  cand[u] \in Ids /\ History(rhead[u]) \subseteq History(cand[u]) /\ mine[u] \in History(cand[u])
HandlerOK(u) ==
  /\ pc[u] \in LabelsOf(u)
  /\ base[u] \in Ids /\ rhead[u] \in Ids
  /\ mine[u] \in Ids \cup {None} /\ cand[u] \in Ids \cup {None}
  /\ seen[u] \in Nat \cup {NoCheck} /\ retries[u] \in Nat /\ attempts[u] \in Nat
  /\ Submitted(u) => MineOK(u)
  /\ pc[u] = "update" => CandOK(u)
  /\ pc[u] = "load" /\ u \in Syncs => mine[u] = None

IsLocal(f) == f = [u \in Updaters |-> f[u]]
LocalsAreFunctions ==
  /\ IsLocal(pc) /\ IsLocal(base) /\ IsLocal(rhead) /\ IsLocal(mine)
  /\ IsLocal(cand) /\ IsLocal(seen) /\ IsLocal(retries) /\ IsLocal(attempts)

LogInv ==
  /\ StoreOK /\ LogOK /\ CollectorOK
  /\ LocalsAreFunctions
  /\ \A u \in Updaters : HandlerOK(u)

(* What every step of a handler does to the rest: nothing, but the log of  *)
(* commits may grow.                                                       *)
OnlyMoves(u) ==
  /\ LocalsAreFunctions'
  /\ \A v \in Updaters \ {u} :
       /\ pc'[v] = pc[v] /\ base'[v] = base[v] /\ rhead'[v] = rhead[v] /\ mine'[v] = mine[v]
       /\ cand'[v] = cand[v] /\ seen'[v] = seen[v] /\ retries'[v] = retries[v]
       /\ attempts'[v] = attempts[v]
  /\ UNCHANGED collector
LogExtends == Len(commits) <= Len(commits') /\ \A c \in Ids : commits'[c] = commits[c]
-----------------------------------------------------------------------------
LEMMA RootsAreTrees == LogInv => \A c \in Ids : Root(c) \in SUBSET Entries
<1> SUFFICES ASSUME LogInv, NEW c \in Ids PROVE Root(c) \in SUBSET Entries
  OBVIOUS
<1>1. commits[c] \in Commit
  BY DEF LogInv, StoreOK, Ids
<1> QED BY <1>1 DEF Root, Commit

(* What the collector keeps is of blocks and trees.                        *)
LEMMA KeptIsTyped ==
  ASSUME LogInv, NEW c \in Ids
  PROVE  BlocksKept(c) \subseteq Blocks /\ RootsKept(c) \subseteq SUBSET Entries
<1>1. Kept(c) \subseteq Ids
  BY DEF Kept, LogInv, LogOK
<1>2. \A k \in Kept(c) : Root(k) \in SUBSET Entries
  BY <1>1, RootsAreTrees
<1>3. \A k \in Kept(c) : BlocksIn(Root(k)) \subseteq Blocks
  BY <1>2 DEF BlocksIn, Blocks, Entries
<1> QED BY <1>2, <1>3 DEF BlocksKept, RootsKept

(* A request makes a tree of entries of a tree of entries.                 *)
LEMMA ResultsAreTrees ==
  ASSUME LogInv, NEW u \in Updaters, NEW tree \in SUBSET Entries,
         NEW root \in Results(u, tree)
  PROVE  root \in SUBSET Entries
<1> DEFINE own == <<u, attempts[u] + 1>>
           old == UNION {Root(c) : c \in History(base[u])}
<1>1. own \in Entries
  BY DEF LogInv, HandlerOK, Entries, Authors
<1>2. old \subseteq Entries
  <2>1. base[u] \in Ids /\ commits \in Seq(Commit)
    BY DEF LogInv, StoreOK, HandlerOK
  <2>2. \A c \in Ids : Root(c) \subseteq Entries
    BY RootsAreTrees
  <2>3. History(base[u]) \subseteq Ids
    BY <2>1 DEF LogInv, LogOK
  <2> QED BY <2>2, <2>3
<1>3. CASE u \in Uploads \/ u \in Replaces \/ u \in Syncs \/ u \in Deletes
  BY <1>1, <1>3, KindsAssumption DEF Results
<1>4. CASE u \in Reverts
  BY <1>2, <1>4, KindsAssumption DEF Results
<1> QED BY <1>3, <1>4 DEF Updaters

(* Saving a commit keeps the log in shape and leaves what is in it alone.  *)
LEMMA LogGrows ==
  ASSUME LogInv, NEW u \in Updaters, NEW p \in Ids, NEW s \in Ids \cup {None},
         NEW root \in SUBSET Entries, commits' = Append(commits, NewCommit(u, p, s, root))
  PROVE  /\ commits' \in Seq(Commit)
         /\ Len(commits') = Len(commits) + 1
         /\ \A c \in Ids : commits'[c] = commits[c]
         /\ commits'[NextId] = NewCommit(u, p, s, root)
         /\ LogOK'
<1> DEFINE new == NewCommit(u, p, s, root)
<1>0. commits \in Seq(Commit) /\ Len(commits) \in Nat
  BY DEF LogInv, StoreOK
<1>1. History(p) \subseteq Ids /\ (s # None => History(s) \subseteq Ids)
  BY DEF LogInv, LogOK, None, Ids
<1>2. new.anc \subseteq 1 .. (Len(commits) + 1) /\ NextId \in new.anc
  BY <1>0, <1>1 DEF NewCommit, NextId, Ids
<1>3. new \in Commit
  BY <1>0, <1>2 DEF NewCommit, Commit, Updaters, Authors, Ids, None
<1>4. /\ commits' \in Seq(Commit)
      /\ Len(commits') = Len(commits) + 1
      /\ \A c \in Ids : commits'[c] = commits[c]
      /\ commits'[NextId] = new
  BY <1>0, <1>3 DEF Ids, NextId
<1>5. LogOK'
  <2> SUFFICES ASSUME NEW c \in Ids'
               PROVE  c \in commits'[c].anc /\ commits'[c].anc \subseteq Ids'
    BY DEF LogOK, History
  <2>1. CASE c \in Ids
    BY <1>0, <1>4, <2>1 DEF LogInv, LogOK, Ids, History
  <2>2. CASE c = NextId
    BY <1>0, <1>2, <1>4, <2>2 DEF Ids, NextId
  <2> QED BY <1>0, <1>4, <2>1, <2>2 DEF Ids, NextId
<1> QED BY <1>4, <1>5

LEMMA SavedCommit ==
  ASSUME LogInv, NEW u \in Updaters, NEW p \in Ids, NEW s \in Ids \cup {None},
         NEW root \in SUBSET Entries, commits' = Append(commits, NewCommit(u, p, s, root))
  PROVE  /\ commits'[NextId].by = u /\ commits'[NextId].parent = p
         /\ commits'[NextId].second = s /\ commits'[NextId].root = root
         /\ \A c \in Ids : commits'[c] = commits[c]
<1>1. commits'[NextId] = NewCommit(u, p, s, root) /\ \A c \in Ids : commits'[c] = commits[c]
  BY LogGrows
<1>2. /\ NewCommit(u, p, s, root).by = u /\ NewCommit(u, p, s, root).parent = p
      /\ NewCommit(u, p, s, root).second = s /\ NewCommit(u, p, s, root).root = root
  BY DEF NewCommit
<1> QED BY <1>1, <1>2

LEMMA SavedRoot ==
  ASSUME LogInv, NEW u \in Updaters, NEW p \in Ids, NEW s \in Ids \cup {None},
         NEW root \in SUBSET Entries, commits' = Append(commits, NewCommit(u, p, s, root))
  PROVE  commits'[NextId].root = root /\ \A c \in Ids : commits'[c] = commits[c]
BY SavedCommit
-----------------------------------------------------------------------------
LEMMA LogInvImpliesTypeOK == LogInv => TypeOK
<1> SUFFICES ASSUME LogInv PROVE TypeOK
  OBVIOUS
<1>1. Len(commits) \in Nat
  BY DEF LogInv, StoreOK
<1>2. \A u \in Updaters :
        /\ pc[u] \in Labels /\ base[u] \in 1 .. Len(commits) /\ rhead[u] \in 1 .. Len(commits)
        /\ mine[u] \in 0 .. Len(commits) /\ cand[u] \in 0 .. Len(commits)
        /\ seen[u] \in Nat \cup {NoCheck} /\ retries[u] \in Nat /\ attempts[u] \in Nat
  BY <1>1 DEF LogInv, HandlerOK, LabelsOf, Labels, Ids, None
<1>3. /\ pc \in [Updaters -> Labels]
      /\ base \in [Updaters -> 1 .. Len(commits)] /\ rhead \in [Updaters -> 1 .. Len(commits)]
      /\ mine \in [Updaters -> 0 .. Len(commits)] /\ cand \in [Updaters -> 0 .. Len(commits)]
      /\ seen \in [Updaters -> Nat \cup {NoCheck}]
      /\ retries \in [Updaters -> Nat] /\ attempts \in [Updaters -> Nat]
  BY <1>2 DEF LogInv, LocalsAreFunctions, IsLocal
<1>4. gchead \in 0 .. Len(commits)
  BY <1>1 DEF LogInv, CollectorOK, Ids, None
<1> QED BY <1>3, <1>4 DEF LogInv, StoreOK, CollectorOK, TypeOK, Ids

(* A library starts with one commit, and nobody at work.                   *)
THEOREM LogInvInit == Init => LogInv
<1> SUFFICES ASSUME Init PROVE LogInv
  OBVIOUS
<1>1. InitialTree \subseteq Entries
  BY DEF InitialTree, Entries, Authors
<1>2. commits \in Seq(Commit) /\ Len(commits) = 1
  BY <1>1 DEF Init, Commit, Authors, None
<1>3. StoreOK
  BY <1>1, <1>2 DEF Init, StoreOK, Ids, NoCheck, EmptyDir
<1>4. LogOK
  BY <1>2 DEF Init, LogOK, Ids, History
<1>5. CollectorOK
  BY <1>2 DEF Init, CollectorOK, Ids
<1>6. LocalsAreFunctions
  BY DEF Init, LocalsAreFunctions, IsLocal
<1>7. ASSUME NEW u \in Updaters PROVE HandlerOK(u)
  BY <1>2, KindsAssumption DEF Init, HandlerOK, LabelsOf, Submitted, Ids, None, NoCheck
<1> QED BY <1>3, <1>4, <1>5, <1>6, <1>7 DEF LogInv

(* A step of one handler keeps the invariant when it leaves the stores and *)
(* that handler in order.                                                  *)
LEMMA HandlerStep ==
  ASSUME LogInv, NEW u \in Updaters, OnlyMoves(u), LogExtends,
         StoreOK', LogOK', HandlerOK(u)'
  PROVE  LogInv'
<1>1. Len(commits) \in Nat /\ Len(commits') \in Nat /\ Ids \subseteq Ids'
  BY DEF LogInv, StoreOK, LogExtends, Ids
<1>2. CollectorOK'
  BY <1>1 DEF LogInv, OnlyMoves, CollectorOK, collector
<1>3. ASSUME NEW v \in Updaters, v # u PROVE HandlerOK(v)'
  <2>1. HandlerOK(v)
    BY DEF LogInv
  <2>2. \A c \in Ids : commits'[c].anc = commits[c].anc
    BY DEF LogExtends
  <2>3. /\ pc'[v] = pc[v] /\ base'[v] = base[v] /\ rhead'[v] = rhead[v] /\ mine'[v] = mine[v]
        /\ cand'[v] = cand[v] /\ seen'[v] = seen[v] /\ retries'[v] = retries[v]
        /\ attempts'[v] = attempts[v]
    BY <1>3 DEF OnlyMoves
  <2>4. (Submitted(v) => MineOK(v))'
    BY <1>1, <2>1, <2>2, <2>3 DEF HandlerOK, Submitted, MineOK, History
  <2>5. (pc[v] = "update" => CandOK(v))'
    BY <1>1, <2>1, <2>2, <2>3 DEF HandlerOK, CandOK, History
  <2> QED BY <1>1, <2>1, <2>3, <2>4, <2>5 DEF HandlerOK, LabelsOf
<1> QED BY <1>2, <1>3 DEF LogInv, OnlyMoves

(* The log is as it was when no commit is saved.                           *)
LEMMA Unmoved ==
  ASSUME LogInv, UNCHANGED commits
  PROVE  LogExtends /\ LogOK'
BY DEF LogInv, StoreOK, LogExtends, LogOK, Ids, History

(* The handler is in order when the request and its base stay what they    *)
(* are, and a commit to install has just been made.                        *)
LEMMA SameRequest ==
  ASSUME LogInv, NEW u \in Updaters, UNCHANGED commits,
         base'[u] = base[u], mine'[u] = mine[u],
         rhead'[u] \in Ids, cand'[u] \in Ids \cup {None}, seen'[u] \in Nat \cup {NoCheck},
         retries'[u] \in Nat, attempts'[u] \in Nat,
         pc'[u] \in LabelsOf(u), Submitted(u)' => Submitted(u),
         pc'[u] = "update" => CandOK(u)', u \in Syncs => pc'[u] # "load"
  PROVE  HandlerOK(u)'
BY DEF LogInv, HandlerOK, LabelsOf, MineOK, Ids, History

(* What a handler's step leaves alone.                                     *)
LEMMA HandlerFrame ==
  ASSUME LogInv, NEW u \in Updaters, Handler(u) \/ Failure(u)
  PROVE  /\ OnlyMoves(u)
         /\ gcid' = gcid /\ blocks \subseteq blocks'
         /\ \A v \in Syncs \ {u} : lastgc'[v] = lastgc[v]
<1> USE DEF Goto, Retry, LogInv, StoreOK, OnlyMoves, LocalsAreFunctions, IsLocal, store, collector
<1>1. CASE Load(u) \/ ReadGCID(u) \/ WriteBlocks(u) \/ Build(u)
  BY <1>1 DEF Load, ReadGCID, WriteBlocks, Build
<1>2. CASE NothingToDo(u) \/ PutCommit(u) \/ SendFs(u) \/ PutHead(u) \/ TakeLastGCID(u)
  BY <1>2 DEF NothingToDo, PutCommit, SendFs, PutHead, TakeLastGCID
<1>3. CASE FastForward(u) \/ MergeCommit(u) \/ ReadFails(u) \/ Reload(u)
  BY <1>3 DEF FastForward, MergeCommit, ReadFails, Reload
<1>4. CASE UpdateBranch(u) \/ AnswerGCConflict(u) \/ HeadHasChanged(u) \/ SyncAgain(u)
  BY <1>4 DEF UpdateBranch, AnswerGCConflict, HeadHasChanged, SyncAgain
<1>5. CASE DBError(u) \/ LostCommit(u) \/ LateError(u) \/ SyncCutOff(u) \/ AnswerLost(u)
  BY <1>5 DEF DBError, LostCommit, LateError, SyncCutOff, AnswerLost
<1> QED BY <1>1, <1>2, <1>3, <1>4, <1>5 DEF Handler, Failure

(* The steps of a handler that save no commit.                             *)
Quiet(u) ==
  \/ Load(u) \/ ReadGCID(u) \/ WriteBlocks(u) \/ NothingToDo(u) \/ SendFs(u) \/ PutHead(u)
  \/ TakeLastGCID(u) \/ FastForward(u) \/ ReadFails(u) \/ Reload(u) \/ UpdateBranch(u)
  \/ AnswerGCConflict(u) \/ HeadHasChanged(u) \/ SyncAgain(u) \/ Failure(u)

LEMMA QuietStore ==
  ASSUME LogInv, NEW u \in Updaters, Quiet(u)
  PROVE  UNCHANGED commits /\ StoreOK'
<1>0. HandlerOK(u) /\ u \in Authors
  BY DEF LogInv, Authors
<1> USE DEF LogInv, StoreOK, Ids, store
<1>1. CASE Load(u) \/ ReadGCID(u) \/ NothingToDo(u) \/ PutHead(u) \/ FastForward(u)
           \/ ReadFails(u) \/ Reload(u)
  BY <1>1 DEF Load, ReadGCID, NothingToDo, PutHead, FastForward, ReadFails, Reload
<1>2. CASE WriteBlocks(u) \/ TakeLastGCID(u)
  BY <1>0, <1>2 DEF WriteBlocks, TakeLastGCID, Blocks
<1>3. CASE SendFs(u)
  <2>1. mine[u] \in Ids
    BY <1>0, <1>3, KindsAssumption
       DEF SendFs, HandlerOK, LabelsOf, Terminal, Submitted, MineOK
  <2>2. Root(mine[u]) \in SUBSET Entries
    BY <2>1, RootsAreTrees
  <2> QED BY <1>3, <2>2 DEF SendFs
<1>4. CASE UpdateBranch(u) \/ LateError(u)
  <2>1. cand[u] \in Ids
    BY <1>0, <1>4 DEF UpdateBranch, LateError, MayCompare, HandlerOK, CandOK
  <2> QED BY <1>4, <2>1 DEF UpdateBranch, LateError, Fail
<1>5. CASE AnswerGCConflict(u) \/ HeadHasChanged(u) \/ SyncAgain(u) \/ DBError(u) \/ LostCommit(u)
           \/ SyncCutOff(u) \/ AnswerLost(u)
  BY <1>5 DEF AnswerGCConflict, HeadHasChanged, SyncAgain, DBError, LostCommit, SyncCutOff,
       AnswerLost, Fail
<1> QED BY <1>1, <1>2, <1>3, <1>4, <1>5 DEF Quiet, Failure

(* Most of them keep the request and its base.                             *)
KeepsRequest(u) ==
  /\ base'[u] = base[u] /\ mine'[u] = mine[u] /\ rhead'[u] \in Ids
  /\ cand'[u] \in Ids \cup {None} /\ seen'[u] \in Nat \cup {NoCheck}
  /\ retries'[u] \in Nat /\ attempts'[u] \in Nat
  /\ pc'[u] \in LabelsOf(u) /\ pc'[u] # "update" /\ (Submitted(u)' => Submitted(u))
  /\ u \in Syncs => pc'[u] # "load"

LEMMA QuietSteps ==
  ASSUME LogInv, NEW u \in Updaters, Quiet(u)
  PROVE  LogInv'
<1>0. HandlerOK(u) /\ OnlyMoves(u) /\ UNCHANGED commits /\ StoreOK'
  BY QuietStore, HandlerFrame DEF LogInv, Quiet, Handler, Failure
<1>1. SUFFICES HandlerOK(u)'
  BY <1>0, Unmoved, HandlerStep
<1>2. CASE Load(u)
  <2>1. /\ base'[u] \in Ids /\ rhead'[u] \in Ids /\ mine'[u] = mine[u] /\ cand'[u] = cand[u]
        /\ seen'[u] = seen[u] /\ retries'[u] = retries[u] /\ attempts'[u] = attempts[u]
    BY <1>2 DEF Load, LogInv, StoreOK, LogOK, LocalsAreFunctions, IsLocal
  <2>2. pc'[u] \in {"gcid", "commit", "build"} /\ pc'[u] \in LabelsOf(u)
    BY <1>0, <1>2, KindsAssumption
       DEF Load, Goto, LogInv, LocalsAreFunctions, IsLocal, HandlerOK, LabelsOf, Terminal, Updaters
  <2>3. pc[u] = "load" /\ (u \in Syncs => mine[u] = None)
    BY <1>0, <1>2 DEF Load, HandlerOK
  <2>4. ~ Submitted(u)'
    BY <2>1, <2>2, <2>3 DEF Submitted
  <2> QED BY <1>0, <2>1, <2>2, <2>4 DEF HandlerOK, Ids, LabelsOf
<1>3. CASE FastForward(u)
  <2>1. /\ pc[u] = "merge" /\ pc'[u] = "update" /\ base[u] = rhead[u] /\ cand'[u] = mine[u]
        /\ UNCHANGED <<base, rhead, mine, seen, retries, attempts>>
    BY <1>3 DEF FastForward, Goto, LogInv, LocalsAreFunctions, IsLocal
  <2>2. MineOK(u)
    BY <1>0, <2>1 DEF HandlerOK, Submitted
  <2>3. CandOK(u)'
    BY <1>0, <2>1, <2>2 DEF MineOK, CandOK, LogInv, LogOK, Ids, History
  <2>4. mine[u] \in Ids
    BY <2>2 DEF MineOK
  <2>5. pc'[u] \in LabelsOf(u) /\ Submitted(u)
    BY <2>1 DEF LabelsOf, Submitted
  <2> QED BY <1>0, <2>1, <2>3, <2>4, <2>5, SameRequest DEF HandlerOK
<1>4. ASSUME KeepsRequest(u) PROVE HandlerOK(u)'
  BY <1>0, <1>4, SameRequest DEF KeepsRequest
<1> USE DEF Goto, Retry, LogInv, StoreOK, LocalsAreFunctions, IsLocal, HandlerOK, LabelsOf,
            Terminal, Submitted, Updaters, KeepsRequest
<1>5. CASE ReadGCID(u) \/ WriteBlocks(u) \/ NothingToDo(u) \/ SendFs(u)
  <2>1. KeepsRequest(u)
    BY <1>0, <1>5, KindsAssumption DEF ReadGCID, WriteBlocks, NothingToDo, SendFs
  <2> QED BY <1>4, <2>1
<1>6. CASE PutHead(u) \/ TakeLastGCID(u) \/ ReadFails(u) \/ Reload(u)
  <2>1. KeepsRequest(u)
    BY <1>0, <1>6, KindsAssumption DEF PutHead, TakeLastGCID, ReadFails, Reload
  <2> QED BY <1>4, <2>1
<1>7. CASE \/ UpdateBranch(u) \/ AnswerGCConflict(u) \/ LostCommit(u)
           \/ SyncAgain(u) \/ SyncCutOff(u) \/ AnswerLost(u)
  <2>1. KeepsRequest(u)
    BY <1>0, <1>7, KindsAssumption
       DEF UpdateBranch, AnswerGCConflict, LostCommit, MayCompare, SyncAgain, SyncCutOff, AnswerLost
  <2> QED BY <1>4, <2>1
<1>8. CASE HeadHasChanged(u) \/ DBError(u) \/ LateError(u)
  <2>1. KeepsRequest(u)
    BY <1>0, <1>8, KindsAssumption DEF HeadHasChanged, DBError, LateError, MayCompare
  <2> QED BY <1>4, <2>1
<1> QED BY <1>2, <1>3, <1>5, <1>6, <1>7, <1>8 DEF Quiet, Failure

(* The handler is in order when it has just saved a commit for the request *)
(* and is on its way to the Branch row.                                    *)
LEMMA Saved ==
  ASSUME LogInv, NEW u \in Updaters, NEW p \in Ids, NEW s \in Ids \cup {None},
         NEW root \in SUBSET Entries, commits' = Append(commits, NewCommit(u, p, s, root)),
         UNCHANGED <<head, blocks, gcid, faults>>, fs' \subseteq fs \cup {root},
         lastgc' \in [Syncs -> Nat \cup {NoCheck}]
  PROVE  /\ LogExtends /\ StoreOK' /\ LogOK' /\ Ids \subseteq Ids' /\ NextId \in Ids'
         /\ commits'[NextId] = NewCommit(u, p, s, root)
         /\ \A c \in Ids : commits'[c].anc = commits[c].anc
<1>1. Len(commits) \in Nat
  BY DEF LogInv, StoreOK
<1> QED BY <1>1, LogGrows DEF LogInv, StoreOK, LogExtends, Ids, NextId, History

LEMMA SavingSteps ==
  ASSUME LogInv, NEW u \in Updaters, Build(u) \/ PutCommit(u) \/ MergeCommit(u)
  PROVE  LogInv'
<1>0. HandlerOK(u)
  BY DEF LogInv
<1>1. CASE Build(u)
  <2>1. PICK root \in Results(u, Root(base[u])) :
          /\ fs' = fs \cup {root}
          /\ commits' = Append(commits, NewCommit(u, base[u], None, root))
    BY <1>1 DEF Build
  <2>2. root \in SUBSET Entries
    BY <1>0, RootsAreTrees, ResultsAreTrees DEF HandlerOK
  <2>3. OnlyMoves(u)
    BY <1>1 DEF Build, Goto, LogInv, OnlyMoves, LocalsAreFunctions, IsLocal, collector
  <2>4. /\ LogExtends /\ StoreOK' /\ LogOK' /\ Ids \subseteq Ids' /\ NextId \in Ids'
        /\ commits'[NextId] = NewCommit(u, base[u], None, root)
        /\ \A c \in Ids : commits'[c].anc = commits[c].anc
    BY <1>0, <1>1, <2>1, <2>2, Saved DEF Build, HandlerOK, LogInv, StoreOK
  <2>5. /\ pc'[u] = "merge" /\ base'[u] = base[u] /\ rhead'[u] \in {rhead[u], head}
        /\ mine'[u] = NextId /\ cand'[u] = cand[u] /\ seen'[u] = seen[u] /\ retries'[u] = 0
        /\ attempts'[u] = attempts[u] + 1
    BY <1>1 DEF Build, Goto, LogInv, LocalsAreFunctions, IsLocal
  <2>8. rhead'[u] \in Ids'
    <3>1. rhead[u] \in Ids /\ head \in Ids
      BY <1>0 DEF HandlerOK, LogInv, StoreOK
    <3> QED BY <2>4, <2>5, <3>1
  <2>6. MineOK(u)'
    BY <1>0, <2>4, <2>5 DEF MineOK, HandlerOK, NewCommit, History
  <2>7. HandlerOK(u)'
    BY <1>0, <2>4, <2>5, <2>6, <2>8 DEF HandlerOK, LabelsOf
  <2> QED BY <2>3, <2>4, <2>7, HandlerStep
<1>2. CASE PutCommit(u)
  <2>1. OnlyMoves(u)
    BY <1>2 DEF PutCommit, Goto, LogInv, OnlyMoves, LocalsAreFunctions, IsLocal, collector
  <2>2. lastgc' \in [Syncs -> Nat \cup {NoCheck}]
    BY <1>2 DEF PutCommit, LogInv, StoreOK
  <2>3. /\ pc'[u] = "fs" /\ base'[u] = base[u] /\ rhead'[u] = rhead[u]
        /\ cand'[u] = cand[u] /\ seen'[u] = seen[u] /\ retries'[u] = retries[u]
        /\ attempts'[u] = attempts[u] + 1
    BY <1>2 DEF PutCommit, Goto, LogInv, LocalsAreFunctions, IsLocal
  <2>4. u \in Syncs
    BY <1>0, <1>2, KindsAssumption DEF PutCommit, HandlerOK, LabelsOf, Terminal
  <2>5. CASE mine[u] = None
    <3>1. PICK root \in Results(u, Root(base[u])) :
            commits' = Append(commits, NewCommit(u, base[u], None, root))
      BY <1>2, <2>5 DEF PutCommit
    <3>2. root \in SUBSET Entries
      BY <1>0, RootsAreTrees, ResultsAreTrees DEF HandlerOK
    <3>3. /\ LogExtends /\ StoreOK' /\ LogOK' /\ Ids \subseteq Ids' /\ NextId \in Ids'
          /\ commits'[NextId] = NewCommit(u, base[u], None, root)
          /\ \A c \in Ids : commits'[c].anc = commits[c].anc
      BY <1>0, <1>2, <2>2, <3>1, <3>2, Saved DEF PutCommit, HandlerOK
    <3>4. mine'[u] = NextId
      BY <1>2, <2>5 DEF PutCommit, LogInv, LocalsAreFunctions, IsLocal
    <3>5. MineOK(u)'
      BY <1>0, <2>3, <3>3, <3>4 DEF MineOK, HandlerOK, NewCommit, History
    <3>6. HandlerOK(u)'
      BY <1>0, <2>3, <2>4, <3>3, <3>4, <3>5 DEF HandlerOK, LabelsOf
    <3> QED BY <2>1, <3>3, <3>6, HandlerStep
  <2>6. CASE mine[u] # None
    <3>1. UNCHANGED <<commits, mine>>
      BY <1>2, <2>6 DEF PutCommit
    <3>2. StoreOK'
      BY <1>2, <2>2, <3>1 DEF PutCommit, LogInv, StoreOK, Ids
    <3>3. /\ pc'[u] \in LabelsOf(u) /\ Submitted(u)
      BY <2>3, <2>4, <2>6 DEF LabelsOf, Submitted
    <3>4. HandlerOK(u)'
      BY <1>0, <2>3, <3>1, <3>3, SameRequest DEF HandlerOK
    <3> QED BY <2>1, <3>1, <3>2, <3>4, Unmoved, HandlerStep
  <2> QED BY <2>5, <2>6
<1>3. CASE MergeCommit(u)
  <2> DEFINE root == Merge(Root(base[u]), Root(rhead[u]), Root(mine[u]))
  <2>1. OnlyMoves(u)
    BY <1>3 DEF MergeCommit, Goto, LogInv, OnlyMoves, LocalsAreFunctions, IsLocal, collector
  <2>2. /\ pc[u] = "merge" /\ pc'[u] = "update" /\ base'[u] = base[u] /\ rhead'[u] = rhead[u]
        /\ mine'[u] = mine[u] /\ cand'[u] = NextId /\ seen'[u] = seen[u]
        /\ retries'[u] = retries[u] /\ attempts'[u] = attempts[u]
    BY <1>3 DEF MergeCommit, Goto, LogInv, LocalsAreFunctions, IsLocal
  <2>3. MineOK(u) /\ rhead[u] \in Ids
    BY <1>0, <2>2 DEF HandlerOK, Submitted
  <2>4. root \in SUBSET Entries
    BY <2>3, RootsAreTrees DEF Merge, MineOK
  <2>5. /\ fs' = fs \cup {root}
        /\ commits' = Append(commits, NewCommit(u, rhead[u], mine[u], root))
        /\ UNCHANGED <<head, blocks, gcid, lastgc, faults>>
    BY <1>3 DEF MergeCommit
  <2>6. lastgc' \in [Syncs -> Nat \cup {NoCheck}]
    BY <2>5 DEF LogInv, StoreOK
  <2>7. /\ LogExtends /\ StoreOK' /\ LogOK' /\ Ids \subseteq Ids' /\ NextId \in Ids'
        /\ commits'[NextId] = NewCommit(u, rhead[u], mine[u], root)
        /\ \A c \in Ids : commits'[c].anc = commits[c].anc
    BY <2>3, <2>4, <2>5, <2>6, Saved DEF MineOK
  <2>8. mine[u] # None /\ mine[u] \in History(mine[u])
    BY <2>3 DEF MineOK, Ids, None, LogInv, LogOK
  <2>9. MineOK(u)' /\ CandOK(u)'
    BY <1>0, <2>2, <2>3, <2>7, <2>8 DEF MineOK, CandOK, HandlerOK, NewCommit, History
  <2>10. HandlerOK(u)'
    BY <1>0, <2>2, <2>3, <2>7, <2>9 DEF HandlerOK, LabelsOf, MineOK, CandOK
  <2> QED BY <2>1, <2>7, <2>10, HandlerStep
<1> QED BY <1>1, <1>2, <1>3

(* The collector touches the stores, the GCID row and its own variables.   *)
Collecting ==
  CollectorStep \/ GCStart \/ GCFalsePositive \/ GCGiveUp \/ GCAbort

LEMMA CollectorSteps ==
  ASSUME LogInv, Collecting
  PROVE  LogInv'
<1>1. UNCHANGED <<commits, head, lastgc, local>>
  BY DEF Collecting, CollectorStep, GCList, GCPopulate, GCLock, GCRecheck, GCDeleteBlock,
         GCDeleteFs, GCCommit, GCNothing, GCStart, GCFalsePositive, GCGiveUp, GCAbort, GCEnd,
         store, local
<1>2. LogOK' /\ LocalsAreFunctions' /\ \A u \in Updaters : HandlerOK(u)'
  BY <1>1 DEF LogInv, LogOK, LocalsAreFunctions, IsLocal, HandlerOK, LabelsOf, Submitted,
              MineOK, CandOK, Ids, History, local
<1>3. StoreOK' /\ CollectorOK'
  <2> USE <1>1 DEF LogInv, StoreOK, CollectorOK, Ids, None
  <2>1. CASE GCList
    BY <2>1 DEF GCList, store
  <2>2. CASE GCPopulate
    BY <2>2, KeptIsTyped DEF GCPopulate, store
  <2>3. CASE GCLock
    BY <2>3 DEF GCLock, store
  <2>4. CASE GCRecheck
    BY <2>4, KeptIsTyped DEF GCRecheck, store
  <2>5. CASE GCDeleteBlock
    BY <2>5 DEF GCDeleteBlock
  <2>6. CASE GCDeleteFs
    BY <2>6 DEF GCDeleteFs
  <2>7. CASE GCCommit
    BY <2>7 DEF GCCommit, GCEnd
  <2>8. CASE GCNothing
    BY <2>8 DEF GCNothing, GCEnd
  <2>9. CASE GCStart
    BY <2>9 DEF GCStart, store
  <2>10. CASE GCFalsePositive
    BY <2>10 DEF GCFalsePositive, store
  <2>11. CASE GCGiveUp
    BY <2>11 DEF GCGiveUp, GCEnd
  <2>12. CASE GCAbort
    BY <2>12 DEF GCAbort, GCEnd, Fail
  <2> QED BY <2>1, <2>2, <2>3, <2>4, <2>5, <2>6, <2>7, <2>8, <2>9, <2>10, <2>11, <2>12
          DEF Collecting, CollectorStep
<1> QED BY <1>2, <1>3 DEF LogInv

(* Handlers, failures and the collector keep the log and its users in shape. *)
THEOREM LogInvStep == LogInv /\ [Next]_vars => LogInv'
<1> SUFFICES ASSUME LogInv, [Next]_vars PROVE LogInv'
  OBVIOUS
<1>1. ASSUME NEW u \in Updaters, Handler(u) \/ Failure(u) PROVE LogInv'
  BY <1>1, QuietSteps, SavingSteps DEF Handler, Quiet
<1>2. CASE Collecting
  BY <1>2, CollectorSteps
<1>3. CASE UNCHANGED vars
  BY <1>3 DEF vars, store, local, collector, LogInv, StoreOK, LogOK, CollectorOK,
              LocalsAreFunctions, IsLocal, HandlerOK, LabelsOf, Submitted, MineOK, CandOK, Ids,
              History
<1> QED BY <1>1, <1>2, <1>3 DEF Next, Collecting, AllAnswered

(* Commits, head and handlers fit together in every state: what a handler  *)
(* works on is a saved commit that descends from the one it began with.    *)
THEOREM LogInvAlways == Spec => []LogInv
BY LogInvInit, LogInvStep, PTL DEF Spec

(* Every state of every behaviour is of the types TypeOK states.           *)
THEOREM TypeCorrect == Spec => []TypeOK
BY LogInvAlways, LogInvImpliesTypeOK, PTL
=============================================================================
