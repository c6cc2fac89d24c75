----------------------------- MODULE HeadUpdate -----------------------------
(***************************************************************************)
(* How the head of one library moves: the Go file server (web uploads and  *)
(* desktop syncs) and the C server (RPC deletes and reverts) race on the   *)
(* Branch row of the library, merge when they lose, and race with the      *)
(* online garbage collector through the GCID row.                          *)
(*                                                                         *)
(* Data is abstracted to what the protocol tells apart.  A tree is the set *)
(* of its entries; an entry <<u, n>> is the file that updater u brought in *)
(* its n-th attempt, and it is made of the block BlockOf[u].  The id of a  *)
(* directory object is the hash of its content, so the tree itself stands  *)
(* for the id of its root object and `fs' is the set of stored roots.  A   *)
(* commit is named by its position in the log of saved commits.            *)
(***************************************************************************)
EXTENDS Integers, Sequences, FiniteSets, EntryMerge

CONSTANTS
  Uploads,      \* web uploads that never overwrite (postMultiFiles, replace = false)
  Replaces,     \* web uploads that overwrite a file (putFile)
  Syncs,        \* desktop clients, each pushing one local commit
  Deletes,      \* RPC deletions (seaf_repo_manager_del_file)
  Reverts,      \* RPC restorations from history (seaf_repo_manager_revert_file)
  Origin,       \* the author of the files the library starts with
  InitialFiles, \* how many files that is
  BlockOf,      \* the block each author's file is made of
  KeepHistory,  \* GC keeps the blocks of all history (truncate_time < 0), or of the head only (= 0)
  RmFS,         \* GC runs with --rm-fs: it also removes directory objects
  Faults,       \* the failures that may happen, a subset of FaultKinds
  MaxFaults,    \* bound: failures in one behaviour
  MaxGC,        \* bound: GC runs in one behaviour
  MaxAttempts,  \* bound: commits one web request makes, starting over each time
  MaxSends,     \* bound: times one client sends its commit
  MaxRetry,     \* maxRetryCnt of genNewCommit (10 in the code)
  MaxSyncRetry  \* retries of fastForwardOrMerge (3 in the code)

Updaters == Uploads \cup Replaces \cup Syncs \cup Deletes \cup Reverts
Authors == Updaters \cup {Origin}
Blocks == {BlockOf[a] : a \in Authors}

(* dberror: the Branch transaction fails and is rolled back.               *)
(* lostcommit: COMMIT itself fails and the caller does not look.           *)
(* lateerror: the Branch row moved, then refreshing RepoInfo failed.       *)
(* lostanswer: a client is not told that its commit became the head.       *)
(* gcabort: the collector dies, or its transaction is rolled back, after   *)
(*          it has begun to delete.                                        *)
FaultKinds == {"dberror", "lostcommit", "lateerror", "lostanswer", "gcabort"}

ASSUME KindsAssumption ==
  /\ Uploads \cap Replaces = {} /\ Uploads \cap Syncs = {} /\ Uploads \cap Deletes = {}
  /\ Uploads \cap Reverts = {}  /\ Replaces \cap Syncs = {} /\ Replaces \cap Deletes = {}
  /\ Replaces \cap Reverts = {} /\ Syncs \cap Deletes = {} /\ Syncs \cap Reverts = {}
  /\ Deletes \cap Reverts = {}  /\ Origin \notin Updaters
ASSUME BoundsAssumption ==
  /\ InitialFiles \in Nat /\ MaxFaults \in Nat /\ MaxGC \in Nat /\ MaxAttempts \in Nat /\ MaxSends \in Nat
  /\ MaxRetry \in Nat /\ MaxSyncRetry \in Nat
  /\ KeepHistory \in BOOLEAN /\ RmFS \in BOOLEAN /\ Faults \subseteq FaultKinds

None == 0        \* no commit
NoCheck == -1    \* no LastGCID record: the update is made without a GC check

Entries == Authors \X Nat
EmptyDir == {}   \* EmptySha1: taken to exist without being stored
InitialTree == {Origin} \X (1 .. InitialFiles)
BlocksIn(tree) == {BlockOf[e[1]] : e \in tree}

VARIABLES
  commits,  \* the commits saved in the object store, in order
  head,     \* Branch.commit_id of "master"
  blocks,   \* the block store
  fs,       \* the root objects in the fs store
  gcid,     \* GCID.gc_id, 0 for no row
  lastgc,   \* LastGCID.gc_id of each client, NoCheck for no row
  \* the handlers, one per updater
  pc, base, rhead, mine, cand, seen, retries, attempts,
  \* the collector
  gcpc, gchead, existing, existingFs, live, liveFs, gcruns,
  faults    \* failures so far

store == <<commits, head, blocks, fs, gcid, lastgc>>
local == <<pc, base, rhead, mine, cand, seen, retries, attempts>>
collector == <<gcpc, gchead, existing, existingFs, live, liveFs, gcruns>>
vars == <<store, local, collector, faults>>

Root(c) == commits[c].root
History(c) == commits[c].anc    \* c and everything it descends from
Tree == Root(head)

SkippingId == Len(commits) + 2                    \* mutant
ForgetSecondParent(u, parent, second, root) ==    \* mutant: SecondParentID is not set
  [by |-> u, parent |-> parent, second |-> second, root |-> root,
   anc |-> {Len(commits) + 1} \cup History(parent)]

(* What a new commit holds.  `anc' is history: the commits it descends     *)
(* from, through either parent.                                            *)
NextId == Len(commits) + 1
NewCommit(u, parent, second, root) ==
  [by |-> u, parent |-> parent, second |-> second, root |-> root,
   anc |-> {NextId} \cup History(parent)
             \cup (IF second = None THEN {} ELSE History(second))]

(* The trees that an updater's request makes of the tree it is based on.   *)
Results(u, tree) ==
  LET own == <<u, attempts[u] + 1>>
      old == UNION {Root(c) : c \in History(base[u])}
      upTo1 == {{}} \cup {{e} : e \in tree}
  IN  CASE u \in Uploads  -> {tree \cup {own}}
        [] u \in Replaces -> {(tree \ {e}) \cup {own} : e \in tree}
        [] u \in Syncs    -> {(tree \ del) \cup {own} : del \in upTo1}
        [] u \in Deletes  -> {tree \ {e} : e \in tree}
        [] u \in Reverts  -> {(tree \ p[1]) \cup {p[2]} : p \in upTo1 \X (old \ tree)}

Terminal == {"done", "skipped", "failed", "conflict"}
Labels == {"load", "gcid", "index", "build", "commit", "fs", "head", "takegc", "merge",
           "update", "reload"} \cup Terminal
-----------------------------------------------------------------------------
Init ==
  /\ commits = <<[by |-> Origin, parent |-> None, second |-> None,
                  root |-> InitialTree, anc |-> {1}]>>
  /\ head = 1
  /\ blocks \in {b \in SUBSET Blocks : BlocksIn(InitialTree) \subseteq b}
  /\ fs = {InitialTree, EmptyDir}
  /\ gcid = 0
  /\ lastgc = [u \in Syncs |-> NoCheck]
  /\ pc = [u \in Updaters |-> IF u \in Uploads THEN "gcid" ELSE "load"]
  /\ base = [u \in Updaters |-> 1]
  /\ rhead = [u \in Updaters |-> 1]
  /\ mine = [u \in Updaters |-> None]
  /\ cand = [u \in Updaters |-> None]
  /\ seen = [u \in Updaters |-> NoCheck]
  /\ retries = [u \in Updaters |-> 0]
  /\ attempts = [u \in Updaters |-> 0]
  /\ gcpc = "idle" /\ gchead = None /\ gcruns = 0
  /\ existing = {} /\ existingFs = {} /\ live = {} /\ liveFs = {}
  /\ faults = 0

Goto(u, label) == pc' = [pc EXCEPT ![u] = label]
Fail(kind) == /\ kind \in Faults /\ faults < MaxFaults
              /\ faults' = faults + 1

(* repomgr.Get and commitmgr.Load of the head.  putFile may be told the    *)
(* commit to base the new version on (the "head" form field): it takes any *)
(* that is saved, and callers know those that were the head.               *)
Load(u) ==
  /\ pc[u] = "load"
  /\ \E b \in IF u \in Replaces THEN History(head) ELSE {head} :
       base' = [base EXCEPT ![u] = b]
  /\ rhead' = [rhead EXCEPT ![u] = head]
  /\ Goto(u, IF u \in Replaces THEN "gcid" ELSE IF u \in Syncs THEN "commit" ELSE "build")
  /\ UNCHANGED <<store, mine, cand, seen, retries, attempts, collector, faults>>

(* GetCurrentGCID: a plain read, it sees the last committed value.         *)
ReadGCID(u) ==
  /\ pc[u] = "gcid"
  /\ seen' = [seen EXCEPT ![u] = gcid]
  /\ Goto(u, "index")
  /\ UNCHANGED <<store, base, rhead, mine, cand, retries, attempts, collector, faults>>

(* indexBlocks, or check-blocks and the PUTs of the blocks found missing.  *)
WriteBlocks(u) ==
  /\ pc[u] = "index"
  /\ blocks' = blocks \cup {BlockOf[u]}
  /\ Goto(u, IF u \in Syncs THEN "head" ELSE IF u \in Uploads THEN "load" ELSE "build")
  /\ UNCHANGED <<commits, head, fs, gcid, lastgc, base, rhead, mine, cand, seen, retries,
                 attempts, collector, faults>>

(* Apply the request to the base tree, save the new root and the commit.   *)
(* The C server loads the library again when it has saved the root, so that *)
(* it may have to merge at its first try.                                  *)
Build(u) ==
  /\ pc[u] = "build"
  /\ attempts[u] < MaxAttempts
  /\ Root(base[u]) \in fs
  /\ \E root \in Results(u, Root(base[u])) :
       /\ fs' = fs \cup {root}
       /\ commits' = Append(commits, NewCommit(u, base[u], None, root))
  /\ mine' = [mine EXCEPT ![u] = NextId]
  /\ rhead' = IF u \in Deletes \cup Reverts THEN [rhead EXCEPT ![u] = head] ELSE rhead
  /\ attempts' = [attempts EXCEPT ![u] = @ + 1]
  /\ retries' = [retries EXCEPT ![u] = 0]
  /\ Goto(u, "merge")
  /\ UNCHANGED <<head, blocks, gcid, lastgc, base, cand, seen, collector, faults>>

(* The request finds nothing to do: the file to delete is gone, the file   *)
(* to restore is there.  putFile answers "File does not exist": it looks   *)
(* before it indexes, in the tree of the same base.  (The content of a     *)
(* putFile is new here: for the same content as before it builds nothing   *)
(* and answers with success.)                                              *)
NothingToDo(u) ==
  /\ pc[u] = "build"
  /\ Root(base[u]) \in fs
  /\ Results(u, Root(base[u])) = {}
  /\ Goto(u, IF u \in Replaces THEN "failed" ELSE "skipped")
  /\ UNCHANGED <<store, base, rhead, mine, cand, seen, retries, attempts, collector, faults>>

(* putCommitCB: save the client's commit, then note the GC id under its    *)
(* token.  A client that starts over sends the same commit again.          *)
PutCommit(u) ==
  /\ pc[u] = "commit"
  /\ attempts[u] < MaxSends
  /\ IF mine[u] = None
     THEN \E root \in Results(u, Root(base[u])) :
            /\ commits' = Append(commits, NewCommit(u, base[u], None, root))
            /\ mine' = [mine EXCEPT ![u] = NextId]
     ELSE UNCHANGED <<commits, mine>>
  /\ attempts' = [attempts EXCEPT ![u] = @ + 1]
  /\ lastgc' = [lastgc EXCEPT ![u] = gcid]
  /\ Goto(u, "fs")
  /\ UNCHANGED <<head, blocks, fs, gcid, base, rhead, cand, seen, retries, collector, faults>>

(* check-fs and recv-fs.                                                   *)
SendFs(u) ==
  /\ pc[u] = "fs"
  /\ fs' = fs \cup {Root(mine[u])}
  /\ Goto(u, "index")
  /\ UNCHANGED <<commits, head, blocks, gcid, lastgc, base, rhead, mine, cand, seen, retries,
                 attempts, collector, faults>>

(* putUpdateBranchCB up to fastForwardOrMerge: load the library, verify    *)
(* that the blocks of what the commit adds are there, unless the server is *)
(* configured not to (option.VerifyClientBlocks).                          *)
PutHead(u) ==
  /\ pc[u] = "head"
  /\ rhead' = [rhead EXCEPT ![u] = head]
  /\ \/ Goto(u, "takegc")
     \/ /\ ~ BlocksIn(Root(mine[u]) \ Root(base[u])) \subseteq blocks
        /\ Goto(u, "failed")
  /\ UNCHANGED <<store, base, mine, cand, seen, retries, attempts, collector, faults>>

(* The start of fastForwardOrMerge: the LastGCID row is read and deleted.  *)
TakeLastGCID(u) ==
  /\ pc[u] = "takegc"
  /\ seen' = [seen EXCEPT ![u] = lastgc[u]]
  /\ lastgc' = [lastgc EXCEPT ![u] = NoCheck]
  /\ retries' = [retries EXCEPT ![u] = 0]
  /\ Goto(u, "merge")
  /\ UNCHANGED <<commits, head, blocks, fs, gcid, base, rhead, mine, cand, attempts,
                 collector, faults>>

(* The first half of genCommitNeedRetry: take the commit as it is when the *)
(* head this handler knows is its base, otherwise merge and save the       *)
(* merge.  A web upload that may not overwrite knows no other head than    *)
(* its base: it starts over instead of reloading.                          *)
FastForward(u) ==
  /\ pc[u] = "merge"
  /\ base[u] = rhead[u]
  /\ cand' = [cand EXCEPT ![u] = mine[u]]
  /\ Goto(u, "update")
  /\ UNCHANGED <<store, base, rhead, mine, seen, retries, attempts, collector, faults>>

MergeCommit(u) ==
  LET root == Merge(Root(base[u]), Root(rhead[u]), Root(mine[u]))
  IN  /\ pc[u] = "merge"
      /\ base[u] # rhead[u]
      /\ u \notin Uploads
      /\ {Root(base[u]), Root(rhead[u]), Root(mine[u])} \subseteq fs
      /\ fs' = fs \cup {root}
      /\ commits' = Append(commits, NewCommit(u, rhead[u], mine[u], root))
      /\ cand' = [cand EXCEPT ![u] = NextId]
      /\ Goto(u, "update")
      /\ UNCHANGED <<head, blocks, gcid, lastgc, base, rhead, mine, seen, retries, attempts,
                     collector, faults>>

(* A tree that has to be read is no longer in the fs store.                *)
ReadFails(u) ==
  /\ \/ pc[u] = "build" /\ Root(base[u]) \notin fs
     \/ /\ pc[u] = "merge" /\ base[u] # rhead[u] /\ u \notin Uploads
        /\ ~ {Root(base[u]), Root(rhead[u]), Root(mine[u])} \subseteq fs
  /\ Goto(u, "failed")
  /\ UNCHANGED <<store, base, rhead, mine, cand, seen, retries, attempts, collector, faults>>

(* What the callers of updateBranch do with an error that is not a GC      *)
(* conflict.  postFilesAndGenCommit starts over from the new head,         *)
(* genNewCommit reloads the library and merges again, fastForwardOrMerge   *)
(* merges again with the head it loaded at first.                          *)
RetryReloading(u) ==                              \* mutant: a sync reloads, as the C server does
  /\ Goto(u, IF u \in Uploads THEN "load" ELSE "reload")
  /\ retries' = [retries EXCEPT ![u] = @ + 1]
Retry(u) ==
  IF u \in Uploads
  THEN Goto(u, "load") /\ UNCHANGED retries
  ELSE IF retries[u] < (IF u \in Syncs THEN MaxSyncRetry ELSE MaxRetry)
       THEN /\ Goto(u, IF u \in Syncs THEN "merge" ELSE "reload")
            /\ retries' = [retries EXCEPT ![u] = @ + 1]
       ELSE Goto(u, "failed") /\ UNCHANGED retries

ReloadNothing(u) ==                               \* mutant: the old head is kept
  pc[u] = "reload" /\ Goto(u, "merge")
  /\ UNCHANGED <<store, base, rhead, mine, cand, seen, retries, attempts, collector, faults>>
Reload(u) ==
  /\ pc[u] = "reload"
  /\ rhead' = [rhead EXCEPT ![u] = head]
  /\ Goto(u, "merge")
  /\ UNCHANGED <<store, base, mine, cand, seen, retries, attempts, collector, faults>>

(* updateBranch is one transaction.  SELECT ... FOR UPDATE on the GCID row *)
(* waits while the collector's transaction holds it, and the row cannot    *)
(* change before this transaction ends.                                    *)
NoRowLock == FALSE                                \* mutant: no FOR UPDATE
GCHoldsRow == gcpc \in {"recheck", "delete"}
Checks(u) == seen[u] # NoCheck
MayCompare(u) == pc[u] = "update" /\ (Checks(u) => ~ GCHoldsRow)
NeverConflict(u) == FALSE                         \* mutant: gc ids are not compared
GCConflict(u) == Checks(u) /\ seen[u] # gcid
AnyHead(u) == TRUE                                \* mutant: no compare-and-set
HeadIsKnown(u) == head = rhead[u]

UpdateUnnoticed(u) ==                             \* mutant: success reported as a conflict
  /\ MayCompare(u) /\ ~ GCConflict(u) /\ HeadIsKnown(u)
  /\ head' = cand[u]
  /\ Retry(u)
  /\ UNCHANGED <<commits, blocks, fs, gcid, lastgc, base, rhead, mine, cand, seen,
                 attempts, collector, faults>>
UpdateBranch(u) ==
  /\ MayCompare(u)
  /\ ~ GCConflict(u)
  /\ HeadIsKnown(u)
  /\ head' = cand[u]
  /\ Goto(u, "done")
  /\ UNCHANGED <<commits, blocks, fs, gcid, lastgc, base, rhead, mine, cand, seen, retries,
                 attempts, collector, faults>>

RetryGCConflict(u) ==                             \* mutant: try again with the same gc id
  MayCompare(u) /\ GCConflict(u) /\ Goto(u, "merge")
  /\ UNCHANGED <<store, base, rhead, mine, cand, seen, retries, attempts, collector, faults>>
AnswerGCConflict(u) ==
  /\ MayCompare(u)
  /\ GCConflict(u)
  /\ Goto(u, "conflict")
  /\ UNCHANGED <<store, base, rhead, mine, cand, seen, retries, attempts, collector, faults>>

HeadHasChanged(u) ==
  /\ MayCompare(u)
  /\ ~ GCConflict(u)
  /\ ~ HeadIsKnown(u)
  /\ Retry(u)
  /\ UNCHANGED <<store, base, rhead, mine, cand, seen, attempts, collector, faults>>

(* The transaction fails, for instance by waiting too long for the row.    *)
DBError(u) ==
  /\ pc[u] = "update"
  /\ Fail("dberror")
  /\ Retry(u)
  /\ UNCHANGED <<store, base, rhead, mine, cand, seen, attempts, collector>>

(* trans.Commit() fails and its result is not looked at (Go only).         *)
LostCommit(u) ==
  /\ u \in Uploads \cup Replaces \cup Syncs
  /\ MayCompare(u)
  /\ ~ GCConflict(u)
  /\ HeadIsKnown(u)
  /\ Fail("lostcommit")
  /\ Goto(u, "done")
  /\ UNCHANGED <<store, base, rhead, mine, cand, seen, retries, attempts, collector>>

(* The Branch row has moved, then onBranchUpdated fails (Go only).         *)
LateError(u) ==
  /\ u \in Uploads \cup Replaces \cup Syncs
  /\ MayCompare(u)
  /\ ~ GCConflict(u)
  /\ HeadIsKnown(u)
  /\ Fail("lateerror")
  /\ head' = cand[u]
  /\ Retry(u)
  /\ UNCHANGED <<commits, blocks, fs, gcid, lastgc, base, rhead, mine, cand, seen, attempts,
                 collector>>

(* A desktop client whose upload was refused sends it again: its local     *)
(* branch still differs from what it knows of the server's.                *)
SyncAgain(u) ==
  /\ u \in Syncs
  /\ pc[u] \in {"failed", "conflict"}
  /\ attempts[u] < MaxSends
  /\ Goto(u, "commit")
  /\ UNCHANGED <<store, base, rhead, mine, cand, seen, retries, attempts, collector, faults>>

(* A desktop client is cut off, or restarts, in the middle of an upload.   *)
SyncCutOff(u) ==
  /\ u \in Syncs
  /\ pc[u] \in {"fs", "index", "head"}
  /\ attempts[u] < MaxSends
  /\ Goto(u, "commit")
  /\ UNCHANGED <<store, base, rhead, mine, cand, seen, retries, attempts, collector, faults>>

(* The head was put and the answer is lost: the client takes the upload for *)
(* one that failed, and sends everything again.                            *)
AnswerLost(u) ==
  /\ u \in Syncs
  /\ pc[u] = "done"
  /\ attempts[u] < MaxSends
  /\ Fail("lostanswer")
  /\ Goto(u, "commit")
  /\ UNCHANGED <<store, base, rhead, mine, cand, seen, retries, attempts, collector>>
-----------------------------------------------------------------------------
(* The collector, one run of gc_v1_repo with online = TRUE.                *)
Kept(c) == IF KeepHistory THEN History(c) ELSE {c}
NoBlocksKept(c) == {}                             \* mutant: new commits are not traversed
NoRootsKept(c) == {EmptyDir}                      \* mutant: directory objects are not indexed
BlocksKept(c) == UNION {BlocksIn(Root(k)) : k \in Kept(c)}
RootsKept(c) == {Root(k) : k \in Kept(c)}

GCStart ==          \* the library is loaded, with the head of this moment
  /\ gcpc = "idle" /\ gcruns < MaxGC
  /\ gcruns' = gcruns + 1
  /\ gchead' = head
  /\ gcpc' = "list"
  /\ UNCHANGED <<store, local, existing, existingFs, live, liveFs, faults>>

GCList ==           \* collect_exist_blocks, collect_exist_fs
  /\ gcpc = "list"
  /\ blocks # {}
  /\ existing' = blocks
  /\ existingFs' = IF RmFS THEN fs \ {EmptyDir} ELSE {}
  /\ gcpc' = "populate"
  /\ UNCHANGED <<store, local, gchead, live, liveFs, gcruns, faults>>

GCPopulate ==       \* populate_gc_index_for_repo
  /\ gcpc = "populate"
  /\ RootsKept(gchead) \subseteq fs
  /\ live' = BlocksKept(gchead)
  /\ liveFs' = RootsKept(gchead)
  /\ gcpc' = "lock"
  /\ UNCHANGED <<store, local, gchead, existing, existingFs, gcruns, faults>>

GCLock ==           \* begin a transaction and update_gc_id: takes the row
  /\ gcpc = "lock"
  /\ gcpc' = "recheck"
  /\ UNCHANGED <<store, local, gchead, existing, existingFs, live, liveFs, gcruns, faults>>

GCRecheck ==        \* populate_gc_index_for_repo_for_new_commits
  /\ gcpc = "recheck"
  /\ RootsKept(head) \subseteq fs
  /\ live' = IF head = gchead THEN live ELSE live \cup BlocksKept(head)
  /\ liveFs' = IF head = gchead THEN liveFs ELSE liveFs \cup RootsKept(head)
  /\ gcpc' = "delete"
  /\ UNCHANGED <<store, local, gchead, existing, existingFs, gcruns, faults>>

GCDeleteBlock ==    \* check_block_liveness, a thread of the pool
  /\ gcpc = "delete"
  /\ \E b \in existing \ live :
       /\ blocks' = blocks \ {b}
       /\ existing' = existing \ {b}
  /\ UNCHANGED <<commits, head, fs, gcid, lastgc, local, gcpc, gchead, existingFs, live,
                 liveFs, gcruns, faults>>

GCDeleteFs ==       \* check_fs_liveness, after all the blocks
  /\ gcpc = "delete"
  /\ existing \subseteq live
  /\ \E r \in existingFs \ liveFs :
       /\ fs' = fs \ {r}
       /\ existingFs' = existingFs \ {r}
  /\ UNCHANGED <<commits, head, blocks, gcid, lastgc, local, gcpc, gchead, existing, live,
                 liveFs, gcruns, faults>>

GCFalsePositive ==  \* the Bloom filter takes a dead block for a live one
  /\ gcpc = "delete"
  /\ \E b \in existing \ live : existing' = existing \ {b}
  /\ UNCHANGED <<store, local, gcpc, gchead, existingFs, live, liveFs, gcruns, faults>>

GCEnd ==            \* the run is over, whatever came of it
  /\ gcpc' = "idle"
  /\ gchead' = None
  /\ existing' = {} /\ existingFs' = {} /\ live' = {} /\ liveFs' = {}
  /\ UNCHANGED <<commits, head, blocks, fs, lastgc, local, gcruns>>

GCCommit ==         \* the new gc id becomes visible, the row is released
  /\ gcpc = "delete"
  /\ existing \subseteq live /\ existingFs \subseteq liveFs
  /\ gcid' = gcid + 1
  /\ GCEnd
  /\ UNCHANGED faults

GCNothing ==        \* no block to collect, or a tree to keep cannot be read
  /\ \/ gcpc = "list" /\ blocks = {}
     \/ gcpc = "populate" /\ ~ RootsKept(gchead) \subseteq fs
     \/ gcpc = "recheck" /\ ~ RootsKept(head) \subseteq fs
  /\ GCEnd
  /\ UNCHANGED <<gcid, faults>>

GCGiveUp ==         \* an error before the first deletion: roll back
  /\ gcpc \in {"list", "populate", "lock", "recheck"}
  /\ GCEnd
  /\ UNCHANGED <<gcid, faults>>

GCAbort ==          \* an error or a crash among the deletions: roll back
  /\ gcpc = "delete"
  /\ Fail("gcabort")
  /\ GCEnd
  /\ UNCHANGED gcid
-----------------------------------------------------------------------------
Handler(u) ==
  \/ Load(u) \/ ReadGCID(u) \/ WriteBlocks(u) \/ Build(u) \/ NothingToDo(u)
  \/ PutCommit(u) \/ SendFs(u) \/ PutHead(u) \/ TakeLastGCID(u)
  \/ FastForward(u) \/ MergeCommit(u) \/ ReadFails(u) \/ Reload(u)
  \/ UpdateBranch(u) \/ AnswerGCConflict(u) \/ HeadHasChanged(u) \/ SyncAgain(u)

Failure(u) ==
  DBError(u) \/ LostCommit(u) \/ LateError(u) \/ SyncCutOff(u) \/ AnswerLost(u)

CollectorStep ==
  \/ GCList \/ GCPopulate \/ GCLock \/ GCRecheck \/ GCDeleteBlock \/ GCDeleteFs
  \/ GCCommit \/ GCNothing

AllAnswered ==      \* the behaviour has run its course
  /\ \A u \in Updaters : pc[u] \in Terminal
  /\ gcpc = "idle"
  /\ UNCHANGED vars

Next ==
  \/ \E u \in Updaters : Handler(u) \/ Failure(u)
  \/ CollectorStep \/ GCStart \/ GCFalsePositive \/ GCGiveUp \/ GCAbort
  \/ AllAnswered

Spec == Init /\ [][Next]_vars

(* A handler that was started runs on, the collector finishes its run.     *)
(* Nothing makes a run of the collector start, nor anything fail.          *)
FairSpec ==
  /\ Spec
  /\ \A u \in Updaters : WF_vars(Handler(u))
  /\ WF_vars(CollectorStep)
-----------------------------------------------------------------------------
Commit == [by : Authors, parent : Nat, second : Nat, root : SUBSET Entries, anc : SUBSET Nat]

TypeOK ==
  /\ commits \in Seq(Commit) /\ head \in 1 .. Len(commits)
  /\ blocks \subseteq Blocks /\ fs \subseteq SUBSET Entries
  /\ gcid \in Nat /\ lastgc \in [Syncs -> Nat \cup {NoCheck}]
  /\ pc \in [Updaters -> Labels]
  /\ base \in [Updaters -> 1 .. Len(commits)] /\ rhead \in [Updaters -> 1 .. Len(commits)]
  /\ mine \in [Updaters -> 0 .. Len(commits)] /\ cand \in [Updaters -> 0 .. Len(commits)]
  /\ seen \in [Updaters -> Nat \cup {NoCheck}]
  /\ retries \in [Updaters -> Nat] /\ attempts \in [Updaters -> Nat]
  /\ gcpc \in {"idle", "list", "populate", "lock", "recheck", "delete"}
  /\ gchead \in 0 .. Len(commits) /\ gcruns \in Nat /\ faults \in Nat
  /\ existing \subseteq Blocks /\ live \subseteq Blocks
  /\ existingFs \subseteq SUBSET Entries /\ liveFs \subseteq SUBSET Entries

(* No file of the library ever loses its content: every block that the     *)
(* head needs is in the block store, whatever the collector deleted while  *)
(* the update that brought it in was under way (gc-core.c, "Online GC").   *)
HeadBlocksPresent == BlocksIn(Tree) \subseteq blocks

(* The same for the directory objects, when the collector runs --rm-fs.    *)
HeadTreePresent == Tree \in fs

(* An update that was answered with success is part of the history of the  *)
(* head from then on, through all merges made since (updateBranch's        *)
(* compare-and-set, genCommitNeedRetry's merge).                           *)
AckedInHistory ==
  \A u \in Updaters : pc[u] = "done" => mine[u] \in History(head)

(* The commits that carry a request of u, of which the head descends.      *)
Applied(u) ==
  {c \in History(head) : commits[c].by = u /\ commits[c].second = None}

(* A request takes effect at most once however often it is retried, and    *)
(* not at all when it was refused (postFilesAndGenCommit starts over,      *)
(* genNewCommit retries).                                                  *)
AppliedAtMostOnce ==
  \A u \in Updaters :
    /\ Cardinality(Applied(u)) <= 1
    /\ pc[u] \in {"failed", "conflict", "skipped"} => Applied(u) = {}

(* A handler of genNewCommit that loses the compare-and-set always loses   *)
(* to another update that won: retries never outnumber the updates of      *)
(* others, so 10 retries only run out against 10 successful updates.       *)
LostRacesHaveWinners ==
  \A u \in Updaters \ Syncs :
    retries[u] <= Cardinality({v \in Updaters \ {u} : Applied(v) # {}})

(* fastForwardOrMerge does not reload the library between its retries, so  *)
(* a sync that lost the head once is refused after the last retry, and its *)
(* client has to send everything again.                                    *)
SyncNeverWinsByRetrying ==
  \A u \in Syncs : retries[u] > 0 => pc[u] # "done"

(* The head moves only to a descendant: no committed state is ever         *)
(* forgotten (updateBranch compares the head with the parent of the new    *)
(* one in the transaction that replaces it).                               *)
HeadOnlyAdvances == [][head' # head => History(head) \subseteq History(head)']_vars

(* The collector never deletes a block that the head needs at that moment: *)
(* "we won't delete blocks that are still alive" (gc-core.c).              *)
GCDeletesOnlyGarbage ==
  [][\A b \in blocks \ blocks' : b \notin BlocksIn(Tree)]_vars

(* Every request is answered, in spite of lost races and a collector that  *)
(* makes it wait.                                                          *)
EveryRequestAnswered == \A u \in Updaters : <>(pc[u] \in Terminal)

(* The library, seen through its head, is one atomic tree to which each    *)
(* request is applied once as a whole, against the tree of that moment.    *)
Request(c) ==
  [id |-> c, add |-> Root(c) \ Root(commits[c].parent), del |-> Root(commits[c].parent) \ Root(c)]
Requests == {c \in 2 .. Len(commits) : commits[c].second = None}
Library == INSTANCE AtomicLibrary WITH
  tree <- Tree,
  asked <- {Request(c) : c \in Requests},
  applied <- {Request(c) : c \in Requests \cap History(head)}
AtomicLibrarySpec == Library!Spec
=============================================================================
