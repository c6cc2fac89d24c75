----------------------------- MODULE SizeSched -----------------------------
(***************************************************************************)
(* How the size and the number of files of a library are kept: whoever     *)
(* moves the head leaves a task with the size scheduler of its server, and *)
(* a worker stores what it computes for the head it finds, in RepoSize and *)
(* RepoFileCount.  Both servers, fileserver/size_sched.go with its worker  *)
(* pool and server/size-sched.c, work this way on the same tables.         *)
(*                                                                         *)
(* A tree gives each name of a file a content; directories are left out,   *)
(* as the diff goes through them (foldDirDiff is false).  Heads follow one *)
(* another and are named by their position.                                *)
(***************************************************************************)
EXTENDS Integers, Sequences, FiniteSets

CONSTANTS
  Servers,     \* the processes that have a size scheduler
  Workers,     \* the threads of all schedulers
  ServerOf,    \* the process each worker runs in
  Names, Contents,
  SizeOf,      \* the size of a file of each content
  MaxHeads,    \* bound: heads the library has, one after the other
  MaxFailures  \* bound: failed tasks and restarts in one behaviour

ASSUME ConstantsAssumption ==
  /\ ServerOf \in [Workers -> Servers]
  /\ SizeOf \in [Contents -> Nat]
  /\ MaxHeads \in Nat /\ MaxFailures \in Nat

None == 0      \* no row in RepoSize
Trees == UNION {[S -> Contents] : S \in {T \in SUBSET Names : IsFiniteSet(T)}}

VARIABLES
  trees,     \* the trees of the heads so far
  stored,    \* RepoSize.head_id
  size,      \* RepoSize.size
  count,     \* RepoFileCount.file_count
  due,       \* handlers of each server that moved the head and will schedule a task
  queue,     \* tasks in each server's queue
  pc, found, oldHead, oldSize, oldCount, exists,   \* the workers
  failures

row == <<stored, size, count>>
local == <<found, oldHead, oldSize, oldCount, exists>>
vars == <<trees, row, due, queue, pc, local, failures>>

Current == Len(trees)
-----------------------------------------------------------------------------
(* The size of some of the files of a tree; GetFileCountInfoByPath.  The    *)
(* sum of the sizes of files is the number of their bytes.                 *)
Bytes(tree, names) == UNION {{n} \X (1 .. SizeOf[tree[n]]) : n \in names}
Sizes(tree, names) == Cardinality(Bytes(tree, names))
TotalSize(tree) == Sizes(tree, DOMAIN tree)
FileCount(tree) == Cardinality(DOMAIN tree)

(* diff.DiffCommits and diffResolveRenames: of the files of one content    *)
(* that were deleted and added, one of each makes a renamed file.          *)
Deleted(old, new) == DOMAIN old \ DOMAIN new
RenamedContents(old, new) ==
  {old[n] : n \in Deleted(old, new)} \cap {new[n] : n \in Deleted(new, old)}
Unrenamed(old, new) ==
  LET taken == {CHOOSE n \in Deleted(old, new) : old[n] = c : c \in RenamedContents(old, new)}
  IN  Deleted(old, new) \ taken

(* The change of size and of the number of files from one head to another. *)
ForgetRenames(old, new) ==       \* mutant: a renamed file is taken for a new one
  Sizes(new, Deleted(new, old)) - Sizes(old, Unrenamed(old, new))
    + Sizes(new, DOMAIN old \cap DOMAIN new) - Sizes(old, DOMAIN old \cap DOMAIN new)
ChangeSize(old, new) ==
  Sizes(new, Unrenamed(new, old)) - Sizes(old, Unrenamed(old, new))
    + Sizes(new, DOMAIN old \cap DOMAIN new) - Sizes(old, DOMAIN old \cap DOMAIN new)
ChangeFileCount(old, new) ==
  Cardinality(Unrenamed(new, old)) - Cardinality(Unrenamed(old, new))
-----------------------------------------------------------------------------
Init ==
  /\ trees \in {<<t>> : t \in Trees}
  /\ stored = None /\ size = 0 /\ count = 0
  /\ due = [s \in Servers |-> 0]
  /\ queue = [s \in Servers |-> 0]
  /\ pc = [w \in Workers |-> "idle"]
  /\ found = [w \in Workers |-> None]
  /\ oldHead = [w \in Workers |-> None]
  /\ oldSize = [w \in Workers |-> 0]
  /\ oldCount = [w \in Workers |-> 0]
  /\ exists = [w \in Workers |-> FALSE]
  /\ failures = 0

Goto(w, label) == pc' = [pc EXCEPT ![w] = label]
Computes(w) == pc[w] \in {"info", "select", "write"}

(* A handler moves the head; it will schedule a task at the end.           *)
NewHead(s) ==
  /\ Current < MaxHeads
  /\ \E t \in Trees : trees' = Append(trees, t)
  /\ due' = [due EXCEPT ![s] = @ + 1]
  /\ UNCHANGED <<row, queue, pc, local, failures>>

(* go updateSizePool.AddTask, schedule_repo_size_computation.              *)
SkipIfBusy(s) ==                   \* mutant: no task while one is running
  /\ due[s] > 0
  /\ due' = [due EXCEPT ![s] = @ - 1]
  /\ queue' = [queue EXCEPT ![s] = IF \E w \in Workers : pc[w] # "idle" THEN @ ELSE @ + 1]
  /\ UNCHANGED <<trees, row, pc, local, failures>>
Schedule(s) ==
  /\ due[s] > 0
  /\ due' = [due EXCEPT ![s] = @ - 1]
  /\ queue' = [queue EXCEPT ![s] = @ + 1]
  /\ UNCHANGED <<trees, row, pc, local, failures>>

(* A worker takes a task and loads the library with its head.              *)
AnyTime(w) == TRUE                 \* mutant: the queue is not looked at
HasTask(w) == queue[ServerOf[w]] > 0

TaskWithHead(w) ==                 \* mutant: the task carries the head it was scheduled for
  /\ pc[w] = "idle"
  /\ HasTask(w)
  /\ queue' = [queue EXCEPT ![ServerOf[w]] = @ - 1]
  /\ \E h \in 1 .. Current : found' = [found EXCEPT ![w] = h]
  /\ Goto(w, "info")
  /\ UNCHANGED <<trees, row, due, oldHead, oldSize, oldCount, exists, failures>>
TakeTask(w) ==
  /\ pc[w] = "idle"
  /\ HasTask(w)
  /\ queue' = [queue EXCEPT ![ServerOf[w]] = @ - 1]
  /\ found' = [found EXCEPT ![w] = Current]
  /\ Goto(w, "info")
  /\ UNCHANGED <<trees, row, due, oldHead, oldSize, oldCount, exists, failures>>

(* getOldRepoInfo: one SELECT.  Nothing to do if it is of this head.       *)
GetOldRepoInfo(w) ==
  /\ pc[w] = "info"
  /\ oldHead' = [oldHead EXCEPT ![w] = stored]
  /\ oldSize' = [oldSize EXCEPT ![w] = size]
  /\ oldCount' = [oldCount EXCEPT ![w] = count]
  /\ Goto(w, IF stored = found[w] THEN "idle" ELSE "select")
  /\ UNCHANGED <<trees, row, due, queue, found, exists, failures>>

(* The first statement of setRepoSizeAndFileCount's transaction: is there  *)
(* a row?  It is a plain read and locks nothing.                           *)
SelectHead(w) ==
  /\ pc[w] = "select"
  /\ exists' = [exists EXCEPT ![w] = stored # None]
  /\ Goto(w, "write")
  /\ UNCHANGED <<trees, row, due, queue, found, oldHead, oldSize, oldCount, failures>>

(* The rest of the transaction.  What is stored was computed before, from  *)
(* the head the worker found and the row it read.                          *)
AddToRow(w) ==                     \* mutant: the change is added to the row as it is now
  IF oldHead[w] = None THEN TotalSize(trees[found[w]])
  ELSE size + ChangeSize(trees[oldHead[w]], trees[found[w]])
NewSize(w) ==
  IF oldHead[w] = None THEN TotalSize(trees[found[w]])
  ELSE oldSize[w] + ChangeSize(trees[oldHead[w]], trees[found[w]])
NewCount(w) ==
  IF oldHead[w] = None THEN FileCount(trees[found[w]])
  ELSE oldCount[w] + ChangeFileCount(trees[oldHead[w]], trees[found[w]])

(* All files are counted, too, when the commit of the old head cannot be    *)
(* loaded, and by the C server when the row counts no files.               *)
SetRepoSizeAndFileCount(w) ==
  /\ pc[w] = "write"
  /\ exists[w] \/ stored = None
  /\ stored' = found[w]
  /\ \/ size' = NewSize(w) /\ count' = NewCount(w)
     \/ size' = TotalSize(trees[found[w]]) /\ count' = FileCount(trees[found[w]])
  /\ Goto(w, "idle")
  /\ UNCHANGED <<trees, due, queue, local, failures>>

(* Two workers that both found no row insert one: the second INSERT fails  *)
(* on the key, and its task is lost.                                       *)
InsertFails(w) ==
  /\ pc[w] = "write"
  /\ ~exists[w] /\ stored # None
  /\ Goto(w, "idle")
  /\ UNCHANGED <<trees, row, due, queue, local, failures>>

(* The database or the object store fails: the task is logged and dropped. *)
(* When it panics, the pool recovers, but the worker has ended.            *)
TaskFails(w) ==
  /\ Computes(w) /\ failures < MaxFailures
  /\ failures' = failures + 1
  /\ Goto(w, "idle") \/ Goto(w, "ended")
  /\ UNCHANGED <<trees, row, due, queue, local>>

(* A server restarts: its queue is in memory.                              *)
Restart(s) ==
  /\ failures < MaxFailures
  /\ failures' = failures + 1
  /\ due' = [due EXCEPT ![s] = 0]
  /\ queue' = [queue EXCEPT ![s] = 0]
  /\ pc' = [w \in Workers |-> IF ServerOf[w] = s THEN "idle" ELSE pc[w]]
  /\ UNCHANGED <<trees, row, local>>

Work(w) == \/ TakeTask(w) \/ GetOldRepoInfo(w) \/ SelectHead(w)
           \/ SetRepoSizeAndFileCount(w) \/ InsertFails(w)

Quiet == /\ \A s \in Servers : due[s] = 0 /\ queue[s] = 0
         /\ \A w \in Workers : ~Computes(w)

(* No worker is left for the tasks of a queue, until the server restarts.   *)
Deserted(s) == \A w \in Workers : ServerOf[w] = s => pc[w] = "ended"

Idle == /\ Current = MaxHeads
        /\ \A s \in Servers : due[s] = 0 /\ (queue[s] = 0 \/ Deserted(s))
        /\ \A w \in Workers : ~Computes(w)
        /\ UNCHANGED vars

Next == \/ \E s \in Servers : NewHead(s) \/ Schedule(s) \/ Restart(s)
        \/ \E w \in Workers : Work(w) \/ TaskFails(w)
        \/ Idle

Spec == Init /\ [][Next]_vars

(* A goroutine or a thread that was started runs on, a worker takes what   *)
(* is in its queue.  Nothing makes the head move.                          *)
FairSpec == /\ Spec
            /\ \A s \in Servers : WF_vars(Schedule(s))
            /\ \A w \in Workers : WF_vars(Work(w))
-----------------------------------------------------------------------------
TypeOK ==
  /\ trees \in Seq(Trees) /\ Current >= 1
  /\ stored \in 0 .. Current
  /\ due \in [Servers -> Nat] /\ queue \in [Servers -> Nat]
  /\ pc \in [Workers -> {"idle", "info", "select", "write", "ended"}]
  /\ found \in [Workers -> 0 .. Current]
  /\ oldHead \in [Workers -> 0 .. Current]
  /\ exists \in [Workers -> BOOLEAN]
  /\ failures \in Nat

(* The stored size and count are those of the stored head, though they are *)
(* updated by differences from rows that others may have replaced: a       *)
(* wrong size would never be corrected.                                    *)
SizeIsOfStoredHead ==
  stored # None => size = TotalSize(trees[stored]) /\ count = FileCount(trees[stored])

(* When nothing is left to be done and no task was lost to a failure, the  *)
(* stored size is that of the head.                                        *)
QuietMeansUpToDate == Quiet /\ failures = 0 /\ Current > 1 => stored = Current

(* The stored size never goes back to that of an older head.               *)
SizeOnlyAdvances == [][stored' >= stored]_vars

(* Every head that is not replaced gets its size, unless a task was lost   *)
(* to a failure: nobody looks for sizes that are missing.                  *)
SizeCatchesUp ==
  \A h \in 2 .. MaxHeads : Current = h ~> Current > h \/ stored = h \/ failures > 0
=============================================================================
