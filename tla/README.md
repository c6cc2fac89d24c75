# A TLA+ verification of the personal cloud server

The repository is a personal cloud: libraries of files, kept in a
content-addressed store with a git-like history, that are read and changed
through a web site, desktop and mobile clients and WebDAV.  What has to be right
above all is the path on which every change travels: a new commit becomes the
head of its library, in competition with every other writer and with the
garbage collector that runs beside them.  This directory models that path, the
merge of trees it relies on and the scheduler that keeps the sizes of its heads;
and at the other end, the two pages of the web site that keep copies of what the
server stores and must keep them true: the page of a library and the store of a
metadata view.  It model-checks them with TLC and proves their main properties
with TLAPS.

Paths below are relative to `src/Intelligent-cloud-core/` unless they begin with
`src/` or with `frontend/`, which stands for
`src/Intelligent-cloud-web-end/frontend/src/`.

## The system

| Component | State it keeps | Operations | Talks to |
|---|---|---|---|
| Go file server (`fileserver/`) | temporary uploads, token and permission caches | upload, overwrite, sync protocol, download, block check | object store, database, notification server |
| C server (`server/`) | RPC state, tokens, copy tasks | delete, rename, move, restore, library administration | object store, database |
| Collector (`server/gc/`) | Bloom filters of live blocks and directory objects, one database transaction | list, traverse, delete | object store, database |
| Database | `Branch` (head of each library), `GCID`, `LastGCID`, `RepoInfo`, `RepoSize`, `VirtualRepo` ... | transactions with row locks | all |
| Object store | commits, directory objects, blocks; named by hash | save, read, delete | all |
| Size scheduler (`fileserver/size_sched.go`) | queue of libraries | compute and store the size of a head | database |
| Virtual libraries (`fileserver/virtual_repo.go`) | queue, set of running merges | merge a shared folder with its origin | the head protocol |
| Notification server (`notification-server/`) | web-socket clients and their subscriptions | subscribe, notify, expire, probe | file server, clients |
| Desktop client (`src/Intelligent-cloud/daemon/`) | local branch, index, working tree, transfer tasks | commit, upload, download, merge | sync protocol |
| Library page (`frontend/pages/lib-content-view/`, `frontend/components/tree-view/`, `frontend/utils/websocket-service.js`) | list of a folder, tree, selection, address and history | clicks, operations on items, answers, notices | web site by HTTP, notification server |
| Metadata store (`frontend/metadata/store/`, `frontend/metadata/hooks/metadata-view.js`) | table, queue of operations, undo and redo stacks | operations on rows, columns and the view, undo, redo, reload | metadata server by HTTP |
| Rest of the web site, WebDAV, Android, controller, FUSE | their own | | RPC and HTTP |

Hard behaviours, in the order in which they matter:

1. Many writers, in two processes, move one head: compare-and-set on the `Branch`
   row, three-way merge for the loser, bounded retries.
2. The collector deletes blocks while uploads rely on them; the only
   coordination is the `GCID` row and the `LastGCID` record of each client.
3. Failures at every point: transactions that fail or half-fail, a collector that
   dies among its deletions, clients that are cut off and start again.
4. Merges of trees with conflicts; shared folders merged in both directions.
5. Queues and caches whose entries are stale when used (sizes, permissions).
6. A page whose requests run side by side and are answered in any order, into
   state that has changed since; notices that come, or do not, in between.
7. A browser that changes its table before the server does, undoes what is not
   saved yet, and loads the table anew while operations wait.

What makes each component correct:

* head protocol: no acknowledged update is lost, none is applied twice, the head
  never goes back, every request is answered;
* collector: no block or directory object that the head needs is ever missing;
* merge: what both sides agree on is kept, what one side changed is changed,
  nothing that a user wrote disappears;
* sizes: the stored size is at last the size of the head;
* notifications: only subscribed clients with valid tokens are told;
* library page: once nothing is on its way, list, tree and address show what the
  server stores; at any time the address is that of the folder shown, and the
  selection never outlives its folder; loading ends;
* metadata store: the server executes what the user did in that order and once;
  once the queue is empty, browser and server agree; undo leads back; saving ends.

## The modules

| Module | What it is |
|---|---|
| `HeadUpdate` | the head protocol: handlers, failures, collector |
| `AtomicLibrary` | what `HeadUpdate` promises: one tree, changed atomically, each request once |
| `EntryMerge` | the merge of two trees seen as sets: used by `HeadUpdate`, justified by `ThreeWayMerge` |
| `MCHeadUpdate` | constants for TLC |
| `HeadUpdate_proofs` | type correctness and the shape of the commit log |
| `HistoryProofs` | history of the head |
| `RefinementProofs` | `HeadUpdate` implements `AtomicLibrary` |
| `RacesProofs` | lost races: who wins, and who never does |
| `CollectorProofs` | safety of the collector |
| `ThreeWayMerge` | `mergeTrees` on trees of files and directories, pushed by users |
| `SizeSched` | the size scheduler: tasks, workers and the rows they share |
| `MCSizeSched` | constants for TLC |
| `SizeSchedProofs` | sizes add up with any workers; with one, the last head's is stored |
| `MetadataStore` | a metadata view: table, queue, undo and redo, reloads, and the server |
| `MetadataStoreProofs` | types of the store, the order in which the server executes, the screen at rest, the stacks of undo and redo and where undoing leads |
| `DirTree` | the tree of folders, as operators on its nodes |
| `LibraryPage` | the page of a library, its requests and the server; extends `DirTree` |
| `MCLibraryPage` | constants for TLC |
| `LibraryPageProofs` | address and selection belong to the folder shown, and at rest the list is that of the server; types |

### HeadUpdate

One library.  Every request is an *updater* with its own program counter; its
kind says which code it runs:

* `Uploads`: `postMultiFiles` / `postFilesAndGenCommit` with `replace = false`
  (`fileserver/fileop.go`).  Reads the gc id, writes blocks, loads the head, adds
  its file, and starts over from the new head when it loses.
* `Replaces`: `putFile`.  Loads a head (the caller may name an older one), reads
  the gc id, writes blocks, replaces the file, merges when it loses.
* `Syncs`: a desktop client (`src/Intelligent-cloud/daemon/http-tx-mgr.c`)
  against `putCommitCB`, `recvFSCB`, `putSendBlockCB`, `putUpdateBranchCB`
  (`fileserver/sync_api.go`) and `fastForwardOrMerge`.  The gc id is noted in
  `LastGCID` with the commit and taken out when the head is put.  A client that is
  cut off (`SyncCutOff`), is refused (`SyncAgain`) or is not told of its success
  (`AnswerLost`) sends the same commit again.  Whether the server checks the blocks
  before it puts the head (`VerifyClientBlocks`) is left open.
* `Deletes`, `Reverts`: `seaf_repo_manager_del_file` and
  `seaf_repo_manager_revert_file` of the C server (`server/repo-op.c`), which
  call `gen_new_commit` without a gc check.

`UpdateBranch`, `AnswerGCConflict`, `HeadHasChanged`, `DBError`, `LostCommit` and
`LateError` are the outcomes of `updateBranch`, one database transaction: the
`GCID` row is read `FOR UPDATE` and compared, the `Branch` row is read `FOR UPDATE`
and compared, then written.  The collector is `gc_v1_repo` with `online`: it
lists the store, traverses the head it loaded, opens a transaction and writes a
new gc id (from here on the row is locked), traverses the head again if it
moved, deletes block by block and commits.

`putFile` looks for the file that it replaces before it reads the gc id and writes
blocks; `NothingToDo` does so after them, in the same tree, which leaves a block behind
and changes nothing else.  Its content is always new here: with the content it had,
the code makes no commit and answers with success.

Data is abstracted to what the protocol tells apart.  A tree is the set of its
entries, an entry is `<<updater, attempt>>` and stands for a file made of one
block, two updaters may share a block (deduplication).  The id of a directory
object is the hash of its content, so a root is its own id.  A handler of the C
server loads the library twice, for its tree and in `gen_new_commit`; `Build` takes the
head of the second time, so that its first pass may merge.  The history of a
commit is a set carried by the commit, which spares the properties a recursion.

### AtomicLibrary

A tree, the requests that were asked, and those that were applied.  `Apply`
removes and adds what the request says, against the tree of that moment, once.
`HeadUpdate!AtomicLibrarySpec` maps the head's tree and history to it: TLC checks it
on the runs `gc` and `merge`, and `RefinementProofs` proves it.

### ThreeWayMerge

`mergeTrees`, `mergeEntries` and `mergeDirectories` of `fileserver/merge.go` as
recursive operators on trees, where a tree is the set of its `<<name, entry>>`
pairs and an entry is a file with a content or a directory with a tree.  The
trees that are merged are not enumerated: users edit copies of the head, write,
make, move and remove files and directories, and push, so what is merged is what
users can bring about, merges of merges included.  A push is `genCommitNeedRetry`:
`FastForward` when the head is where the user started from, else `MergePush`.
A conflict name is the name with one more mark, which stands for the modifier and
the time that the code writes into it; two conflicts on one name in one second
are assumed away here (and listed as a hazard).

`HeadUpdate` cannot afford this merge at every step and takes `EntryMerge!Merge`:
remove what the other side removed, add what it added.
`MergeKeepsEveryonesWork` is that equation, with conflict names taken for the
names they were made from.

### SizeSched

Whoever moves the head starts a goroutine (`go updateSizePool.AddTask`) or pushes a
job (`schedule_repo_size_computation`); `due` counts those not yet in the
queue.  A worker takes a task, loads the library with the head it has then, reads
the row (`getOldRepoInfo`), adds what a diff of the two heads says and writes
the row in a transaction of a `SELECT` that locks nothing and an `UPDATE` or
`INSERT`.  The C server's scheduler does the same on the same rows, so a
model with two servers has two workers that know nothing of each other.  The
diff is modelled with its resolution of renames, since that is what can make a
sum of differences go wrong.  A size is the number of bytes there are (`Bytes`, the
pairs of a file and a position in it), which is what the code adds up to.  All files
are counted instead where there is no row, where the commit of the old head cannot
be loaded (any time, in the model), and in the C server where the row counts no
file.  A task that fails is dropped; one that panics takes its worker with it
(`"ended"`), until the server restarts.

### MetadataStore

The store of one view (`frontend/metadata/store/index.js`) and what it talks to.  A
table maps rows, columns and the view to their fields, and an operation sets
one field, inserts or deletes.  Rows, copies, columns and the view are told apart by
the code (`KindsAssumption`), and what is gone is no record (`GoneAssumption`);
operations are numbered from 1.  A row has one cell, its value in the predefined
column `Rated`.  Deleting that column takes the cell of every row along
(`WithoutColumn`), and the inverse inserts the column without them; `emptied` keeps the
rows that lost one, as history that no action reads.  Most operations are applied in the browser at
once (`Apply`) and then sent; those of `AfterServer` are applied by the callback
of their answer, and a change of width is never sent.  `pending` is the queue,
`chain` says what its callbacks wait for, and `inFlight` is the operation whose
request is under way.  `Sendable` says which operations throw before there is a
request, because they look for a row or column that is gone; where that exception
ends decides whether the queue goes on or is `"wedged"`: `isSendingOperation` stays
true, and nothing is sent until the page is left.

The server answers (`ServerExecutes`), fails, or executes and its answer is lost
(`RequestFails`).  A change of sorting hides the table and loads it anew with its
answer, a duplication does so 600 ms later (`TimerReloads`); `ServerReads` and
`ReloadMetadata` are two steps, so that operations fall between them.  Filters
and hidden columns take the path of sorting and grouping and are left out.  So are
the values in columns of the users' own, which rows hold under the column's name and
keep under the old one when it is renamed; options of a column, whose renaming
rewrites cells; operations on several rows at once; and rows that are directories,
which `modifyRecords` and `deleteRecords` handle apart.  A change of column data names
one setting (`data`), and the others stay as `apply` merges them.  A reload hands
over the view object that later operations change in place: the model copies it, and a
reload during which the view changes counts as `raced`.

`trouble` collects what the store does not recover from.  The properties except
it by name, and what they say is what the code achieves otherwise.

| Trouble | What happened | Where |
|---|---|---|
| `hurried` | an operation that is applied after the server joined a busy queue, and one of the two is an undo or redo; the answer is handled with the handler that the chain began with, and the operation goes on the wrong stack.  Or an undo or redo overtook an insertion, which reaches the stack with its answer only | `frontend/metadata/store/index.js:159` |
| `thrown` | a queued operation looked for something deleted meanwhile | `frontend/metadata/store/server-operator.js:468`, `:176` |
| `failed` | the server refused, failed or was not heard of: the browser keeps what it applied | `frontend/metadata/store/index.js:162` |
| `ignored` | values were sent for a column that the server does not have (any more): it leaves them out and reports success.  It has not been met alone: some other trouble always came before it | `src/Intelligent-cloud-web-end/seahub/repo_metadata/utils.py:311` |
| `raced` | a reload was read before the server had executed what the browser showed, or began with an older view, or brought a column that an answer will insert again | `frontend/metadata/hooks/metadata-view.js:117` |

### DirTree and LibraryPage

`LibraryPage` is the component `LibContentView` as a state machine: `page` holds the
parts of its state that show files, and the addresses it pushed (`hist`).
`requests` are those sent and not served, `answers` those served and not handled;
both are taken in any order, since nothing in the page numbers or cancels them.
A request for the tree carries the clone of the tree that the code takes when it
sends it and puts in place when it is answered.  An event handler or a callback is
one step and reads the state before it.  `page.picked` is a ghost: the folder in
which the selection was made.

`DirTree` is `frontend/components/tree-view/`.  A node keeps its own path, and the
methods that rename and move nodes have to keep it right; nodes are found by that
path (`getNodeByPath`), also where it is wrong.  `moveNode` leaves the paths below
the node as they are: `setParent` only marks the node as not loaded.

The server gives another name where one is taken (`Namings`), which the page does
not learn of.  Other clients add and delete.  A `repo-update` notice makes the
page ask for the folder again; while the connection is down notices are lost.

Names are atoms.  `isAncestorPath` looks for one path anywhere in the other, which
the model keeps for whole names (`ancestor`); that a name may also be the beginning of
another name is abstracted away.

| Trouble | What happened | Where (`lib-content-view.js` unless said) |
|---|---|---|
| `dead` | a click on a folder that the tree does not have (yet): an exception before the folder is opened | `onItemClick` |
| `back` | the user went back: the selection stays | `onpopstate` |
| `grid` | the same in the grid mode: the list is not loaded | `onpopstate` |
| `failed` | a request failed or its answer was lost | |
| `others` | another client changed the library, and a notice was sent | |
| `missed` | ... and no notice was, or it was lost with the connection | `frontend/utils/websocket-service.js:43` |
| `spare` | the server gave another name than was asked for | |
| `overtaken` | two answers that change the list were handled in another order than served | `loadDirentList`, `:748` |
| `stray` | the list of a folder that was left came back and shows it again | `loadDirentList`, `:748` |
| `lost` | the tree changed after the clone was taken that replaces it | `:2217` |
| `moved` | a folder was moved with something below it, which keeps its old path in the tree; or something was that the tree did not have, and does not have afterwards; or several items were moved to a folder that the tree has not loaded, which throws after the list has changed (`Tree` has no `delete`) and leaves them in the tree | `frontend/components/tree-view/tree.js:79`, `tree-node.js:30`, `tree-helper.js:110` |
| `phantom` | the user clicked the node of the folder shown, which was not there any more: the page says that it is, and lists nothing | `onTreeNodeClick` |
| `rows` | names deleted or moved were taken for rows of a folder shown since | `deleteDirents`, `:2063`, `moveDirents`, `:2085` |
| `ancestor` | a path was taken for an ancestor for a name further down | `deleteDirent`, `renameDirent` |
| `folder` | a notice was answered for a folder that was left | `onMessageCallback` |
| `gone` | the folder to be listed after a notice was not there any more: the page keeps what it shows | `onMessageCallback` |

`deleteDirents` and `moveDirents` have the comment "only one scene: The deleted items
are inside current path".  It says what the callers' buttons ensure when the request
is sent, and is not true of every answer: that is `rows`.

## The runs

The runs of `HeadUpdate` instantiate `MCHeadUpdate` with a few updaters (model
values) and blocks; the bounds are constants named in `HeadUpdate` and set in the
`.cfg`.

| Run | Updaters | What it shows |
|---|---|---|
| `gc` | upload, sync that is cut off and starts over, deletion, one collection of everything but the head | `HeadBlocksPresent`, `GCDeletesOnlyGarbage`, `SyncNeverWinsByRetrying`, `AckedInHistory`, refinement of `AtomicLibrary` |
| `merge` | upload, overwrite, deletion, restoration, no collector | `AckedInHistory`, `AppliedAtMostOnce`, `LostRacesHaveWinners`, `HeadOnlyAdvances`, refinement of `AtomicLibrary` |
| `live` | upload, sync, collector, one failure of any kind, fair scheduling | `EveryRequestAnswered`, `HeadOnlyAdvances` |
| `rmfs` | overwrite, sync whose answer may be lost after the head has moved, two collections with `--rm-fs` | `HeadTreePresent`, `HeadBlocksPresent`, `AckedInHistory` |

The other modules have these runs.

| Run | Instance | What it shows |
|---|---|---|
| `three_way` | two users, two edits each, 2 names, 2 contents, directories two deep, 12 first trees | `MergeKeepsEveryonesWork`, `HeadKeepsItsPaths`, `MergeKeepsDirectories`, `MergeIsFair` |
| `size_one` | one worker, 3 heads of 2 files, one failure or restart, fair scheduling | `SizeIsOfStoredHead`, `QuietMeansUpToDate`, `SizeOnlyAdvances`, `SizeCatchesUp` |
| `size_two` | two servers with a worker each, 4 heads of one file, one failure or restart | `SizeIsOfStoredHead`: differences are added to the row they were taken from, even when both workers read one row and write one after the other |
| `metadata` | one file, one copy of it, one column, two values, four operations, undos and redos, one failure, fair callbacks | `InOrder`, `QuietMeansInSync`, `UndoLeadsBack`, `StacksHoldEachOnce`, `SavingEnds`, `LoadingEnds` |
| `page` | two folder names and a file name; a folder in a folder; one to three clicks or changes by others; eight openings: list, list and tree, list with notices and a failure, grid at the root with all of it, tree with a failure, two with a tree three deep in which folders are moved, and moved and renamed, and one in which items are moved to a folder that the tree has not loaded | `QuietShowsServer`, `QuietTreeShowsServer`, `SelectionIsOfFolder`, `AddressIsPath`, `ListLoadingEnds` |

Bounds.  Three or four updaters are enough for every pair of kinds to race and for
one to lose twice (to two others), which is when a merge of a merge is made.  One
collection is enough for each of its steps to fall between any two steps of a
handler; two are run where a gc id of an earlier run could be taken for a later
one.  `MaxAttempts` exceeds the number of times a request can lose in these
instances, `MaxRetry` (10 in the code) and `MaxSyncRetry` (3) are smaller than in
the code but larger than the losses possible, except for syncs, whose retries
always run out (`SyncNeverWinsByRetrying` says so).

Two edits a user are enough to turn a file into a directory with something in it
while the other user does anything else, and for a second merge whose base holds
conflict names.  Depth two has a directory that is merged in a directory that is
merged.  `size_two` needs the fourth head: a first row, then two workers that
both read it and find different heads.

Four operations on a table are a deletion between two operations that it affects,
and an undo; undo and redo of one operation with two others queued around them. The
limit of the undo stack is that of the code, 10, and is not reached: what `Kept`
does at the limit is in the model and in the proofs.  The openings of `page` share
two bounds, clicks and failures, each as large as its dimensions allow: three clicks
are two operations and a way to leave the folder between them, and every answer of
each meets every answer of the others.  The last three openings have
only the clicks they name (`acts`): a folder that is moved with something below it
takes three, and a move to where the tree has not been takes two.  Larger openings, of up to four clicks and four million
states, were checked the same way, one by one: four clicks that go somewhere, select
and move; three that go and rename, add, delete, copy or move.  They are not among
the runs for their time, and are where `phantom` was met.

Deadlock is checked in every run but `page`, whose user may stop at any time;
`AllAnswered` stutters once all requests have been answered and the collector is
idle; `Done`, `Idle` and `Finished` do so in the other modules.

Fairness (`FairSpec`): a handler that was started runs on (a goroutine or a thread
of the server) and so does a collection that was started.  Nothing makes a
collection start, a client begin, or anything fail.  Weak fairness of the whole
handler is enough: a handler that waits for the row is enabled again once the
collector, itself fair, has released it.  In `SizeSched` a goroutine that was
started puts its task into the queue (`Schedule`) and a worker takes what is there
and goes on (`Work`); heads, failures and restarts are not fair, and `SizeCatchesUp`
promises nothing once a task was lost: nobody looks for sizes that are missing. In
`MetadataStore` requests are executed and answered or fail, a timer that was set
runs out, and a reload is read and shown; the user and failures are not fair.
`SavingEnds` and `LoadingEnds` promise nothing after an operation failed or threw:
then the queue may stand still, and the table may stay hidden.  In `LibraryPage`
only listings of the folder shown are served and answered for sure (`ListServed`,
`ListAnswered`), and a failure is an answer too, since the browser reports a request
that gets none.

### Where the code falls short

Three runs expect a violation; each states what a comment or a test of the
repository says and shows the steps that break it.

* `revert`: restoring a file from history moves the head without a gc check.  A
  collector that has already traversed the head deletes the restored blocks.
* `gcabort`: a collection that dies after its first deletion, or whose last steps fail
  (the directory objects, the commit of the transaction), rolls the new gc id back.  An upload that found the deleted block stored is accepted.
* `delete_rmfs`: a deletion saves a new root, the collector lists the store, the
  deletion moves the head without a gc check after the second traversal, and
  `--rm-fs` deletes the root.

Four more causes have no run.  `updateBranch` drops the error of `trans.Commit()`
and the upload is answered with success (the C server returns an error): with
`"lostcommit"` among the `Faults`, `AckedInHistory` does not hold. An error after
the commit of the `Branch` row is taken for a lost race, and the upload is made a
second time: with `"lateerror"` among them, `AppliedAtMostOnce` does not hold. The
workers of two servers may find different heads, and the one with the older head may
write last, since `setRepoSizeAndFileCount` reads `head_id` and never compares it:
`SizeOnlyAdvances` and `QuietMeansUpToDate` hold with one worker only. A client that
was not told of its success sends its commit again, and the server merges it a second
time against the client's old base: with `"lostanswer"` among the `Faults` the
refinement of `AtomicLibrary` does not hold, since a file of the commit that was deleted
in between comes back. The troubles of the two pages, in the tables above, are of the
same kind, and so is the undo of a column's deletion, which does not bring the rows'
values back.

The passing runs and the theorems say what holds without these causes.

## The proofs

The eight theorem modules are checked by TLAPS for arbitrary sets of updaters, files,
servers, rows, columns and names, any block assignment, any faults and any bounds,
except where an assumption is named.  Functions that begin at 0 are kept apart from
statements about the length of sequences: the SMT translation of the prover takes
every function for a sequence where `Len` occurs, and a step that saw both could
be proved for that reason alone.

`HeadUpdate_proofs`.  The invariant is `LogInv`: the stores are typed, each commit
is in its own history and histories stay in the log, the collector's head is a
saved commit while it works, and each handler is where its kind can be, with a
commit that descends from its base (`MineOK`) and, before the transaction, a
candidate that descends from its own commit and from the head the handler knows
(`CandOK`).  `TypeOK` alone is not inductive: that `mine[u]` names a saved commit
depends on where `u` is.  `HandlerStep` reduces a handler's step to the handler
itself; `QuietSteps` and `SavingSteps` go through the actions.

`HistoryProofs`.  `HeadAdvances` follows from `CandOK` and the comparison of the
head in the transaction.  `AckedStays` assumes that no failed COMMIT goes unnoticed
(`"lostcommit" \notin Faults`).  `AppliedOnce`
assumes that no error follows the commit of the `Branch` row and that no answer is lost
(`{"lateerror", "lostanswer"} \cap Faults = {}`), and needs `OnceInv`: history is closed under
ancestors, bases are in the history of the head, and what a handler is about to
install adds to that history only its own commit and a merge.

`RefinementProofs`.  `ImplementsAtomicLibrary` assumes the same: after such an error or
a lost answer a request is made, and applied, twice.  The step that matters is the
move of the Branch row, which has to apply one request as a whole to the tree
of that moment, although the tree was merged before, against a head that was read
before.  `RequestInv` says that a handler's commit asks for the difference to the
head its work began from, and that its candidate is the merge of exactly that
difference with the head it expects; `OnceInv` says that the candidate adds no other
request to the history.  The comparison in the transaction makes the head expected
the head there is.  Every other step leaves the head and the requests in its
history alone: it asks for something, or is a stutter.

`RacesProofs`.  `SyncsDoNotWinByRetrying` needs that a head that was lost stays lost:
commits are numbered in the order of the log and a commit comes after what it
descends from (`LogOrdered`), so a sync that retries has a head behind the current
one for good (`LostOK`).  A statement of the database that fails counts as a lost race
too, with the head unchanged, and the retry wins: hence `"dberror" \notin Faults`.
`EveryLostRaceHasAWinner` counts.  `NewsOK` says that between the head a handler
expects and the current one, if they differ, there is a request that is new to the
handler; its author is a winner that was not counted yet, since each request is
applied once (`OnceInv`), so the number of winners known grows with each loss
(`CountOK`).  A late error or a lost answer makes a handler lose to itself, and both are
excluded as well.

`CollectorProofs`.  `HeadKeepsItsBlocks` and `OnlyGarbageIsDeleted` assume that there
are no restorations and no aborted collections.  `GCInv` says: a request adds only
its own entries to the tree it goes on from; a handler marked the gc id before it
wrote its block, and as long as that id is current and the collector is not
deleting, the block is there; what the collector found alive covers the head it
traversed and, once it deletes, the head of the library.  The last part needs the
others: while the row is locked only deletions can move the head, and they
bring in nothing.  `HeadKeepsItsTree` is about directory objects and `--rm-fs`, and
assumes in addition that there are no deletions: the run `delete_rmfs` shows one that
breaks it.  `TreeInv` is the same argument for roots, which unlike blocks are
written anew by each merge: what a handler has sent, and its candidate, are in the
store as long as the gc id it marked is current and the collector is not deleting.

`SizeSchedProofs`.  `TypeCorrect` and `SizesAddUp` hold for any workers.  `LastHeadIsStored` and
`SizesAdvance` assume one worker (`OneWorker`), without which they are false: then what
the worker found is never older than the row (`WorkerOK`), and as long as
nothing failed a head whose size is not stored has a task that is due, queued or in
work, on the head found last (`NotForgotten`).  `SizesAddUp` rests on `ChangesAddUp`,
about the diff alone: the files that its resolution of renames takes out of the
two lists are matched one to one by equal contents, so they weigh the same, and what
is left on both sides is the difference.  That is a statement about cardinalities
of sets of bytes, proved without induction.  The invariant (`SizeInv`) adds that the
size a worker works with is that of the head it read with it, whatever the row has
become since.

`MetadataStoreProofs`.  `TypeCorrect` is more than types: the queue's part of it,
`QueueOK`, says that a request is under way exactly while an answer is waited for
and that nothing is left in an idle queue.  Both are needed for the types to be
inductive: an answer looks at `inFlight`, and an operation that finds the queue idle
puts itself in the place of whatever was pending.  `ServerFollowsOrder` proves
`InOrder` from `OrderInv`: the numbers of the operations that were executed
increase, those in flight and pending increase after them (`FlightOrdered`), and
none exceeds `made`.  `InOrder` alone says nothing of what is still to be executed.
It holds whatever fails, throws, is undone or raced.

`ScreenShowsServer` proves `QuietMeansInSync`, for which the order is not enough.  At rest
the browser and the server have the same table; on the way there each is ahead of the
other, since the browser applies most operations before the server executes
them and some only after.  `SyncInv` therefore names the tables that the server will
go through: `Follows` says that there is a sequence of tables, one for each operation
not executed yet (`Chain`), and that if the server refuses none of them on that way
(`Accepts`), the last one agrees with the screen (`Agrees`): rows are equal; a copy may
be missing on the screen while its duplication is unanswered or a reload is due; a
column, while its insertion is; and the sorting is that of the last change under way.  The
second part of the invariant is that every operation executed or under way is
accounted for, unless the server did not execute what is under way (`Missed`), which
its answer turns into trouble; the third, that a reload that has seen every
operation brings the table the server has (`ReloadsKnow`).  A step of the server takes the
first table off the chain (`ChainFirst`), a new operation adds one at its end
(`ChainLast`); `Agrees` is kept by each kind of operation and each kind of answer.

`StacksAreApart` proves `StacksHoldEachOnce`, which is not inductive: an operation may
be taken off a stack and come back with an answer.  `StackInv` says that what an
answer will push is on no stack yet, that one insertion at most is undecided, and
that nothing queued behind an undo or redo waits for its answer to be applied
(`AnswersOK`); `hurried` is what breaks the last two, and the theorem excepts it.
Identifiers on the stacks are those of operations made, so a new one is new to them.

`UndoingLeadsBack` proves `UndoLeadsBack`, for stacks of any length.  Each item has a *trail*
(`Trail`): what it was before each operation of the stack and after it, such that the
operation leads from one place to the next and its inverse back (`Linked`); the undo
stack's begins at the first table, and the redo stack has one of its own, walked the
other way.  A column that is deleted takes a cell of every row with it, and its inverse
brings back an empty column, so neither the table nor an inverse is always *at* a place of
the trail: each is *near* it (`Near`), the same or, for a row in `emptied`, the same
without its cell.  An operation keeps what is near near (`ForthNear`).
`TrailInv` says that both trails end near what the item is now, or, while the insertion of
an undo or redo is unanswered, near what it will be (`Between`).  It needs that nobody else
inserts the same column meanwhile (`ComingOK`), that a cell has no value while its column
is away (`CellsGone`), or deleting the column again would lose one that no trail knows to
be lost, and that a reload changes nothing the stacks know (`ReloadTrails`); the last two
rest on `StackInv` and `SyncInv`.  Undoing a stack is a recursive function (`Unwinding`).
That it walks a trail back to its start is an induction over the stack's length, for
columns first, which are never merely near (`UnwoundColumn`): they tell whether a column is
there when its insertion is undone, which the rows' walk has to know (`UnwoundTrail`).
Induction itself is derived (`Induct`) from the library's theorem that the order of the
natural numbers is well-founded, for sets instead of predicates.

`LibraryPageProofs`.  `AddressFollows` and `SelectionFollows` hold for every library,
every opening and any number of clicks, requests and failures.  Each change of the
page, whatever calls it is made of, is one of three: it keeps the place
(`Keeps`), it goes to a folder with an entry of the history and nothing selected
(`Goes`), or the folder shown has a new path, which takes the place of the last
entry (`Moves`).  The lemmas compose them along the calls of each handler, without
looking at the tree.  `PlaceInv` adds what they need: outside a handler the address
is pushed by the next `showDir`, the history is not empty, and what is on its
way is a request of a known kind.  The two exceptions are `stray`, which shows a
folder without its address, and for the selection `back`.

`ListShowsServer` proves `QuietShowsServer`.  The page hears what the server did only after
it is done, in an answer that it may handle much later, so list and server differ
until everything is answered; the invariant has to say what the answers that
wait will make of the list.  A *view* is the part of the page that an answer about
the list looks at: path, list, whether the folder exists, and whether the page has asked
for the list again.  `After` is what one answer makes of a view, as the handlers do
(`AnsweredLooks`); `Settled` says that the view after all answers that wait, in the order
they were served, is what the server stores now, or that one of them makes the page
ask.  `ListInv` is that, unless a list or a notice is still on its way.  The step that
matters is `ServerWritesLooks`: an operation changes what is stored, and appends the answer
that makes the same change of any view that was right, for each kind of operation
(`WriteShows`): a view of the folder, of one above it, of one in it, of the one things go
to.  A handled answer takes its change out of the sequence (`RemoveOn`), which is right
only for the first of those about the list (`overtaken`); an answer that looked at
another folder than the one shown does not fit (`Fits`: `rows`, `ancestor`, `folder`,
`gone`).  The operations of the server keep what is stored a tree (`OutcomeIsTree`), which
starts as one (`OpeningsAssumption`).  `back` and `stray` turn out not to matter to the list,
nor do `others`, whose notices are heard while the connection is up.  What the property
does not say: that a folder which the page calls missing is missing.  It is not so:
after a click on a node of the tree that is not stored any more, an operation
answered later may bring a folder to that path.

`TypesHold` adds to the types that only rows of the list are marked.  Both theorems
assume `[]TreeOK`: that the nodes of the tree have paths, since a click goes where the node
says.  `TreeOK` is a part of `TypeOK` and as such checked in the run `page`.  It is left
there because the tree is changed by folds and walked by a recursive function over
nodes: that needs induction over data.

Left to TLC: liveness; `TreeOK`, and `QuietTreeShowsServer`, which says what the tree is at
rest, for the same reason; and all of `ThreeWayMerge`, whose operators are recursive.

## Not modelled, and the plan

Not modelled: HTTP parsing, encryption, quota, file locks, downloads, chunking, the
stores' own files, WebDAV, Android, FUSE and the controller.  Of the web site, its
Django application and the other pages of the front end; of the library page,
uploads, copies and moves between libraries and their progress, restoration of
deleted items, files that are viewed, the metadata, tag and trash modes, search,
locks and permissions (a listing refused with 403), and operations started in the
tree on a folder other than the one shown, except for deletions, renames and moves;
of the metadata store, filters, hidden columns, settings, tags, people, moves to
other folders, paging, reloads that fail, and the change of view. `HeadUpdate` has
one library; a virtual library shares the store and the gc id of its origin and is
planned as a module of its own.  Commit ids are positions in the log: that two
commits made in one second can have one id is listed as a hazard and needs a model
of its own.

Planned, in this order:

1. `VirtualRepo`: the merge of a shared folder in both directions by two servers,
   renames and removal of the folder, its clean-up; composed with
   `AtomicLibrary`.  Questions: is what an origin's user adds between the push and
   `setBase` kept by the next merge; is a share kept whose folder was renamed
   before the merge task ran; do the two directions come to rest.
2. `WebPost`: names in one directory under concurrent uploads with retries
   (`addNewEntries`, `genUniqueName`, the JSON answer).
3. `NotificationServer`: subscriptions, expiry, concurrent notification and close.
4. `FileUploader`: the resumable uploads of the library page, their retries, pauses
   and replacements, and what they add to the list.
5. `SyncClient`: the desktop client's states, against `AtomicLibrary`.
6. Commits with an id of their own: what two commits of one second and one content
   do to the history.
7. Proofs: the safety of the planned modules.
